---------------------------- MODULE BufferProofs ----------------------------
(***************************************************************************)
(* Proofs about node:buffer.                                               *)
(*                                                                         *)
(* Buffer as memory, for any number of values of a byte, any sizes and     *)
(* offsets and any windows: nothing is read or written outside of a        *)
(* window, copy and fill do what they are asked, the accessors read what   *)
(* was written, and indexOf finds the first place.                         *)
(*                                                                         *)
(* BufferStrings, for strings and Buffers of any length: what each         *)
(* encoding keeps, base64 against bits, and whole characters in UTF-8.     *)
(***************************************************************************)
EXTENDS Buffer, BufferStrings, FilteringProofs

(* An ArrayBuffer, of any size, and the windows on it.                      *)
Memories == UNION {[0..(n - 1) -> Byte] : n \in Nat}
Windows == [mem : Nat, offset : Nat, length : Nat]

Inside(b, st) ==
    b.mem \in 1..Len(st) /\ b.offset + b.length <= Length(st[b.mem])

BufferInv ==
    /\ store \in Seq(Memories) /\ bufs \in Seq(Windows)
    /\ \A i \in 1..Len(bufs) : Inside(bufs[i], store)
    /\ \A m \in 1..Len(store) : Length(store[m]) <= KMaxLength
    /\ calls \in 0..MaxCalls

-----------------------------------------------------------------------------
(* Bytes and memories.                                                      *)

LEMMA ByteFacts ==
    /\ Base \in Nat \ {0} /\ Byte \subseteq Nat
    /\ \A x \in Int : x % Base \in Byte
    /\ \A x \in Byte : x % Base = x
<1>1. Base \in Nat \ {0}
  BY BufferAssumption
<1>2. \A x \in Byte : x \in Nat /\ x < Base
  BY <1>1 DEF Byte
<1>3. \A x \in Int : x % Base \in 0..(Base - 1)
  BY <1>1
<1>4. ASSUME NEW x \in Byte PROVE x % Base = x
  BY <1>1, <1>2
<1> QED
  BY <1>1, <1>2, <1>3, <1>4 DEF Byte

LEMMA MemoryFacts ==
    ASSUME NEW a \in Memories
    PROVE  /\ Length(a) \in Nat /\ DOMAIN a = 0..(Length(a) - 1)
           /\ a \in [0..(Length(a) - 1) -> Byte]
<1>1. PICK n \in Nat : a \in [0..(n - 1) -> Byte]
  BY DEF Memories
<1>2. PICK d : d = 0..(n - 1)
  OBVIOUS
<1>3. Cardinality(d) = n
  <2>1. 0 \in Int /\ n - 1 \in Int /\ (0 > n - 1 => n = 0) /\ (n - 1) - 0 + 1 = n
    BY <1>1
  <2>2. Cardinality(0..(n - 1)) = IF 0 > n - 1 THEN 0 ELSE (n - 1) - 0 + 1
    BY <2>1, FS_Interval, Zenon
  <2> QED
    BY <1>2, <2>1, <2>2
<1>4. DOMAIN a = d
  BY <1>1, <1>2
<1>5. Length(a) = n
  BY <1>3, <1>4 DEF Length
<1> QED
  BY <1>1, <1>5

LEMMA MemoryOf ==
    ASSUME NEW n \in Nat, NEW a, a \in [0..(n - 1) -> Byte]
    PROVE  a \in Memories /\ Length(a) = n
<1>1. a \in Memories
  BY DEF Memories
<1>2. Length(a) \in Nat /\ DOMAIN a = 0..(Length(a) - 1) /\ DOMAIN a = 0..(n - 1)
  BY <1>1, MemoryFacts
<1>3. Length(a) = n
  <2>1. PICK m \in Nat : m = Length(a) /\ 0..(m - 1) = 0..(n - 1)
    BY <1>2
  <2>2. ASSUME m < n PROVE FALSE
    <3>1. m \in 0..(n - 1) /\ m \notin 0..(m - 1)
      BY <2>1, <2>2
    <3> QED
      BY <2>1, <3>1
  <2>3. ASSUME n < m PROVE FALSE
    <3>1. n \in 0..(m - 1) /\ n \notin 0..(n - 1)
      BY <2>1, <2>3
    <3> QED
      BY <2>1, <3>1
  <2> QED
    BY <2>1, <2>2, <2>3
<1> QED
  BY <1>1, <1>3

(* The bytes seen through a window that is inside.                          *)
LEMMA Viewed ==
    ASSUME NEW st \in Seq(Memories), NEW b \in Windows, Inside(b, st)
    PROVE  /\ View(st, b) \in [0..(b.length - 1) -> Byte]
           /\ \A i \in 0..(b.length - 1) :
                 View(st, b)[i] = st[b.mem][b.offset + i] /\ b.offset + i \in DOMAIN st[b.mem]
<1>1. /\ b.mem \in 1..Len(st) /\ b.offset \in Nat /\ b.length \in Nat
      /\ b.offset + b.length <= Length(st[b.mem])
  BY DEF Inside, Windows
<1>2. PICK a \in Memories : a = st[b.mem]
  BY <1>1
<1>3. PICK n \in Nat : n = Length(a) /\ DOMAIN a = 0..(n - 1) /\ a \in [0..(n - 1) -> Byte]
  BY MemoryFacts
<1>4. \A i \in 0..(b.length - 1) : b.offset + i \in 0..(n - 1)
  BY <1>1, <1>2, <1>3
<1>5. \A i \in 0..(b.length - 1) : a[b.offset + i] \in Byte
  BY <1>3, <1>4
<1> QED
  BY <1>2, <1>3, <1>4, <1>5 DEF View

-----------------------------------------------------------------------------
(* Writes: memory keeps its shape, and only what the window shows changes.  *)

SameShape(new, old) ==
    /\ new \in Seq(Memories) /\ Len(new) = Len(old)
    /\ \A m \in 1..Len(old) : Length(new[m]) = Length(old[m])

LEMMA ShapeKept ==
    ASSUME NEW old \in Seq(Memories), NEW new, SameShape(new, old)
    PROVE  /\ \A b : Inside(b, old) => Inside(b, new)
           /\ \A m \in 1..Len(old) : DOMAIN new[m] = DOMAIN old[m]
           /\ \A newer : SameShape(newer, new) => SameShape(newer, old)
<1>1. \A b : Inside(b, old) => Inside(b, new)
  BY DEF SameShape, Inside
<1>2. ASSUME NEW m \in 1..Len(old) PROVE DOMAIN new[m] = DOMAIN old[m]
  <2>1. new[m] \in Memories /\ old[m] \in Memories /\ Length(new[m]) = Length(old[m])
    BY DEF SameShape
  <2> QED
    BY <2>1, MemoryFacts
<1>3. \A newer : SameShape(newer, new) => SameShape(newer, old)
  BY DEF SameShape
<1> QED
  BY <1>1, <1>2, <1>3

LEMMA ShapeRefl ==
    ASSUME NEW st \in Seq(Memories)
    PROVE  SameShape(st, st)
BY DEF SameShape

Written(f, b) == DOMAIN f \cap 0..(b.length - 1)

LEMMA Poked ==
    ASSUME NEW st \in Seq(Memories), NEW b \in Windows, Inside(b, st), NEW f,
           \A i \in Written(f, b) : f[i] \in Int
    PROVE  /\ SameShape(Poke(st, b, f), st)
           /\ \A m \in 1..Len(st) : m # b.mem => Poke(st, b, f)[m] = st[m]
           /\ \A i \in DOMAIN st[b.mem] :
                 Poke(st, b, f)[b.mem][i] = IF i - b.offset \in Written(f, b)
                                            THEN f[i - b.offset] % Base ELSE st[b.mem][i]
<1>1. b.mem \in 1..Len(st) /\ b.offset \in Nat /\ b.length \in Nat
  BY DEF Inside, Windows
<1>2. PICK a \in Memories : a = st[b.mem]
  BY <1>1
<1>3. PICK n \in Nat : n = Length(a) /\ DOMAIN a = 0..(n - 1) /\ a \in [0..(n - 1) -> Byte]
  BY MemoryFacts
<1>4. PICK new : new = [i \in 0..(n - 1) |-> IF i - b.offset \in Written(f, b)
                                             THEN f[i - b.offset] % Base ELSE a[i]]
  OBVIOUS
<1>5. Poke(st, b, f) = [st EXCEPT ![b.mem] = new]
  BY <1>1, <1>2, <1>3, <1>4 DEF Poke, Written
<1>6. new \in [0..(n - 1) -> Byte]
  <2>1. ASSUME NEW i \in 0..(n - 1)
        PROVE  (IF i - b.offset \in Written(f, b) THEN f[i - b.offset] % Base ELSE a[i]) \in Byte
    BY <1>3, <2>1, ByteFacts
  <2> QED
    BY <1>4, <2>1
<1>7. new \in Memories /\ Length(new) = n
  BY <1>6, MemoryOf
<1>8. PICK all : all = [st EXCEPT ![b.mem] = new]
  OBVIOUS
<1>9. /\ all \in Seq(Memories) /\ Len(all) = Len(st) /\ all[b.mem] = new
      /\ \A m \in 1..Len(st) : m # b.mem => all[m] = st[m]
  BY <1>1, <1>7, <1>8
<1>10. SameShape(all, st)
  BY <1>2, <1>3, <1>7, <1>9 DEF SameShape
<1>11. \A i \in 0..(n - 1) : all[b.mem][i] = IF i - b.offset \in Written(f, b)
                                             THEN f[i - b.offset] % Base ELSE a[i]
  BY <1>4, <1>9
<1> QED
  BY <1>2, <1>3, <1>5, <1>8, <1>9, <1>10, <1>11

-----------------------------------------------------------------------------
(* Induction up to a bound, for a set: its least number that is missing     *)
(* would follow one that is not.                                            *)
LEMMA UpTo ==
    ASSUME NEW N \in Nat, NEW T, 0 \in T, \A n \in 0..(N - 1) : n \in T => n + 1 \in T
    PROVE  \A n \in 0..N : n \in T
<1> SUFFICES ASSUME NEW bad \in 0..N, bad \notin T PROVE FALSE
  OBVIOUS
<1>1. PICK left : left = {i \in 1..N : i \notin T}
  OBVIOUS
<1>2. left \in SUBSET (1..N) /\ left # {}
  <2>1. bad # 0
    OBVIOUS
  <2>2. bad \in 1..N
    BY <2>1
  <2> QED
    BY <1>1, <2>2
<1>3. PICK rank : rank = [i \in left |-> Cardinality({j \in left : j <= i})]
  OBVIOUS
<1>4. /\ IsFiniteSet(left) /\ Cardinality(left) \in Nat
      /\ rank \in [left -> 1..Cardinality(left)]
      /\ \A i, k \in left : i < k => rank[i] < rank[k]
      /\ rank \in Surjection(left, 1..Cardinality(left))
  BY <1>2, <1>3, Ranks
<1>5. Cardinality(left) # 0
  BY <1>2, <1>4, FS_EmptySet
<1>6. 1 \in 1..Cardinality(left)
  BY <1>4, <1>5
<1>7. PICK i \in left : rank[i] = 1
  BY <1>4, <1>6 DEF Surjection
<1>8. \A k \in left : ~(k < i)
  <2>1. \A k \in left : rank[k] \in 1..Cardinality(left)
    BY <1>4
  <2>2. \A k \in left : ~(rank[k] < 1)
    BY <1>4, <2>1
  <2> QED
    BY <1>4, <1>7, <2>2
<1>9. i \in 1..N /\ i \notin T
  BY <1>1
<1>10. i - 1 \in 0..(N - 1) /\ (i - 1) + 1 = i /\ i - 1 < i
  BY <1>9
<1>11. i - 1 \in T
  <2>1. CASE i - 1 = 0
    BY <2>1
  <2>2. CASE i - 1 # 0
    <3>1. i - 1 \in 1..N
      BY <1>9, <2>2
    <3> QED
      BY <1>1, <1>8, <1>10, <3>1
  <2> QED
    BY <2>1, <2>2
<1> QED
  BY <1>9, <1>10, <1>11

-----------------------------------------------------------------------------
(* Division, and the powers of Base.                                        *)

LEMMA DivMod ==
    ASSUME NEW v \in Int, NEW m \in Nat \ {0}
    PROVE  v \div m \in Int /\ v % m \in 0..(m - 1) /\ v = m * (v \div m) + (v % m)
<1>1. v \div m \in Int
  OBVIOUS
<1>2. v % m \in 0..(m - 1)
  OBVIOUS
<1>3. v % m = v - m * (v \div m)
  OBVIOUS
<1>4. PICK q \in Int, r \in Int : q = v \div m /\ r = v % m
  BY <1>1, <1>2
<1>5. m * q \in Int
  OBVIOUS
<1>6. r = v - m * q
  BY <1>3, <1>4
<1>7. v = m * q + r
  BY ONLY <1>5, <1>6, v \in Int, r \in Int
<1> QED
  BY <1>1, <1>2, <1>4, <1>7

LEMMA Multiple ==
    ASSUME NEW m \in Nat \ {0}, NEW t \in Int
    PROVE  m * t \in Int /\ (t >= 1 => m * t >= m) /\ (t <= -1 => m * t <= -m) /\ m * 0 = 0
OBVIOUS

LEMMA DivUnique ==
    ASSUME NEW m \in Nat \ {0}, NEW q \in Int, NEW r \in 0..(m - 1), NEW v, v = m * q + r
    PROVE  v % m = r /\ v \div m = q
<1>1. v \in Int
  OBVIOUS
<1>2. PICK p \in Int, s \in 0..(m - 1) : p = v \div m /\ s = v % m /\ v = m * p + s
  BY <1>1, DivMod
<1>3. m * (p - q) = m * p - m * q
  OBVIOUS
<1>4. PICK t \in Int : t = p - q
  OBVIOUS
<1>5. m * t = r - s
  <2>1. m * p + s = m * q + r /\ m * t = m * p - m * q
    BY <1>2, <1>3, <1>4
  <2> QED
    BY <2>1
<1>6. ~(t >= 1) /\ ~(t <= -1)
  BY <1>2, <1>5, Multiple
<1>7. t = 0
  BY <1>4, <1>6
<1> QED
  BY <1>2, <1>4, <1>5, <1>7, Multiple

(* One more digit. *)
LEMMA DigitSplit ==
    ASSUME NEW v \in Int, NEW p \in Nat \ {0}, NEW b \in Nat \ {0}
    PROVE  /\ p * b \in Nat \ {0}
           /\ v % (p * b) = (v % p) + ((v \div p) % b) * p
           /\ v \div (p * b) = (v \div p) \div b
<1>1. PICK q \in Int, r \in 0..(p - 1) : q = v \div p /\ r = v % p /\ v = p * q + r
  BY DivMod
<1>2. PICK e \in Int, d \in 0..(b - 1) : e = q \div b /\ d = q % b /\ q = b * e + d
  BY DivMod
<1>3. PICK m \in Nat \ {0} : m = p * b
  OBVIOUS
<1>4. p * q = m * e + p * d
  <2>1. p * (b * e + d) = p * (b * e) + p * d /\ p * (b * e) = (p * b) * e
    OBVIOUS
  <2> QED
    BY <1>2, <1>3, <2>1
<1>5. p * d + r \in 0..(m - 1)
  <2>1. p * d <= p * (b - 1) /\ p * d >= 0 /\ p * d \in Int
    OBVIOUS
  <2>2. p * (b - 1) = m - p
    BY <1>3
  <2> QED
    BY <1>3, <2>1, <2>2
<1>6. PICK rest \in 0..(m - 1) : rest = p * d + r
  BY <1>5
<1>7. v = m * e + rest
  BY <1>1, <1>4, <1>6
<1>8. v % m = rest /\ v \div m = e
  BY <1>7, DivUnique
<1>9. rest = r + d * p
  BY <1>6
<1> QED
  BY <1>1, <1>2, <1>3, <1>8, <1>9

LEMMA PowerFacts ==
    /\ Base \in Nat \ {0} /\ Base \div 2 \in Nat \ {0} /\ Base = 2 * (Base \div 2)
    /\ Base^0 = 1 /\ Base^1 = Base
    /\ \A n \in 0..8 : Base^n \in Nat \ {0}
    /\ \A n \in 0..7 : Base^(n + 1) = Base^n * Base
<1>1. Base \in Nat \ {0} /\ Base % 2 = 0 /\ Base^0 = 1
  BY BufferAssumption
<1>2. Base \div 2 \in Nat \ {0} /\ Base = 2 * (Base \div 2)
  BY <1>1
<1>3. PICK T : T = {n \in 0..8 : Base^n \in Nat \ {0}}
  OBVIOUS
<1>4. 0 \in T
  BY <1>1, <1>3
<1>5. ASSUME NEW n \in 0..(8 - 1), n \in T PROVE n + 1 \in T
  <2>1. PICK p \in Nat \ {0} : p = Base^n
    BY <1>3, <1>5
  <2>2. Base * p \in Nat \ {0}
    BY <1>1
  <2>3. Base^(n + 1) = Base * p /\ n + 1 \in 0..8
    BY <2>1, BufferAssumption
  <2> QED
    BY <1>3, <2>2, <2>3
<1>6. \A n \in 0..8 : Base^n \in Nat \ {0}
  <2>1. \A n \in 0..8 : n \in T
    BY <1>4, <1>5, UpTo
  <2> QED
    BY <1>3, <2>1
<1>7. ASSUME NEW n \in 0..7 PROVE Base^(n + 1) = Base^n * Base
  <2>1. PICK p \in Nat \ {0} : p = Base^n
    BY <1>6
  <2>2. Base^(n + 1) = Base * p
    BY <2>1, BufferAssumption
  <2>3. Base * p = p * Base
    BY <1>1
  <2> QED
    BY <2>1, <2>2, <2>3
<1>8. Base^1 = Base
  <2>1. 0 \in 0..7 /\ 0 + 1 = 1
    OBVIOUS
  <2>2. Base^(0 + 1) = Base^0 * Base
    BY <1>7
  <2>3. Base^0 * Base = Base
    BY <1>1
  <2> QED
    BY <2>1, <2>2, <2>3
<1> QED
  BY <1>1, <1>2, <1>6, <1>7, <1>8

-----------------------------------------------------------------------------
(* What the write methods assign are integers.                              *)

LEMMA Powers ==
    /\ \A n \in 0..8 : Base^n \in Nat \ {0}
    /\ \A v \in Int, n \in 0..8 : Shift(v, n) \in Int /\ Trunc(v, Base^n) \in Int
<1>1. \A n \in 0..8 : Base^n \in Nat \ {0}
  BY PowerFacts
<1>2. \A v \in Int, p \in Nat \ {0} : v \div p \in Int /\ (-v) \div p \in Int
  OBVIOUS
<1>3. ASSUME NEW v \in Int, NEW n \in 0..8 PROVE Shift(v, n) \in Int /\ Trunc(v, Base^n) \in Int
  <2>1. PICK p \in Nat \ {0} : p = Base^n
    BY <1>1
  <2>2. v \div p \in Int /\ (-v) \div p \in Int
    BY <1>2
  <2> QED
    BY <2>1, <2>2 DEF Shift, Trunc
<1> QED
  BY <1>1, <1>3

LEMMA AtInts ==
    ASSUME NEW o \in Int, NEW bytes \in Seq(Int)
    PROVE  \A i \in DOMAIN At(o, bytes) : At(o, bytes)[i] \in Int
<1>1. PICK n \in Nat : n = Len(bytes) /\ \A j \in 1..n : bytes[j] \in Int
  OBVIOUS
<1>2. \A i \in o..(o + n - 1) : i - o + 1 \in 1..n
  BY <1>1
<1> QED
  BY <1>1, <1>2 DEF At

(* The recursion of writeIntLE has a solution, the bytes it computes.       *)
Digit(v, g, i) ==
    (Trunc(v, Base^i) - (IF v < 0 /\ \E j \in 0..(i - 1) : g[j] # 0 THEN 1 ELSE 0)) % Base
Digits(v, g, n) == g = [i \in 0..(n - 1) |-> Digit(v, g, i)]

LEMMA DigitsExist ==
    ASSUME NEW v \in Int, NEW n \in 0..8
    PROVE  \E g : Digits(v, g, n)
<1>1. PICK T : T = {m \in 0..8 : \E g : Digits(v, g, m)}
  OBVIOUS
<1>2. 0 \in T
  <2>1. PICK g : g = [i \in 0..(0 - 1) |-> 0]
    OBVIOUS
  <2>2. Digits(v, g, 0)
    BY <2>1 DEF Digits
  <2> QED
    BY <1>1, <2>2
<1>3. ASSUME NEW m \in 0..(8 - 1), m \in T PROVE m + 1 \in T
  <2>1. PICK g : Digits(v, g, m)
    BY <1>1, <1>3
  <2>2. PICK h : h = [i \in 0..m |-> IF i < m THEN g[i] ELSE Digit(v, g, m)]
    OBVIOUS
  <2>3. \A i \in 0..(m - 1) : h[i] = g[i]
    BY <2>2
  <2>4. ASSUME NEW i \in 0..m PROVE Digit(v, h, i) = Digit(v, g, i)
    <3>1. \A j \in 0..(i - 1) : h[j] = g[j]
      BY <2>3
    <3> QED
      BY <3>1 DEF Digit
  <2>5. ASSUME NEW i \in 0..m PROVE h[i] = Digit(v, h, i)
    <3>1. CASE i < m
      <4>1. i \in 0..(m - 1)
        BY <3>1
      <4>2. g[i] = Digit(v, g, i)
        BY <2>1, <4>1 DEF Digits
      <4> QED
        BY <2>3, <2>4, <4>1, <4>2
    <3>2. CASE i = m
      BY <2>2, <2>4, <3>2
    <3> QED
      BY <3>1, <3>2
  <2>6. m = (m + 1) - 1 /\ m + 1 \in 0..8
    OBVIOUS
  <2>7. h = [i \in 0..((m + 1) - 1) |-> Digit(v, h, i)]
    <3>1. DOMAIN h = 0..m /\ h = [i \in 0..m |-> h[i]]
      BY <2>2
    <3> QED
      BY <2>5, <2>6, <3>1
  <2> QED
    BY <1>1, <2>6, <2>7 DEF Digits
<1>4. \A m \in 0..8 : m \in T
  BY <1>2, <1>3, UpTo
<1> QED
  BY <1>1, <1>4

LEMMA IntBytesInts ==
    ASSUME NEW v \in Int, NEW n \in 1..6
    PROVE  \A i \in 0..(n - 1) : IntBytes(v, n)[i] \in Int
<1>1. IntBytes(v, n) = CHOOSE g : Digits(v, g, n)
  BY DEF IntBytes, Digits, Digit
<1>2. Digits(v, IntBytes(v, n), n)
  <2>1. n \in 0..8
    OBVIOUS
  <2> QED
    BY <1>1, <2>1, DigitsExist
<1>3. PICK g : g = IntBytes(v, n)
  OBVIOUS
<1>4. ASSUME NEW i \in 0..(n - 1) PROVE g[i] \in Int
  <2>1. g[i] = Digit(v, g, i)
    BY <1>2, <1>3 DEF Digits
  <2>2. PICK t \in Int : t = Trunc(v, Base^i)
    <3>1. i \in 0..8
      OBVIOUS
    <3> QED
      BY <3>1, Powers
  <2>3. PICK sub \in 0..1 : sub = IF v < 0 /\ \E j \in 0..(i - 1) : g[j] # 0 THEN 1 ELSE 0
    OBVIOUS
  <2>4. Digit(v, g, i) = (t - sub) % Base
    BY <2>2, <2>3 DEF Digit
  <2>5. (t - sub) % Base \in Byte
    BY <2>2, <2>3, ByteFacts
  <2> QED
    BY <2>1, <2>4, <2>5, ByteFacts
<1> QED
  BY <1>3, <1>4

(* A number of 32 bits and its signed form are the same bytes.              *)
LEMMA Int32Facts ==
    ASSUME NEW v \in Int
    PROVE  /\ Int32(v) \in Int
           /\ Int32(v) = v % Base^4 \/ Int32(v) = (v % Base^4) - Base^4
<1>1. PICK p \in Nat \ {0} : p = Base^4
  BY PowerFacts
<1>2. PICK u \in Int : u = v % p
  BY <1>1
<1> QED
  BY <1>1, <1>2 DEF Int32, Uint32

LEMMA WriteInts ==
    ASSUME NEW k \in Accessors, NEW v \in Int, NEW o \in Int
    PROVE  \A i \in DOMAIN Write(k, v, o) : Write(k, v, o)[i] \in Int
<1>1. /\ k.name \in {"8", "16LE", "16BE", "32LE", "32BE", "64LE", "64BE", "LE", "BE"}
      /\ k.signed \in BOOLEAN /\ (k.name \in {"LE", "BE"} => k.width \in 1..6)
  BY DEF Accessors, Accessor
<1>2. /\ Shift(v, 1) \in Int /\ Shift(v, 2) \in Int /\ Shift(v, 3) \in Int /\ Shift(v, 4) \in Int
      /\ Base \in Int /\ Base^4 \in Nat \ {0}
  BY Powers, ByteFacts
<1>3. CASE k.name = "8"
  <2>1. PICK bytes : bytes = <<IF k.signed /\ v < 0 THEN Base - 1 + v + 1 ELSE v>>
    OBVIOUS
  <2>2. bytes \in Seq(Int)
    BY <1>2, <2>1
  <2>3. Write(k, v, o) = At(o, bytes)
    BY <1>3, <2>1 DEF Write, WriteInt8, WriteUInt8
  <2> QED
    BY <2>2, <2>3, AtInts
<1>4. CASE k.name \in {"16LE", "16BE"}
  <2>1. <<v, Shift(v, 1)>> \in Seq(Int) /\ <<Shift(v, 1), v>> \in Seq(Int)
    BY <1>2
  <2> QED
    BY <1>4, <2>1, AtInts DEF Write, Write16LE, Write16BE
<1>5. CASE k.name = "32LE"
  <2>1. <<v, Shift(v, 1), Shift(v, 2), Shift(v, 3)>> \in Seq(Int)
    BY <1>2
  <2> QED
    BY <1>5, <2>1, AtInts DEF Write, Write32LE
<1>6. CASE k.name = "32BE"
  <2>1. PICK w \in Int : w = IF k.signed /\ v < 0 THEN (Base^4 - 1) + v + 1 ELSE v
    BY <1>2
  <2>2. Shift(w, 1) \in Int /\ Shift(w, 2) \in Int /\ Shift(w, 3) \in Int
    <3>1. 1 \in 0..8 /\ 2 \in 0..8 /\ 3 \in 0..8
      OBVIOUS
    <3>2. w \in Int
      BY <2>1
    <3> QED
      BY <3>1, <3>2, Powers
  <2>3. <<Shift(w, 3), Shift(w, 2), Shift(w, 1), w>> \in Seq(Int)
    BY <2>2
  <2>4. Write(k, v, o) = WriteUInt32BE(w, o)
    BY <1>6, <2>1 DEF Write, WriteInt32BE
  <2> QED
    BY <2>3, <2>4, AtInts DEF WriteUInt32BE
<1>7. CASE k.name \in {"64LE", "64BE"}
  <2>0. ASSUME NEW x \in Int PROVE x % Base^4 \in Int
    <3>1. PICK p \in Nat \ {0} : p = Base^4
      BY <1>2
    <3>2. x % p \in Int
      BY <3>1
    <3> QED
      BY <3>1, <3>2
  <2>1. PICK lo \in Int : lo = v % Base^4
    BY <2>0
  <2>2. PICK hi \in Int : hi = Shift(v, 4) % Base^4
    BY <1>2, <2>0
  <2>3. /\ SignedShift(lo, 1) \in Int /\ SignedShift(lo, 2) \in Int /\ SignedShift(lo, 3) \in Int
        /\ SignedShift(hi, 1) \in Int /\ SignedShift(hi, 2) \in Int /\ SignedShift(hi, 3) \in Int
    <3>1. Int32(lo) \in Int /\ Int32(hi) \in Int
      BY <2>1, <2>2, Int32Facts
    <3>2. 1 \in 0..8 /\ 2 \in 0..8 /\ 3 \in 0..8
      OBVIOUS
    <3> QED
      BY <3>1, <3>2, Powers DEF SignedShift
  <2>4. PICK le : le = <<lo, SignedShift(lo, 1), SignedShift(lo, 2), SignedShift(lo, 3),
                         hi, SignedShift(hi, 1), SignedShift(hi, 2), SignedShift(hi, 3)>>
    OBVIOUS
  <2>5. PICK be : be = <<SignedShift(hi, 3), SignedShift(hi, 2), SignedShift(hi, 1), hi,
                         SignedShift(lo, 3), SignedShift(lo, 2), SignedShift(lo, 1), lo>>
    OBVIOUS
  <2>6. le \in Seq(Int) /\ be \in Seq(Int)
    BY <2>3, <2>4, <2>5
  <2>7. Write(k, v, o) = At(o, le) \/ Write(k, v, o) = At(o, be)
    BY <1>7, <2>1, <2>2, <2>4, <2>5 DEF Write, WrtBigUInt64LE, WrtBigUInt64BE
  <2> QED
    BY <2>6, <2>7, AtInts
<1>8. CASE k.name \in {"LE", "BE"}
  <2>1. PICK n \in 1..6 : n = k.width
    BY <1>1, <1>8
  <2>2. PICK ds : ds = o..(o + n - 1)
    OBVIOUS
  <2>3. \A i \in ds : i - o \in 0..(n - 1) /\ o + n - 1 - i \in 0..(n - 1)
    BY <2>2
  <2>4. \A i \in 0..(n - 1) : i \in 0..8
    OBVIOUS
  <2>5. \A i \in 0..(n - 1) : Trunc(v, Base^i) \in Int /\ IntBytes(v, n)[i] \in Int
    BY <2>4, Powers, IntBytesInts
  <2>6. \/ Write(k, v, o) = [i \in ds |-> IntBytes(v, n)[i - o]]
        \/ Write(k, v, o) = [i \in ds |-> IntBytes(v, n)[o + n - 1 - i]]
        \/ Write(k, v, o) = [i \in ds |-> Trunc(v, Base^(i - o))]
        \/ Write(k, v, o) = [i \in ds |-> Trunc(v, Base^(o + n - 1 - i))]
    BY <1>8, <2>1, <2>2
       DEF Write, WriteIntLE, WriteIntBE, WriteUIntLE, WriteUIntBE
  <2> QED
    BY <2>3, <2>5, <2>6
<1> QED
  BY <1>1, <1>3, <1>4, <1>5, <1>6, <1>7, <1>8

-----------------------------------------------------------------------------
(* Bytes as the digits of a number: what the write methods leave, and what  *)
(* the read methods make of it.                                             *)

(* The number whose digits, the lowest first, are d[0] to d[n - 1].         *)
Value(d, n) ==
    LET sum[i \in 0..8] == IF i = 0 THEN 0 ELSE sum[i - 1] + d[i - 1] * Base^(i - 1)
    IN  sum[n]

Turn(d, g, i) == IF i = 0 THEN 0 ELSE g[i - 1] + d[i - 1] * Base^(i - 1)

LEMMA SumExists ==
    ASSUME NEW d
    PROVE  \E g : g = [i \in 0..8 |-> Turn(d, g, i)]
<1>1. PICK T : T = {m \in 0..8 : \E g : g = [i \in 0..m |-> Turn(d, g, i)]}
  OBVIOUS
<1>2. 0 \in T
  <2>1. PICK g : g = [i \in 0..0 |-> 0]
    OBVIOUS
  <2>2. \A i \in 0..0 : Turn(d, g, i) = 0
    BY DEF Turn
  <2>3. g = [i \in 0..0 |-> Turn(d, g, i)]
    BY <2>1, <2>2
  <2> QED
    BY <1>1, <2>3
<1>3. ASSUME NEW m \in 0..(8 - 1), m \in T PROVE m + 1 \in T
  <2>1. PICK g : g = [i \in 0..m |-> Turn(d, g, i)]
    BY <1>1, <1>3
  <2>2. PICK h : h = [i \in 0..(m + 1) |-> IF i <= m THEN g[i] ELSE Turn(d, g, m + 1)]
    OBVIOUS
  <2>3. \A i \in 0..m : h[i] = g[i]
    BY <2>2
  <2>4. ASSUME NEW i \in 0..(m + 1) PROVE Turn(d, h, i) = Turn(d, g, i)
    <3>1. i = 0 \/ i - 1 \in 0..m
      OBVIOUS
    <3> QED
      BY <2>3, <3>1 DEF Turn
  <2>5. ASSUME NEW i \in 0..(m + 1) PROVE h[i] = Turn(d, h, i)
    <3>1. CASE i <= m
      <4>1. i \in 0..m
        BY <3>1
      <4>2. g[i] = Turn(d, g, i)
        BY <2>1, <4>1
      <4> QED
        BY <2>3, <2>4, <4>1, <4>2
    <3>2. CASE i = m + 1
      BY <2>2, <2>4, <3>2
    <3> QED
      BY <3>1, <3>2
  <2>6. h = [i \in 0..(m + 1) |-> Turn(d, h, i)]
    <3>1. h = [i \in 0..(m + 1) |-> h[i]]
      BY <2>2
    <3> QED
      BY <2>5, <3>1
  <2>7. m + 1 \in 0..8
    OBVIOUS
  <2> QED
    BY <1>1, <2>6, <2>7
<1>4. \A m \in 0..8 : m \in T
  BY <1>2, <1>3, UpTo
<1> QED
  BY <1>1, <1>4

LEMMA ValueDef ==
    ASSUME NEW d
    PROVE  /\ Value(d, 0) = 0
           /\ \A n \in 0..7 : Value(d, n + 1) = Value(d, n) + d[n] * Base^n
<1>1. PICK g : g = CHOOSE h : h = [i \in 0..8 |-> Turn(d, h, i)]
  OBVIOUS
<1>2. g = [i \in 0..8 |-> Turn(d, g, i)]
  BY <1>1, SumExists
<1>3. \A n : Value(d, n) = g[n]
  BY <1>1 DEF Value, Turn
<1>4. \A i \in 0..8 : g[i] = Turn(d, g, i)
  BY <1>2
<1>5. g[0] = 0
  BY <1>4 DEF Turn
<1>6. ASSUME NEW n \in 0..7 PROVE g[n + 1] = g[n] + d[n] * Base^n
  <2>1. n + 1 \in 0..8 /\ n + 1 # 0 /\ (n + 1) - 1 = n
    OBVIOUS
  <2> QED
    BY <1>4, <2>1 DEF Turn
<1> QED
  BY <1>3, <1>5, <1>6

LEMMA ValueSame ==
    ASSUME NEW d, NEW e, NEW n \in 0..8, \A i \in 0..(n - 1) : d[i] = e[i]
    PROVE  Value(d, n) = Value(e, n)
<1>1. PICK T : T = {m \in 0..n : Value(d, m) = Value(e, m)}
  OBVIOUS
<1>2. 0 \in T
  BY <1>1, ValueDef
<1>3. ASSUME NEW m \in 0..(n - 1), m \in T PROVE m + 1 \in T
  <2>1. m \in 0..7 /\ m + 1 \in 0..n
    OBVIOUS
  <2>2. Value(d, m) = Value(e, m) /\ d[m] = e[m]
    BY <1>1, <1>3
  <2>3. Value(d, m + 1) = Value(e, m + 1)
    BY <2>1, <2>2, ValueDef
  <2> QED
    BY <1>1, <2>1, <2>3
<1>4. \A m \in 0..n : m \in T
  BY <1>2, <1>3, UpTo
<1> QED
  BY <1>1, <1>4

LEMMA ValueOfDigits ==
    ASSUME NEW v \in Int, NEW d, NEW n \in 0..8,
           \A i \in 0..(n - 1) : d[i] = (v \div Base^i) % Base
    PROVE  Value(d, n) = v % Base^n
<1>1. PICK T : T = {m \in 0..n : Value(d, m) = v % Base^m}
  OBVIOUS
<1>2. 0 \in T
  <2>1. v % 1 = 0
    OBVIOUS
  <2> QED
    BY <1>1, <2>1, ValueDef, PowerFacts
<1>3. ASSUME NEW m \in 0..(n - 1), m \in T PROVE m + 1 \in T
  <2>1. m \in 0..7 /\ m + 1 \in 0..n /\ m \in 0..8
    OBVIOUS
  <2>2. Value(d, m) = v % Base^m /\ d[m] = (v \div Base^m) % Base
    BY <1>1, <1>3
  <2>3. PICK p \in Nat \ {0} : p = Base^m /\ Base^(m + 1) = p * Base
    BY <2>1, PowerFacts
  <2>4. v % (p * Base) = (v % p) + ((v \div p) % Base) * p
    <3>1. Base \in Nat \ {0} /\ p \in Nat \ {0}
      BY PowerFacts
    <3> QED
      BY <3>1, DigitSplit, Zenon
  <2>5. Value(d, m + 1) = Value(d, m) + d[m] * Base^m
    BY <2>1, ValueDef
  <2>6. Value(d, m + 1) = v % (p * Base)
    BY <2>2, <2>3, <2>4, <2>5, Zenon
  <2> QED
    BY <1>1, <2>1, <2>3, <2>6
<1>4. \A m \in 0..n : m \in T
  BY <1>2, <1>3, UpTo
<1> QED
  BY <1>1, <1>4

LEMMA ValueRange ==
    ASSUME NEW d, NEW n \in 0..8, \A i \in 0..(n - 1) : d[i] \in Byte
    PROVE  Value(d, n) \in 0..(Base^n - 1)
<1>1. PICK T : T = {m \in 0..n : Value(d, m) \in 0..(Base^m - 1)}
  OBVIOUS
<1>2. 0 \in T
  BY <1>1, ValueDef, PowerFacts
<1>3. ASSUME NEW m \in 0..(n - 1), m \in T PROVE m + 1 \in T
  <2>1. m \in 0..7 /\ m + 1 \in 0..n /\ m \in 0..8
    OBVIOUS
  <2>2. PICK p \in Nat \ {0} : p = Base^m /\ Base^(m + 1) = p * Base
    BY <2>1, PowerFacts
  <2>3. PICK x \in 0..(p - 1) : x = Value(d, m)
    BY <1>1, <1>3, <2>2
  <2>4. PICK y \in Nat : y = d[m] /\ y <= Base - 1
    BY PowerFacts DEF Byte
  <2>5. Value(d, m + 1) = x + y * p
    BY <2>1, <2>2, <2>3, <2>4, ValueDef
  <2>6. x + y * p \in 0..(p * Base - 1)
    <3>1. y * p <= (Base - 1) * p /\ y * p \in Nat
      BY <2>4, PowerFacts
    <3>2. (Base - 1) * p = p * Base - p /\ p * Base \in Nat
      BY PowerFacts
    <3> QED
      BY <3>1, <3>2, PowerFacts
  <2> QED
    BY <1>1, <2>1, <2>2, <2>5, <2>6
<1>4. \A m \in 0..n : m \in T
  BY <1>2, <1>3, UpTo
<1> QED
  BY <1>1, <1>4

(* The bytes at q in the order of an accessor: the lowest digit first.      *)
Low(big, f, q, w) == [i \in 0..(w - 1) |-> f[IF big THEN q + w - 1 - i ELSE q + i] % Base]

LEMMA ModShift ==
    ASSUME NEW v \in Int, NEW m \in Nat \ {0}, NEW t \in Int
    PROVE  (v + m * t) % m = v % m
<1>1. PICK q \in Int, r \in 0..(m - 1) : r = v % m /\ v = m * q + r
  BY DivMod
<1>2. PICK x \in Int : x = q + t
  OBVIOUS
<1>3. m * x = m * q + m * t /\ m * q \in Int /\ m * t \in Int
  BY <1>2
<1>4. PICK y : y = v + m * t
  OBVIOUS
<1>5. y = m * x + r
  <2>1. y = (m * q + r) + m * t /\ m * x = m * q + m * t
    BY <1>1, <1>3, <1>4
  <2> QED
    BY <1>3, <2>1
<1>6. y % m = r
  BY <1>5, DivUnique
<1> QED
  BY <1>1, <1>4, <1>6

LEMMA NegDiv ==
    ASSUME NEW v \in Int, NEW m \in Nat \ {0}
    PROVE  -((-v) \div m) - (IF v % m = 0 THEN 0 ELSE 1) = v \div m
<1>1. PICK q \in Int, r \in 0..(m - 1) : q = v \div m /\ r = v % m /\ v = m * q + r
  BY DivMod
<1>2. PICK u \in Int : u = -v
  OBVIOUS
<1>3. CASE r = 0
  <2>1. PICK x \in Int : x = -q
    OBVIOUS
  <2>2. m * x = -(m * q) /\ m * q \in Int
    BY <2>1
  <2>3. u = m * x + 0 /\ 0 \in 0..(m - 1)
    BY <1>1, <1>2, <1>3, <2>2
  <2>4. u \div m = x
    BY <2>3, DivUnique
  <2> QED
    BY <1>1, <1>2, <1>3, <2>1, <2>4
<1>4. CASE r # 0
  <2>1. PICK x \in Int : x = -q - 1
    OBVIOUS
  <2>2. m * x = -(m * q) - m /\ m * q \in Int
    BY <2>1
  <2>3. PICK s \in 0..(m - 1) : s = m - r
    BY <1>4
  <2>4. u = m * x + s
    BY <1>1, <1>2, <2>2, <2>3
  <2>5. u \div m = x
    BY <2>4, DivUnique
  <2> QED
    BY <1>1, <1>2, <1>4, <2>1, <2>5
<1> QED
  BY <1>3, <1>4

LEMMA ValueZero ==
    ASSUME NEW d, NEW n \in 0..8, \A i \in 0..(n - 1) : d[i] \in Byte
    PROVE  Value(d, n) = 0 <=> \A i \in 0..(n - 1) : d[i] = 0
<1>1. PICK T : T = {m \in 0..n : Value(d, m) = 0 <=> \A i \in 0..(m - 1) : d[i] = 0}
  OBVIOUS
<1>2. 0 \in T
  BY <1>1, ValueDef
<1>3. ASSUME NEW m \in 0..(n - 1), m \in T PROVE m + 1 \in T
  <2>1. m \in 0..7 /\ m + 1 \in 0..n /\ m \in 0..8 /\ (m + 1) - 1 = m
    OBVIOUS
  <2>2. PICK p \in Nat \ {0} : p = Base^m
    BY <2>1, PowerFacts
  <2>3. PICK x \in Nat : x = Value(d, m)
    <3>1. Value(d, m) \in 0..(Base^m - 1)
      BY <2>1, ValueRange
    <3> QED
      BY <2>2, <3>1
  <2>4. PICK y \in Nat : y = d[m]
    BY ByteFacts
  <2>5. Value(d, m + 1) = x + y * p
    BY <2>1, <2>2, <2>3, <2>4, ValueDef
  <2>6. x + y * p = 0 <=> x = 0 /\ y = 0
    <3>1. y * p \in Nat /\ (y * p = 0 <=> y = 0)
      OBVIOUS
    <3> QED
      BY <3>1
  <2>7. (\A i \in 0..m : d[i] = 0) <=> (\A i \in 0..(m - 1) : d[i] = 0) /\ d[m] = 0
    <3>1. \A i \in 0..m : i = m \/ i \in 0..(m - 1)
      OBVIOUS
    <3>2. m \in 0..m /\ \A i \in 0..(m - 1) : i \in 0..m
      OBVIOUS
    <3> QED
      BY <3>1, <3>2
  <2>8. Value(d, m + 1) = 0 <=> \A i \in 0..m : d[i] = 0
    BY <1>1, <1>3, <2>3, <2>4, <2>5, <2>6, <2>7
  <2> QED
    BY <1>1, <2>1, <2>8
<1>4. \A m \in 0..n : m \in T
  BY <1>2, <1>3, UpTo
<1> QED
  BY <1>1, <1>4

LEMMA IntBytesDigits ==
    ASSUME NEW v \in Int, NEW n \in 1..6
    PROVE  \A i \in 0..(n - 1) : IntBytes(v, n)[i] = (v \div Base^i) % Base
<1>1. PICK g : g = IntBytes(v, n) /\ Digits(v, g, n)
  <2>1. IntBytes(v, n) = CHOOSE g : Digits(v, g, n)
    BY DEF IntBytes, Digits, Digit
  <2>2. n \in 0..8
    OBVIOUS
  <2> QED
    BY <2>1, <2>2, DigitsExist
<1>2. \A i \in 0..(n - 1) : g[i] = Digit(v, g, i)
  BY <1>1 DEF Digits
<1>3. PICK T : T = {m \in 0..n : \A i \in 0..(m - 1) : g[i] = (v \div Base^i) % Base}
  OBVIOUS
<1>4. 0 \in T
  BY <1>3
<1>5. ASSUME NEW m \in 0..(n - 1), m \in T PROVE m + 1 \in T
  <2>1. m \in 0..8 /\ m + 1 \in 0..n /\ (m + 1) - 1 = m
    OBVIOUS
  <2>2. \A i \in 0..(m - 1) : g[i] = (v \div Base^i) % Base
    BY <1>3, <1>5
  <2>3. PICK p \in Nat \ {0} : p = Base^m
    BY <2>1, PowerFacts
  <2>4. (v % p = 0) <=> \A j \in 0..(m - 1) : g[j] = 0
    <3>1. Value(g, m) = v % p
      BY <2>1, <2>2, <2>3, ValueOfDigits
    <3>2. ASSUME NEW i \in 0..(m - 1) PROVE g[i] \in Byte
      <4>1. i \in 0..8
        OBVIOUS
      <4>2. v \div Base^i \in Int
        BY <4>1, Powers DEF Shift
      <4> QED
        BY <2>2, <4>2, ByteFacts
    <3>3. Value(g, m) = 0 <=> \A j \in 0..(m - 1) : g[j] = 0
      BY <2>1, <3>2, ValueZero
    <3> QED
      BY <3>1, <3>3
  <2>5. Trunc(v, p) - (IF v < 0 /\ \E j \in 0..(m - 1) : g[j] # 0 THEN 1 ELSE 0) = v \div p
    <3>1. CASE v >= 0
      BY <3>1, DivMod DEF Trunc
    <3>2. CASE v < 0
      <4>1. Trunc(v, p) = -((-v) \div p)
        BY <3>2 DEF Trunc
      <4>2. (IF v < 0 /\ \E j \in 0..(m - 1) : g[j] # 0 THEN 1 ELSE 0) =
               IF v % p = 0 THEN 0 ELSE 1
        BY <2>4, <3>2
      <4> QED
        BY <4>1, <4>2, NegDiv, Zenon
    <3> QED
      BY <3>1, <3>2
  <2>6. g[m] = (v \div Base^m) % Base
    BY <1>2, <2>3, <2>5 DEF Digit
  <2>7. \A i \in 0..m : i = m \/ i \in 0..(m - 1)
    OBVIOUS
  <2> QED
    BY <1>3, <2>1, <2>2, <2>6, <2>7
<1>6. \A m \in 0..n : m \in T
  BY <1>4, <1>5, UpTo
<1>7. n \in 0..n
  OBVIOUS
<1> QED
  BY <1>1, <1>3, <1>6, <1>7

LEMMA FixedDigits ==
    ASSUME NEW u \in Int, NEW w \in 1..8, NEW s \in Seq(Int), Len(s) = w,
           NEW q \in Int, NEW big \in BOOLEAN,
           \A i \in 0..(w - 1) : s[IF big THEN w - i ELSE i + 1] % Base = Shift(u, i) % Base
    PROVE  Value(Low(big, At(q, s), q, w), w) = u % Base^w
<1>1. PICK d : d = Low(big, At(q, s), q, w)
  OBVIOUS
<1>2. ASSUME NEW i \in 0..(w - 1) PROVE d[i] = (u \div Base^i) % Base
  <2>1. PICK j : j = IF big THEN q + w - 1 - i ELSE q + i
    OBVIOUS
  <2>2. j \in q..(q + Len(s) - 1) /\ j - q + 1 = IF big THEN w - i ELSE i + 1
    BY <2>1
  <2>3. At(q, s)[j] = s[IF big THEN w - i ELSE i + 1]
    BY <2>2 DEF At
  <2>4. d[i] = At(q, s)[j] % Base
    BY <1>1, <2>1 DEF Low
  <2> QED
    BY <2>3, <2>4 DEF Shift
<1>3. w \in 0..8
  OBVIOUS
<1> QED
  BY <1>1, <1>2, <1>3, ValueOfDigits

LEMMA Shift0 ==
    ASSUME NEW v \in Int
    PROVE  Shift(v, 0) = v
<1>1. v \div 1 = v
  OBVIOUS
<1> QED
  BY <1>1, PowerFacts DEF Shift

LEMMA SmallPowers ==
    /\ Base^2 \in Nat \ {0} /\ Base^3 \in Nat \ {0} /\ Base^4 \in Nat \ {0} /\ Base^8 \in Nat \ {0}
    /\ Base^2 = Base * Base /\ Base^3 = Base^2 * Base /\ Base^4 = Base^3 * Base
    /\ Base^5 = Base^4 * Base /\ Base^6 = Base^4 * Base^2 /\ Base^7 = Base^4 * Base^3
    /\ Base^8 = Base^4 * Base^4
<1>1. PICK b \in Nat \ {0}, b2 \in Nat \ {0}, b3 \in Nat \ {0}, b4 \in Nat \ {0},
           b5 \in Nat \ {0}, b6 \in Nat \ {0}, b7 \in Nat \ {0}, b8 \in Nat \ {0} :
        /\ b = Base /\ b2 = Base^2 /\ b3 = Base^3 /\ b4 = Base^4 /\ b5 = Base^5
        /\ b6 = Base^6 /\ b7 = Base^7 /\ b8 = Base^8
  BY PowerFacts
<1>2. \A n \in 0..7 : Base^(n + 1) = Base^n * Base
  BY PowerFacts
<1>3. /\ 1 \in 0..7 /\ 1 + 1 = 2 /\ 2 \in 0..7 /\ 2 + 1 = 3 /\ 3 \in 0..7 /\ 3 + 1 = 4
      /\ 4 \in 0..7 /\ 4 + 1 = 5 /\ 5 \in 0..7 /\ 5 + 1 = 6 /\ 6 \in 0..7 /\ 6 + 1 = 7
      /\ 7 \in 0..7 /\ 7 + 1 = 8 /\ Base^1 = Base
  BY PowerFacts
<1>4. /\ Base^2 = Base^1 * Base /\ Base^3 = Base^2 * Base /\ Base^4 = Base^3 * Base
      /\ Base^5 = Base^4 * Base /\ Base^6 = Base^5 * Base /\ Base^7 = Base^6 * Base
      /\ Base^8 = Base^7 * Base
  BY <1>2, <1>3, Zenon
<1>5. /\ b2 = b * b /\ b3 = b2 * b /\ b4 = b3 * b /\ b5 = b4 * b /\ b6 = b5 * b
      /\ b7 = b6 * b /\ b8 = b7 * b
  BY <1>1, <1>3, <1>4
<1>6. b6 = b4 * b2
  <2>1. (b4 * b) * b = b4 * (b * b)
    OBVIOUS
  <2> QED
    BY <1>5, <2>1
<1>7. b7 = b4 * b3
  <2>1. (b4 * b2) * b = b4 * (b2 * b)
    OBVIOUS
  <2> QED
    BY <1>5, <1>6, <2>1
<1>8. b8 = b4 * b4
  <2>1. (b4 * b3) * b = b4 * (b3 * b)
    OBVIOUS
  <2> QED
    BY <1>5, <1>7, <2>1
<1> QED
  BY <1>1, <1>5, <1>6, <1>7, <1>8

LEMMA Unrolled ==
    ASSUME NEW d, NEW x0 \in Int, NEW x1 \in Int, NEW x2 \in Int, NEW x3 \in Int,
           d[0] = x0, d[1] = x1, d[2] = x2, d[3] = x3
    PROVE  Value(d, 4) = x0 + x1 * Base + x2 * Base^2 + x3 * Base^3
<1>1. Value(d, 0) = 0 /\ \A n \in 0..7 : Value(d, n + 1) = Value(d, n) + d[n] * Base^n
  BY ValueDef
<1>2. /\ 0 \in 0..7 /\ 0 + 1 = 1 /\ 1 \in 0..7 /\ 1 + 1 = 2 /\ 2 \in 0..7 /\ 2 + 1 = 3
      /\ 3 \in 0..7 /\ 3 + 1 = 4 /\ Base^0 = 1 /\ Base^1 = Base
  BY PowerFacts
<1>3. /\ Value(d, 1) = Value(d, 0) + d[0] * Base^0
      /\ Value(d, 2) = Value(d, 1) + d[1] * Base^1
      /\ Value(d, 3) = Value(d, 2) + d[2] * Base^2
      /\ Value(d, 4) = Value(d, 3) + d[3] * Base^3
  BY <1>1, <1>2, Zenon
<1>4. x0 * 1 = x0 /\ 0 + x0 = x0
  OBVIOUS
<1>5. Value(d, 1) = x0
  BY <1>1, <1>2, <1>3, <1>4
<1> QED
  BY <1>2, <1>3, <1>5

(* The first two digits, and one.                                           *)
LEMMA UnrolledTwo ==
    ASSUME NEW d, NEW x0 \in Int, NEW x1 \in Int, d[0] = x0, d[1] = x1
    PROVE  Value(d, 1) = x0 /\ Value(d, 2) = x0 + x1 * Base
<1>1. Value(d, 0) = 0 /\ \A n \in 0..7 : Value(d, n + 1) = Value(d, n) + d[n] * Base^n
  BY ValueDef
<1>2. 0 \in 0..7 /\ 0 + 1 = 1 /\ 1 \in 0..7 /\ 1 + 1 = 2 /\ Base^0 = 1 /\ Base^1 = Base
  BY PowerFacts
<1>3. Value(d, 1) = Value(d, 0) + d[0] * Base^0 /\ Value(d, 2) = Value(d, 1) + d[1] * Base^1
  BY <1>1, <1>2, Zenon
<1>4. x0 * 1 = x0 /\ 0 + x0 = x0
  OBVIOUS
<1>5. Value(d, 1) = x0
  BY <1>1, <1>2, <1>3, <1>4
<1> QED
  BY <1>2, <1>3, <1>5

(* Eight digits are twice four.                                             *)
LEMMA ValueHalves ==
    ASSUME NEW d, NEW e, \A i \in 0..3 : e[i] = d[i + 4], \A i \in 0..7 : d[i] \in Int
    PROVE  /\ Value(d, 4) \in Int /\ Value(e, 4) \in Int
           /\ Value(d, 8) = Value(d, 4) + Value(e, 4) * Base^4
<1>1. \A n \in 0..7 : Value(d, n + 1) = Value(d, n) + d[n] * Base^n
  BY ValueDef
<1>2. /\ 4 \in 0..7 /\ 4 + 1 = 5 /\ 5 \in 0..7 /\ 5 + 1 = 6 /\ 6 \in 0..7 /\ 6 + 1 = 7
      /\ 7 \in 0..7 /\ 7 + 1 = 8
  OBVIOUS
<1>3. /\ Value(d, 5) = Value(d, 4) + d[4] * Base^4
      /\ Value(d, 6) = Value(d, 5) + d[5] * Base^5
      /\ Value(d, 7) = Value(d, 6) + d[6] * Base^6
      /\ Value(d, 8) = Value(d, 7) + d[7] * Base^7
  BY <1>1, <1>2, Zenon
<1>4. PICK x0 \in Int, x1 \in Int, x2 \in Int, x3 \in Int :
         d[0] = x0 /\ d[1] = x1 /\ d[2] = x2 /\ d[3] = x3
  OBVIOUS
<1>5. PICK y0 \in Int, y1 \in Int, y2 \in Int, y3 \in Int :
         d[4] = y0 /\ d[5] = y1 /\ d[6] = y2 /\ d[7] = y3
  OBVIOUS
<1>6. e[0] = y0 /\ e[1] = y1 /\ e[2] = y2 /\ e[3] = y3
  <2>1. 0 \in 0..3 /\ 0 + 4 = 4 /\ 1 \in 0..3 /\ 1 + 4 = 5 /\ 2 \in 0..3 /\ 2 + 4 = 6
        /\ 3 \in 0..3 /\ 3 + 4 = 7
    OBVIOUS
  <2> QED
    BY <1>5, <2>1
<1>7. PICK b \in Nat, b2 \in Nat, b3 \in Nat, b4 \in Nat :
         b = Base /\ b2 = Base^2 /\ b3 = Base^3 /\ b4 = Base^4
  BY SmallPowers, PowerFacts
<1>8. PICK lo \in Int : lo = Value(d, 4)
  <2>1. Value(d, 4) = x0 + x1 * Base + x2 * Base^2 + x3 * Base^3
    BY <1>4, Unrolled
  <2>2. x0 + x1 * b + x2 * b2 + x3 * b3 \in Int
    OBVIOUS
  <2> QED
    BY <1>7, <2>1, <2>2
<1>9. PICK hi \in Int : hi = Value(e, 4) /\ hi = y0 + y1 * b + y2 * b2 + y3 * b3
  <2>1. Value(e, 4) = y0 + y1 * Base + y2 * Base^2 + y3 * Base^3
    BY <1>6, Unrolled
  <2>2. y0 + y1 * b + y2 * b2 + y3 * b3 \in Int
    OBVIOUS
  <2> QED
    BY <1>7, <2>1, <2>2
<1>10. Value(d, 8) = lo + y0 * b4 + y1 * (b4 * b) + y2 * (b4 * b2) + y3 * (b4 * b3)
  BY <1>3, <1>5, <1>7, <1>8, SmallPowers
<1>11. (y0 + y1 * b + y2 * b2 + y3 * b3) * b4 =
          y0 * b4 + y1 * (b4 * b) + y2 * (b4 * b2) + y3 * (b4 * b3)
  OBVIOUS
<1>12. lo + y0 * b4 + y1 * (b4 * b) + y2 * (b4 * b2) + y3 * (b4 * b3) =
          lo + (y0 * b4 + y1 * (b4 * b) + y2 * (b4 * b2) + y3 * (b4 * b3))
  OBVIOUS
<1>13. Value(d, 8) = lo + hi * b4
  BY <1>9, <1>10, <1>11, <1>12
<1> QED
  BY <1>7, <1>8, <1>9, <1>13

LEMMA AccessorFacts ==
    ASSUME NEW k \in Accessors
    PROVE  /\ k.name \in {"8", "16LE", "16BE", "32LE", "32BE", "64LE", "64BE", "LE", "BE"}
           /\ k.signed \in BOOLEAN /\ k.width \in 1..8 /\ BigEndian(k) \in BOOLEAN
           /\ k.name = "8" => k.width = 1
           /\ k.name \in {"16LE", "16BE"} => k.width = 2
           /\ k.name \in {"32LE", "32BE"} => k.width = 4
           /\ k.name \in {"64LE", "64BE"} <=> k.width = 8
           /\ k.name \in {"LE", "BE"} => k.width \in 1..6
           /\ BigEndian(k) <=> k.name \in {"16BE", "32BE", "64BE", "BE"}
BY DEF Accessors, Accessor, BigEndian

WriteStored(k, v, q) ==
    /\ DOMAIN Write(k, v, q) = q..(q + k.width - 1)
    /\ Value(Low(BigEndian(k), Write(k, v, q), q, k.width), k.width) = v % Base^k.width

LEMMA StoredSeq ==
    ASSUME NEW k \in Accessors, NEW v \in Int, NEW q \in Int, NEW s \in Seq(Int), NEW u \in Int,
           Len(s) = k.width, Write(k, v, q) = At(q, s), u % Base^k.width = v % Base^k.width,
           \A i \in 0..(k.width - 1) :
              s[IF BigEndian(k) THEN k.width - i ELSE i + 1] % Base = Shift(u, i) % Base
    PROVE  WriteStored(k, v, q)
<1>1. PICK w \in 1..8, big \in BOOLEAN : w = k.width /\ big = BigEndian(k)
  BY AccessorFacts
<1>2. Value(Low(big, At(q, s), q, w), w) = u % Base^w
  BY <1>1, FixedDigits
<1>3. DOMAIN At(q, s) = q..(q + w - 1)
  BY <1>1 DEF At
<1> QED
  BY <1>1, <1>2, <1>3 DEF WriteStored

LEMMA Shifts ==
    ASSUME NEW u \in Int
    PROVE  Shift(u, 0) = u /\ Shift(u, 1) \in Int /\ Shift(u, 2) \in Int /\ Shift(u, 3) \in Int
<1>1. 1 \in 0..8 /\ 2 \in 0..8 /\ 3 \in 0..8
  OBVIOUS
<1>2. \A n \in 0..8 : Shift(u, n) \in Int
  BY Powers
<1> QED
  BY <1>1, <1>2, Shift0

LEMMA StoredShort ==
    ASSUME NEW k \in Accessors, NEW v \in Int, NEW q \in Int,
           k.name \in {"8", "16LE", "16BE", "32LE", "32BE"}
    PROVE  WriteStored(k, v, q)
<1>0. Base \in Nat \ {0} /\ Base^4 \in Nat \ {0} /\ Base^1 = Base
  BY PowerFacts, SmallPowers
<1>1. ASSUME NEW u \in Int
      PROVE  Shift(u, 0) = u /\ Shift(u, 1) \in Int /\ Shift(u, 2) \in Int /\ Shift(u, 3) \in Int
  BY <1>1, Shifts
<1>2. CASE k.name = "8"
  <2>1. PICK u \in Int : u = IF k.signed /\ v < 0 THEN Base - 1 + v + 1 ELSE v
    BY <1>0
  <2>2. PICK s : s = <<u>>
    OBVIOUS
  <2>3. s \in Seq(Int) /\ Len(s) = 1 /\ s[1] = u
    BY <2>2
  <2>4. Write(k, v, q) = At(q, s)
    BY <1>2, <2>1, <2>2 DEF Write, WriteInt8, WriteUInt8
  <2>5. k.width = 1 /\ ~BigEndian(k) /\ \A i \in 0..(1 - 1) : i = 0
    BY <1>2, AccessorFacts
  <2>6. u % Base^1 = v % Base^1
    <3>1. CASE k.signed /\ v < 0
      <4>1. u = v + Base * 1 /\ 1 \in Int
        BY <1>0, <2>1, <3>1
      <4> QED
        <5>1. (v + Base * 1) % Base = v % Base
          BY <1>0, <4>1, ModShift
        <5> QED
          BY <1>0, <4>1, <5>1
    <3>2. CASE ~(k.signed /\ v < 0)
      BY <2>1, <3>2
    <3> QED
      BY <3>1, <3>2
  <2>7. \A i \in 0..(k.width - 1) :
           s[IF BigEndian(k) THEN k.width - i ELSE i + 1] % Base = Shift(u, i) % Base
    BY <1>1, <2>3, <2>5
  <2> QED
    BY <2>3, <2>4, <2>5, <2>6, <2>7, StoredSeq
<1>3. CASE k.name \in {"16LE", "16BE"}
  <2>1. PICK s : s = IF BigEndian(k) THEN <<Shift(v, 1), v>> ELSE <<v, Shift(v, 1)>>
    OBVIOUS
  <2>2. /\ s \in Seq(Int) /\ Len(s) = 2
        /\ s[1] = (IF BigEndian(k) THEN Shift(v, 1) ELSE v)
        /\ s[2] = (IF BigEndian(k) THEN v ELSE Shift(v, 1))
    BY <1>1, <2>1
  <2>3. Write(k, v, q) = At(q, s)
    BY <1>3, <2>1 DEF Write, Write16LE, Write16BE, BigEndian
  <2>4. k.width = 2 /\ \A i \in 0..(2 - 1) : i = 0 \/ i = 1
    BY <1>3, AccessorFacts
  <2>5. \A i \in 0..(k.width - 1) :
           s[IF BigEndian(k) THEN k.width - i ELSE i + 1] % Base = Shift(v, i) % Base
    <3>1. s[IF BigEndian(k) THEN 2 - 0 ELSE 0 + 1] = v /\ s[IF BigEndian(k) THEN 2 - 1 ELSE 1 + 1] = Shift(v, 1)
      BY <2>2
    <3> QED
      BY <1>1, <2>4, <3>1
  <2> QED
    BY <2>2, <2>3, <2>4, <2>5, StoredSeq
<1>4. CASE k.name \in {"32LE", "32BE"}
  <2>1. PICK u \in Int : u = IF BigEndian(k) /\ k.signed /\ v < 0 THEN (Base^4 - 1) + v + 1 ELSE v
    BY <1>0
  <2>2. PICK s : s = IF BigEndian(k) THEN <<Shift(u, 3), Shift(u, 2), Shift(u, 1), u>>
                                     ELSE <<u, Shift(u, 1), Shift(u, 2), Shift(u, 3)>>
    OBVIOUS
  <2>3. /\ s \in Seq(Int) /\ Len(s) = 4
        /\ s[1] = (IF BigEndian(k) THEN Shift(u, 3) ELSE u)
        /\ s[2] = (IF BigEndian(k) THEN Shift(u, 2) ELSE Shift(u, 1))
        /\ s[3] = (IF BigEndian(k) THEN Shift(u, 1) ELSE Shift(u, 2))
        /\ s[4] = (IF BigEndian(k) THEN u ELSE Shift(u, 3))
    BY <1>1, <2>2
  <2>4. Write(k, v, q) = At(q, s)
    BY <1>4, <2>1, <2>2 DEF Write, Write32LE, WriteInt32BE, WriteUInt32BE, BigEndian
  <2>5. k.width = 4 /\ \A i \in 0..(4 - 1) : i = 0 \/ i = 1 \/ i = 2 \/ i = 3
    BY <1>4, AccessorFacts
  <2>6. u % Base^4 = v % Base^4
    <3>1. CASE BigEndian(k) /\ k.signed /\ v < 0
      <4>1. PICK m \in Nat \ {0} : m = Base^4
        BY <1>0
      <4>2. u = v + m * 1 /\ 1 \in Int
        BY <2>1, <3>1, <4>1
      <4> QED
        BY <4>1, <4>2, ModShift
    <3>2. CASE ~(BigEndian(k) /\ k.signed /\ v < 0)
      BY <2>1, <3>2
    <3> QED
      BY <3>1, <3>2
  <2>7. \A i \in 0..(k.width - 1) :
           s[IF BigEndian(k) THEN k.width - i ELSE i + 1] % Base = Shift(u, i) % Base
    <3>1. /\ s[IF BigEndian(k) THEN 4 - 0 ELSE 0 + 1] = u
          /\ s[IF BigEndian(k) THEN 4 - 1 ELSE 1 + 1] = Shift(u, 1)
          /\ s[IF BigEndian(k) THEN 4 - 2 ELSE 2 + 1] = Shift(u, 2)
          /\ s[IF BigEndian(k) THEN 4 - 3 ELSE 3 + 1] = Shift(u, 3)
      BY <2>3
    <3> QED
      BY <1>1, <2>5, <3>1
  <2> QED
    BY <2>3, <2>4, <2>5, <2>6, <2>7, StoredSeq
<1> QED
  BY <1>2, <1>3, <1>4

LEMMA StoredBig ==
    ASSUME NEW k \in Accessors, NEW v \in Int, NEW q \in Int, k.name \in {"64LE", "64BE"}
    PROVE  WriteStored(k, v, q)
<1>1. PICK p \in Nat \ {0} : p = Base^4
  BY SmallPowers
<1>2. PICK lo \in 0..(p - 1), hi \in 0..(p - 1) : lo = v % p /\ hi = (v \div p) % p
  BY DivMod
<1>3. ASSUME NEW u \in 0..(p - 1)
      PROVE  /\ Int32(u) \in Int /\ Int32(u) % p = u /\ Int32(u) % Base = u % Base /\ u \in Int
             /\ Shift(Int32(u), 0) = Int32(u) /\ SignedShift(u, 1) \in Int
             /\ SignedShift(u, 2) \in Int /\ SignedShift(u, 3) \in Int
  <2>1. u \in Int /\ u % p = u
    OBVIOUS
  <2>2. PICK x \in Int : x = Int32(u) /\ (x = u \/ x = u - p)
    BY <1>1, <2>1, Int32Facts
  <2>3. PICK b \in Nat \ {0}, c \in Nat \ {0} : b = Base /\ c = Base^3 /\ p = c * b
    BY <1>1, PowerFacts, SmallPowers
  <2>4. x % p = u
    <3>1. CASE x = u
      BY <2>1, <3>1
    <3>2. CASE x = u - p
      <4>1. x = u + p * (-1) /\ -1 \in Int
        BY <3>2
      <4> QED
        BY <2>1, <4>1, ModShift
    <3> QED
      BY <2>2, <3>1, <3>2
  <2>5. x % b = u % b
    <3>1. CASE x = u
      BY <3>1
    <3>2. CASE x = u - p
      <4>1. b * (-c) = -(c * b) /\ -c \in Int
        OBVIOUS
      <4>2. x = u + b * (-c)
        BY <2>3, <3>2, <4>1
      <4> QED
        BY <2>1, <4>1, <4>2, ModShift
    <3> QED
      BY <2>2, <3>1, <3>2
  <2>6. Shift(x, 0) = x /\ Shift(x, 1) \in Int /\ Shift(x, 2) \in Int /\ Shift(x, 3) \in Int
    BY Shifts
  <2> QED
    BY <2>1, <2>2, <2>3, <2>4, <2>5, <2>6 DEF SignedShift
<1>4. PICK s : s = IF BigEndian(k)
                   THEN <<SignedShift(hi, 3), SignedShift(hi, 2), SignedShift(hi, 1), hi,
                          SignedShift(lo, 3), SignedShift(lo, 2), SignedShift(lo, 1), lo>>
                   ELSE <<lo, SignedShift(lo, 1), SignedShift(lo, 2), SignedShift(lo, 3),
                          hi, SignedShift(hi, 1), SignedShift(hi, 2), SignedShift(hi, 3)>>
  OBVIOUS
<1>5. s \in Seq(Int) /\ Len(s) = 8
  BY <1>3, <1>4
<1>6. Write(k, v, q) = At(q, s)
  BY <1>1, <1>2, <1>4 DEF Write, WrtBigUInt64LE, WrtBigUInt64BE, BigEndian, Shift
<1>7. PICK big \in BOOLEAN : big = BigEndian(k) /\ k.width = 8
  BY AccessorFacts
<1>8. PICK d : d = Low(big, At(q, s), q, 8)
  OBVIOUS
<1>9. ASSUME NEW i \in 0..7 PROVE d[i] = s[IF big THEN 8 - i ELSE i + 1] % Base
  <2>1. PICK j : j = IF big THEN q + 8 - 1 - i ELSE q + i
    OBVIOUS
  <2>2. j \in q..(q + Len(s) - 1) /\ j - q + 1 = IF big THEN 8 - i ELSE i + 1
    BY <1>5, <2>1
  <2>3. At(q, s)[j] = s[IF big THEN 8 - i ELSE i + 1]
    BY <2>2 DEF At
  <2>4. d[i] = At(q, s)[j] % Base
    BY <1>8, <2>1 DEF Low
  <2> QED
    BY <2>3, <2>4
<1>10. /\ d[0] = lo % Base /\ d[1] = SignedShift(lo, 1) % Base /\ d[2] = SignedShift(lo, 2) % Base
       /\ d[3] = SignedShift(lo, 3) % Base /\ d[4] = hi % Base /\ d[5] = SignedShift(hi, 1) % Base
       /\ d[6] = SignedShift(hi, 2) % Base /\ d[7] = SignedShift(hi, 3) % Base
  <2>1. /\ d[0] = s[IF big THEN 8 ELSE 1] % Base /\ d[1] = s[IF big THEN 7 ELSE 2] % Base
        /\ d[2] = s[IF big THEN 6 ELSE 3] % Base /\ d[3] = s[IF big THEN 5 ELSE 4] % Base
        /\ d[4] = s[IF big THEN 4 ELSE 5] % Base /\ d[5] = s[IF big THEN 3 ELSE 6] % Base
        /\ d[6] = s[IF big THEN 2 ELSE 7] % Base /\ d[7] = s[IF big THEN 1 ELSE 8] % Base
    BY <1>9
  <2>2. CASE big
    BY <1>4, <1>7, <2>1, <2>2
  <2>3. CASE ~big
    BY <1>4, <1>7, <2>1, <2>3
  <2> QED
    BY <2>2, <2>3
<1>11. PICK e : e = [i \in 0..3 |-> d[i + 4]]
  OBVIOUS
<1>12. /\ e[0] = hi % Base /\ e[1] = SignedShift(hi, 1) % Base
       /\ e[2] = SignedShift(hi, 2) % Base /\ e[3] = SignedShift(hi, 3) % Base
  BY <1>10, <1>11
<1>13. 4 \in 0..8 /\ \A i \in 0..(4 - 1) : i = 0 \/ i = 1 \/ i = 2 \/ i = 3
  OBVIOUS
<1>14. Value(d, 4) = lo
  <2>1. PICK x \in Int : /\ x = Int32(lo) /\ x % p = lo /\ x % Base = lo % Base
                          /\ Shift(x, 0) = x
    BY <1>3
  <2>2. \A i \in 0..(4 - 1) : d[i] = Shift(x, i) % Base
    BY <1>10, <1>13, <2>1 DEF SignedShift
  <2>3. Value(d, 4) = x % Base^4
    BY <1>13, <2>2, ValueOfDigits DEF Shift
  <2> QED
    BY <1>1, <2>1, <2>3
<1>15. Value(e, 4) = hi
  <2>1. PICK x \in Int : /\ x = Int32(hi) /\ x % p = hi /\ x % Base = hi % Base
                          /\ Shift(x, 0) = x
    BY <1>3
  <2>2. \A i \in 0..(4 - 1) : e[i] = Shift(x, i) % Base
    BY <1>12, <1>13, <2>1 DEF SignedShift
  <2>3. Value(e, 4) = x % Base^4
    BY <1>13, <2>2, ValueOfDigits DEF Shift
  <2> QED
    BY <1>1, <2>1, <2>3
<1>16. Value(d, 8) = lo + hi * p
  <2>1. \A i \in 0..7 : d[i] \in Int
    <3>1. \A i \in 0..7 : (IF big THEN 8 - i ELSE i + 1) \in 1..8
      OBVIOUS
    <3>2. \A j \in 1..8 : s[j] \in Int
      <4>1. \A j \in 1..Len(s) : s[j] \in Int
        BY <1>5, ElementOfSeq
      <4> QED
        BY <1>5, <4>1
    <3>3. ASSUME NEW i \in 0..7 PROVE d[i] \in Int
      <4>1. PICK j \in 1..8 : j = IF big THEN 8 - i ELSE i + 1
        BY <3>1
      <4>2. s[j] \in Int /\ d[i] = s[j] % Base
        BY <1>9, <3>2, <4>1
      <4> QED
        BY <4>2, ByteFacts
    <3> QED
      BY <3>3
  <2>2. \A i \in 0..3 : e[i] = d[i + 4]
    BY <1>11
  <2> QED
    BY <1>1, <1>14, <1>15, <2>1, <2>2, ValueHalves
<1>17. v % Base^8 = lo + hi * p
  <2>1. v % (p * p) = (v % p) + ((v \div p) % p) * p
    BY DigitSplit
  <2> QED
    BY <1>1, <1>2, <2>1, SmallPowers
<1>18. DOMAIN At(q, s) = q..(q + 8 - 1)
  BY <1>5 DEF At
<1> QED
  BY <1>6, <1>7, <1>8, <1>16, <1>17, <1>18 DEF WriteStored

LEMMA StoredLoop ==
    ASSUME NEW k \in Accessors, NEW v \in Int, NEW q \in Int, k.name \in {"LE", "BE"},
           k.signed \/ v >= 0
    PROVE  WriteStored(k, v, q)
<1>1. PICK n \in 1..6, big \in BOOLEAN :
         n = k.width /\ big = BigEndian(k) /\ k.name = IF big THEN "BE" ELSE "LE"
  BY AccessorFacts DEF BigEndian
<1>2. PICK g : g = [i \in 0..(n - 1) |-> IF k.signed THEN IntBytes(v, n)[i] ELSE Trunc(v, Base^i)]
  OBVIOUS
<1>3. ASSUME NEW i \in 0..(n - 1) PROVE g[i] % Base = (v \div Base^i) % Base
  <2>1. i \in 0..8
    OBVIOUS
  <2>2. PICK p \in Nat \ {0} : p = Base^i
    BY <2>1, PowerFacts
  <2>3. v \div p \in Int
    BY DivMod
  <2>4. CASE k.signed
    <3>1. g[i] = (v \div p) % Base
      BY <1>2, <2>2, <2>4, IntBytesDigits
    <3>2. (v \div p) % Base \in Byte
      BY <2>3, ByteFacts
    <3> QED
      BY <2>2, <3>1, <3>2, ByteFacts
  <2>5. CASE ~k.signed
    BY <1>2, <2>2, <2>5 DEF Trunc
  <2> QED
    BY <2>4, <2>5
<1>4. Write(k, v, q) = [i \in q..(q + n - 1) |-> g[IF big THEN q + n - 1 - i ELSE i - q]]
  <2>1. \A i \in q..(q + n - 1) : i - q \in 0..(n - 1) /\ q + n - 1 - i \in 0..(n - 1)
    OBVIOUS
  <2>2. CASE big
    <3>1. Write(k, v, q) = IF k.signed THEN [i \in q..(q + n - 1) |-> IntBytes(v, n)[q + n - 1 - i]]
                           ELSE [i \in q..(q + n - 1) |-> Trunc(v, Base^(q + n - 1 - i))]
      BY <1>1, <2>2 DEF Write, WriteIntBE, WriteUIntBE
    <3> QED
      BY <1>2, <2>1, <2>2, <3>1
  <2>3. CASE ~big
    <3>1. k.name = "LE"
      BY <1>1, <2>3
    <3>2. Write(k, v, q) = IF k.signed THEN [i \in q..(q + n - 1) |-> IntBytes(v, n)[i - q]]
                           ELSE [i \in q..(q + n - 1) |-> Trunc(v, Base^(i - q))]
      BY <1>1, <3>1 DEF Write, WriteIntLE, WriteUIntLE
    <3> QED
      BY <1>2, <2>1, <2>3, <3>2
  <2> QED
    BY <2>2, <2>3
<1>5. PICK d : d = Low(big, Write(k, v, q), q, n)
  OBVIOUS
<1>6. ASSUME NEW i \in 0..(n - 1) PROVE d[i] = (v \div Base^i) % Base
  <2>1. PICK j : j = IF big THEN q + n - 1 - i ELSE q + i
    OBVIOUS
  <2>2. j \in q..(q + n - 1) /\ (IF big THEN q + n - 1 - j ELSE j - q) = i
    BY <2>1
  <2>3. Write(k, v, q)[j] = g[i]
    BY <1>4, <2>2
  <2>4. d[i] = Write(k, v, q)[j] % Base
    BY <1>5, <2>1 DEF Low
  <2> QED
    BY <1>3, <2>3, <2>4
<1>7. n \in 0..8
  OBVIOUS
<1>8. Value(d, n) = v % Base^n
  BY <1>6, <1>7, ValueOfDigits
<1>9. DOMAIN Write(k, v, q) = q..(q + n - 1)
  BY <1>4
<1> QED
  BY <1>1, <1>5, <1>8, <1>9 DEF WriteStored

LEMMA WriteStores ==
    ASSUME NEW k \in Accessors, NEW v \in Int, NEW q \in Int, v >= Lowest(k)
    PROVE  WriteStored(k, v, q)
<1>1. k.signed \/ v >= 0
  BY AccessorFacts DEF Lowest
<1> QED
  BY <1>1, AccessorFacts, StoredShort, StoredBig, StoredLoop

LEMMA LoopExists ==
    ASSUME NEW n \in 1..6, NEW d, \A i \in 0..(n - 1) : d[i] \in Int
    PROVE  \E h : /\ h = [i \in 0..(n - 1) |-> h[i]] /\ h[0] = d[0]
                  /\ \A i \in 1..(n - 1) : h[i] = h[i - 1] + d[i] * Base^i
<1>1. PICK h : h = [i \in 0..(n - 1) |-> Value(d, i + 1)]
  OBVIOUS
<1>2. \A i \in 0..7 : Value(d, i + 1) = Value(d, i) + d[i] * Base^i
  BY ValueDef
<1>3. h[0] = d[0]
  <2>1. 0 \in 0..7 /\ 0 \in 0..(n - 1)
    OBVIOUS
  <2>2. h[0] = Value(d, 0 + 1)
    BY <1>1, <2>1
  <2>3. Value(d, 0 + 1) = Value(d, 0) + d[0] * Base^0
    BY <1>2, <2>1
  <2>4. PICK x \in Int : x = d[0]
    BY <2>1
  <2>5. Value(d, 0) = 0 /\ Base^0 = 1
    BY ValueDef, PowerFacts
  <2>6. 0 + x * 1 = x
    OBVIOUS
  <2> QED
    BY <2>2, <2>3, <2>4, <2>5, <2>6
<1>4. ASSUME NEW i \in 1..(n - 1) PROVE h[i] = h[i - 1] + d[i] * Base^i
  <2>1. i \in 0..7 /\ i \in 0..(n - 1) /\ i - 1 \in 0..(n - 1) /\ (i - 1) + 1 = i
    OBVIOUS
  <2> QED
    BY <1>1, <1>2, <2>1
<1>5. h = [i \in 0..(n - 1) |-> h[i]]
  BY <1>1
<1> QED
  BY <1>3, <1>4, <1>5

LEMMA LoopUnique ==
    ASSUME NEW n \in 1..6, NEW d, \A i \in 0..(n - 1) : d[i] \in Int,
           NEW h, h[0] = d[0], \A i \in 1..(n - 1) : h[i] = h[i - 1] + d[i] * Base^i
    PROVE  h[n - 1] = Value(d, n)
<1>1. \A i \in 0..7 : Value(d, i + 1) = Value(d, i) + d[i] * Base^i
  BY ValueDef
<1>2. PICK N \in Nat : N = n - 1
  OBVIOUS
<1>3. PICK T : T = {i \in 0..N : h[i] = Value(d, i + 1)}
  OBVIOUS
<1>4. 0 \in T
  <2>1. 0 \in 0..7 /\ 0 \in 0..(n - 1) /\ 0 \in 0..N
    BY <1>2
  <2>2. Value(d, 0 + 1) = Value(d, 0) + d[0] * Base^0
    BY <1>1, <2>1
  <2>3. PICK x \in Int : x = d[0]
    BY <2>1
  <2>4. Value(d, 0) = 0 /\ Base^0 = 1
    BY ValueDef, PowerFacts
  <2>5. 0 + x * 1 = x
    OBVIOUS
  <2> QED
    BY <1>3, <2>1, <2>2, <2>3, <2>4, <2>5
<1>5. ASSUME NEW i \in 0..(N - 1), i \in T PROVE i + 1 \in T
  <2>1. i + 1 \in 1..(n - 1) /\ i + 1 \in 0..7 /\ (i + 1) - 1 = i /\ i + 1 \in 0..N
    BY <1>2
  <2>2. h[i + 1] = h[i] + d[i + 1] * Base^(i + 1)
    BY <2>1
  <2>3. Value(d, (i + 1) + 1) = Value(d, i + 1) + d[i + 1] * Base^(i + 1)
    BY <1>1, <2>1
  <2>4. h[i] = Value(d, i + 1)
    BY <1>3, <1>5
  <2> QED
    BY <1>3, <2>1, <2>2, <2>3, <2>4
<1>6. \A i \in 0..N : i \in T
  BY <1>4, <1>5, UpTo
<1>7. N \in 0..N /\ N + 1 = n
  BY <1>2
<1> QED
  BY <1>2, <1>3, <1>6, <1>7

LoopLE(a, o, n, h) ==
    h = [i \in 0..(n - 1) |-> IF i = 0 THEN a[o] ELSE h[i - 1] + a[o + i] * Base^i]
LoopBE(a, o, n, h) ==
    h = [i \in 0..(n - 1) |-> IF i = 0 THEN a[o + n - 1]
                              ELSE h[i - 1] + a[o + n - 1 - i] * Base^i]

LEMMA ReadLoops ==
    ASSUME NEW n \in 1..6, NEW a, NEW o \in Int, NEW d, \A i \in 0..(n - 1) : d[i] \in Int
    PROVE  /\ (\A i \in 0..(n - 1) : d[i] = a[o + i]) => ReadUIntLE(a, o, n) = Value(d, n)
           /\ (\A i \in 0..(n - 1) : d[i] = a[o + n - 1 - i]) => ReadUIntBE(a, o, n) = Value(d, n)
<1>0. 0 \in 0..(n - 1) /\ o + 0 = o /\ o + n - 1 - 0 = o + n - 1
  OBVIOUS
<1>00. \A i \in 0..(n - 1) : i = 0 \/ i \in 1..(n - 1)
  OBVIOUS
<1>000. \A i \in 1..(n - 1) : i # 0 /\ i \in 0..(n - 1)
  OBVIOUS
<1>1. PICK g : /\ g = [i \in 0..(n - 1) |-> g[i]] /\ g[0] = d[0]
               /\ \A i \in 1..(n - 1) : g[i] = g[i - 1] + d[i] * Base^i
  BY LoopExists
<1>2. ASSUME \A i \in 0..(n - 1) : d[i] = a[o + i]
      PROVE  ReadUIntLE(a, o, n) = Value(d, n)
  <2>1. LoopLE(a, o, n, g)
    <3>1. \A i \in 0..(n - 1) : g[i] = IF i = 0 THEN a[o] ELSE g[i - 1] + a[o + i] * Base^i
      BY <1>0, <1>00, <1>1, <1>2
    <3> QED
      BY <1>1, <3>1 DEF LoopLE
  <2>2. PICK h : h = CHOOSE x : LoopLE(a, o, n, x)
    OBVIOUS
  <2>3. LoopLE(a, o, n, h)
    BY <2>1, <2>2
  <2>4. \A i \in 0..(n - 1) : h[i] = IF i = 0 THEN a[o] ELSE h[i - 1] + a[o + i] * Base^i
    BY <2>3 DEF LoopLE
  <2>5. h[0] = d[0] /\ \A i \in 1..(n - 1) : h[i] = h[i - 1] + d[i] * Base^i
    BY <1>0, <1>000, <1>2, <2>4
  <2>6. h[n - 1] = Value(d, n)
    BY <2>5, LoopUnique
  <2>7. ReadUIntLE(a, o, n) = h[n - 1]
    BY <2>2 DEF ReadUIntLE, LoopLE
  <2> QED
    BY <2>6, <2>7
<1>3. ASSUME \A i \in 0..(n - 1) : d[i] = a[o + n - 1 - i]
      PROVE  ReadUIntBE(a, o, n) = Value(d, n)
  <2>1. LoopBE(a, o, n, g)
    <3>1. \A i \in 0..(n - 1) : g[i] = IF i = 0 THEN a[o + n - 1]
                                       ELSE g[i - 1] + a[o + n - 1 - i] * Base^i
      BY <1>0, <1>00, <1>1, <1>3
    <3> QED
      BY <1>1, <3>1 DEF LoopBE
  <2>2. PICK h : h = CHOOSE x : LoopBE(a, o, n, x)
    OBVIOUS
  <2>3. LoopBE(a, o, n, h)
    BY <2>1, <2>2
  <2>4. \A i \in 0..(n - 1) : h[i] = IF i = 0 THEN a[o + n - 1]
                                     ELSE h[i - 1] + a[o + n - 1 - i] * Base^i
    BY <2>3 DEF LoopBE
  <2>5. h[0] = d[0] /\ \A i \in 1..(n - 1) : h[i] = h[i - 1] + d[i] * Base^i
    BY <1>0, <1>000, <1>3, <2>4
  <2>6. h[n - 1] = Value(d, n)
    BY <2>5, LoopUnique
  <2>7. ReadUIntBE(a, o, n) = h[n - 1]
    BY <2>2 DEF ReadUIntBE, LoopBE
  <2> QED
    BY <2>6, <2>7
<1> QED
  BY <1>2, <1>3

LEMMA HalfPower ==
    ASSUME NEW n \in 1..8
    PROVE  /\ Base^(n - 1) \in Nat \ {0} /\ Base^n \in Nat \ {0} /\ Base^n \div 2 \in Nat \ {0}
           /\ Base^n = Base^(n - 1) * Base
           /\ Base^n \div 2 = Base^(n - 1) * (Base \div 2) /\ Base^n = 2 * (Base^n \div 2)
<1>1. n - 1 \in 0..7 /\ n - 1 \in 0..8 /\ n \in 0..8 /\ (n - 1) + 1 = n
  OBVIOUS
<1>2. PICK p \in Nat \ {0}, m \in Nat \ {0} : p = Base^(n - 1) /\ m = Base^n
  BY <1>1, PowerFacts
<1>3. PICK h \in Nat \ {0} : h = Base \div 2 /\ Base = 2 * h
  BY PowerFacts
<1>4. m = p * Base
  <2>1. Base^((n - 1) + 1) = Base^(n - 1) * Base
    BY <1>1, PowerFacts
  <2> QED
    BY <1>1, <1>2, <2>1
<1>5. PICK x \in Nat \ {0} : x = p * h
  OBVIOUS
<1>6. m = 2 * x
  <2>1. p * (2 * h) = 2 * (p * h)
    OBVIOUS
  <2> QED
    BY <1>3, <1>4, <1>5, <2>1
<1>7. m \div 2 = x
  BY <1>6
<1> QED
  BY <1>2, <1>3, <1>4, <1>5, <1>6, <1>7

(* What a read accessor must return when V is the value of its bytes.       *)
Signed(V, n) == IF V >= Base^n \div 2 THEN V - Base^n ELSE V
Meaning(k, V) == IF k.signed THEN Signed(V, k.width) ELSE V

LEMMA ReadShort ==
    ASSUME NEW k \in Accessors, NEW a, NEW p \in Int, NEW d,
           k.name \in {"8", "16LE", "16BE", "32LE", "32BE"},
           \A i \in 0..(k.width - 1) :
              d[i] = a[IF BigEndian(k) THEN p + k.width - 1 - i ELSE p + i] /\ d[i] \in Byte
    PROVE  Read(k, a, p) = Meaning(k, Value(d, k.width))
<1>0. Base \in Nat \ {0} /\ Byte \subseteq Int /\ Base^1 = Base
  BY PowerFacts, ByteFacts
<1>1. CASE k.name = "8"
  <2>1. k.width = 1 /\ ~BigEndian(k) /\ 0 \in 0..(1 - 1) /\ p + 0 = p
    BY <1>1, AccessorFacts
  <2>2. PICK x \in 0..(Base - 1) : x = d[0] /\ x = a[p]
    BY <2>1 DEF Byte
  <2>3. Value(d, 1) = x
    <3>1. Value(d, 0) = 0 /\ Value(d, 0 + 1) = Value(d, 0) + d[0] * Base^0 /\ Base^0 = 1
      <4>1. 0 \in 0..7
        OBVIOUS
      <4> QED
        BY <4>1, ValueDef, PowerFacts
    <3>2. x \in Int /\ 0 + x * 1 = x /\ 0 + 1 = 1
      BY <1>0
    <3> QED
      BY <2>2, <3>1, <3>2
  <2>4. Read(k, a, p) = IF k.signed THEN ReadInt8(a, p) ELSE x
    BY <1>1, <2>2 DEF Read
  <2>5. ReadInt8(a, p) = Signed(x, 1)
    BY <1>0, <2>2, PowerFacts DEF ReadInt8, Signed
  <2> QED
    BY <2>1, <2>3, <2>4, <2>5 DEF Meaning
<1>2. CASE k.name \in {"16LE", "16BE"}
  <2>1. k.width = 2 /\ (BigEndian(k) <=> k.name = "16BE") /\ 0 \in 0..(2 - 1) /\ 1 \in 0..(2 - 1)
    BY <1>2, AccessorFacts
  <2>2. PICK x \in Int, y \in Int :
           /\ x = d[0] /\ y = d[1]
           /\ x = a[IF BigEndian(k) THEN p + 2 - 1 - 0 ELSE p + 0]
           /\ y = a[IF BigEndian(k) THEN p + 2 - 1 - 1 ELSE p + 1]
    <3>1. \A i \in 0..(2 - 1) : d[i] = a[IF BigEndian(k) THEN p + 2 - 1 - i ELSE p + i] /\ d[i] \in Int
      BY <1>0, <2>1
    <3>2. d[0] \in Int /\ d[1] \in Int
      BY <2>1, <3>1
    <3>3. /\ d[0] = a[IF BigEndian(k) THEN p + 2 - 1 - 0 ELSE p + 0]
          /\ d[1] = a[IF BigEndian(k) THEN p + 2 - 1 - 1 ELSE p + 1]
      BY <2>1, <3>1, Zenon
    <3> QED
      BY <3>2, <3>3, Zenon
  <2>3. p + 2 - 1 - 0 = p + 1 /\ p + 0 = p /\ p + 2 - 1 - 1 = p
    OBVIOUS
  <2>4. Value(d, 2) = x + y * Base
    BY <2>2, UnrolledTwo
  <2>5. x + y * Base = y * Base + x
    BY <1>0
  <2>6. CASE k.name = "16LE"
    <3>1. x = a[p] /\ y = a[p + 1]
      BY <2>1, <2>2, <2>3, <2>6
    <3>2. Read(k, a, p) = IF k.signed THEN Signed16(x + y * Base) ELSE x + y * Base
      BY <2>6, <3>1 DEF Read, ReadInt16LE, ReadUInt16LE
    <3> QED
      BY <2>1, <2>4, <3>2 DEF Meaning, Signed, Signed16
  <2>7. CASE k.name = "16BE"
    <3>1. x = a[p + 1] /\ y = a[p]
      BY <2>1, <2>2, <2>3, <2>7
    <3>2. Read(k, a, p) = IF k.signed THEN Signed16(x + y * Base) ELSE y * Base + x
      BY <2>7, <3>1 DEF Read, ReadInt16BE, ReadUInt16BE
    <3> QED
      BY <2>1, <2>4, <2>5, <3>2 DEF Meaning, Signed, Signed16
  <2> QED
    BY <1>2, <2>6, <2>7
<1>3. CASE k.name \in {"32LE", "32BE"}
  <2>1. /\ k.width = 4 /\ (BigEndian(k) <=> k.name = "32BE")
        /\ 0 \in 0..(4 - 1) /\ 1 \in 0..(4 - 1) /\ 2 \in 0..(4 - 1) /\ 3 \in 0..(4 - 1)
    BY <1>3, AccessorFacts
  <2>2. PICK x0 \in Int, x1 \in Int, x2 \in Int, x3 \in Int :
           /\ x0 = d[0] /\ x1 = d[1] /\ x2 = d[2] /\ x3 = d[3]
           /\ x0 = a[IF BigEndian(k) THEN p + 4 - 1 - 0 ELSE p + 0]
           /\ x1 = a[IF BigEndian(k) THEN p + 4 - 1 - 1 ELSE p + 1]
           /\ x2 = a[IF BigEndian(k) THEN p + 4 - 1 - 2 ELSE p + 2]
           /\ x3 = a[IF BigEndian(k) THEN p + 4 - 1 - 3 ELSE p + 3]
    <3>1. \A i \in 0..(4 - 1) : d[i] = a[IF BigEndian(k) THEN p + 4 - 1 - i ELSE p + i] /\ d[i] \in Int
      BY <1>0, <2>1
    <3>2. d[0] \in Int /\ d[1] \in Int /\ d[2] \in Int /\ d[3] \in Int
      BY <2>1, <3>1
    <3>3. /\ d[0] = a[IF BigEndian(k) THEN p + 4 - 1 - 0 ELSE p + 0]
          /\ d[1] = a[IF BigEndian(k) THEN p + 4 - 1 - 1 ELSE p + 1]
          /\ d[2] = a[IF BigEndian(k) THEN p + 4 - 1 - 2 ELSE p + 2]
          /\ d[3] = a[IF BigEndian(k) THEN p + 4 - 1 - 3 ELSE p + 3]
      BY <2>1, <3>1, Zenon
    <3> QED
      BY <3>2, <3>3, Zenon
  <2>3. /\ p + 4 - 1 - 0 = p + 3 /\ p + 0 = p /\ p + 4 - 1 - 1 = p + 2
        /\ p + 4 - 1 - 2 = p + 1 /\ p + 4 - 1 - 3 = p
    OBVIOUS
  <2>4. PICK b \in Nat, b2 \in Nat, b3 \in Nat, b4 \in Nat \ {0} :
           b = Base /\ b2 = Base^2 /\ b3 = Base^3 /\ b4 = Base^4
    BY SmallPowers, PowerFacts
  <2>5. PICK V \in 0..(b4 - 1) : V = Value(d, 4)
    <3>1. Value(d, 4) \in 0..(Base^4 - 1)
      BY <2>1, ValueRange
    <3> QED
      BY <2>4, <3>1
  <2>6. V = x0 + x1 * b + x2 * b2 + x3 * b3
    <3>1. Value(d, 4) = x0 + x1 * Base + x2 * Base^2 + x3 * Base^3
      <4>1. d[0] = x0 /\ d[1] = x1 /\ d[2] = x2 /\ d[3] = x3
        BY <2>2
      <4> QED
        BY <4>1, Unrolled
    <3> QED
      BY <2>4, <2>5, <3>1
  <2>7. V = x3 * b3 + x2 * b2 + x1 * b + x0
    BY <2>6
  <2>8. Int32(V) = Signed(V, 4)
    <3>1. V % b4 = V
      OBVIOUS
    <3> QED
      BY <2>4, <3>1 DEF Int32, Uint32, Signed
  <2>9. CASE k.name = "32LE"
    <3>1. x0 = a[p] /\ x1 = a[p + 1] /\ x2 = a[p + 2] /\ x3 = a[p + 3]
      BY <2>1, <2>2, <2>3, <2>9
    <3>2. Read(k, a, p) = IF k.signed THEN Int32(V) ELSE V
      BY <2>4, <2>6, <2>9, <3>1 DEF Read, ReadInt32LE, ReadUInt32LE
    <3> QED
      BY <2>1, <2>5, <2>8, <3>2 DEF Meaning
  <2>10. CASE k.name = "32BE"
    <3>1. x3 = a[p] /\ x2 = a[p + 1] /\ x1 = a[p + 2] /\ x0 = a[p + 3]
      BY <2>1, <2>2, <2>3, <2>10
    <3>2. Read(k, a, p) = IF k.signed THEN Int32(V) ELSE V
      BY <2>4, <2>7, <2>10, <3>1 DEF Read, ReadInt32BE, ReadUInt32BE
    <3> QED
      BY <2>1, <2>5, <2>8, <3>2 DEF Meaning
  <2> QED
    BY <1>3, <2>9, <2>10
<1> QED
  BY <1>1, <1>2, <1>3

LEMMA ReadLoop ==
    ASSUME NEW k \in Accessors, NEW a, NEW p \in Int, NEW d, k.name \in {"LE", "BE"},
           \A i \in 0..(k.width - 1) :
              d[i] = a[IF BigEndian(k) THEN p + k.width - 1 - i ELSE p + i] /\ d[i] \in Byte
    PROVE  Read(k, a, p) = Meaning(k, Value(d, k.width))
<1>1. PICK n \in 1..6 : n = k.width
  BY AccessorFacts
<1>2. \A i \in 0..(n - 1) : d[i] \in Int
  <2>1. \A i \in 0..(n - 1) : d[i] \in Byte
    BY <1>1
  <2>2. Byte \subseteq Int
    BY ByteFacts
  <2> QED
    BY <2>1, <2>2
<1>3. Base^(n - 1) * (Base \div 2) = Base^n \div 2
  <2>1. n \in 1..8
    OBVIOUS
  <2> QED
    BY <2>1, HalfPower
<1>4. \A V : Negate(V, n) = Signed(V, n)
  BY <1>3 DEF Negate, Signed
<1>5. CASE k.name = "LE"
  <2>1. \A i \in 0..(n - 1) : d[i] = a[p + i]
    BY <1>1, <1>5 DEF BigEndian
  <2>2. ReadUIntLE(a, p, n) = Value(d, n)
    BY <1>2, <2>1, ReadLoops
  <2>3. Read(k, a, p) = IF k.signed THEN Negate(Value(d, n), n) ELSE Value(d, n)
    BY <1>1, <1>5, <2>2 DEF Read, ReadIntLE
  <2> QED
    BY <1>1, <1>4, <2>3 DEF Meaning
<1>6. CASE k.name = "BE"
  <2>1. \A i \in 0..(n - 1) : d[i] = a[p + n - 1 - i]
    BY <1>1, <1>6 DEF BigEndian
  <2>2. ReadUIntBE(a, p, n) = Value(d, n)
    BY <1>2, <2>1, ReadLoops
  <2>3. Read(k, a, p) = IF k.signed THEN Negate(Value(d, n), n) ELSE Value(d, n)
    BY <1>1, <1>6, <2>2 DEF Read, ReadIntBE
  <2> QED
    BY <1>1, <1>4, <2>3 DEF Meaning
<1> QED
  BY <1>5, <1>6

(* The highest byte decides the sign of a 64-bit integer.                   *)
LEMMA BigMeaning ==
    ASSUME NEW lo \in 0..(Base^4 - 1), NEW z \in 0..(Base^3 - 1), NEW y \in Byte
    PROVE  (z + Int32(y * Base^3)) * Base^4 + lo = Signed(lo + (z + y * Base^3) * Base^4, 8)
<1>1. PICK b \in Nat \ {0}, b3 \in Nat \ {0}, b4 \in Nat \ {0}, b8 \in Nat \ {0}, h \in Nat \ {0} :
         /\ b = Base /\ b3 = Base^3 /\ b4 = Base^4 /\ b8 = Base^8
         /\ b4 = b3 * b /\ b8 = b4 * b4 /\ b = 2 * h
  BY SmallPowers, PowerFacts
<1>2. PICK c \in Nat \ {0} : c = b3 * h /\ b4 = 2 * c /\ b4 \div 2 = c
  <2>1. PICK c \in Nat \ {0} : c = b3 * h
    OBVIOUS
  <2>2. b3 * (2 * h) = 2 * (b3 * h)
    OBVIOUS
  <2>3. b4 = 2 * c
    BY <1>1, <2>1, <2>2
  <2>4. b4 \div 2 = c
    BY <2>3
  <2> QED
    BY <2>1, <2>3, <2>4
<1>3. PICK H \in Nat \ {0} : H = c * b4 /\ b8 = 2 * H /\ b8 \div 2 = H
  <2>1. PICK H \in Nat \ {0} : H = c * b4
    OBVIOUS
  <2>2. (2 * c) * b4 = 2 * (c * b4)
    OBVIOUS
  <2>3. b8 = 2 * H
    BY <1>1, <1>2, <2>1, <2>2
  <2>4. b8 \div 2 = H
    BY <2>3
  <2> QED
    BY <2>1, <2>3, <2>4
<1>4. y \in Nat /\ y <= b - 1 /\ lo \in Nat /\ lo <= b4 - 1 /\ z \in Nat /\ z <= b3 - 1
  BY <1>1 DEF Byte
<1>5. PICK t \in Nat : t = y * b3
  BY <1>4
<1>6. t <= b4 - b3
  <2>1. y * b3 <= (b - 1) * b3
    BY <1>4
  <2>2. (b - 1) * b3 = b4 - b3
    BY <1>1
  <2> QED
    BY <1>5, <2>1, <2>2
<1>7. Int32(t) = IF t >= c THEN t - b4 ELSE t
  <2>1. t % b4 = t
    BY <1>6
  <2> QED
    BY <1>1, <1>2, <2>1 DEF Int32, Uint32
<1>8. PICK hi \in Nat : hi = z + t
  BY <1>4
<1>9. PICK V \in Nat : V = lo + hi * b4
  BY <1>4
<1>10. CASE t >= c
  <2>1. hi >= c
    BY <1>4, <1>8, <1>10
  <2>2. hi * b4 >= c * b4
    BY <2>1
  <2>3. V >= H
    <3>1. PICK m \in Nat : m = hi * b4
      OBVIOUS
    <3> QED
      BY <1>3, <1>4, <1>9, <2>2, <3>1
  <2>4. (z + (t - b4)) * b4 + lo = V - b8
    <3>1. z + (t - b4) = hi - b4
      BY <1>4, <1>8
    <3>2. (hi - b4) * b4 = hi * b4 - b4 * b4
      OBVIOUS
    <3>3. PICK m \in Nat : m = hi * b4
      OBVIOUS
    <3>4. (hi - b4) * b4 = m - b8
      BY <1>1, <3>2, <3>3
    <3>5. m - b8 + lo = lo + m - b8
      BY <1>4
    <3> QED
      BY <1>9, <3>1, <3>3, <3>4, <3>5
  <2>5. Signed(V, 8) = V - b8
    BY <1>1, <1>3, <2>3 DEF Signed
  <2>6. Int32(t) = t - b4
    BY <1>7, <1>10
  <2> QED
    BY <1>1, <1>5, <1>8, <1>9, <2>4, <2>5, <2>6
<1>11. CASE ~(t >= c)
  <2>1. y <= h - 1
    <3>1. ASSUME y >= h PROVE FALSE
      <4>1. y * b3 >= h * b3 /\ h * b3 = b3 * h
        BY <1>4, <3>1
      <4> QED
        BY <1>2, <1>5, <1>11, <4>1
    <3> QED
      BY <1>4, <3>1
  <2>2. t <= c - b3
    <3>1. y * b3 <= (h - 1) * b3
      BY <1>4, <2>1
    <3>2. (h - 1) * b3 = b3 * h - b3
      OBVIOUS
    <3> QED
      BY <1>2, <1>5, <3>1, <3>2
  <2>3. hi <= c - 1
    BY <1>4, <1>8, <2>2
  <2>4. hi * b4 <= (c - 1) * b4
    BY <2>3
  <2>5. (c - 1) * b4 = H - b4
    BY <1>3
  <2>6. PICK m \in Nat : m = hi * b4
    OBVIOUS
  <2>7. V < H
    BY <1>4, <1>9, <2>4, <2>5, <2>6
  <2>8. Signed(V, 8) = V
    BY <1>1, <1>3, <2>7 DEF Signed
  <2>9. Int32(t) = t
    BY <1>7, <1>11
  <2>10. m + lo = lo + m
    BY <1>4
  <2> QED
    BY <1>1, <1>5, <1>8, <1>9, <2>6, <2>8, <2>9, <2>10
<1> QED
  BY <1>10, <1>11

LEMMA ReadBig ==
    ASSUME NEW k \in Accessors, NEW a, NEW p \in Int, NEW d, k.name \in {"64LE", "64BE"},
           \A i \in 0..(k.width - 1) :
              d[i] = a[IF BigEndian(k) THEN p + k.width - 1 - i ELSE p + i] /\ d[i] \in Byte
    PROVE  Read(k, a, p) = Meaning(k, Value(d, k.width))
<1>1. PICK big \in BOOLEAN : big = BigEndian(k) /\ k.width = 8 /\ k.name = IF big THEN "64BE" ELSE "64LE"
  BY AccessorFacts DEF BigEndian
<1>2. \A i \in 0..7 : d[i] = a[IF big THEN p + 7 - i ELSE p + i] /\ d[i] \in Byte
  <2>1. \A i \in 0..7 : i \in 0..(8 - 1) /\ p + 8 - 1 - i = p + 7 - i
    OBVIOUS
  <2> QED
    BY <1>1, <2>1
<1>3. Byte \subseteq Nat
  BY ByteFacts
<1>4. /\ 0 \in 0..7 /\ 1 \in 0..7 /\ 2 \in 0..7 /\ 3 \in 0..7
      /\ 4 \in 0..7 /\ 5 \in 0..7 /\ 6 \in 0..7 /\ 7 \in 0..7
  OBVIOUS
<1>5. PICK x0 \in Byte, x1 \in Byte, x2 \in Byte, x3 \in Byte :
         d[0] = x0 /\ d[1] = x1 /\ d[2] = x2 /\ d[3] = x3
  BY <1>2, <1>4
<1>6. PICK y0 \in Byte, y1 \in Byte, y2 \in Byte, y3 \in Byte :
         d[4] = y0 /\ d[5] = y1 /\ d[6] = y2 /\ d[7] = y3
  BY <1>2, <1>4
<1>7. PICK b \in Nat, b2 \in Nat, b3 \in Nat \ {0}, b4 \in Nat \ {0} :
         b = Base /\ b2 = Base^2 /\ b3 = Base^3 /\ b4 = Base^4
  BY SmallPowers, PowerFacts
<1>8. PICK e : e = [i \in 0..3 |-> d[i + 4]]
  OBVIOUS
<1>9. e[0] = y0 /\ e[1] = y1 /\ e[2] = y2 /\ e[3] = y3 /\ \A i \in 0..3 : e[i] = d[i + 4]
  BY <1>6, <1>8
<1>10. PICK lo \in 0..(b4 - 1) : lo = Value(d, 4) /\ lo = x0 + x1 * b + x2 * b2 + x3 * b3
  <2>1. 4 \in 0..8 /\ \A i \in 0..(4 - 1) : d[i] \in Byte
    BY <1>2
  <2>2. Value(d, 4) \in 0..(Base^4 - 1)
    BY <2>1, ValueRange
  <2>3. x0 \in Int /\ x1 \in Int /\ x2 \in Int /\ x3 \in Int
    BY <1>3
  <2>4. Value(d, 4) = x0 + x1 * Base + x2 * Base^2 + x3 * Base^3
    BY <1>5, <2>3, Unrolled
  <2> QED
    BY <1>7, <2>2, <2>4
<1>11. PICK z \in 0..(b3 - 1) : z = Value(e, 3)
  <2>1. 3 \in 0..8 /\ \A i \in 0..(3 - 1) : i = 0 \/ i = 1 \/ i = 2
    OBVIOUS
  <2>2. \A i \in 0..(3 - 1) : e[i] \in Byte
    BY <1>9, <2>1
  <2>3. Value(e, 3) \in 0..(Base^3 - 1)
    BY <2>1, <2>2, ValueRange
  <2> QED
    BY <1>7, <2>3
<1>12. Value(e, 4) = z + y3 * b3
  <2>1. 3 \in 0..7 /\ 3 + 1 = 4
    OBVIOUS
  <2>2. Value(e, 3 + 1) = Value(e, 3) + e[3] * Base^3
    BY <2>1, ValueDef
  <2> QED
    BY <1>7, <1>9, <1>11, <2>1, <2>2
<1>13. z = y0 + y1 * b + y2 * b2
  <2>1. y0 \in Int /\ y1 \in Int /\ y2 \in Int /\ y3 \in Int
    BY <1>3
  <2>2. Value(e, 4) = y0 + y1 * Base + y2 * Base^2 + y3 * Base^3
    BY <1>9, <2>1, Unrolled
  <2>3. PICK u \in Int, m \in Int : u = y0 + y1 * b + y2 * b2 /\ m = y3 * b3
    BY <2>1
  <2>4. u + m = z + m
    BY <1>7, <1>12, <2>2, <2>3
  <2> QED
    BY <2>3, <2>4
<1>14. Value(d, 8) = lo + (z + y3 * b3) * b4
  <2>1. \A i \in 0..7 : d[i] \in Int
    <3>1. \A i \in 0..7 : d[i] \in Byte
      BY <1>2
    <3>2. Byte \subseteq Int
      BY <1>3
    <3> QED
      BY <3>1, <3>2
  <2>2. Value(d, 8) = Value(d, 4) + Value(e, 4) * Base^4
    BY <1>9, <2>1, ValueHalves
  <2> QED
    BY <1>7, <1>10, <1>12, <2>2
<1>15. (z + Int32(y3 * b3)) * b4 + lo = Signed(Value(d, 8), 8)
  BY <1>7, <1>14, BigMeaning
<1>16. /\ x0 \in Nat /\ x1 \in Nat /\ x2 \in Nat /\ x3 \in Nat /\ y0 \in Nat /\ y1 \in Nat
       /\ y2 \in Nat /\ y3 \in Nat /\ y3 * b3 \in Nat /\ Int32(y3 * b3) \in Int
  <2>1. x0 \in Nat /\ x1 \in Nat /\ x2 \in Nat /\ x3 \in Nat /\ y0 \in Nat /\ y1 \in Nat
        /\ y2 \in Nat /\ y3 \in Nat
    BY <1>3
  <2>2. PICK t \in Nat : t = y3 * b3
    BY <2>1
  <2>3. PICK u \in Int : u = t % b4
    OBVIOUS
  <2>4. Int32(t) = u - b4 \/ Int32(t) = u
    BY <1>7, <2>3 DEF Int32, Uint32
  <2> QED
    BY <2>1, <2>2, <2>3, <2>4
<1>17. CASE ~big
  <2>1. /\ a[p] = x0 /\ a[p + 1] = x1 /\ a[p + 2] = x2 /\ a[p + 3] = x3
        /\ a[p + 4] = y0 /\ a[p + 5] = y1 /\ a[p + 6] = y2 /\ a[p + 7] = y3
    <3>1. \A i \in 0..7 : d[i] = a[p + i]
      BY <1>2, <1>17
    <3>2. p + 0 = p
      OBVIOUS
    <3> QED
      BY <1>4, <1>5, <1>6, <3>1, <3>2
  <2>2. ReadBigUInt64LE(a, p) = lo + (z + y3 * b3) * b4
    BY <1>7, <1>10, <1>13, <2>1 DEF ReadBigUInt64LE
  <2>3. ReadBigInt64LE(a, p) = (z + Int32(y3 * b3)) * b4 + lo
    BY <1>7, <1>10, <1>13, <2>1 DEF ReadBigInt64LE
  <2>4. Read(k, a, p) = IF k.signed THEN ReadBigInt64LE(a, p) ELSE ReadBigUInt64LE(a, p)
    BY <1>1, <1>17 DEF Read
  <2> QED
    BY <1>1, <1>14, <1>15, <2>2, <2>3, <2>4 DEF Meaning
<1>18. CASE big
  <2>1. /\ a[p] = y3 /\ a[p + 1] = y2 /\ a[p + 2] = y1 /\ a[p + 3] = y0
        /\ a[p + 4] = x3 /\ a[p + 5] = x2 /\ a[p + 6] = x1 /\ a[p + 7] = x0
    <3>1. \A i \in 0..7 : d[i] = a[p + 7 - i]
      BY <1>2, <1>18
    <3>2. /\ p + 7 - 0 = p + 7 /\ p + 7 - 1 = p + 6 /\ p + 7 - 2 = p + 5 /\ p + 7 - 3 = p + 4
          /\ p + 7 - 4 = p + 3 /\ p + 7 - 5 = p + 2 /\ p + 7 - 6 = p + 1 /\ p + 7 - 7 = p
      OBVIOUS
    <3> QED
      BY <1>4, <1>5, <1>6, <3>1, <3>2
  <2>2. y3 * b3 + y2 * b2 + y1 * b + y0 = z + y3 * b3
    BY <1>13, <1>16
  <2>3. x3 * b3 + x2 * b2 + x1 * b + x0 = lo
    BY <1>10, <1>16
  <2>4. Int32(y3 * b3) + y2 * b2 + y1 * b + y0 = z + Int32(y3 * b3)
    BY <1>13, <1>16
  <2>5. ReadBigUInt64BE(a, p) = (z + y3 * b3) * b4 + lo
    BY <1>7, <2>1, <2>2, <2>3 DEF ReadBigUInt64BE
  <2>6. (z + y3 * b3) * b4 + lo = lo + (z + y3 * b3) * b4
    BY <1>16
  <2>7. ReadBigInt64BE(a, p) = (z + Int32(y3 * b3)) * b4 + lo
    BY <1>7, <2>1, <2>3, <2>4 DEF ReadBigInt64BE
  <2>8. Read(k, a, p) = IF k.signed THEN ReadBigInt64BE(a, p) ELSE ReadBigUInt64BE(a, p)
    BY <1>1, <1>18 DEF Read
  <2> QED
    BY <1>1, <1>14, <1>15, <2>5, <2>6, <2>7, <2>8 DEF Meaning
<1> QED
  BY <1>17, <1>18

LEMMA MeaningOf ==
    ASSUME NEW k \in Accessors, NEW v \in Int, v >= Lowest(k), v <= Highest(k)
    PROVE  /\ Meaning(k, v % Base^k.width) = v
           /\ \A l \in Accessors : l.width = k.width =>
                 (Meaning(l, v % Base^k.width) - v) % Base^k.width = 0
<1>1. PICK w \in 1..8 : w = k.width
  BY AccessorFacts
<1>2. PICK m \in Nat \ {0}, c \in Nat \ {0} : m = Base^w /\ c = m \div 2 /\ m = 2 * c
  BY HalfPower
<1>3. PICK q \in Int, V \in 0..(m - 1) : V = v % m /\ v = m * q + V
  BY DivMod
<1>4. Meaning(k, V) = v
  <2>1. CASE ~k.signed
    <3>1. v >= 0 /\ v <= m - 1
      BY <1>1, <1>2, <2>1 DEF Lowest, Highest
    <3>2. v % m = v
      BY <3>1
    <3> QED
      BY <1>3, <2>1, <3>2 DEF Meaning
  <2>2. CASE k.signed
    <3>1. v >= -c /\ v <= c - 1
      BY <1>1, <1>2, <2>2 DEF Lowest, Highest
    <3>2. Meaning(k, V) = IF V >= c THEN V - m ELSE V
      BY <1>1, <1>2, <2>2 DEF Meaning, Signed
    <3>3. CASE v >= 0
      <4>1. v % m = v
        BY <1>2, <3>1, <3>3
      <4> QED
        BY <1>3, <3>1, <3>2, <4>1
    <3>4. CASE v < 0
      <4>1. PICK r \in 0..(m - 1) : r = v + m
        BY <1>2, <3>1, <3>4
      <4>2. v = m * (-1) + r /\ -1 \in Int
        BY <4>1
      <4>3. v % m = r
        BY <4>2, DivUnique
      <4> QED
        BY <1>2, <1>3, <3>1, <3>2, <4>1, <4>3
    <3> QED
      BY <3>3, <3>4
  <2> QED
    BY <2>1, <2>2, AccessorFacts
<1>5. ASSUME NEW l \in Accessors, l.width = k.width PROVE (Meaning(l, V) - v) % m = 0
  <2>1. Meaning(l, V) = V - m \/ Meaning(l, V) = V
    BY <1>1, <1>2, <1>5 DEF Meaning, Signed
  <2>2. PICK t \in Int : (t = -q \/ t = -q - 1) /\ Meaning(l, V) - v = m * t + 0
    <3>1. m * (-q) = -(m * q) /\ m * (-q - 1) = -(m * q) - m /\ m * q \in Int
      OBVIOUS
    <3>2. PICK x \in Int : x = m * q /\ v = x + V
      BY <1>3, <3>1
    <3>3. CASE Meaning(l, V) = V
      <4>1. Meaning(l, V) - v = -x + 0
        BY <3>2, <3>3
      <4>2. PICK t \in Int : t = -q
        OBVIOUS
      <4> QED
        BY <3>1, <3>2, <4>1, <4>2
    <3>4. CASE Meaning(l, V) = V - m
      <4>1. Meaning(l, V) - v = (-x - m) + 0
        BY <3>2, <3>4
      <4>2. PICK t \in Int : t = -q - 1
        OBVIOUS
      <4> QED
        BY <3>1, <3>2, <4>1, <4>2
    <3> QED
      BY <2>1, <3>3, <3>4
  <2>3. PICK y : y = Meaning(l, V) - v
    OBVIOUS
  <2>4. y % m = 0
    <3>1. 0 \in 0..(m - 1) /\ y = m * t + 0
      BY <2>2, <2>3
    <3> QED
      BY <3>1, DivUnique
  <2> QED
    BY <2>3, <2>4
<1> QED
  BY <1>1, <1>2, <1>3, <1>4, <1>5

LEMMA ReadMeans ==
    ASSUME NEW k \in Accessors, NEW a, NEW p \in Int, NEW d,
           \A i \in 0..(k.width - 1) :
              d[i] = a[IF BigEndian(k) THEN p + k.width - 1 - i ELSE p + i] /\ d[i] \in Byte
    PROVE  Read(k, a, p) = Meaning(k, Value(d, k.width))
BY AccessorFacts, ReadShort, ReadLoop, ReadBig

(* The bytes v leaves at q, read at p by an accessor of as many bytes.      *)
Laid(k, v, q, a, p) ==
    \A i \in 0..(k.width - 1) :
        a[p + i] = Write(k, v, q)[q + i] % Base /\ Write(k, v, q)[q + i] \in Int

ReadsBack(k, v, a, p) ==
    /\ Read(k, a, p) = v
    /\ \A l \in Accessors :
          l.width = k.width /\ (k.width = 1 \/ BigEndian(l) = BigEndian(k)) =>
              (Read(l, a, p) - v) % Base^k.width = 0

LEMMA ReadBack ==
    ASSUME NEW k \in Accessors, NEW v \in Int, v >= Lowest(k), v <= Highest(k),
           NEW q \in Int, NEW p \in Int, NEW a, Laid(k, v, q, a, p)
    PROVE  ReadsBack(k, v, a, p)
<1>1. PICK w \in 1..8, big \in BOOLEAN : w = k.width /\ big = BigEndian(k)
  BY AccessorFacts
<1>2. PICK f, d : f = Write(k, v, q) /\ d = Low(big, f, q, w)
  OBVIOUS
<1>3. Value(d, w) = v % Base^w
  BY <1>1, <1>2, WriteStores DEF WriteStored
<1>4. ASSUME NEW i \in 0..(w - 1)
      PROVE  d[i] = a[IF big THEN p + w - 1 - i ELSE p + i] /\ d[i] \in Byte
  <2>1. PICK j \in 0..(w - 1) : j = IF big THEN w - 1 - i ELSE i
    <3>1. w - 1 - i \in 0..(w - 1)
      OBVIOUS
    <3>2. CASE big
      BY <3>1, <3>2
    <3>3. CASE ~big
      BY <3>3
    <3> QED
      BY <3>2, <3>3
  <2>2. a[p + j] = f[q + j] % Base /\ f[q + j] \in Int
    BY <1>1, <1>2 DEF Laid
  <2>3. /\ p + j = IF big THEN p + w - 1 - i ELSE p + i
        /\ q + j = IF big THEN q + w - 1 - i ELSE q + i
    BY <2>1
  <2>4. d[i] = f[q + j] % Base
    BY <1>2, <2>3 DEF Low
  <2> QED
    BY <2>2, <2>3, <2>4, ByteFacts
<1>5. ASSUME NEW l \in Accessors, l.width = w, w = 1 \/ BigEndian(l) = big
      PROVE  Read(l, a, p) = Meaning(l, v % Base^w)
  <2>1. ASSUME NEW i \in 0..(w - 1)
        PROVE  d[i] = a[IF BigEndian(l) THEN p + w - 1 - i ELSE p + i] /\ d[i] \in Byte
    <3>1. CASE w = 1
      <4>1. i = 0 /\ p + w - 1 - i = p + i
        BY <3>1
      <4> QED
        BY <1>4, <4>1
    <3>2. CASE BigEndian(l) = big
      BY <1>4, <3>2
    <3> QED
      BY <1>5, <3>1, <3>2
  <2>2. Read(l, a, p) = Meaning(l, Value(d, w))
    BY <1>5, <2>1, ReadMeans
  <2> QED
    BY <1>3, <2>2
<1>6. Read(k, a, p) = v
  BY <1>1, <1>5, MeaningOf
<1>7. ASSUME NEW l \in Accessors, l.width = k.width, k.width = 1 \/ BigEndian(l) = BigEndian(k)
      PROVE  (Read(l, a, p) - v) % Base^k.width = 0
  BY <1>1, <1>5, <1>7, MeaningOf
<1> QED
  BY <1>6, <1>7 DEF ReadsBack

-----------------------------------------------------------------------------
(* fill with the bytes of a Buffer.                                         *)

PokeOne(st, b, p, x) == Poke(st, b, At(p, <<x>>))

OnePoked(new, st, b, p, x) ==
    /\ SameShape(new, st)
    /\ \A m \in 1..Len(st) : m # b.mem => new[m] = st[m]
    /\ \A i \in DOMAIN st[b.mem] :
          new[b.mem][i] = IF i = b.offset + p THEN x ELSE st[b.mem][i]

LEMMA PokedOnce ==
    ASSUME NEW st \in Seq(Memories), NEW b \in Windows, Inside(b, st),
           NEW p \in 0..(b.length - 1), NEW x \in Byte
    PROVE  OnePoked(PokeOne(st, b, p, x), st, b, p, x)
<1>0. PICK new : new = Poke(st, b, At(p, <<x>>))
  OBVIOUS
<1>1. b.mem \in 1..Len(st) /\ b.offset \in Nat /\ b.length \in Nat
  BY DEF Inside, Windows
<1>2. PICK f : f = At(p, <<x>>)
  OBVIOUS
<1>3. p \in Nat /\ p..(p + 1 - 1) = {p} /\ p - p + 1 = 1
  BY <1>1
<1>4. DOMAIN f = {p} /\ f[p] = x
  BY <1>2, <1>3 DEF At
<1>5. Written(f, b) = {p} /\ f[p] \in Int /\ f[p] % Base = x
  <2>1. Written(f, b) = {p}
    BY <1>4 DEF Written
  <2>2. x \in Nat /\ x % Base = x
    BY ByteFacts
  <2> QED
    BY <1>4, <2>1, <2>2
<1>6. /\ SameShape(new, st)
      /\ \A m \in 1..Len(st) : m # b.mem => new[m] = st[m]
      /\ \A i \in DOMAIN st[b.mem] :
            new[b.mem][i] = IF i - b.offset \in Written(f, b)
                            THEN f[i - b.offset] % Base ELSE st[b.mem][i]
  BY <1>0, <1>2, <1>5, Poked
<1>7. ASSUME NEW i \in DOMAIN st[b.mem]
      PROVE  new[b.mem][i] = IF i = b.offset + p THEN x ELSE st[b.mem][i]
  <2>1. i \in Int
    <3>1. st[b.mem] \in Memories
      BY <1>1
    <3>2. DOMAIN st[b.mem] = 0..(Length(st[b.mem]) - 1) /\ Length(st[b.mem]) \in Nat
      BY <3>1, MemoryFacts
    <3> QED
      BY <3>2
  <2>2. i = b.offset + p <=> i - b.offset = p
    BY <1>1, <1>3, <2>1
  <2> QED
    BY <1>5, <1>6, <2>2
<1> QED
  BY <1>0, <1>6, <1>7 DEF PokeOne, OnePoked

(* The loop of fill, as a recursion that has a solution.                    *)
FillTurn(g, st, b, v, start, i) ==
    IF i = 0 THEN st
    ELSE Poke(g[i - 1], b, At(start + i - 1, <<View(g[i - 1], v)[(i - 1) % v.length]>>))
FillTurns(g, n, st, b, v, start) == g = [i \in 0..n |-> FillTurn(g, st, b, v, start, i)]

LEMMA FillTurnsExist ==
    ASSUME NEW st, NEW b, NEW v, NEW start, NEW N \in Nat
    PROVE  \E g : FillTurns(g, N, st, b, v, start)
<1>1. PICK T : T = {m \in 0..N : \E g : FillTurns(g, m, st, b, v, start)}
  OBVIOUS
<1>2. 0 \in T
  <2>1. PICK g : g = [i \in 0..0 |-> st]
    OBVIOUS
  <2>2. \A i \in 0..0 : FillTurn(g, st, b, v, start, i) = st
    BY DEF FillTurn
  <2>3. FillTurns(g, 0, st, b, v, start)
    BY <2>1, <2>2 DEF FillTurns
  <2> QED
    BY <1>1, <2>3
<1>3. ASSUME NEW m \in 0..(N - 1), m \in T PROVE m + 1 \in T
  <2>1. PICK g : FillTurns(g, m, st, b, v, start)
    BY <1>1, <1>3
  <2>2. PICK h : h = [i \in 0..(m + 1) |-> IF i = m + 1 THEN FillTurn(g, st, b, v, start, i)
                                                         ELSE g[i]]
    OBVIOUS
  <2>3. \A i \in 0..m : i # m + 1 /\ i \in 0..(m + 1) /\ h[i] = g[i]
    BY <2>2
  <2>4. ASSUME NEW i \in 0..(m + 1) PROVE FillTurn(h, st, b, v, start, i) = FillTurn(g, st, b, v, start, i)
    <3>1. CASE i = 0
      BY <3>1 DEF FillTurn
    <3>2. CASE i # 0
      <4>1. i - 1 \in 0..m
        BY <3>2
      <4>2. h[i - 1] = g[i - 1]
        BY <2>3, <4>1
      <4> QED
        BY <3>2, <4>2 DEF FillTurn
    <3> QED
      BY <3>1, <3>2
  <2>5. ASSUME NEW i \in 0..(m + 1) PROVE h[i] = FillTurn(h, st, b, v, start, i)
    <3>1. CASE i = m + 1
      BY <2>2, <2>4, <3>1
    <3>2. CASE i # m + 1
      <4>1. i \in 0..m
        BY <3>2
      <4>2. g[i] = FillTurn(g, st, b, v, start, i)
        BY <2>1, <4>1 DEF FillTurns
      <4> QED
        BY <2>3, <2>4, <4>1, <4>2
    <3> QED
      BY <3>1, <3>2
  <2>6. h = [i \in 0..(m + 1) |-> FillTurn(h, st, b, v, start, i)]
    <3>1. h = [i \in 0..(m + 1) |-> h[i]]
      BY <2>2
    <3> QED
      BY <2>5, <3>1
  <2>7. m + 1 \in 0..N
    OBVIOUS
  <2> QED
    BY <1>1, <2>6, <2>7 DEF FillTurns
<1>4. \A m \in 0..N : m \in T
  BY <1>2, <1>3, UpTo
<1>5. N \in 0..N
  OBVIOUS
<1> QED
  BY <1>1, <1>4, <1>5

(* After i turns: the bytes of the range so far were written, and when the  *)
(* pattern is not in the way they are the pattern's.                        *)
Apart(b, v, start, end) ==
    \/ b.mem # v.mem
    \/ (b.offset + start)..(b.offset + end - 1) \cap v.offset..(v.offset + v.length - 1) = {}

Filled(new, st, b, v, start, end, i) ==
    /\ SameShape(new, st)
    /\ \A m \in 1..Len(st) : m # b.mem => new[m] = st[m]
    /\ \A p \in DOMAIN st[b.mem] \ (b.offset + start)..(b.offset + start + i - 1) :
          new[b.mem][p] = st[b.mem][p]
    /\ Apart(b, v, start, end) =>
          \A j \in 0..(i - 1) : new[b.mem][b.offset + start + j] = View(st, v)[j % v.length]

LEMMA FillTurnKeeps ==
    ASSUME NEW st \in Seq(Memories), NEW b \in Windows, NEW v \in Windows,
           Inside(b, st), Inside(v, st), v.length > 0,
           NEW start \in Nat, NEW end \in Nat, end <= b.length,
           NEW i \in 0..(end - start - 1), NEW old, Filled(old, st, b, v, start, end, i),
           NEW new, new = Poke(old, b, At(start + i, <<View(old, v)[i % v.length]>>))
    PROVE  Filled(new, st, b, v, start, end, i + 1)
<1>1. /\ b.mem \in 1..Len(st) /\ b.offset \in Nat /\ b.length \in Nat
      /\ v.mem \in 1..Len(st) /\ v.offset \in Nat /\ v.length \in Nat
      /\ b.offset + b.length <= Length(st[b.mem])
  BY DEF Inside, Windows
<1>2. /\ SameShape(old, st) /\ old \in Seq(Memories) /\ Len(old) = Len(st)
      /\ Inside(b, old) /\ Inside(v, old)
      /\ \A m \in 1..Len(st) : DOMAIN old[m] = DOMAIN st[m]
  BY ShapeKept DEF Filled, SameShape
<1>3. PICK q \in 0..(v.length - 1) : q = i % v.length
  <2>1. PICK n \in Nat \ {0} : n = v.length
    BY <1>1
  <2>2. i % n \in 0..(n - 1)
    BY <2>1
  <2> QED
    BY <2>1, <2>2
<1>4. PICK x : x = View(old, v)[i % v.length]
  OBVIOUS
<1>5. x \in Byte /\ x = old[v.mem][v.offset + q] /\ v.offset + q \in DOMAIN st[v.mem]
  <2>1. View(old, v) \in [0..(v.length - 1) -> Byte]
    BY <1>2, Viewed
  <2>2. /\ View(old, v)[q] = old[v.mem][v.offset + q]
        /\ v.offset + q \in DOMAIN old[v.mem]
    BY <1>2, <1>3, Viewed
  <2>3. DOMAIN old[v.mem] = DOMAIN st[v.mem]
    BY <1>1, <1>2
  <2> QED
    BY <1>3, <1>4, <2>1, <2>2, <2>3
<1>6. start + i \in 0..(b.length - 1)
  BY <1>1
<1>7. /\ SameShape(new, old)
      /\ \A m \in 1..Len(st) : m # b.mem => new[m] = old[m]
      /\ \A p \in DOMAIN st[b.mem] :
            new[b.mem][p] = IF p = b.offset + (start + i) THEN x ELSE old[b.mem][p]
  <2>1. new = Poke(old, b, At(start + i, <<x>>))
    BY <1>4
  <2>2. DOMAIN old[b.mem] = DOMAIN st[b.mem]
    BY <1>1, <1>2
  <2>3. /\ SameShape(new, old)
        /\ \A m \in 1..Len(old) : m # b.mem => new[m] = old[m]
        /\ \A p \in DOMAIN old[b.mem] :
              new[b.mem][p] = IF p = b.offset + (start + i) THEN x ELSE old[b.mem][p]
    <3>1. new = PokeOne(old, b, start + i, x)
      BY <2>1 DEF PokeOne
    <3>2. OnePoked(PokeOne(old, b, start + i, x), old, b, start + i, x)
      BY <1>2, <1>5, <1>6, PokedOnce
    <3> QED
      BY <3>1, <3>2 DEF OnePoked
  <2> QED
    BY <1>2, <2>2, <2>3
<1>8. SameShape(new, st)
  BY <1>2, <1>7, ShapeKept
<1>9. \A m \in 1..Len(st) : m # b.mem => new[m] = st[m]
  BY <1>7 DEF Filled
<1>10. PICK n \in Nat : n = Length(st[b.mem]) /\ DOMAIN st[b.mem] = 0..(n - 1)
  <2>1. st[b.mem] \in Memories
    BY <1>1
  <2> QED
    BY <2>1, MemoryFacts
<1>11. ASSUME NEW p \in DOMAIN st[b.mem] \ (b.offset + start)..(b.offset + start + (i + 1) - 1)
       PROVE  new[b.mem][p] = st[b.mem][p]
  <2>1. /\ p \in 0..(n - 1) /\ p # b.offset + (start + i)
        /\ p \notin (b.offset + start)..(b.offset + start + i - 1)
    <3>1. PICK lo \in Nat : lo = b.offset + start
      BY <1>1
    <3>2. i \in Nat /\ b.offset + (start + i) = lo + i /\ lo + (i + 1) - 1 = lo + i
      BY <1>1, <3>1
    <3>3. p \in 0..(n - 1) /\ p \notin lo..(lo + i)
      BY <1>10, <3>1, <3>2
    <3>4. p # lo + i /\ p \notin lo..(lo + i - 1)
      BY <3>1, <3>2, <3>3
    <3> QED
      BY <3>1, <3>2, <3>3, <3>4
  <2>2. old[b.mem][p] = st[b.mem][p]
    BY <1>10, <2>1 DEF Filled
  <2> QED
    BY <1>7, <2>1, <2>2
<1>12. ASSUME Apart(b, v, start, end), NEW j \in 0..((i + 1) - 1)
       PROVE  new[b.mem][b.offset + start + j] = View(st, v)[j % v.length]
  <2>1. x = st[v.mem][v.offset + q]
    <3>1. CASE b.mem # v.mem
      BY <1>1, <1>5, <3>1 DEF Filled
    <3>2. CASE b.mem = v.mem
      <4>1. v.offset + q \notin (b.offset + start)..(b.offset + end - 1)
        <5>1. v.offset + q \in v.offset..(v.offset + v.length - 1)
          <6>1. PICK lo \in Nat, n1 \in Nat : lo = v.offset /\ n1 = v.length
            BY <1>1
          <6>2. q \in 0..(n1 - 1)
            BY <1>3, <6>1
          <6>3. lo + q \in lo..(lo + n1 - 1)
            <7>1. lo \in Nat /\ n1 \in Nat
              BY <6>1
            <7> QED
              BY <6>2, <7>1
          <6> QED
            BY <6>1, <6>3
        <5> QED
          BY <1>12, <3>2, <5>1 DEF Apart
      <4>2. v.offset + q \notin (b.offset + start)..(b.offset + start + i - 1)
        BY <1>1, <1>3, <4>1
      <4> QED
        BY <1>5, <3>2, <4>2 DEF Filled
    <3> QED
      BY <3>1, <3>2
  <2>2. x = View(st, v)[i % v.length]
    BY <1>3, <2>1, Viewed
  <2>3. b.offset + start + j \in DOMAIN st[b.mem]
    <3>1. PICK bo \in Nat, bl \in Nat : bo = b.offset /\ bl = b.length /\ bo + bl <= n
      BY <1>1, <1>10
    <3>2. j \in Nat /\ start + j < bl
      BY <3>1
    <3>3. bo + start + j \in 0..(n - 1)
      <4>1. bo \in Nat /\ bl \in Nat /\ n \in Nat /\ bo + bl <= n
        BY <1>10, <3>1
      <4> QED
        BY <3>2, <4>1
    <3> QED
      BY <1>10, <3>1, <3>3
  <2>4. CASE j = i
    <3>1. b.offset + start + j = b.offset + (start + i)
      BY <1>1, <2>4
    <3> QED
      BY <1>7, <2>2, <2>3, <2>4, <3>1
  <2>5. CASE j # i
    <3>1. j \in 0..(i - 1) /\ b.offset + start + j # b.offset + (start + i)
      BY <1>1, <2>5
    <3>2. old[b.mem][b.offset + start + j] = View(st, v)[j % v.length]
      BY <1>12, <3>1 DEF Filled
    <3> QED
      BY <1>7, <2>3, <3>1, <3>2
  <2> QED
    BY <2>4, <2>5
<1> QED
  BY <1>8, <1>9, <1>11, <1>12 DEF Filled

LEMMA FillFills ==
    ASSUME NEW st \in Seq(Memories), NEW b \in Windows, NEW v \in Windows,
           Inside(b, st), Inside(v, st), v.length > 0,
           NEW start \in Nat, NEW end \in Nat, start < end, end <= b.length
    PROVE  Filled(FillBuffer(st, b, v, start, end), st, b, v, start, end, end - start)
<1>1. PICK N \in Nat : N = end - start
  OBVIOUS
<1>2. PICK g : g = CHOOSE h : FillTurns(h, N, st, b, v, start)
  OBVIOUS
<1>3. FillTurns(g, N, st, b, v, start)
  BY <1>1, <1>2, FillTurnsExist
<1>4. FillBuffer(st, b, v, start, end) = g[N]
  <2>1. ~(end <= start)
    OBVIOUS
  <2> QED
    BY <1>1, <1>2, <2>1 DEF FillBuffer, FillTurns, FillTurn
<1>5. \A i \in 0..N : g[i] = FillTurn(g, st, b, v, start, i)
  BY <1>3 DEF FillTurns
<1>6. PICK T : T = {i \in 0..N : Filled(g[i], st, b, v, start, end, i)}
  OBVIOUS
<1>7. 0 \in T
  <2>1. g[0] = st
    <3>1. 0 \in 0..N
      BY <1>1
    <3> QED
      BY <1>5, <3>1 DEF FillTurn
  <2>2. b.offset \in Nat
    BY DEF Windows
  <2>3. Filled(st, st, b, v, start, end, 0)
    BY <2>2, ShapeRefl DEF Filled
  <2> QED
    BY <1>1, <1>6, <2>1, <2>3
<1>8. ASSUME NEW i \in 0..(N - 1), i \in T PROVE i + 1 \in T
  <2>1. i + 1 \in 0..N /\ i + 1 # 0 /\ (i + 1) - 1 = i /\ start + (i + 1) - 1 = start + i
    BY <1>1
  <2>2. g[i + 1] = FillTurn(g, st, b, v, start, i + 1)
    BY <1>5, <2>1
  <2>3. g[i + 1] = Poke(g[i], b, At(start + i, <<View(g[i], v)[i % v.length]>>))
    BY <2>1, <2>2 DEF FillTurn
  <2>4. Filled(g[i], st, b, v, start, end, i)
    BY <1>6, <1>8
  <2>5. i \in 0..(end - start - 1)
    BY <1>1
  <2>6. Filled(g[i + 1], st, b, v, start, end, i + 1)
    BY <2>3, <2>4, <2>5, FillTurnKeeps
  <2> QED
    BY <1>6, <2>1, <2>6
<1>9. \A i \in 0..N : i \in T
  BY <1>1, <1>7, <1>8, UpTo
<1>10. N \in 0..N
  BY <1>1
<1>11. Filled(g[N], st, b, v, start, end, N)
  BY <1>6, <1>9, <1>10
<1> QED
  BY <1>1, <1>4, <1>11

-----------------------------------------------------------------------------
(* The calls keep the invariant.                                            *)

LEMMA CreateKeeps ==
    ASSUME BufferInv, NEW n \in Nat, NEW bytes \in [0..(n - 1) -> Byte], Create(bytes)
    PROVE  BufferInv'
<1>1. bytes \in Memories /\ Length(bytes) = n
  BY MemoryOf
<1>2. /\ store' = Append(store, bytes) /\ store \in Seq(Memories)
      /\ bufs' = Append(bufs, Window(Len(store) + 1, 0, n)) /\ bufs \in Seq(Windows)
      /\ calls' \in 0..MaxCalls
  <2>1. store \in Seq(Memories) /\ bufs \in Seq(Windows) /\ calls \in 0..MaxCalls
    BY DEF BufferInv
  <2>2. store' = Append(store, bytes) /\ bufs' = Append(bufs, Window(Len(store) + 1, 0, n))
    BY <1>1 DEF Create
  <2>3. calls < MaxCalls /\ calls' = calls + 1
    BY DEF Create, Call
  <2>4. calls' \in 0..MaxCalls
    BY <2>1, <2>3, BufferAssumption
  <2> QED
    BY <2>1, <2>2, <2>4
<1>3. PICK w : w = Window(Len(store) + 1, 0, n)
  OBVIOUS
<1>4. w \in Windows /\ w.mem = Len(store) + 1 /\ w.offset = 0 /\ w.length = n
  BY <1>2, <1>3 DEF Window, Windows
<1>5. /\ store' \in Seq(Memories) /\ Len(store') = Len(store) + 1
      /\ store'[Len(store) + 1] = bytes /\ \A m \in 1..Len(store) : store'[m] = store[m]
  BY <1>1, <1>2
<1>6. /\ bufs' \in Seq(Windows) /\ Len(bufs') = Len(bufs) + 1
      /\ bufs'[Len(bufs) + 1] = w /\ \A i \in 1..Len(bufs) : bufs'[i] = bufs[i]
  BY <1>2, <1>3, <1>4
<1>7. ASSUME NEW i \in 1..Len(bufs') PROVE Inside(bufs'[i], store')
  <2>1. i = Len(bufs) + 1 \/ i \in 1..Len(bufs)
    BY <1>2, <1>6
  <2>2. CASE i = Len(bufs) + 1
    BY <1>1, <1>2, <1>4, <1>5, <1>6, <2>2 DEF Inside
  <2>3. CASE i \in 1..Len(bufs)
    <3>1. Inside(bufs[i], store)
      BY <2>3 DEF BufferInv
    <3>2. bufs[i].mem \in 1..Len(store) /\ bufs[i].mem \in 1..Len(store')
      BY <1>2, <1>5, <3>1 DEF Inside
    <3> QED
      BY <1>5, <1>6, <2>3, <3>1, <3>2 DEF Inside
  <2> QED
    BY <2>1, <2>2, <2>3
<1>8. ASSUME NEW m \in 1..Len(store') PROVE Length(store'[m]) <= KMaxLength
  <2>1. m = Len(store) + 1 \/ m \in 1..Len(store)
    BY <1>2, <1>5
  <2>2. Length(bytes) <= KMaxLength
    BY DEF Create
  <2>3. \A j \in 1..Len(store) : Length(store[j]) <= KMaxLength
    BY DEF BufferInv
  <2> QED
    BY <1>5, <2>1, <2>2, <2>3
<1> QED
  BY <1>2, <1>5, <1>6, <1>7, <1>8 DEF BufferInv

LEMMA ShareKeeps ==
    ASSUME BufferInv, NEW w \in Windows, Inside(w, store), Share(w)
    PROVE  BufferInv'
<1>1. /\ store' = store /\ store \in Seq(Memories)
      /\ bufs' = Append(bufs, w) /\ bufs \in Seq(Windows) /\ calls' \in 0..MaxCalls
  BY BufferAssumption DEF BufferInv, Share, Call
<1>2. /\ bufs' \in Seq(Windows) /\ Len(bufs') = Len(bufs) + 1
      /\ bufs'[Len(bufs) + 1] = w /\ \A i \in 1..Len(bufs) : bufs'[i] = bufs[i]
  BY <1>1
<1>3. ASSUME NEW i \in 1..Len(bufs') PROVE Inside(bufs'[i], store')
  <2>1. i = Len(bufs) + 1 \/ i \in 1..Len(bufs)
    BY <1>1, <1>2
  <2>2. CASE i = Len(bufs) + 1
    BY <1>1, <1>2, <2>2
  <2>3. CASE i \in 1..Len(bufs)
    BY <1>1, <1>2, <2>3 DEF BufferInv
  <2> QED
    BY <2>1, <2>2, <2>3
<1> QED
  BY <1>1, <1>2, <1>3 DEF BufferInv

LEMMA AssignKeeps ==
    ASSUME BufferInv, NEW st, SameShape(st, store), Assign(st)
    PROVE  BufferInv'
<1>1. /\ store' = st /\ store \in Seq(Memories) /\ bufs' = bufs /\ bufs \in Seq(Windows)
      /\ calls' \in 0..MaxCalls
  BY BufferAssumption DEF BufferInv, Assign, Call
<1>2. \A i \in 1..Len(bufs) : Inside(bufs[i], st)
  BY <1>1, ShapeKept DEF BufferInv
<1>3. /\ st \in Seq(Memories)
      /\ \A m \in 1..Len(st) : Length(st[m]) <= KMaxLength
  BY DEF SameShape, BufferInv
<1> QED
  BY <1>1, <1>2, <1>3 DEF BufferInv

(* slice stays inside of the window it is taken from.                       *)
LEMMA SliceInside ==
    ASSUME NEW st \in Seq(Memories), NEW b \in Windows, Inside(b, st),
           NEW start \in Int, NEW end \in Int
    PROVE  Slice(b, start, end) \in Windows /\ Inside(Slice(b, start, end), st)
<1>1. PICK len \in Nat, off \in Nat : len = b.length /\ off = b.offset
  BY DEF Windows
<1>2. \A x \in Int : Clamp(x, len) \in 0..len
  <2> SUFFICES ASSUME NEW x \in Int PROVE Clamp(x, len) \in 0..len
    OBVIOUS
  <2>1. CASE x < 0 /\ x + len < 0
    BY <1>1, <2>1 DEF Clamp
  <2>2. CASE x < 0 /\ ~(x + len < 0)
    <3>1. Clamp(x, len) = x + len
      BY <1>1, <2>2 DEF Clamp
    <3> QED
      BY <1>1, <2>2, <3>1
  <2>3. CASE ~(x < 0) /\ x > len
    BY <1>1, <2>3 DEF Clamp
  <2>4. CASE ~(x < 0) /\ ~(x > len)
    BY <1>1, <2>4 DEF Clamp
  <2> QED
    BY <2>1, <2>2, <2>3, <2>4
<1>3. PICK s \in 0..len, e \in 0..len : s = Clamp(start, len) /\ e = Clamp(end, len)
  BY <1>2
<1>4. PICK l \in Nat : l = (IF e < s THEN 0 ELSE e - s) /\ s + l <= len
  <2>1. CASE e < s
    BY <1>1, <1>3, <2>1
  <2>2. CASE ~(e < s)
    BY <1>1, <1>3, <2>2
  <2> QED
    BY <2>1, <2>2
<1>5. Slice(b, start, end) = [mem |-> b.mem, offset |-> off + s, length |-> l]
  BY <1>1, <1>3, <1>4 DEF Slice, Window
<1>6. off + s \in Nat /\ off + s + l <= off + len
  <2>1. off \in Nat /\ len \in Nat /\ l \in Nat /\ s \in Nat /\ s + l <= len
    BY <1>1, <1>3, <1>4
  <2> QED
    BY <2>1
<1>7. b.mem \in Nat /\ b.mem \in 1..Len(st) /\ off + len <= Length(st[b.mem])
  BY <1>1 DEF Inside, Windows
<1>8. Slice(b, start, end) \in Windows
  BY <1>4, <1>5, <1>6, <1>7 DEF Windows
<1>9. off + s + l <= Length(st[b.mem])
  <2>1. st[b.mem] \in Memories
    BY <1>7
  <2>2. PICK a \in Nat : a = Length(st[b.mem])
    BY <2>1, MemoryFacts
  <2>3. off + len <= a
    BY <1>7, <2>2
  <2>4. PICK z \in Nat : z = off + s /\ z + l <= off + len
    BY <1>6
  <2>5. z + l <= a
    <3>1. off \in Nat /\ len \in Nat /\ l \in Nat /\ a \in Nat /\ z \in Nat
      BY <1>1, <1>4, <2>2, <2>4
    <3>2. z + l <= off + len /\ off + len <= a
      BY <2>3, <2>4
    <3> QED
      BY <3>1, <3>2
  <2> QED
    BY <2>2, <2>4, <2>5
<1> QED
  BY <1>5, <1>7, <1>8, <1>9 DEF Inside

(* concat takes every byte from one of the pieces, inside of it, or is 0.   *)
Behind(pos, list) ==
    pos = [i \in 1..(Len(list) + 1) |-> IF i = 1 THEN 0 ELSE pos[i - 1] + Length(list[i - 1])]

LEMMA ConcatBytes ==
    ASSUME NEW x \in Memories, NEW y \in Memories, NEW length \in Nat
    PROVE  Concat(<<x, y>>, length) \in [0..(length - 1) -> Byte]
<1>1. PICK lx \in Nat, ly \in Nat :
        /\ lx = Length(x) /\ x \in [0..(lx - 1) -> Byte]
        /\ ly = Length(y) /\ y \in [0..(ly - 1) -> Byte]
  BY MemoryFacts
<1>2. PICK list : list = <<x, y>>
  OBVIOUS
<1>3. Len(list) = 2 /\ list[1] = x /\ list[2] = y
  BY <1>2
<1>4. \E p : Behind(p, list)
  <2>1. PICK p : p = [i \in 1..3 |-> IF i = 1 THEN 0 ELSE IF i = 2 THEN lx ELSE lx + ly]
    OBVIOUS
  <2>2. p[1] = 0 /\ p[2] = lx /\ p[3] = lx + ly
    BY <2>1
  <2>3. ASSUME NEW i \in 1..3
        PROVE  p[i] = IF i = 1 THEN 0 ELSE p[i - 1] + Length(list[i - 1])
    <3>1. i = 1 \/ i = 2 \/ i = 3
      OBVIOUS
    <3>2. CASE i = 1
      BY <2>2, <3>2
    <3>3. CASE i = 2
      BY <1>1, <1>3, <2>2, <3>3
    <3>4. CASE i = 3
      BY <1>1, <1>3, <2>2, <3>4
    <3> QED
      BY <3>1, <3>2, <3>3, <3>4
  <2>4. p = [i \in 1..3 |-> p[i]]
    BY <2>1
  <2>5. p = [i \in 1..3 |-> IF i = 1 THEN 0 ELSE p[i - 1] + Length(list[i - 1])]
    BY <2>3, <2>4
  <2>6. Len(list) + 1 = 3
    BY <1>3
  <2> QED
    BY <2>5, <2>6 DEF Behind
<1>5. PICK pos : pos = CHOOSE p : Behind(p, list)
  OBVIOUS
<1>6. Behind(pos, list)
  BY <1>4, <1>5
<1>7. pos[1] = 0 /\ pos[2] = lx /\ pos[3] = lx + ly
  <2>1. \A i \in 1..3 : pos[i] = IF i = 1 THEN 0 ELSE pos[i - 1] + Length(list[i - 1])
    BY <1>3, <1>6 DEF Behind
  <2>2. pos[1] = 0
    BY <2>1
  <2>3. pos[2] = lx
    BY <1>1, <1>3, <2>1, <2>2
  <2>4. pos[3] = lx + ly
    BY <1>1, <1>3, <2>1, <2>3
  <2> QED
    BY <2>2, <2>3, <2>4
<1> DEFINE From(j) == {i \in 1..Len(list) : j \in pos[i]..(pos[i + 1] - 1)}
           Source(j) == CHOOSE i \in From(j) : TRUE
<1>9. Concat(list, length) =
        [j \in 0..(length - 1) |-> IF From(j) = {} THEN 0 ELSE list[Source(j)][j - pos[Source(j)]]]
  BY <1>5 DEF Concat, Behind
<1>10. ASSUME NEW j \in 0..(length - 1), NEW i \in From(j) PROVE list[i][j - pos[i]] \in Byte
  <2>1. i \in 1..2 /\ j \in pos[i]..(pos[i + 1] - 1)
    BY <1>3, <1>10
  <2>2. CASE i = 1
    <3>1. j \in 0..(lx - 1) /\ j - pos[1] = j
      BY <1>7, <2>1, <2>2
    <3> QED
      BY <1>1, <1>3, <2>2, <3>1
  <2>3. CASE i = 2
    <3>1. j \in lx..(lx + ly - 1) /\ pos[2] = lx
      BY <1>7, <2>1, <2>3
    <3>2. j - lx \in 0..(ly - 1)
      BY <1>1, <3>1
    <3> QED
      BY <1>1, <1>3, <2>3, <3>1, <3>2
  <2> QED
    BY <2>1, <2>2, <2>3
<1>11. 0 \in Byte
  BY ByteFacts DEF Byte
<1>12. ASSUME NEW j \in 0..(length - 1), From(j) # {}
       PROVE  list[Source(j)][j - pos[Source(j)]] \in Byte
  <2>1. PICK i : i = Source(j)
    OBVIOUS
  <2>2. i \in From(j)
    BY <1>12, <2>1
  <2> QED
    BY <1>10, <2>1, <2>2
<1> QED
  BY <1>2, <1>9, <1>11, <1>12

-----------------------------------------------------------------------------
(* copy: the range it moves is inside of both windows.                      *)

Wanted(b, c, t, s, e) == Min2(Min2(e, b.length) - s, c.length - t)

LEMMA CopyRangeIs ==
    ASSUME NEW b \in Windows, NEW c \in Windows, NEW t \in Int, NEW s \in Int, NEW e \in Int,
           NEW r, r = CopyRange(b, c, t, s, e), r.ok
    PROVE  /\ r.count \in Int /\ Wanted(b, c, t, s, e) \in Int
           /\ IF s >= 0 /\ t >= 0 /\ Wanted(b, c, t, s, e) > 0
              THEN r.count = Wanted(b, c, t, s, e) /\ r.from = s /\ r.to = t
              ELSE r.count <= 0
           /\ r.count > 0 => /\ s + r.count <= b.length /\ t + r.count <= c.length
           /\ r.from \in Int /\ r.to \in Int
<1>1. PICK bl \in Nat, cl \in Nat : bl = b.length /\ cl = c.length
  BY DEF Windows
<1>2. PICK ts \in Int : ts = IF t >= cl THEN cl ELSE t
  BY <1>1
<1>3. PICK e1 \in Int : e1 = IF e > 0 /\ e < s THEN s ELSE e
  BY <1>1
<1>4. PICK e2 \in Int : e2 = IF e1 > bl THEN bl ELSE e1
  BY <1>1, <1>3
<1>5. PICK e3 \in Int : e3 = IF cl - ts < e2 - s THEN cl - ts + s ELSE e2
  BY <1>1, <1>2, <1>4
<1>6. r = CASE e1 = s \/ cl = 0 \/ bl = 0 -> [ok |-> TRUE, count |-> 0, from |-> 0, to |-> 0]
            [] ~(e1 = s \/ cl = 0 \/ bl = 0) /\ (ts < 0 \/ s < 0 \/ s >= bl \/ e1 < 0) ->
                  [ok |-> FALSE, count |-> 0, from |-> 0, to |-> 0]
            [] OTHER -> [ok |-> TRUE, count |-> e3 - s, from |-> s, to |-> ts]
  BY <1>1, <1>2, <1>3, <1>4, <1>5 DEF CopyRange
<1>9. PICK m \in Int : m = Min2(e, bl)
  BY <1>1 DEF Min2
<1>10. PICK n \in Int : n = Min2(m - s, cl - t)
  BY <1>1, <1>9 DEF Min2
<1>11. n = Wanted(b, c, t, s, e)
  BY <1>1, <1>9, <1>10 DEF Wanted
<1>12. /\ m <= e /\ m <= bl /\ (m = e \/ m = bl)
       /\ n <= m - s /\ n <= cl - t /\ (n = m - s \/ n = cl - t)
  <2>1. m <= e /\ m <= bl /\ (m = e \/ m = bl)
    BY <1>1, <1>9 DEF Min2
  <2>2. PICK x \in Int, y \in Int : x = m - s /\ y = cl - t
    BY <1>1, <1>9
  <2>3. n <= x /\ n <= y /\ (n = x \/ n = y)
    BY <1>10, <2>2 DEF Min2
  <2> QED
    BY <2>1, <2>2, <2>3
<1>13. CASE e1 = s \/ cl = 0 \/ bl = 0
  <2>1. r.count = 0 /\ r.from = 0 /\ r.to = 0
    BY <1>6, <1>13
  <2>2. ASSUME s >= 0, t >= 0, n > 0 PROVE FALSE
    <3>1. CASE e1 = s
      BY <1>1, <1>3, <1>9, <1>10, <1>12, <2>2, <3>1
    <3>2. CASE cl = 0
      BY <1>1, <1>9, <1>10, <1>12, <2>2, <3>2
    <3>3. CASE bl = 0
      BY <1>1, <1>9, <1>10, <1>12, <2>2, <3>3
    <3> QED
      BY <1>13, <3>1, <3>2, <3>3
  <2> QED
    BY <1>10, <1>11, <2>1, <2>2
<1>14. CASE ~(e1 = s \/ cl = 0 \/ bl = 0) /\ (ts < 0 \/ s < 0 \/ s >= bl \/ e1 < 0)
  BY <1>6, <1>14
<1>15. CASE ~(e1 = s \/ cl = 0 \/ bl = 0) /\ ~(ts < 0 \/ s < 0 \/ s >= bl \/ e1 < 0)
  <2>1. r.count = e3 - s /\ r.from = s /\ r.to = ts
    BY <1>6, <1>15
  <2>2. PICK q \in Int : q = e3 - s
    BY <1>5
  <2>3. ASSUME s >= 0, t >= 0, n > 0 PROVE q = n /\ ts = t
    BY <1>1, <1>2, <1>3, <1>4, <1>5, <1>9, <1>10, <1>12, <1>15, <2>2, <2>3
  <2>4. ASSUME q > 0 PROVE s >= 0 /\ t >= 0 /\ n > 0
    <3>1. s >= 0 /\ e1 >= 0 /\ e1 # s /\ ts >= 0 /\ t >= 0
      BY <1>1, <1>2, <1>3, <1>15
    <3>2. e3 > s /\ e2 > s /\ e1 > s /\ cl - ts > 0
      BY <1>1, <1>2, <1>3, <1>4, <1>5, <2>2, <2>4
    <3>3. e > s /\ bl > s /\ t < cl
      BY <1>1, <1>2, <1>3, <1>15, <3>1, <3>2
    <3>4. m > s
      BY <1>1, <1>9, <1>12, <3>3
    <3>5. n > 0
      BY <1>1, <1>9, <1>10, <1>12, <3>3, <3>4
    <3> QED
      BY <3>1, <3>5
  <2>5. q > 0 => s + q <= bl /\ t + q <= cl
    BY <1>1, <1>9, <1>10, <1>12, <2>2, <2>3, <2>4
  <2> QED
    BY <1>1, <1>2, <1>10, <1>11, <2>1, <2>2, <2>3, <2>4, <2>5
<1> QED
  BY <1>13, <1>14, <1>15

(* What copy leaves behind.                                                 *)
Copied(new, st, b, c, t, s, n) ==
    /\ SameShape(new, st)
    /\ \A i \in DOMAIN st[c.mem] :
          i \notin (c.offset + t)..(c.offset + t + n - 1) => new[c.mem][i] = st[c.mem][i]
    /\ \A i \in 0..(n - 1) : new[c.mem][c.offset + t + i] = View(st, b)[s + i]

LEMMA CopyCopies ==
    ASSUME NEW st \in Seq(Memories), NEW b \in Windows, NEW c \in Windows,
           Inside(b, st), Inside(c, st), NEW t \in Int, NEW s \in Int, NEW e \in Int,
           NEW r, r = CopyRange(b, c, t, s, e), r.ok
    PROVE  Copied(CopyBytes(st, b, c, r), st, b, c, t, s, r.count)
<1>1. PICK n \in Int : n = r.count
  BY CopyRangeIs
<1>2. /\ n > 0 => /\ r.from = s /\ r.to = t /\ s >= 0 /\ t >= 0
                  /\ s + n <= b.length /\ t + n <= c.length
      /\ r.from \in Int /\ r.to \in Int
  BY <1>1, CopyRangeIs
<1>3. PICK from \in Int, to \in Int : from = r.from /\ to = r.to
  BY <1>2
<1>4. PICK f : f = [i \in to..(to + n - 1) |-> View(st, b)[from + i - to]]
  OBVIOUS
<1>5. CopyBytes(st, b, c, r) = Poke(st, c, f)
  BY <1>1, <1>3, <1>4 DEF CopyBytes
<1>6. PICK bl \in Nat, cl \in Nat, co \in Nat : bl = b.length /\ cl = c.length /\ co = c.offset
  BY DEF Windows
<1>7a. n > 0 => from = s /\ to = t /\ s >= 0 /\ t >= 0 /\ s + n <= bl /\ t + n <= cl
  BY <1>1, <1>2, <1>3, <1>6
<1>7. ASSUME NEW i \in to..(to + n - 1)
      PROVE  n > 0 /\ from + i - to \in 0..(bl - 1) /\ i \in 0..(cl - 1)
  <2>1. n > 0 /\ i \in Int /\ to <= i /\ i <= to + n - 1
    BY <1>1, <1>3
  <2>2. /\ n \in Int /\ bl \in Nat /\ cl \in Nat
        /\ from = s /\ to = t /\ s >= 0 /\ t >= 0 /\ s + n <= bl /\ t + n <= cl
    BY <1>1, <1>6, <1>7a, <2>1
  <2> QED
    BY <2>1, <2>2
<1>8. \A i \in 0..(bl - 1) : View(st, b)[i] \in Byte
  BY <1>6, Viewed
<1>9. \A i \in to..(to + n - 1) : f[i] \in Byte /\ f[i] = View(st, b)[from + i - to]
  BY <1>4, <1>7, <1>8
<1>10. Written(f, c) = to..(to + n - 1)
  BY <1>4, <1>6, <1>7 DEF Written
<1>11. PICK new : new = Poke(st, c, f)
  OBVIOUS
<1>12. /\ SameShape(new, st)
       /\ \A i \in DOMAIN st[c.mem] :
             new[c.mem][i] = IF i - co \in Written(f, c) THEN f[i - co] % Base ELSE st[c.mem][i]
  <2>1. \A i \in Written(f, c) : f[i] \in Int
    <3>1. \A i \in Written(f, c) : f[i] \in Byte
      BY <1>9, <1>10
    <3>2. \A x \in Byte : x \in Int
      BY ByteFacts
    <3> QED
      BY <3>1, <3>2
  <2> QED
    BY <1>6, <1>11, <2>1, Poked
<1>13. PICK len \in Nat : DOMAIN st[c.mem] = 0..(len - 1) /\ co + cl <= len
  <2>1. c.mem \in 1..Len(st) /\ c.offset + c.length <= Length(st[c.mem])
    BY DEF Inside
  <2>2. st[c.mem] \in Memories
    BY <2>1
  <2> QED
    BY <1>6, <2>1, <2>2, MemoryFacts
<1>14. ASSUME NEW i \in DOMAIN st[c.mem], i \notin (c.offset + t)..(c.offset + t + n - 1)
       PROVE  new[c.mem][i] = st[c.mem][i]
  <2>1. i - co \notin Written(f, c)
    <3>1. i \in Int /\ i \notin (co + t)..(co + t + n - 1)
      BY <1>6, <1>13, <1>14
    <3>2. ASSUME i - co \in to..(to + n - 1) PROVE FALSE
      <4>1. n > 0 /\ to = t /\ n \in Int /\ co \in Nat
        BY <1>1, <1>6, <1>7, <1>7a, <3>2
      <4> QED
        BY <3>1, <3>2, <4>1
    <3> QED
      BY <1>10, <3>2
  <2> QED
    BY <1>12, <2>1
<1>15. ASSUME NEW i \in 0..(n - 1)
       PROVE  new[c.mem][c.offset + t + i] = View(st, b)[s + i]
  <2>1. n > 0 /\ to = t /\ from = s /\ t >= 0
    <3>1. n \in Int /\ n > 0
      BY <1>1
    <3> QED
      BY <1>7a, <3>1
  <2>2. t + i \in to..(to + n - 1) /\ from + (t + i) - to = s + i /\ (co + t + i) - co = t + i
    <3>1. co \in Nat /\ n \in Int /\ i \in Int /\ 0 <= i /\ i <= n - 1
      BY <1>1, <1>6
    <3> QED
      BY <2>1, <3>1
  <2>3. co + t + i \in 0..(len - 1)
    <3>1. i \in Nat /\ i < n /\ t + n <= cl
      BY <1>1, <1>7a, <2>1
    <3>2. n \in Int /\ len \in Nat /\ co \in Nat /\ cl \in Nat /\ co + cl <= len /\ t >= 0
      BY <1>1, <1>6, <1>13, <2>1
    <3> QED
      BY <3>1, <3>2
  <2>4. f[t + i] \in Byte /\ f[t + i] = View(st, b)[s + i]
    BY <1>9, <2>2
  <2>5. new[c.mem][co + t + i] = f[t + i] % Base
    BY <1>10, <1>12, <1>13, <2>2, <2>3
  <2>6. f[t + i] % Base = f[t + i]
    BY <2>4, ByteFacts
  <2> QED
    BY <1>6, <2>4, <2>5, <2>6
<1> QED
  BY <1>1, <1>5, <1>11, <1>12, <1>14, <1>15 DEF Copied

-----------------------------------------------------------------------------
(* The other writes.                                                        *)

LEMMA FillNumberKeeps ==
    ASSUME NEW st \in Seq(Memories), NEW b \in Windows, Inside(b, st), NEW n \in Int,
           NEW start, NEW end
    PROVE  SameShape(FillNumber(st, b, n, start, end), st)
<1>1. PICK f : f = [i \in start..(end - 1) |-> n]
  OBVIOUS
<1>2. \A i \in Written(f, b) : f[i] \in Int
  BY <1>1 DEF Written
<1> QED
  BY <1>1, <1>2, Poked DEF FillNumber

LEMMA FillBufferKeeps ==
    ASSUME NEW st \in Seq(Memories), NEW b \in Windows, NEW v \in Windows,
           Inside(b, st), Inside(v, st), v.length > 0, NEW start \in Int, NEW end \in Int,
           FillRange(b, start, end)
    PROVE  SameShape(FillBuffer(st, b, v, start, end), st)
<1>1. b.length \in Nat /\ start \in Nat /\ end <= b.length
  BY DEF FillRange, Windows
<1>2. CASE end <= start
  BY <1>2, ShapeRefl DEF FillBuffer
<1>3. CASE ~(end <= start)
  <2>1. end \in Nat /\ start < end
    BY <1>1, <1>3
  <2> QED
    BY <1>1, <2>1, FillFills DEF Filled
<1> QED
  BY <1>2, <1>3

LEMMA SwapKeeps ==
    ASSUME NEW st \in Seq(Memories), NEW b \in Windows, Inside(b, st),
           NEW n \in {2, 4, 8}, b.length % n = 0
    PROVE  SameShape(Poke(st, b, Swapped(View(st, b), n)), st)
<1>1. PICK a : a = View(st, b)
  OBVIOUS
<1>2. PICK len \in Nat : len = b.length
  BY DEF Windows
<1>3. a \in [0..(len - 1) -> Byte]
  BY <1>1, <1>2, Viewed
<1>4. PICK f : f = [i \in 0..(len - 1) |-> a[(i \div n) * n + (n - 1 - (i % n))]]
  OBVIOUS
<1>5. Swapped(View(st, b), n) = f
  BY <1>1, <1>3, <1>4 DEF Swapped
<1>6. ASSUME NEW i \in 0..(len - 1)
      PROVE  (i \div n) * n + (n - 1 - (i % n)) \in 0..(len - 1)
  <2>1. CASE n = 2
    BY <1>2, <2>1
  <2>2. CASE n = 4
    BY <1>2, <2>2
  <2>3. CASE n = 8
    BY <1>2, <2>3
  <2> QED
    BY <2>1, <2>2, <2>3
<1>7. \A i \in Written(f, b) : f[i] \in Int
  <2>1. \A i \in 0..(len - 1) : f[i] \in Byte
    BY <1>3, <1>4, <1>6
  <2>2. \A x \in Byte : x \in Int
    BY ByteFacts
  <2> QED
    BY <1>2, <2>1, <2>2 DEF Written
<1> QED
  BY <1>5, <1>7, Poked

LEMMA ValuesInts ==
    ASSUME NEW k \in Accessors
    PROVE  Values(k) \subseteq Int
<1>1. k.width \in 0..8 /\ 2 \in 0..8
  BY DEF Accessors, Accessor
<1>2. PICK p \in Nat : p = Base^k.width
  BY <1>1, Powers
<1>3. PICK q \in Nat : q = Base^2
  BY <1>1, Powers
<1>4. p \div 2 \in Int /\ q \div 2 \in Int /\ Base \in Int
  BY <1>2, <1>3, ByteFacts
<1>5. Lowest(k) \in Int /\ Highest(k) \in Int
  BY <1>2, <1>4 DEF Lowest, Highest
<1>6. PICK lo \in Int, hi \in Int : lo = Lowest(k) /\ hi = Highest(k)
  BY <1>5
<1>7. {lo, lo + 1, -Base, -1, 0, 1, Base - 1, Base, q \div 2, hi - 1, hi} \subseteq Int
  BY <1>4, <1>6
<1> QED
  BY <1>3, <1>6, <1>7 DEF Values

LEMMA PositionInt ==
    ASSUME NEW k, NEW o \in Int
    PROVE  Position(k, o) \in Int
<1>1. PICK p \in Nat \ {0} : p = Base^4
  BY PowerFacts
<1> QED
  BY <1>1 DEF Position, Uint32

-----------------------------------------------------------------------------
(* The invariant.                                                           *)

LEMMA BufferOf ==
    ASSUME BufferInv, NEW b \in Range(bufs)
    PROVE  b \in Windows /\ Inside(b, store)
<1>1. PICK i \in DOMAIN bufs : b = bufs[i]
  BY DEF Range
<1>2. i \in 1..Len(bufs)
  BY <1>1 DEF BufferInv
<1> QED
  BY <1>1, <1>2 DEF BufferInv

LEMMA InitBuffer == Init => BufferInv
BY BufferAssumption DEF Init, BufferInv

LEMMA NextKeepsBuffer ==
    ASSUME BufferInv, Next
    PROVE  BufferInv'
<1>0. store \in Seq(Memories) /\ Offsets \subseteq Int /\ Items \subseteq Int /\ Sizes \subseteq Nat
  BY BufferAssumption DEF BufferInv
<1>1. ASSUME NEW n \in Sizes, NEW v \in Items, Alloc(n, v) PROVE BufferInv'
  <2>1. PICK bytes : bytes = [i \in 0..(n - 1) |-> v % Base]
    OBVIOUS
  <2>2. n \in Nat /\ v % Base \in Byte
    BY <1>0, ByteFacts
  <2>3. bytes \in [0..(n - 1) -> Byte] /\ Create(bytes)
    BY <1>1, <2>1, <2>2 DEF Alloc
  <2> QED
    BY <2>2, <2>3, CreateKeeps
<1>2. ASSUME NEW s \in Pairs, FromArrayLike(<<s[1], s[2], 1, s[1]>>) PROVE BufferInv'
  <2>1. PICK array : array = <<s[1], s[2], 1, s[1]>>
    OBVIOUS
  <2>2. Len(array) = 4 /\ \A i \in 1..4 : array[i] \in Int
    <3>1. s[1] \in Int /\ s[2] \in Int
      <4>1. PICK x \in Items, y \in Items : s = <<x, y>>
        BY DEF Pairs
      <4>2. x \in Int /\ y \in Int
        BY <1>0, <4>1
      <4> QED
        BY <4>1, <4>2
    <3> QED
      BY <2>1, <3>1
  <2>3. PICK bytes : bytes = [i \in 0..(4 - 1) |-> array[i + 1] % Base]
    OBVIOUS
  <2>4. \A i \in 0..(4 - 1) : array[i + 1] % Base \in Byte
    <3>1. \A i \in 0..(4 - 1) : i + 1 \in 1..4
      OBVIOUS
    <3> QED
      BY <2>2, <3>1, ByteFacts
  <2>5. bytes \in [0..(4 - 1) -> Byte] /\ Create(bytes)
    BY <1>2, <2>1, <2>2, <2>3, <2>4 DEF FromArrayLike
  <2> QED
    BY <2>5, CreateKeeps
<1>3. ASSUME NEW b \in Range(bufs), FromArrayView(b) PROVE BufferInv'
  <2>1. b \in Windows /\ Inside(b, store) /\ b.length \in Nat
    BY BufferOf DEF Windows
  <2>2. Bytes(b) \in [0..(b.length - 1) -> Byte]
    BY <1>0, <2>1, Viewed DEF Bytes
  <2> QED
    BY <1>3, <2>1, <2>2, CreateKeeps DEF FromArrayView
<1>4. ASSUME NEW b \in Range(bufs), NEW s \in Offsets, NEW e \in Offsets, SliceBuffer(b, s, e)
      PROVE  BufferInv'
  <2>1. Slice(b, s, e) \in Windows /\ Inside(Slice(b, s, e), store)
    BY <1>0, BufferOf, SliceInside
  <2> QED
    BY <1>4, <2>1, ShareKeeps DEF SliceBuffer
<1>5. ASSUME NEW b \in Range(bufs), NEW n \in {2, 4, 8}, Swap(b, n) PROVE BufferInv'
  <2>1. SameShape(Poke(store, b, Swapped(Bytes(b), n)), store)
    BY <1>0, <1>5, BufferOf, SwapKeeps DEF Swap, Bytes
  <2> QED
    BY <1>5, <2>1, AssignKeeps DEF Swap
<1>6. ASSUME NEW b \in Range(bufs), NEW v \in Items, NEW s \in Offsets, NEW e \in Offsets,
             FillWithNumber(b, v, s, e)
      PROVE  BufferInv'
  <2>1. SameShape(FillNumber(store, b, v, s, e), store)
    BY <1>0, BufferOf, FillNumberKeeps
  <2> QED
    BY <1>6, <2>1, AssignKeeps DEF FillWithNumber
<1>7. ASSUME NEW b \in Range(bufs), NEW k \in Accessors, NEW o \in Offsets, NEW v \in Values(k),
             WriteInt(b, k, v, o)
      PROVE  BufferInv'
  <2>1. v \in Int /\ Position(k, o) \in Int
    BY <1>0, ValuesInts, PositionInt
  <2>2. PICK at \in Int : at = Position(k, o)
    BY <2>1
  <2>3. \A i \in DOMAIN Write(k, v, at) : Write(k, v, at)[i] \in Int
    BY <2>1, WriteInts
  <2>4. \A i \in Written(Write(k, v, at), b) : Write(k, v, at)[i] \in Int
    BY <2>3 DEF Written
  <2>5. SameShape(Poke(store, b, Write(k, v, at)), store)
    BY <1>0, <2>4, BufferOf, Poked
  <2> QED
    BY <1>7, <2>2, <2>5, AssignKeeps DEF WriteInt
<1>8. ASSUME NEW m \in DOMAIN store, NEW o \in Offsets, NEW l \in Offsets, l >= 0,
             FromArrayBuffer(m, o, l)
      PROVE  BufferInv'
  <2>1. m \in 1..Len(store) /\ o \in Nat /\ l \in Nat /\ o + l <= Length(store[m])
    BY <1>0, <1>8 DEF FromArrayBuffer
  <2>2. PICK w : w = Window(m, o, l)
    OBVIOUS
  <2>3. w \in Windows /\ Inside(w, store)
    BY <2>1, <2>2 DEF Window, Windows, Inside
  <2> QED
    BY <1>8, <2>2, <2>3, ShareKeeps DEF FromArrayBuffer
<1>9. ASSUME NEW b \in Range(bufs), NEW c \in Range(bufs), NEW l \in Sizes, ConcatBuffers(b, c, l)
      PROVE  BufferInv'
  <2>1. /\ b \in Windows /\ Inside(b, store) /\ b.length \in Nat
        /\ c \in Windows /\ Inside(c, store) /\ c.length \in Nat
    BY BufferOf DEF Windows
  <2>2. Bytes(b) \in [0..(b.length - 1) -> Byte] /\ Bytes(c) \in [0..(c.length - 1) -> Byte]
    BY <1>0, <2>1, Viewed DEF Bytes
  <2>3. Bytes(b) \in Memories /\ Bytes(c) \in Memories /\ l \in Nat
    BY <1>0, <2>1, <2>2, MemoryOf
  <2>4. Concat(<<Bytes(b), Bytes(c)>>, l) \in [0..(l - 1) -> Byte]
    BY <2>3, ConcatBytes
  <2> QED
    BY <1>9, <2>3, <2>4, CreateKeeps DEF ConcatBuffers
<1>10. ASSUME NEW b \in Range(bufs), NEW c \in Range(bufs), NEW s \in Offsets, NEW e \in Offsets,
              FillWithBuffer(b, c, s, e)
       PROVE  BufferInv'
  <2>1. SameShape(FillBuffer(store, b, c, s, e), store)
    BY <1>0, <1>10, BufferOf, FillBufferKeeps DEF FillWithBuffer
  <2> QED
    BY <1>10, <2>1, AssignKeeps DEF FillWithBuffer
<1>11. ASSUME NEW b \in Range(bufs), NEW c \in Range(bufs), NEW t \in Offsets, NEW s \in Offsets,
              NEW e \in Offsets, Copy(b, c, t, s, e)
       PROVE  BufferInv'
  <2>1. PICK r : r = CopyRange(b, c, t, s, e)
    OBVIOUS
  <2>2. r.ok /\ Assign(CopyBytes(store, b, c, r))
    BY <1>11, <2>1 DEF Copy
  <2>3. SameShape(CopyBytes(store, b, c, r), store)
    BY <1>0, <2>1, <2>2, BufferOf, CopyCopies DEF Copied
  <2> QED
    BY <2>2, <2>3, AssignKeeps
<1> QED
  BY <1>1, <1>2, <1>3, <1>4, <1>5, <1>6, <1>7, <1>8, <1>9, <1>10, <1>11 DEF Next

(* Every ArrayBuffer stays a byte array and every Buffer, however it was    *)
(* made, a window inside of its ArrayBuffer: no call of buffer.js reads or  *)
(* writes outside of it.                                                    *)
THEOREM BufferInvariant == Spec => []BufferInv
<1>1. Init => BufferInv
  BY InitBuffer
<1>2. BufferInv /\ [Next]_vars => BufferInv'
  <2>1. ASSUME BufferInv, Next PROVE BufferInv'
    BY <2>1, NextKeepsBuffer
  <2>2. ASSUME BufferInv, UNCHANGED vars PROVE BufferInv'
    BY <2>2 DEF BufferInv, vars, Inside
  <2> QED
    BY <2>1, <2>2
<1> QED
  BY <1>1, <1>2, PTL DEF Spec

(* The type invariant of the run.                                           *)
THEOREM BufferTypeCorrect == Spec => []TypeOK
<1>1. ASSUME BufferInv PROVE TypeOK
  <2>1. ASSUME NEW m \in DOMAIN store PROVE store[m] \in [0..(Length(store[m]) - 1) -> Byte]
    <3>1. store[m] \in Memories
      BY <1>1 DEF BufferInv
    <3> QED
      BY <3>1, MemoryFacts
  <2>2. ASSUME NEW b \in Range(bufs)
        PROVE  b.offset >= 0 /\ b.length >= 0 /\ b.offset + b.length <= Length(store[b.mem])
    BY <1>1, BufferOf DEF Windows, Inside
  <2>3. calls \in 0..MaxCalls
    BY <1>1 DEF BufferInv
  <2> QED
    BY <2>1, <2>2, <2>3 DEF TypeOK
<1> QED
  BY <1>1, BufferInvariant, PTL

-----------------------------------------------------------------------------
(* copy.                                                                    *)

Detached(b, c, t, s, r, n) ==
    LET st == CopyBytes(store, b, c, r)
    IN  /\ IF s >= 0 /\ t >= 0 /\ n > 0 THEN r.count = n ELSE r.count <= 0
        /\ \A i \in 0..(r.count - 1) : View(st, c)[t + i] = Bytes(b)[s + i]
        /\ \A i \in DOMAIN store[c.mem] \ (c.offset + t)..(c.offset + t + r.count - 1) :
              st[c.mem][i] = store[c.mem][i]

(* copy moves as many bytes as were asked for and there are and have room,  *)
(* with the values they had before the call although the windows may        *)
(* overlap, and changes nothing else: for windows of every size and every   *)
(* offset, the ones out of range included.                                  *)
THEOREM BufferCopyAsIfDetached == Spec => []CopyAsIfDetached
<1>1. ASSUME BufferInv PROVE CopyAsIfDetached
  <2> SUFFICES ASSUME NEW b \in Range(bufs), NEW c \in Range(bufs),
                      NEW t \in Offsets, NEW s \in Offsets, NEW e \in Offsets,
                      CopyRange(b, c, t, s, e).ok
               PROVE  Detached(b, c, t, s, CopyRange(b, c, t, s, e), Wanted(b, c, t, s, e))
    BY DEF CopyAsIfDetached, Wanted, Detached
  <2>0. PICK r, st, n : /\ r = CopyRange(b, c, t, s, e) /\ st = CopyBytes(store, b, c, r)
                        /\ n = Wanted(b, c, t, s, e) /\ r.ok
    OBVIOUS
  <2>1. /\ b \in Windows /\ Inside(b, store) /\ c \in Windows /\ Inside(c, store)
        /\ store \in Seq(Memories) /\ t \in Int /\ s \in Int /\ e \in Int
    BY <1>1, BufferOf, BufferAssumption DEF BufferInv
  <2>2. Copied(st, store, b, c, t, s, r.count)
    BY <2>0, <2>1, CopyCopies
  <2>3. /\ r.count \in Int /\ n \in Int
        /\ IF s >= 0 /\ t >= 0 /\ n > 0 THEN r.count = n ELSE r.count <= 0
        /\ r.count > 0 => s + r.count <= b.length /\ t + r.count <= c.length
    BY <2>0, <2>1, CopyRangeIs
  <2>4. /\ st \in Seq(Memories) /\ Inside(c, st) /\ c.mem \in 1..Len(store)
        /\ DOMAIN st[c.mem] = DOMAIN store[c.mem]
    <3>1. SameShape(st, store) /\ c.mem \in 1..Len(store)
      BY <2>1, <2>2 DEF Copied, Inside
    <3> QED
      BY <2>1, <3>1, ShapeKept DEF SameShape
  <2>5. ASSUME NEW i \in 0..(r.count - 1) PROVE View(st, c)[t + i] = Bytes(b)[s + i]
    <3>1. st[c.mem][c.offset + t + i] = View(store, b)[s + i]
      BY <2>2 DEF Copied
    <3>2. PICK k \in Int, cl \in Nat, co \in Nat :
             k = r.count /\ cl = c.length /\ co = c.offset /\ (k > 0 => t >= 0 /\ t + k <= cl)
      <4>1. c.length \in Nat /\ c.offset \in Nat
        BY <2>1 DEF Windows
      <4>2. PICK k \in Int : k = r.count
        BY <2>3
      <4>3. k > 0 => t >= 0 /\ t + k <= c.length
        BY <2>3, <4>2
      <4> QED
        BY <4>1, <4>2, <4>3
    <3>3. i \in 0..(k - 1) /\ k > 0
      BY <3>2
    <3>4. t + i \in 0..(cl - 1) /\ co + t + i = co + (t + i)
      <4>1. /\ t \in Int /\ i \in Nat /\ i < k /\ k \in Int /\ cl \in Nat /\ co \in Nat
            /\ t >= 0 /\ t + k <= cl
        BY <2>1, <3>2, <3>3
      <4> QED
        BY <4>1
    <3>5. View(st, c)[t + i] = st[c.mem][co + (t + i)]
      BY <2>1, <2>4, <3>2, <3>4, Viewed
    <3> QED
      BY <3>1, <3>2, <3>4, <3>5 DEF Bytes
  <2>6. \A i \in DOMAIN store[c.mem] \ (c.offset + t)..(c.offset + t + r.count - 1) :
           st[c.mem][i] = store[c.mem][i]
    BY <2>2, Zenon DEF Copied
  <2> QED
    BY <2>0, <2>3, <2>5, <2>6 DEF Detached
<1> QED
  BY <1>1, BufferInvariant, PTL

-----------------------------------------------------------------------------
(* fill.                                                                    *)

(* fill with the bytes of a Buffer changes nothing outside of its range,    *)
(* whatever memory the two share, and repeats the pattern from its first    *)
(* byte when the range and the pattern are apart.                           *)
THEOREM BufferFillRepeats == Spec => []FillRepeats
<1>1. ASSUME BufferInv PROVE FillRepeats
  <2> SUFFICES ASSUME NEW b \in Range(bufs), NEW v \in Range(bufs),
                      NEW s \in Offsets, NEW e \in Offsets,
                      FillRange(b, s, e), v.length > 0,
                      NEW st, st = FillBuffer(store, b, v, s, e)
               PROVE  /\ \A i \in DOMAIN store[b.mem] \ (b.offset + s)..(b.offset + e - 1) :
                            st[b.mem][i] = store[b.mem][i]
                      /\ Apart(b, v, s, e) =>
                            \A i \in s..(e - 1) : View(st, b)[i] = Bytes(v)[(i - s) % v.length]
    BY DEF FillRepeats, Apart
  <2>1. /\ b \in Windows /\ Inside(b, store) /\ v \in Windows /\ Inside(v, store)
        /\ store \in Seq(Memories) /\ s \in Int /\ e \in Int
    BY <1>1, BufferOf, BufferAssumption DEF BufferInv
  <2>2. PICK bl \in Nat, bo \in Nat : bl = b.length /\ bo = b.offset
    BY <2>1 DEF Windows
  <2>3. s \in Nat /\ s <= bl /\ e <= bl
    BY <2>1, <2>2 DEF FillRange
  <2>4. CASE e <= s
    <3>1. st = store
      BY <2>4 DEF FillBuffer
    <3>2. s..(e - 1) = {}
      BY <2>1, <2>4
    <3> QED
      BY <3>1, <3>2
  <2>5. CASE ~(e <= s)
    <3>1. e \in Nat /\ s < e
      BY <2>1, <2>3, <2>5
    <3>2. Filled(st, store, b, v, s, e, e - s)
      BY <2>1, <2>2, <2>3, <3>1, FillFills
    <3>3. bo + s + (e - s) - 1 = bo + e - 1
      BY <2>2, <2>3, <3>1
    <3>4. \A i \in DOMAIN store[b.mem] \ (b.offset + s)..(b.offset + e - 1) :
             st[b.mem][i] = store[b.mem][i]
      BY <2>2, <3>2, <3>3 DEF Filled
    <3>5. ASSUME Apart(b, v, s, e), NEW i \in s..(e - 1)
          PROVE  View(st, b)[i] = Bytes(v)[(i - s) % v.length]
      <4>1. i - s \in 0..((e - s) - 1) /\ i \in 0..(bl - 1) /\ bo + s + (i - s) = bo + i
        BY <2>2, <2>3, <3>1
      <4>2. st[b.mem][bo + s + (i - s)] = View(store, v)[(i - s) % v.length]
        BY <2>2, <3>2, <3>5, <4>1 DEF Filled
      <4>3. st \in Seq(Memories) /\ Inside(b, st)
        <5>1. SameShape(st, store)
          BY <3>2 DEF Filled
        <5> QED
          BY <2>1, <5>1, ShapeKept DEF SameShape
      <4>4. View(st, b)[i] = st[b.mem][bo + i]
        BY <2>1, <2>2, <4>1, <4>3, Viewed
      <4> QED
        BY <4>1, <4>2, <4>4 DEF Bytes
    <3> QED
      BY <3>4, <3>5
  <2> QED
    BY <2>4, <2>5
<1> QED
  BY <1>1, BufferInvariant, PTL

-----------------------------------------------------------------------------
(* Reading back what was written.                                           *)

LEMMA PositionFits ==
    ASSUME NEW b \in Windows, NEW k \in Accessors, NEW v \in Int, NEW o \in Int,
           CheckInt(b, k, v, o)
    PROVE  Position(k, o) \in Nat /\ Position(k, o) + k.width <= b.length
<1>1. k.width \in 1..8 /\ b.length \in Nat
  BY AccessorFacts DEF Windows
<1>2. PICK p \in Nat \ {0} : p = Base^4
  BY PowerFacts
<1>3. CASE k.width = 8
  <2>1. {o, o + 7} \subseteq 0..(b.length - 1) /\ Position(k, o) = o
    BY <1>3 DEF CheckInt, CheckIntBI, Position
  <2> QED
    BY <1>1, <1>3, <2>1
<1>4. CASE k.width # 8
  <2>1. Position(k, o) = o % p /\ Position(k, o) + k.width <= b.length
    BY <1>2, <1>4 DEF CheckInt, Position, Uint32
  <2>2. o % p \in Nat
    BY <1>2
  <2> QED
    BY <2>1, <2>2
<1> QED
  BY <1>3, <1>4

LEMMA SmallUint32 ==
    ASSUME NEW p \in Nat, p <= KMaxLength
    PROVE  Uint32(p) = p
<1>1. PICK m \in Nat \ {0} : m = Base^4
  BY PowerFacts
<1>2. m \div 2 <= m
  BY <1>1
<1>3. p < m
  BY <1>1, <1>2 DEF KMaxLength
<1>4. p % m = p
  BY <1>3
<1> QED
  BY <1>1, <1>4 DEF Uint32

(* What the accessor k left at the place `at' of the window b.              *)
LEMMA WriteLeaves ==
    ASSUME NEW st \in Seq(Memories), NEW b \in Windows, Inside(b, st),
           NEW k \in Accessors, NEW v \in Int, v >= Lowest(k),
           NEW at \in Nat, at + k.width <= b.length
    PROVE  LET new == Poke(st, b, Write(k, v, at))
               q == b.offset + at
           IN  /\ SameShape(new, st)
               /\ \A i \in 0..(k.width - 1) : /\ new[b.mem][q + i] = Write(k, v, at)[at + i] % Base
                                              /\ Write(k, v, at)[at + i] \in Int
               /\ \A i \in DOMAIN st[b.mem] \ q..(q + k.width - 1) : new[b.mem][i] = st[b.mem][i]
<1>0. PICK f : f = Write(k, v, at)
  OBVIOUS
<1>1. PICK w \in 1..8 : w = k.width
  BY AccessorFacts
<1>2. PICK off \in Nat, len \in Nat : off = b.offset /\ len = b.length
  BY DEF Windows
<1>3. DOMAIN f = at..(at + w - 1)
  BY <1>0, <1>1, WriteStores DEF WriteStored
<1>4. \A i \in DOMAIN f : f[i] \in Int
  BY <1>0, <1>1, WriteInts
<1>5. Written(f, b) = at..(at + w - 1)
  <2>1. at + w <= len
    BY <1>0, <1>1, <1>2
  <2>2. \A i \in at..(at + w - 1) : i \in 0..(len - 1)
    BY <2>1
  <2> QED
    BY <1>2, <1>3, <2>2 DEF Written
<1>6. PICK new : new = Poke(st, b, f)
  OBVIOUS
<1>7. \A i \in Written(f, b) : f[i] \in Int
  BY <1>3, <1>4, <1>5
<1>8. /\ SameShape(new, st)
      /\ \A i \in DOMAIN st[b.mem] :
            new[b.mem][i] = IF i - off \in Written(f, b) THEN f[i - off] % Base ELSE st[b.mem][i]
  BY <1>2, <1>6, <1>7, Poked
<1>9. PICK n \in Nat : n = Length(st[b.mem]) /\ DOMAIN st[b.mem] = 0..(n - 1) /\ off + len <= n
  <2>1. b.mem \in 1..Len(st) /\ b.offset + b.length <= Length(st[b.mem])
    BY DEF Inside
  <2>2. st[b.mem] \in Memories
    BY <2>1
  <2> QED
    BY <1>2, <2>1, <2>2, MemoryFacts
<1>10. ASSUME NEW i \in 0..(w - 1)
       PROVE  new[b.mem][off + at + i] = f[at + i] % Base /\ f[at + i] \in Int
  <2>1. PICK x \in Int : x = off + at + i
    OBVIOUS
  <2>2. at + w <= len
    BY <1>0, <1>1, <1>2
  <2>3. x \in 0..(n - 1) /\ x - off = at + i /\ at + i \in at..(at + w - 1)
    BY <1>9, <2>1, <2>2
  <2> QED
    BY <1>5, <1>7, <1>8, <1>9, <2>1, <2>3
<1>11. ASSUME NEW i \in DOMAIN st[b.mem] \ (off + at)..(off + at + w - 1)
       PROVE  new[b.mem][i] = st[b.mem][i]
  <2>1. i \in Int /\ i - off \notin at..(at + w - 1)
    BY <1>9
  <2> QED
    BY <1>5, <1>8, <2>1
<1> QED
  BY <1>0, <1>1, <1>2, <1>6, <1>8, <1>10, <1>11

(* What a write accessor stores, the accessors of the same bytes read back  *)
(* through every Buffer that shares the memory: for all widths, signs and   *)
(* byte orders, every value in range and every number of values of a byte.  *)
THEOREM BufferReadsWhatWasWritten == Spec => []ReadsWhatWasWritten
<1>1. ASSUME BufferInv PROVE ReadsWhatWasWritten
  <2> SUFFICES ASSUME NEW b \in Range(bufs), NEW c \in Range(bufs), NEW k \in Accessors,
                      NEW o \in Offsets, NEW v \in Values(k), CheckInt(b, k, v, o)
               PROVE  LET at == Position(k, o)
                          st == Poke(store, b, Write(k, v, at))
                          p == b.offset + at - c.offset
                          Same(l) == l.width = k.width /\ (k.width = 1 \/ BigEndian(l) = BigEndian(k))
                      IN  /\ c.mem = b.mem /\ p >= 0 /\ CheckOffset(p, k.width, c.length) =>
                                /\ Read(k, View(st, c), p) = v
                                /\ \A l \in Accessors :
                                      Same(l) => (Read(l, View(st, c), p) - v) % Base^k.width = 0
                          /\ \A i \in DOMAIN store[b.mem] \ (b.offset + at)..(b.offset + at + k.width - 1) :
                                st[b.mem][i] = store[b.mem][i]
    BY Zenon DEF ReadsWhatWasWritten
  <2>1. store \in Seq(Memories) /\ v \in Int /\ o \in Int
    BY <1>1, ValuesInts, BufferAssumption DEF BufferInv
  <2>2. b \in Windows /\ Inside(b, store) /\ c \in Windows /\ Inside(c, store)
    BY <1>1, BufferOf
  <2>3. PICK at \in Nat : at = Position(k, o) /\ at + k.width <= b.length
    BY <2>1, <2>2, PositionFits
  <2>4. PICK st : st = Poke(store, b, Write(k, v, at))
    OBVIOUS
  <2>5. v >= Lowest(k) /\ v <= Highest(k)
    BY DEF CheckInt, CheckIntBI
  <2>6. /\ SameShape(st, store)
        /\ \A i \in 0..(k.width - 1) :
              /\ st[b.mem][b.offset + at + i] = Write(k, v, at)[at + i] % Base
              /\ Write(k, v, at)[at + i] \in Int
        /\ \A i \in DOMAIN store[b.mem] \ (b.offset + at)..(b.offset + at + k.width - 1) :
              st[b.mem][i] = store[b.mem][i]
    BY <2>1, <2>2, <2>3, <2>4, <2>5, WriteLeaves
  <2>7. PICK p \in Int : p = b.offset + at - c.offset
    BY <2>2 DEF Windows
  <2>8. ASSUME c.mem = b.mem, p >= 0, CheckOffset(p, k.width, c.length)
        PROVE  ReadsBack(k, v, View(st, c), p)
    <3>1. PICK w \in 1..8 : w = k.width
      BY AccessorFacts
    <3>2. /\ b.offset \in Nat /\ b.length \in Nat /\ c.offset \in Nat /\ c.length \in Nat
      BY <2>2 DEF Windows
    <3>3. KMaxLength \in Int
      <4>1. PICK m \in Nat : m = Base^4
        BY PowerFacts
      <4> QED
        BY <4>1 DEF KMaxLength
    <3>4. b.offset + b.length <= KMaxLength
      <4>1. b.mem \in 1..Len(store) /\ b.offset + b.length <= Length(store[b.mem])
        BY <2>2 DEF Inside
      <4>2. store[b.mem] \in Memories /\ Length(store[b.mem]) <= KMaxLength
        BY <1>1, <4>1 DEF BufferInv
      <4>3. Length(store[b.mem]) \in Nat
        BY <4>2, MemoryFacts
      <4> QED
        BY <3>2, <3>3, <4>1, <4>2, <4>3
    <3>5. p \in Nat /\ p <= KMaxLength
      BY <2>3, <2>7, <2>8, <3>1, <3>2, <3>3, <3>4
    <3>6. p + w <= c.length
      BY <2>8, <3>1, <3>5, SmallUint32 DEF CheckOffset
    <3>7. PICK a : a = View(st, c)
      OBVIOUS
    <3>8. st \in Seq(Memories) /\ Inside(c, st)
      BY <2>1, <2>2, <2>6, ShapeKept DEF SameShape
    <3>9. \A i \in 0..(c.length - 1) : a[i] = st[c.mem][c.offset + i]
      BY <2>2, <3>7, <3>8, Viewed
    <3>10. ASSUME NEW i \in 0..(w - 1) PROVE a[p + i] = st[b.mem][b.offset + at + i]
      <4>1. p + i \in 0..(c.length - 1) /\ c.offset + (p + i) = b.offset + at + i
        BY <2>7, <3>2, <3>5, <3>6
      <4> QED
        BY <2>8, <3>9, <4>1
    <3>11. Laid(k, v, at, a, p)
      BY <2>6, <3>1, <3>10 DEF Laid
    <3> QED
      BY <2>1, <2>5, <3>7, <3>11, ReadBack
  <2> QED
    BY <2>3, <2>4, <2>6, <2>7, <2>8, Zenon DEF ReadsBack
<1> QED
  BY <1>1, BufferInvariant, PTL

-----------------------------------------------------------------------------
(* Loops: the least number of a set, induction on a rank, and loops that    *)
(* are recursions.                                                          *)

LEMMA LeastExists ==
    ASSUME NEW N \in Nat, NEW S \in SUBSET (0..N), S # {}
    PROVE  \E i \in S : \A j \in S : i <= j
<1> SUFFICES ASSUME \A i \in S : \E j \in S : j < i PROVE FALSE
  OBVIOUS
<1>1. PICK T : T = {n \in 0..N : \A j \in S : n < j}
  OBVIOUS
<1>2. \A j \in S : j \in 0..N
  OBVIOUS
<1>3. 0 \in T
  <2>1. 0 \notin S
    BY <1>2
  <2> QED
    BY <1>1, <1>2, <2>1
<1>4. ASSUME NEW n \in 0..(N - 1), n \in T PROVE n + 1 \in T
  <2>1. \A j \in S : n < j
    BY <1>1, <1>4
  <2>2. n + 1 \notin S
    BY <1>2, <2>1
  <2>3. \A j \in S : n + 1 < j
    BY <1>2, <2>1, <2>2
  <2> QED
    BY <1>1, <2>3
<1>5. N \in T
  BY <1>3, <1>4, UpTo
<1>6. PICK j : j \in S
  OBVIOUS
<1>7. j \in 0..N /\ N < j
  BY <1>1, <1>2, <1>5, <1>6
<1> QED
  BY <1>7

LEMMA RankInduction ==
    ASSUME NEW N \in Nat, NEW S, NEW rank \in [S -> 0..N], NEW T,
           \A s \in S : (\A t \in S : rank[t] < rank[s] => t \in T) => s \in T
    PROVE  \A s \in S : s \in T
<1>1. PICK U : U = {n \in 0..N : \A s \in S : rank[s] <= n => s \in T}
  OBVIOUS
<1>2. \A s \in S : rank[s] \in 0..N
  OBVIOUS
<1>3. 0 \in U
  <2>1. ASSUME NEW s \in S, rank[s] <= 0 PROVE s \in T
    BY <1>2, <2>1
  <2> QED
    BY <1>1, <2>1
<1>4. ASSUME NEW n \in 0..(N - 1), n \in U PROVE n + 1 \in U
  <2>1. \A s \in S : rank[s] <= n => s \in T
    BY <1>1, <1>4
  <2>2. ASSUME NEW s \in S, rank[s] <= n + 1 PROVE s \in T
    <3>1. ASSUME NEW t \in S, rank[t] < rank[s] PROVE t \in T
      <4>1. rank[t] <= n
        BY <1>2, <2>2, <3>1
      <4> QED
        BY <2>1, <4>1
    <3> QED
      BY <3>1
  <2> QED
    BY <1>1, <2>2
<1>5. N \in U
  BY <1>3, <1>4, UpTo
<1> QED
  BY <1>1, <1>2, <1>5

(* A loop: out is its result in the states where it is done, next the state *)
(* after a turn, and rank falls.                                            *)
Loop(S, done, out, next, g) == g = [s \in S |-> IF s \in done THEN out[s] ELSE g[next[s]]]

LEMMA LoopEnds ==
    ASSUME NEW N \in Nat, NEW S, NEW rank \in [S -> 1..N], NEW done, NEW out, NEW next,
           \A s \in S : s \notin done => next[s] \in S /\ rank[next[s]] < rank[s]
    PROVE  \E g : Loop(S, done, out, next, g)
<1> DEFINE Go(g, s) == IF s \in done THEN out[s] ELSE g[next[s]]
<1>1. PICK T : T = {n \in 0..N : \E g : DOMAIN g = S /\ \A s \in S : rank[s] <= n => g[s] = Go(g, s)}
  OBVIOUS
<1>2. \A s \in S : rank[s] \in 1..N
  OBVIOUS
<1>3. 0 \in T
  <2>1. PICK g : g = [s \in S |-> out[s]]
    OBVIOUS
  <2>2. DOMAIN g = S /\ \A s \in S : rank[s] <= 0 => g[s] = Go(g, s)
    BY <1>2, <2>1
  <2> QED
    BY <1>1, <2>2
<1>4. ASSUME NEW n \in 0..(N - 1), n \in T PROVE n + 1 \in T
  <2>1. PICK g : DOMAIN g = S /\ \A s \in S : rank[s] <= n => g[s] = Go(g, s)
    BY <1>1, <1>4
  <2>2. PICK h : h = [s \in S |-> IF rank[s] = n + 1 THEN Go(g, s) ELSE g[s]]
    OBVIOUS
  <2>3. ASSUME NEW s \in S, rank[s] <= n + 1 PROVE h[s] = Go(g, s)
    <3>1. rank[s] = n + 1 \/ (rank[s] <= n /\ rank[s] # n + 1)
      BY <1>2, <2>3
    <3> QED
      BY <2>1, <2>2, <3>1
  <2>4. ASSUME NEW s \in S, rank[s] <= n + 1 PROVE Go(h, s) = Go(g, s)
    <3>1. CASE s \in done
      BY <3>1
    <3>2. CASE s \notin done
      <4>1. next[s] \in S /\ rank[next[s]] # n + 1
        BY <1>2, <2>4, <3>2
      <4>2. h[next[s]] = g[next[s]]
        BY <2>2, <4>1
      <4> QED
        BY <3>2, <4>2
    <3> QED
      BY <3>1, <3>2
  <2>5. \A s \in S : rank[s] <= n + 1 => h[s] = Go(h, s)
    BY <2>3, <2>4
  <2>6. DOMAIN h = S /\ n + 1 \in 0..N
    BY <2>2
  <2> QED
    BY <1>1, <2>5, <2>6
<1>5. N \in T
  BY <1>3, <1>4, UpTo
<1>6. PICK g : DOMAIN g = S /\ \A s \in S : rank[s] <= N => g[s] = Go(g, s)
  BY <1>1, <1>5
<1>7. PICK h : h = [s \in S |-> Go(g, s)]
  OBVIOUS
<1>8. \A s \in S : h[s] = g[s]
  BY <1>2, <1>6, <1>7
<1>9. \A s \in S : Go(h, s) = Go(g, s)
  BY <1>8
<1>10. h = [s \in S |-> Go(h, s)]
  BY <1>7, <1>9
<1> QED
  BY <1>10 DEF Loop

-----------------------------------------------------------------------------
(* Searching: the places where val is in a, and the first of a set.  In     *)
(* units of two a search that finds nothing may end in a RangeError.        *)

Arrays(n) == [0..(n - 1) -> Byte]

Matches(a, val, L, n) == {p \in 0..(L - n) : \A j \in 0..(n - 1) : a[p + j] = val[j]}
Onwards(S, c, w) == {p \in S : p >= c /\ (p - c) % w = 0}
FirstOf(S, r, w) ==
    IF S = {} THEN r = -1 \/ (w = 2 /\ r = Throws) ELSE r \in S /\ \A p \in S : r <= p

SameUnit(a, p, val, q, w) == \A j \in 0..(w - 1) : a[p + j] = val[q + j]

LEMMA UnitEqual ==
    ASSUME NEW L \in Nat, NEW n \in Nat, NEW a \in Arrays(L), NEW val \in Arrays(n),
           NEW w \in {1, 2}, NEW p \in 0..(L - w), NEW q \in 0..(n - w)
    PROVE  Unit(a, p, w) = Unit(val, q, w) <=> SameUnit(a, p, val, q, w)
<1>1. CASE w = 1
  <2>1. \A j : j \in 0..(w - 1) <=> j = 0
    BY <1>1
  <2>2. p + 0 = p /\ q + 0 = q
    OBVIOUS
  <2> QED
    BY <1>1, <2>1, <2>2 DEF Unit, SameUnit
<1>2. CASE w = 2
  <2>1. PICK x \in Byte, y \in Byte : x = a[p] /\ y = a[p + 1]
    BY <1>2 DEF Arrays
  <2>2. PICK x2 \in Byte, y2 \in Byte : x2 = val[q] /\ y2 = val[q + 1]
    BY <1>2 DEF Arrays
  <2>3. Unit(a, p, w) = x * Base + y /\ Unit(val, q, w) = x2 * Base + y2
    BY <1>2, <2>1, <2>2 DEF Unit, ReadUInt16BE
  <2>4. x * Base + y = x2 * Base + y2 => x = x2 /\ y = y2
    <3>1. /\ Base \in Nat \ {0} /\ x \in Nat /\ x2 \in Nat /\ y \in Nat /\ y2 \in Nat
          /\ y < Base /\ y2 < Base
      BY BufferAssumption DEF Byte
    <3>2. ASSUME x * Base + y = x2 * Base + y2, x < x2 PROVE FALSE
      <4>1. (x + 1) * Base <= x2 * Base
        BY <3>1, <3>2
      <4>2. (x + 1) * Base = x * Base + Base
        BY <3>1
      <4> QED
        BY <3>1, <3>2, <4>1, <4>2
    <3>3. ASSUME x * Base + y = x2 * Base + y2, x2 < x PROVE FALSE
      <4>1. (x2 + 1) * Base <= x * Base
        BY <3>1, <3>3
      <4>2. (x2 + 1) * Base = x2 * Base + Base
        BY <3>1
      <4> QED
        BY <3>1, <3>3, <4>1, <4>2
    <3>4. ASSUME x * Base + y = x2 * Base + y2 PROVE x = x2
      BY <3>1, <3>2, <3>3, <3>4
    <3>5. ASSUME x * Base + y = x2 * Base + y2 PROVE y = y2
      <4>1. PICK z \in Int : z = x * Base
        BY <3>1
      <4> QED
        BY <3>1, <3>4, <3>5, <4>1
    <3> QED
      BY <3>4, <3>5
  <2>5. \A j : j \in 0..(w - 1) <=> j = 0 \/ j = 1
    BY <1>2
  <2>6. p + 0 = p /\ q + 0 = q
    OBVIOUS
  <2> QED
    BY <2>1, <2>2, <2>3, <2>4, <2>5, <2>6 DEF SameUnit
<1> QED
  BY <1>1, <1>2

(* The loop of arrayIndexOf: its states are i and foundIndex.               *)

States(L) == (0..(L + 1)) \X ((-1)..(L - 1))
First(s) == IF s[2] = -1 THEN s[1] ELSE s[2]
Agree(a, val, w, s) == Unit(a, s[1], w) = Unit(val, s[1] - First(s), w)
Complete(s, n, w) == s[1] - First(s) + w = n

SearchDone(a, val, L, n, w) ==
    {s \in States(L) : s[1] + w > L \/ (Agree(a, val, w, s) /\ Complete(s, n, w))}
SearchOut(L, w) ==
    [s \in States(L) |-> IF s[1] >= L THEN -1 ELSE IF s[1] + w > L THEN Throws ELSE First(s)]
SearchNext(a, val, L, w) ==
    [s \in States(L) |-> IF Agree(a, val, w, s) THEN <<s[1] + w, First(s)>>
                                                ELSE <<First(s) + w, -1>>]
SearchRank(L) == [s \in States(L) |-> (L + 2 - First(s)) * (L + 3) + (L + 2 - s[1])]
SearchBound(L) == (L + 2) * (L + 3) + (L + 2)

SearchLoop(a, val, L, n, w, g) ==
    Loop(States(L), SearchDone(a, val, L, n, w), SearchOut(L, w), SearchNext(a, val, L, w), g)

LEMMA StateFacts ==
    ASSUME NEW L \in Nat, NEW s \in States(L)
    PROVE  /\ s[1] \in 0..(L + 1) /\ s[2] \in (-1)..(L - 1) /\ s = <<s[1], s[2]>>
           /\ First(s) \in 0..(L + 1)
BY DEF States, First

LEMMA SearchRanks ==
    ASSUME NEW L \in Nat
    PROVE  SearchBound(L) \in Nat /\ SearchRank(L) \in [States(L) -> 1..SearchBound(L)]
<1>1. PICK m \in Nat : m = L + 3
  OBVIOUS
<1>2. ASSUME NEW s \in States(L)
      PROVE  (L + 2 - First(s)) * (L + 3) + (L + 2 - s[1]) \in 1..SearchBound(L)
  <2>1. PICK x \in 1..(L + 2), y \in 1..(L + 2) : x = L + 2 - First(s) /\ y = L + 2 - s[1]
    BY StateFacts
  <2>2. x * m <= (L + 2) * m /\ x * m \in Nat /\ (L + 2) * m \in Nat
    BY <1>1
  <2> QED
    BY <1>1, <2>1, <2>2 DEF SearchBound
<1>3. SearchBound(L) \in Nat
  BY DEF SearchBound
<1> QED
  BY <1>2, <1>3 DEF SearchRank

LEMMA SearchFalls ==
    ASSUME NEW L \in Nat, NEW n \in Nat, NEW a, NEW val, NEW w \in {1, 2},
           NEW s \in States(L), s \notin SearchDone(a, val, L, n, w)
    PROVE  /\ SearchNext(a, val, L, w)[s] \in States(L)
           /\ SearchRank(L)[SearchNext(a, val, L, w)[s]] < SearchRank(L)[s]
<1>0. PICK t : t = SearchNext(a, val, L, w)[s]
  OBVIOUS
<1>1. PICK p \in 0..(L + 1), c \in 0..(L + 1) : p = s[1] /\ c = First(s)
  BY StateFacts
<1>2. p + w <= L
  BY <1>0, <1>1 DEF SearchDone
<1>3. c <= L - 1
  BY <1>0, <1>1, <1>2, StateFacts DEF First
<1>4. t \in States(L) /\ ((t[1] = p + w /\ First(t) = c) \/ (t[1] = c + w /\ First(t) = c + w))
  <2>1. CASE Agree(a, val, w, s)
    <3>1. t = <<p + w, c>>
      BY <1>0, <1>1, <2>1 DEF SearchNext
    <3> QED
      BY <1>2, <1>3, <3>1 DEF States, First
  <2>2. CASE ~Agree(a, val, w, s)
    <3>1. t = <<c + w, -1>>
      BY <1>0, <1>1, <2>2 DEF SearchNext
    <3>2. c + w \in 0..(L + 1)
      BY <1>3
    <3> QED
      BY <3>1, <3>2 DEF States, First
  <2> QED
    BY <2>1, <2>2
<1>5. PICK m \in Nat : m = L + 3
  OBVIOUS
<1>6. PICK d \in Int, e \in Int : d = First(t) /\ e = t[1]
  BY <1>4, StateFacts
<1>7. /\ SearchRank(L)[s] = (L + 2 - c) * m + (L + 2 - p)
      /\ SearchRank(L)[t] = (L + 2 - d) * m + (L + 2 - e)
  BY <1>0, <1>1, <1>4, <1>5, <1>6 DEF SearchRank
<1>8. (L + 2 - d) * m + (L + 2 - e) < (L + 2 - c) * m + (L + 2 - p)
  <2>1. CASE e = p + w /\ d = c
    <3>1. PICK z \in Int : z = (L + 2 - c) * m
      OBVIOUS
    <3> QED
      BY <2>1, <3>1
  <2>2. CASE e = c + w /\ d = c + w
    <3>1. PICK x \in Int : x = L + 2 - d
      OBVIOUS
    <3>2. L + 2 - c = x + w
      BY <2>2, <3>1
    <3>3. (x + w) * m = x * m + w * m /\ w * m >= m
      BY <3>1
    <3>4. PICK z \in Int, y \in Int : z = x * m /\ y = w * m
      OBVIOUS
    <3> QED
      BY <1>2, <1>5, <2>2, <3>1, <3>2, <3>3, <3>4
  <2> QED
    BY <1>4, <1>6, <2>1, <2>2
<1> QED
  BY <1>0, <1>1, <1>4, <1>7, <1>8

-----------------------------------------------------------------------------
LEMMA SearchIsLoop ==
    ASSUME NEW L \in Nat, NEW n \in Nat, NEW a \in Arrays(L), NEW val \in Arrays(n),
           NEW w \in {1, 2}, NEW start
    PROVE  \E g : /\ SearchLoop(a, val, L, n, w, g)
                  /\ ArrayIndexOf(a, val, start, w) = g[<<start, -1>>]
<1>1. Length(a) = L /\ Length(val) = n
  BY MemoryOf DEF Arrays
<1> DEFINE Body(g, s) ==
        CASE s[1] >= L -> -1
          [] s[1] < L /\ s[1] + w > L -> Throws
          [] OTHER ->
             IF Agree(a, val, w, s)
             THEN IF Complete(s, n, w) THEN First(s) ELSE g[<<s[1] + w, First(s)>>]
             ELSE g[<<First(s) + w, -1>>]
<1>2. ArrayIndexOf(a, val, start, w)
        = (CHOOSE g : g = [s \in States(L) |-> Body(g, s)])[<<start, -1>>]
  BY <1>1 DEF ArrayIndexOf, States, Agree, Complete, First
<1> HIDE DEF Body
<1>3. ASSUME NEW g, NEW s \in States(L)
      PROVE  Body(g, s) = IF s \in SearchDone(a, val, L, n, w) THEN SearchOut(L, w)[s]
                          ELSE g[SearchNext(a, val, L, w)[s]]
  <2>1. PICK p \in 0..(L + 1) : p = s[1]
    BY StateFacts
  <2>2. CASE p >= L
    <3>1. s \in SearchDone(a, val, L, n, w)
      BY <2>1, <2>2 DEF SearchDone
    <3>2. SearchOut(L, w)[s] = -1
      BY <2>1, <2>2 DEF SearchOut
    <3>3. ~(p < L)
      BY <2>2
    <3>4. Body(g, s) = -1
      BY <2>1, <2>2, <3>3 DEF Body
    <3> QED
      BY <3>1, <3>2, <3>4
  <2>3. CASE ~(p >= L) /\ p + w > L
    <3>1. s \in SearchDone(a, val, L, n, w)
      BY <2>1, <2>3 DEF SearchDone
    <3>2. SearchOut(L, w)[s] = Throws
      BY <2>1, <2>3 DEF SearchOut
    <3>3. p < L
      BY <2>3
    <3>4. Body(g, s) = Throws
      BY <2>1, <2>3, <3>3 DEF Body
    <3> QED
      BY <3>1, <3>2, <3>4
  <2>4. CASE ~(p >= L) /\ ~(p + w > L)
    <3>1. s \in SearchDone(a, val, L, n, w) <=> Agree(a, val, w, s) /\ Complete(s, n, w)
      BY <2>1, <2>4 DEF SearchDone
    <3>2. SearchOut(L, w)[s] = First(s)
      BY <2>1, <2>4 DEF SearchOut
    <3>3. Body(g, s) = IF Agree(a, val, w, s)
                       THEN IF Complete(s, n, w) THEN First(s) ELSE g[<<s[1] + w, First(s)>>]
                       ELSE g[<<First(s) + w, -1>>]
      BY <2>1, <2>4 DEF Body
    <3>4. SearchNext(a, val, L, w)[s] = IF Agree(a, val, w, s) THEN <<s[1] + w, First(s)>>
                                                               ELSE <<First(s) + w, -1>>
      BY DEF SearchNext
    <3> QED
      BY <3>1, <3>2, <3>3, <3>4
  <2> QED
    BY <2>2, <2>3, <2>4
<1>4. ASSUME NEW g PROVE SearchLoop(a, val, L, n, w, g) <=> g = [s \in States(L) |-> Body(g, s)]
  <2>1. [s \in States(L) |-> Body(g, s)]
          = [s \in States(L) |-> IF s \in SearchDone(a, val, L, n, w) THEN SearchOut(L, w)[s]
                                 ELSE g[SearchNext(a, val, L, w)[s]]]
    BY <1>3
  <2> QED
    BY <2>1, Zenon DEF SearchLoop, Loop
<1>5. \E g : SearchLoop(a, val, L, n, w, g)
  <2>1. PICK N \in Nat : SearchRank(L) \in [States(L) -> 1..N]
    BY SearchRanks
  <2>2. \A s \in States(L) : s \notin SearchDone(a, val, L, n, w) =>
           /\ SearchNext(a, val, L, w)[s] \in States(L)
           /\ SearchRank(L)[SearchNext(a, val, L, w)[s]] < SearchRank(L)[s]
    BY SearchFalls
  <2>3. \E g : Loop(States(L), SearchDone(a, val, L, n, w), SearchOut(L, w),
                    SearchNext(a, val, L, w), g)
    BY <2>1, <2>2, LoopEnds, Zenon
  <2> QED
    BY <2>3 DEF SearchLoop
<1>6. PICK h : h = CHOOSE g : g = [s \in States(L) |-> Body(g, s)]
  OBVIOUS
<1>7. h = [s \in States(L) |-> Body(h, s)]
  <2>1. \E g : g = [s \in States(L) |-> Body(g, s)]
    BY <1>4, <1>5
  <2> QED
    BY <1>6, <2>1, Zenon
<1>8. SearchLoop(a, val, L, n, w, h)
  BY <1>4, <1>7, Zenon
<1>9. ArrayIndexOf(a, val, start, w) = h[<<start, -1>>]
  BY <1>2, <1>6, Zenon
<1> QED
  BY <1>8, <1>9, Zenon

(* What holds in each turn of arrayIndexOf, and of its result: what is      *)
(* between foundIndex and i was found, so the first place from there on     *)
(* where val is is the answer.                                              *)
Even(x, w) == w = 2 => x % 2 = 0

Partial(a, val, L, n, w, s) ==
    /\ s[1] <= L /\ Even(s[1] - First(s), w)
    /\ First(s) <= s[1] /\ s[1] - First(s) < n
    /\ \A j \in 0..(s[1] - First(s) - 1) : a[First(s) + j] = val[j]

LEMMA Restart ==
    ASSUME NEW L \in Nat, NEW n \in Nat, NEW S \in SUBSET (0..L), NEW c \in 0..L,
           NEW w \in {1, 2}, c \notin S
    PROVE  Onwards(S, c, w) = Onwards(S, c + w, w)
<1>1. ASSUME NEW p \in S
      PROVE  (p >= c /\ (p - c) % w = 0) <=> (p >= c + w /\ (p - (c + w)) % w = 0)
  <2>1. p \in 0..L /\ p # c
    OBVIOUS
  <2>2. CASE w = 1
    BY <2>1, <2>2
  <2>3. CASE w = 2
    <3>1. PICK d \in Int : d = p - c
      BY <2>1
    <3>2. p - (c + w) = d - 2 /\ (p >= c <=> d >= 0) /\ (p >= c + w <=> d >= 2) /\ d # 0
      BY <2>1, <2>3, <3>1
    <3>3. (d - 2) % 2 = d % 2
      OBVIOUS
    <3>4. d = 1 => d % 2 = 1
      OBVIOUS
    <3> QED
      BY <2>3, <3>1, <3>2, <3>3, <3>4
  <2> QED
    BY <2>2, <2>3
<1> QED
  BY <1>1 DEF Onwards

LEMMA SearchTurn ==
    ASSUME NEW L \in Nat, NEW n \in Nat \ {0}, NEW a \in Arrays(L), NEW val \in Arrays(n),
           NEW w \in {1, 2}, Even(n, w),
           NEW s \in States(L), Partial(a, val, L, n, w, s)
    PROVE  LET S == Matches(a, val, L, n)
               done == SearchDone(a, val, L, n, w)
               t == SearchNext(a, val, L, w)[s]
           IN  /\ s \in done => FirstOf(Onwards(S, First(s), w), SearchOut(L, w)[s], w)
               /\ s \notin done => /\ Partial(a, val, L, n, w, t)
                                   /\ Onwards(S, First(t), w) = Onwards(S, First(s), w)
<1>0. PICK S : S = Matches(a, val, L, n)
  OBVIOUS
<1>1. PICK p \in 0..(L + 1), c \in 0..(L + 1) : p = s[1] /\ c = First(s)
  BY StateFacts
<1>2. /\ p <= L /\ Even(p - c, w) /\ c <= p /\ p - c < n
      /\ \A j \in 0..(p - c - 1) : a[c + j] = val[j]
  BY <1>0, <1>1 DEF Partial
<1>3. \A x \in S : x \in 0..(L - n) /\ \A j \in 0..(n - 1) : a[x + j] = val[j]
  BY <1>0, <1>1 DEF Matches
<1>4. CASE p >= L
  <2>1. s \in SearchDone(a, val, L, n, w) /\ SearchOut(L, w)[s] = -1
    BY <1>0, <1>1, <1>4 DEF SearchDone, SearchOut
  <2>2. \A x \in S : x < c
    BY <1>2, <1>3, <1>4
  <2>3. Onwards(S, c, w) = {}
    BY <1>3, <2>2 DEF Onwards
  <2> QED
    BY <1>0, <1>1, <2>1, <2>3 DEF FirstOf
<1>5. CASE p < L /\ p + w > L
  <2>1. w = 2 /\ p = L - 1
    BY <1>5
  <2>2. s \in SearchDone(a, val, L, n, w) /\ SearchOut(L, w)[s] = Throws
    BY <1>0, <1>1, <1>5 DEF SearchDone, SearchOut
  <2>3. ASSUME NEW x \in S, x >= c, (x - c) % 2 = 0 PROVE FALSE
    <3>1. n % 2 = 0 /\ (p - c) % 2 = 0 /\ x \in Nat /\ x + n <= L /\ x >= c
      BY <1>2, <1>3, <2>1, <2>3 DEF Even
    <3>2. x = L - n
      BY <1>2, <2>1, <3>1
    <3> QED
      BY <2>1, <2>3, <3>1, <3>2
  <2>4. Onwards(S, c, w) = {}
    BY <2>1, <2>3 DEF Onwards
  <2> QED
    BY <1>0, <1>1, <2>1, <2>2, <2>4 DEF FirstOf
<1>6. CASE p < L /\ p + w <= L
  <2>1. p + w <= L
    BY <1>6
  <2>2. p - c + w <= n
    <3>1. CASE w = 1
      BY <1>2, <3>1
    <3>2. CASE w = 2
      BY <1>2, <3>2 DEF Even
    <3> QED
      BY <3>1, <3>2
  <2>3. PICK q \in 0..(n - w) : q = p - c
    BY <1>2, <2>2
  <2>4. Agree(a, val, w, s) <=> \A j \in 0..(w - 1) : a[p + j] = val[q + j]
    <3>1. p \in 0..(L - w) /\ n \in Nat
      BY <2>1
    <3>2. Unit(a, p, w) = Unit(val, q, w) <=> SameUnit(a, p, val, q, w)
      BY <3>1, UnitEqual
    <3> QED
      BY <1>0, <1>1, <2>3, <3>2 DEF Agree, SameUnit
  <2>5. CASE Agree(a, val, w, s)
    <3>1. ASSUME NEW j \in 0..(q + w - 1) PROVE a[c + j] = val[j]
      <4>1. CASE j < q
        BY <1>2, <2>3, <4>1
      <4>2. CASE j >= q
        <5>1. PICK i \in 0..(w - 1) : j = q + i
          BY <4>2
        <5>2. c + j = p + i
          BY <2>3, <5>1
        <5> QED
          BY <2>4, <2>5, <5>1, <5>2
      <4> QED
        BY <4>1, <4>2
    <3>2. CASE q + w = n
      <4>1. s \in SearchDone(a, val, L, n, w) /\ SearchOut(L, w)[s] = c
        BY <1>0, <1>1, <1>6, <2>1, <2>3, <2>5, <3>2 DEF SearchDone, SearchOut, Complete
      <4>2. c \in S
        BY <1>0, <1>1, <2>1, <2>3, <3>1, <3>2 DEF Matches
      <4>3. c - c = 0 /\ 0 % w = 0 /\ c >= c
        OBVIOUS
      <4>4. c \in Onwards(S, c, w) /\ \A x \in Onwards(S, c, w) : c <= x
        BY <1>3, <4>2, <4>3 DEF Onwards
      <4> QED
        BY <1>0, <1>1, <4>1, <4>4 DEF FirstOf
    <3>3. CASE q + w # n
      <4>1. s \notin SearchDone(a, val, L, n, w) /\ SearchNext(a, val, L, w)[s] = <<p + w, c>>
        BY <1>0, <1>1, <2>1, <2>3, <2>5, <3>3 DEF SearchDone, SearchNext, Complete
      <4>2. PICK t : t = <<p + w, c>> /\ t[1] = p + w /\ First(t) = c
        <5>1. PICK t : t = <<p + w, c>>
          OBVIOUS
        <5>2. t[1] = p + w /\ t[2] = c /\ c # -1
          BY <5>1
        <5> QED
          BY <5>1, <5>2 DEF First
      <4>3. Even(p + w - c, w)
        BY <1>2 DEF Even
      <4>4. /\ p + w <= L /\ c <= p + w /\ p + w - c < n
            /\ \A j \in 0..(p + w - c - 1) : j \in 0..(q + w - 1)
        BY <1>2, <2>1, <2>2, <2>3, <3>3
      <4>5. Partial(a, val, L, n, w, t)
        BY <1>2, <3>1, <4>2, <4>3, <4>4 DEF Partial
      <4> QED
        BY <1>0, <1>1, <4>1, <4>2, <4>5
    <3> QED
      BY <3>2, <3>3
  <2>6. CASE ~Agree(a, val, w, s)
    <3>1. s \notin SearchDone(a, val, L, n, w) /\ SearchNext(a, val, L, w)[s] = <<c + w, -1>>
      BY <1>0, <1>1, <2>1, <2>6 DEF SearchDone, SearchNext
    <3>2. PICK t : t = <<c + w, -1>> /\ t[1] = c + w /\ First(t) = c + w
      <4>1. PICK t : t = <<c + w, -1>>
        OBVIOUS
      <4>2. t[1] = c + w /\ t[2] = -1
        BY <4>1
      <4> QED
        BY <4>1, <4>2 DEF First
    <3>3. c \notin S
      <4>1. ASSUME c \in S PROVE FALSE
        <5>1. ASSUME NEW j \in 0..(w - 1) PROVE a[p + j] = val[q + j]
          <6>1. q + j \in 0..(n - 1) /\ c + (q + j) = p + j
            BY <2>3
          <6> QED
            BY <1>3, <4>1, <6>1
        <5> QED
          BY <2>4, <2>6, <5>1
      <4> QED
        BY <4>1
    <3>4. S \in SUBSET (0..L) /\ c \in 0..L
      BY <1>2, <1>3
    <3>5. Onwards(S, c, w) = Onwards(S, c + w, w)
      BY <3>3, <3>4, Restart
    <3>6. Even((c + w) - (c + w), w)
      BY <1>2 DEF Even
    <3>7. c + w <= L /\ (c + w) - (c + w) = 0 /\ 0 < n
      BY <1>2, <2>1
    <3>8. Partial(a, val, L, n, w, t)
      <4>1. \A j \in 0..(t[1] - First(t) - 1) : FALSE
        BY <3>2
      <4> QED
        BY <3>2, <3>6, <3>7, <4>1 DEF Partial
    <3> QED
      BY <1>0, <1>1, <3>1, <3>2, <3>5, <3>8
  <2> QED
    BY <2>5, <2>6
<1>7. p >= L \/ (p < L /\ p + w > L) \/ (p < L /\ p + w <= L)
  OBVIOUS
<1> QED
  BY <1>0, <1>1, <1>4, <1>5, <1>6, <1>7

(* arrayIndexOf finds the first place where val is.                         *)
LEMMA SearchFinds ==
    ASSUME NEW L \in Nat, NEW n \in Nat \ {0}, NEW a \in Arrays(L), NEW val \in Arrays(n),
           NEW w \in {1, 2}, Even(n, w), NEW start \in 0..(L - 1)
    PROVE  FirstOf(Onwards(Matches(a, val, L, n), start, w), ArrayIndexOf(a, val, start, w), w)
<1>1. PICK g : /\ SearchLoop(a, val, L, n, w, g)
               /\ ArrayIndexOf(a, val, start, w) = g[<<start, -1>>]
  BY SearchIsLoop
<1>2. PICK S, done, next, rank, T :
        /\ S = Matches(a, val, L, n) /\ done = SearchDone(a, val, L, n, w)
        /\ next = SearchNext(a, val, L, w) /\ rank = SearchRank(L)
        /\ T = {s \in States(L) :
                  Partial(a, val, L, n, w, s) => FirstOf(Onwards(S, First(s), w), g[s], w)}
  OBVIOUS
<1>3. \A s \in States(L) : g[s] = IF s \in done THEN SearchOut(L, w)[s] ELSE g[next[s]]
  BY <1>1, <1>2 DEF SearchLoop, Loop
<1>4. ASSUME NEW s \in States(L), \A t \in States(L) : rank[t] < rank[s] => t \in T
      PROVE  s \in T
  <2> SUFFICES ASSUME Partial(a, val, L, n, w, s)
               PROVE  FirstOf(Onwards(S, First(s), w), g[s], w)
    BY <1>2
  <2>1. CASE s \in done
    BY <1>2, <1>3, <2>1, SearchTurn
  <2>2. CASE s \notin done
    <3>1. PICK t : t = next[s]
      OBVIOUS
    <3>2. t \in States(L) /\ rank[t] < rank[s]
      BY <1>2, <2>2, <3>1, SearchFalls
    <3>3. /\ Partial(a, val, L, n, w, t)
          /\ Onwards(S, First(t), w) = Onwards(S, First(s), w)
      BY <1>2, <2>2, <3>1, SearchTurn
    <3>4. FirstOf(Onwards(S, First(t), w), g[t], w)
      BY <1>2, <1>4, <3>2, <3>3
    <3> QED
      BY <1>3, <2>2, <3>1, <3>3, <3>4
  <2> QED
    BY <2>1, <2>2
<1>5. \A s \in States(L) : s \in T
  <2>1. PICK N \in Nat : N = SearchBound(L) /\ rank \in [States(L) -> 0..N]
    BY <1>2, SearchRanks
  <2> QED
    BY <1>4, <2>1, RankInduction
<1>6. PICK s : s = <<start, -1>> /\ s \in States(L) /\ s[1] = start /\ First(s) = start
  <2>1. PICK s : s = <<start, -1>>
    OBVIOUS
  <2>2. s[1] = start /\ s[2] = -1
    BY <2>1
  <2>3. start \in 0..(L + 1) /\ -1 \in (-1)..(L - 1)
    OBVIOUS
  <2>4. s \in States(L)
    BY <2>1, <2>3 DEF States
  <2> QED
    BY <2>1, <2>2, <2>4 DEF First
<1>7. Partial(a, val, L, n, w, s)
  <2>1. \A j \in 0..(s[1] - First(s) - 1) : FALSE
    BY <1>6
  <2>2. s[1] - First(s) = 0 /\ s[1] <= L /\ First(s) <= s[1]
    BY <1>6
  <2>3. Even(s[1] - First(s), w)
    BY <2>2 DEF Even
  <2> QED
    BY <2>1, <2>2, <2>3 DEF Partial
<1> QED
  BY <1>1, <1>2, <1>5, <1>6, <1>7

-----------------------------------------------------------------------------
(* lastIndexOf.                                                             *)

Back(S, c, w) == {p \in S : p <= c /\ p % w = 0}
LastOf(S, r, w) ==
    IF S = {} THEN r = -1 ELSE r \in Int /\ r * w \in S /\ \A p \in S : p <= r * w

AllUnits(a, val, n, w, p) ==
    \A j \in 0..((n \div w) - 1) : Unit(a, p + j * w, w) = Unit(val, j * w, w)

LEMMA AllUnitsAgree ==
    ASSUME NEW L \in Nat, NEW n \in Nat, NEW a \in Arrays(L), NEW val \in Arrays(n),
           NEW w \in {1, 2}, Even(n, w), NEW p \in 0..(L - n)
    PROVE  AllUnits(a, val, n, w, p) <=> p \in Matches(a, val, L, n)
<1>1. PICK m \in Nat : m = n \div w /\ n = m * w
  <2>1. CASE w = 1
    BY <2>1
  <2>2. CASE w = 2
    BY <2>2 DEF Even
  <2> QED
    BY <2>1, <2>2
<1>2. ASSUME NEW j \in 0..(m - 1)
      PROVE  Unit(a, p + j * w, w) = Unit(val, j * w, w) <=> SameUnit(a, p + j * w, val, j * w, w)
  <2>1. j * w \in 0..(n - w) /\ p + j * w \in 0..(L - w)
    <3>1. CASE w = 1
      BY <1>1, <3>1
    <3>2. CASE w = 2
      BY <1>1, <3>2
    <3> QED
      BY <3>1, <3>2
  <2> QED
    BY <2>1, UnitEqual
<1>3. ASSUME AllUnits(a, val, n, w, p), NEW i \in 0..(n - 1) PROVE a[p + i] = val[i]
  <2>1. PICK j \in 0..(m - 1), k \in 0..(w - 1) : i = j * w + k
    <3>1. CASE w = 1
      <4>1. i \in 0..(m - 1) /\ 0 \in 0..(w - 1) /\ i = i * w + 0
        BY <1>1, <3>1
      <4> QED
        BY <4>1
    <3>2. CASE w = 2
      <4>1. i \div 2 \in 0..(m - 1) /\ i % 2 \in 0..(w - 1) /\ i = (i \div 2) * w + (i % 2)
        BY <1>1, <3>2
      <4> QED
        BY <4>1
    <3> QED
      BY <3>1, <3>2
  <2>2. SameUnit(a, p + j * w, val, j * w, w)
    BY <1>1, <1>2, <1>3 DEF AllUnits
  <2>3. a[(p + j * w) + k] = val[j * w + k]
    BY <2>2 DEF SameUnit
  <2>4. (p + j * w) + k = p + i
    <3>1. PICK z \in Int : z = j * w
      OBVIOUS
    <3> QED
      BY <2>1, <3>1
  <2> QED
    BY <2>1, <2>3, <2>4
<1>4. ASSUME p \in Matches(a, val, L, n), NEW j \in 0..(m - 1)
      PROVE  SameUnit(a, p + j * w, val, j * w, w)
  <2>1. \A i \in 0..(n - 1) : a[p + i] = val[i]
    BY <1>4 DEF Matches
  <2>2. ASSUME NEW k \in 0..(w - 1) PROVE a[(p + j * w) + k] = val[j * w + k]
    <3>1. j * w + k \in 0..(n - 1) /\ (p + j * w) + k = p + (j * w + k)
      <4>1. CASE w = 1
        BY <1>1, <4>1
      <4>2. CASE w = 2
        BY <1>1, <4>2
      <4> QED
        BY <4>1, <4>2
    <3> QED
      BY <2>1, <3>1
  <2> QED
    BY <2>2 DEF SameUnit
<1> QED
  BY <1>1, <1>2, <1>3, <1>4 DEF AllUnits, Matches

(* The loop downwards.                                                      *)
LastDone(a, val, L, n, w) == {p \in (-2)..L : p < 0 \/ AllUnits(a, val, n, w, p)}
LastOut(L, w) == [p \in (-2)..L |-> IF p < 0 THEN -1 ELSE p \div w]
LastNext(L, w) == [p \in (-2)..L |-> p - w]
LastRank(L) == [p \in (-2)..L |-> p + 3]

LastLoop(a, val, L, n, w, g) ==
    Loop((-2)..L, LastDone(a, val, L, n, w), LastOut(L, w), LastNext(L, w), g)

LEMMA LastFalls ==
    ASSUME NEW L \in Nat, NEW n \in Nat, NEW a, NEW val, NEW w \in {1, 2},
           NEW p \in (-2)..L, p \notin LastDone(a, val, L, n, w)
    PROVE  /\ p >= 0 /\ LastNext(L, w)[p] = p - w
           /\ LastNext(L, w)[p] \in (-2)..L
           /\ LastRank(L)[LastNext(L, w)[p]] < LastRank(L)[p]
<1>1. p >= 0
  BY DEF LastDone
<1>2. PICK q \in (-2)..L : q = p - w /\ LastNext(L, w)[p] = q
  BY <1>1 DEF LastNext
<1>3. LastRank(L)[q] = q + 3 /\ LastRank(L)[p] = p + 3
  BY DEF LastRank
<1> QED
  BY <1>1, <1>2, <1>3

LEMMA LastIsLoop ==
    ASSUME NEW L \in Nat, NEW n \in Nat, NEW a \in Arrays(L), NEW val \in Arrays(n),
           NEW w \in {1, 2}, NEW start \in 0..(L - 1)
    PROVE  LET from == IF start + n > L THEN L - n ELSE start
           IN  \E g : /\ LastLoop(a, val, L, n, w, g)
                      /\ ArrayLastIndexOf(a, val, start, w) = IF from < 0 THEN -1 ELSE g[from]
<1>1. Length(a) = L /\ Length(val) = n
  BY MemoryOf DEF Arrays
<1>2. PICK from : from = IF start + n > L THEN L - n ELSE start
  OBVIOUS
<1> DEFINE Body(g, p) ==
        IF p < 0 THEN -1 ELSE IF AllUnits(a, val, n, w, p) THEN p \div w ELSE g[p - w]
<1>3. ArrayLastIndexOf(a, val, start, w)
        = IF from < 0 THEN -1 ELSE (CHOOSE g : g = [p \in (-2)..L |-> Body(g, p)])[from]
  BY <1>1, <1>2 DEF ArrayLastIndexOf, AllUnits
<1> HIDE DEF Body
<1>4. ASSUME NEW g, NEW p \in (-2)..L
      PROVE  Body(g, p) = IF p \in LastDone(a, val, L, n, w) THEN LastOut(L, w)[p]
                          ELSE g[LastNext(L, w)[p]]
  BY DEF Body, LastDone, LastOut, LastNext
<1>5. ASSUME NEW g PROVE LastLoop(a, val, L, n, w, g) <=> g = [p \in (-2)..L |-> Body(g, p)]
  <2>1. [p \in (-2)..L |-> Body(g, p)]
          = [p \in (-2)..L |-> IF p \in LastDone(a, val, L, n, w) THEN LastOut(L, w)[p]
                               ELSE g[LastNext(L, w)[p]]]
    BY <1>4
  <2> QED
    BY <2>1, Zenon DEF LastLoop, Loop
<1>6. \E g : LastLoop(a, val, L, n, w, g)
  <2>1. PICK N \in Nat : LastRank(L) \in [(-2)..L -> 1..N]
    <3>1. L + 3 \in Nat /\ LastRank(L) \in [(-2)..L -> 1..(L + 3)]
      BY DEF LastRank
    <3> QED
      BY <3>1
  <2>2. \A p \in (-2)..L : p \notin LastDone(a, val, L, n, w) =>
           LastNext(L, w)[p] \in (-2)..L /\ LastRank(L)[LastNext(L, w)[p]] < LastRank(L)[p]
    BY LastFalls
  <2>3. \E g : Loop((-2)..L, LastDone(a, val, L, n, w), LastOut(L, w), LastNext(L, w), g)
    BY <2>1, <2>2, LoopEnds, Zenon
  <2> QED
    BY <2>3 DEF LastLoop
<1>7. PICK h : h = CHOOSE g : g = [p \in (-2)..L |-> Body(g, p)]
  OBVIOUS
<1>8. h = [p \in (-2)..L |-> Body(h, p)]
  <2>1. \E g : g = [p \in (-2)..L |-> Body(g, p)]
    BY <1>5, <1>6
  <2> QED
    BY <1>7, <2>1, Zenon
<1>9. LastLoop(a, val, L, n, w, h)
  BY <1>5, <1>8, Zenon
<1>10. ArrayLastIndexOf(a, val, start, w) = IF from < 0 THEN -1 ELSE h[from]
  BY <1>3, <1>7, Zenon
<1> QED
  BY <1>2, <1>9, <1>10

(* arrayIndexOf downwards finds the last place where val is, in units.      *)
LEMMA LastFinds ==
    ASSUME NEW L \in Nat, NEW n \in Nat \ {0}, NEW a \in Arrays(L), NEW val \in Arrays(n),
           NEW w \in {1, 2}, Even(L, w), Even(n, w), NEW start \in 0..(L - 1), Even(start, w)
    PROVE  LastOf(Back(Matches(a, val, L, n), start, w), ArrayLastIndexOf(a, val, start, w), w)
<1>1. PICK from \in Int : from = IF start + n > L THEN L - n ELSE start
  OBVIOUS
<1>2. PICK g : /\ LastLoop(a, val, L, n, w, g)
               /\ ArrayLastIndexOf(a, val, start, w) = IF from < 0 THEN -1 ELSE g[from]
  BY <1>1, LastIsLoop
<1>3. PICK S, done, next, rank, T :
        /\ S = Matches(a, val, L, n) /\ done = LastDone(a, val, L, n, w)
        /\ next = LastNext(L, w) /\ rank = LastRank(L)
        /\ T = {p \in (-2)..L : p <= L - n /\ Even(p, w) => LastOf(Back(S, p, w), g[p], w)}
  OBVIOUS
<1>4. \A p \in (-2)..L : g[p] = IF p \in done THEN LastOut(L, w)[p] ELSE g[next[p]]
  BY <1>2, <1>3 DEF LastLoop, Loop
<1>5. \A x \in S : x \in 0..(L - n)
  BY <1>3 DEF Matches
<1>6. ASSUME NEW p \in (-2)..L, \A q \in (-2)..L : rank[q] < rank[p] => q \in T
      PROVE  p \in T
  <2> SUFFICES ASSUME p <= L - n, Even(p, w)
               PROVE  LastOf(Back(S, p, w), g[p], w)
    BY <1>3
  <2>1. CASE p < 0
    <3>1. g[p] = -1
      BY <1>3, <1>4, <2>1 DEF LastDone, LastOut
    <3>2. Back(S, p, w) = {}
      BY <1>5, <2>1 DEF Back
    <3> QED
      BY <3>1, <3>2 DEF LastOf
  <2>2. CASE p >= 0 /\ p \in done
    <3>1. g[p] = p \div w
      BY <1>3, <1>4, <2>2 DEF LastOut
    <3>2. p \in S
      <4>1. p \in 0..(L - n) /\ n \in Nat
        BY <2>2
      <4>2. AllUnits(a, val, n, w, p)
        BY <1>3, <2>2 DEF LastDone
      <4> QED
        BY <1>3, <4>1, <4>2, AllUnitsAgree
    <3>3. (p \div w) * w = p /\ p % w = 0 /\ p \div w \in Int
      <4>1. CASE w = 1
        BY <4>1
      <4>2. CASE w = 2
        BY <4>2 DEF Even
      <4> QED
        BY <4>1, <4>2
    <3>4. p \in Back(S, p, w) /\ \A x \in Back(S, p, w) : x <= p
      BY <3>2, <3>3 DEF Back
    <3> QED
      BY <3>1, <3>3, <3>4 DEF LastOf
  <2>3. CASE p >= 0 /\ p \notin done
    <3>1. PICK q \in (-2)..L : q = p - w /\ g[p] = g[q] /\ rank[q] < rank[p]
      BY <1>3, <1>4, <2>3, LastFalls
    <3>2. p \notin S
      <4>1. p \in 0..(L - n) /\ n \in Nat
        BY <2>3
      <4>2. ~AllUnits(a, val, n, w, p)
        BY <1>3, <2>3 DEF LastDone
      <4> QED
        BY <1>3, <4>1, <4>2, AllUnitsAgree
    <3>3. q <= L - n /\ Even(q, w)
      BY <3>1 DEF Even
    <3>4. LastOf(Back(S, q, w), g[q], w)
      BY <1>3, <1>6, <3>1, <3>3
    <3>5. ASSUME NEW x \in S PROVE x <= p /\ x % w = 0 <=> x <= q /\ x % w = 0
      <4>1. x \in Nat /\ x # p
        BY <1>5, <3>2
      <4>2. CASE w = 1
        BY <3>1, <4>1, <4>2
      <4>3. CASE w = 2
        BY <3>1, <4>1, <4>3 DEF Even
      <4> QED
        BY <4>2, <4>3
    <3>6. Back(S, q, w) = Back(S, p, w)
      BY <3>5 DEF Back
    <3> QED
      BY <3>1, <3>4, <3>6
  <2> QED
    BY <2>1, <2>2, <2>3
<1>7. \A p \in (-2)..L : p \in T
  <2>1. PICK N \in Nat : rank \in [(-2)..L -> 0..N]
    <3>1. L + 3 \in Nat /\ rank \in [(-2)..L -> 0..(L + 3)]
      BY <1>3 DEF LastRank
    <3> QED
      BY <3>1
  <2>2. PICK R : R = (-2)..L
    OBVIOUS
  <2>3. rank \in [R -> 0..N]
    BY <2>1, <2>2
  <2>4. \A p \in R : (\A q \in R : rank[q] < rank[p] => q \in T) => p \in T
    BY <1>6, <2>2
  <2>5. \A p \in R : p \in T
    BY <2>3, <2>4, RankInduction
  <2> QED
    BY <2>2, <2>5
<1>8. CASE from < 0
  <2>1. S = {}
    BY <1>1, <1>5, <1>8
  <2>2. Back(S, start, w) = {}
    BY <2>1 DEF Back
  <2> QED
    BY <1>2, <1>3, <1>8, <2>2 DEF LastOf
<1>9. CASE from >= 0
  <2>1. from \in (-2)..L /\ from <= L - n /\ Even(from, w)
    <3>1. from \in (-2)..L /\ from <= L - n
      BY <1>1, <1>9
    <3>2. Even(from, w)
      BY <1>1 DEF Even
    <3> QED
      BY <3>1, <3>2
  <2>2. LastOf(Back(S, from, w), g[from], w)
    BY <1>3, <1>7, <2>1
  <2>3. ASSUME NEW x \in S PROVE x <= from <=> x <= start
    <3>1. x \in Nat /\ x <= L - n
      BY <1>5
    <3>2. CASE start + n > L
      BY <1>1, <3>1, <3>2
    <3>3. CASE ~(start + n > L)
      BY <1>1, <3>3
    <3> QED
      BY <3>2, <3>3
  <2>4. Back(S, from, w) = Back(S, start, w)
    BY <2>3 DEF Back
  <2>5. ~(from < 0)
    BY <1>9
  <2> QED
    BY <1>2, <1>3, <2>2, <2>4, <2>5
<1> QED
  BY <1>8, <1>9

-----------------------------------------------------------------------------
(* compare.                                                                 *)

LEMMA Opposite == \A u, v \in Int : u = -v => v = -u
OBVIOUS

LEMMA SignFacts ==
    ASSUME NEW x \in Int, NEW y \in Int
    PROVE  Sign(x, y) = -Sign(y, x) /\ Sign(x, x) = 0 /\ (x # y => Sign(x, y) # 0)
<1>1. CASE x < y
  <2>1. ~(y < x) /\ ~(x < x)
    BY <1>1
  <2>2. Sign(x, y) = -1 /\ Sign(y, x) = 1 /\ Sign(x, x) = 0
    BY <1>1, <2>1 DEF Sign
  <2> QED
    BY <2>2
<1>2. CASE y < x
  <2>1. ~(x < y) /\ ~(x < x)
    BY <1>2
  <2>2. Sign(x, y) = 1 /\ Sign(x, x) = 0
    BY <1>2, <2>1 DEF Sign
  <2>3. Sign(y, x) = -1
    BY <1>2, <2>1 DEF Sign
  <2>4. Sign(x, y) \in Int /\ Sign(y, x) \in Int /\ Sign(y, x) = -Sign(x, y)
    BY <2>2, <2>3
  <2>5. Sign(x, y) = -Sign(y, x)
    BY <2>4, Opposite, Zenon
  <2> QED
    BY <2>2, <2>5
<1>3. CASE x = y
  BY <1>3 DEF Sign
<1> QED
  BY <1>1, <1>2, <1>3

Differ(a, t, p, m) == {i \in 0..(m - 1) : a[p + i] # t[0 + i]}
LeastIn(S) == CHOOSE j \in S : \A k \in S : j <= k

(* compare of n bytes of a, from p on, with the whole of t.                 *)
LEMMA CompareIs ==
    ASSUME NEW L \in Nat, NEW n \in Nat, NEW a \in Arrays(L), NEW t \in Arrays(n),
           NEW p \in Nat, NEW x \in Nat, p + x <= L
    PROVE  LET D == Differ(a, t, p, Min2(x, n))
           IN  /\ Compare(a, t, 0, n, p, p + x)
                    = IF x = 0 \/ n = 0 THEN Sign(IF x > 0 THEN 1 ELSE 0, IF n > 0 THEN 1 ELSE 0)
                      ELSE IF D = {} THEN Sign(x, n)
                      ELSE Sign(a[p + LeastIn(D)], t[0 + LeastIn(D)])
               /\ D # {} => LeastIn(D) \in D
<1>1. Length(a) = L /\ Length(t) = n
  BY MemoryOf DEF Arrays
<1>2. PICK D : D = Differ(a, t, p, Min2(x, n))
  OBVIOUS
<1>3. (p + x) - p = x /\ n - 0 = n
  OBVIOUS
<1>4. D = {i \in 0..(Min2((p + x) - p, n - 0) - 1) : a[p + i] # t[0 + i]}
  BY <1>2, <1>3 DEF Differ
<1>5. Compare(a, t, 0, n, p, p + x)
        = IF 0 < 0 \/ n > L + n - L \/ p < 0 \/ p + x > L THEN Throws
          ELSE CASE x <= 0 \/ n <= 0 -> Sign(IF x > 0 THEN 1 ELSE 0, IF n > 0 THEN 1 ELSE 0)
                 [] x > 0 /\ n > 0 /\ D = {} -> Sign(x, n)
                 [] OTHER -> Sign(a[p + LeastIn(D)], t[0 + LeastIn(D)])
  <2>1. n = L + n - L
    OBVIOUS
  <2> QED
    BY <1>1, <1>3, <1>4, <2>1 DEF Compare, LeastIn
<1>6. ~(0 < 0) /\ ~(n > L + n - L) /\ ~(p < 0) /\ ~(p + x > L)
  OBVIOUS
<1>7. x > 0 /\ n > 0 <=> ~(x <= 0 \/ n <= 0)
  OBVIOUS
<1>8. x <= 0 \/ n <= 0 <=> x = 0 \/ n = 0
  OBVIOUS
<1>9. ASSUME D # {} PROVE LeastIn(D) \in D
  <2>1. PICK m \in Nat : m = Min2(x, n)
    BY DEF Min2
  <2>2. D \in SUBSET (0..m)
    BY <1>2, <2>1 DEF Differ
  <2>3. \E j \in D : \A k \in D : j <= k
    BY <1>9, <2>1, <2>2, LeastExists
  <2> QED
    BY <2>3 DEF LeastIn
<1> QED
  BY <1>2, <1>5, <1>6, <1>7, <1>8, <1>9

LEMMA CompareOpposite ==
    ASSUME NEW L \in Nat, NEW n \in Nat, NEW a \in Arrays(L), NEW t \in Arrays(n)
    PROVE  CompareWhole(a, t) = -CompareWhole(t, a)
<1>1. Length(a) = L /\ Length(t) = n
  BY MemoryOf DEF Arrays
<1>2. PICK D : D = Differ(a, t, 0, Min2(L, n))
  OBVIOUS
<1>3. D = Differ(t, a, 0, Min2(n, L))
  <2>1. Min2(L, n) = Min2(n, L)
    BY DEF Min2
  <2> QED
    BY <1>2, <2>1 DEF Differ
<1>4. 0 \in Nat /\ 0 + L = L /\ 0 + n = n /\ 0 + L <= L /\ 0 + n <= n
  OBVIOUS
<1>5. PICK z : z = LeastIn(D)
  OBVIOUS
<1>6. /\ CompareWhole(a, t)
           = IF L = 0 \/ n = 0 THEN Sign(IF L > 0 THEN 1 ELSE 0, IF n > 0 THEN 1 ELSE 0)
             ELSE IF D = {} THEN Sign(L, n) ELSE Sign(a[0 + z], t[0 + z])
      /\ D # {} => z \in D
  <2>1. CompareWhole(a, t) = Compare(a, t, 0, n, 0, 0 + L)
    BY <1>1, <1>4 DEF CompareWhole
  <2> QED
    BY <1>2, <1>4, <1>5, <2>1, CompareIs
<1>7. CompareWhole(t, a)
        = IF n = 0 \/ L = 0 THEN Sign(IF n > 0 THEN 1 ELSE 0, IF L > 0 THEN 1 ELSE 0)
          ELSE IF D = {} THEN Sign(n, L) ELSE Sign(t[0 + z], a[0 + z])
  <2>1. CompareWhole(t, a) = Compare(t, a, 0, L, 0, 0 + n)
    BY <1>1, <1>4 DEF CompareWhole
  <2> QED
    BY <1>3, <1>4, <1>5, <2>1, CompareIs
<1>8. CASE L = 0 \/ n = 0
  <2>1. PICK u \in Int, v \in Int : u = (IF L > 0 THEN 1 ELSE 0) /\ v = (IF n > 0 THEN 1 ELSE 0)
    OBVIOUS
  <2> QED
    BY <1>6, <1>7, <1>8, <2>1, SignFacts
<1>9. CASE ~(L = 0 \/ n = 0) /\ D = {}
  BY <1>6, <1>7, <1>9, SignFacts
<1>10. CASE ~(L = 0 \/ n = 0) /\ D # {}
  <2>1. z \in 0..(L - 1) /\ z \in 0..(n - 1)
    <3>1. z \in 0..(Min2(L, n) - 1)
      BY <1>2, <1>6, <1>10 DEF Differ
    <3> QED
      BY <3>1 DEF Min2
  <2>2. a[z] \in Int /\ t[z] \in Int /\ 0 + z = z
    <3>1. a[z] \in Byte /\ t[z] \in Byte
      BY <2>1 DEF Arrays
    <3>2. Byte \subseteq Int
      BY ByteFacts
    <3>3. 0 + z = z
      BY <2>1
    <3> QED
      BY <3>1, <3>2, <3>3
  <2> QED
    BY <1>6, <1>7, <1>10, <2>2, SignFacts
<1> QED
  BY <1>8, <1>9, <1>10

LEMMA CompareEqual ==
    ASSUME NEW L \in Nat, NEW n \in Nat, NEW a \in Arrays(L), NEW t \in Arrays(n),
           NEW p \in 0..(L - n)
    PROVE  Compare(a, t, 0, n, p, p + n) = 0 <=> p \in Matches(a, t, L, n)
<1>1. PICK D : D = Differ(a, t, p, n)
  OBVIOUS
<1>2. Min2(n, n) = n /\ p \in Nat /\ p + n <= L
  BY DEF Min2
<1>3. PICK z : z = LeastIn(D)
  OBVIOUS
<1>4. /\ Compare(a, t, 0, n, p, p + n)
           = IF n = 0 \/ n = 0 THEN Sign(IF n > 0 THEN 1 ELSE 0, IF n > 0 THEN 1 ELSE 0)
             ELSE IF D = {} THEN Sign(n, n) ELSE Sign(a[p + z], t[0 + z])
      /\ D # {} => z \in D
  BY <1>1, <1>2, <1>3, CompareIs
<1>5. D = {} <=> p \in Matches(a, t, L, n)
  <2>1. \A i \in 0..(n - 1) : 0 + i = i
    OBVIOUS
  <2> QED
    BY <1>1, <2>1 DEF Differ, Matches
<1>6. CASE n = 0
  <2>1. D = {}
    BY <1>1, <1>6 DEF Differ
  <2>2. Compare(a, t, 0, n, p, p + n) = Sign(0, 0)
    BY <1>4, <1>6
  <2> QED
    BY <1>5, <2>1, <2>2, SignFacts
<1>7. CASE n # 0 /\ D = {}
  BY <1>4, <1>5, <1>7, SignFacts
<1>8. CASE n # 0 /\ D # {}
  <2>1. z \in 0..(n - 1) /\ a[p + z] # t[0 + z]
    BY <1>1, <1>4, <1>8 DEF Differ
  <2>2. a[p + z] \in Int /\ t[0 + z] \in Int
    <3>1. p + z \in 0..(L - 1) /\ 0 + z \in 0..(n - 1)
      BY <2>1
    <3>2. a[p + z] \in Byte /\ t[0 + z] \in Byte
      BY <3>1 DEF Arrays
    <3>3. Byte \subseteq Int
      BY ByteFacts
    <3> QED
      BY <3>2, <3>3
  <2> QED
    BY <1>4, <1>5, <1>8, <2>1, <2>2, SignFacts
<1> QED
  BY <1>6, <1>7, <1>8

-----------------------------------------------------------------------------
(* indexOf and lastIndexOf.                                                 *)

LEMMA StartIs ==
    ASSUME NEW L \in Nat \ {0}, NEW a \in Arrays(L), NEW o \in Int, NEW dir \in BOOLEAN
    PROVE  StartOf(a, o, dir) \in (-1)..(L - 1)
<1>1. Length(a) = L
  BY MemoryOf DEF Arrays
<1>2. PICK x \in Int : x = IF o < 0 THEN L + o ELSE o
  OBVIOUS
<1>3. CASE x >= L
  BY <1>1, <1>2, <1>3 DEF StartOf
<1>4. CASE ~(x >= L) /\ x < 0
  BY <1>1, <1>2, <1>4 DEF StartOf
<1>5. CASE ~(x >= L) /\ ~(x < 0)
  BY <1>1, <1>2, <1>5 DEF StartOf
<1> QED
  BY <1>3, <1>4, <1>5

Ahead(S, start, w) == {p \in S : start >= 0 /\ p >= start /\ (p - start) % w = 0}

LEMMA IndexOfFinds ==
    ASSUME NEW L \in Nat, NEW n \in Nat \ {0}, NEW a \in Arrays(L), NEW val \in Arrays(n),
           NEW w \in {1, 2}, NEW o \in Int, Even(n, w)
    PROVE  FirstOf(Ahead(Matches(a, val, L, n), StartOf(a, o, TRUE), w),
                   BidirectionalIndexOf(a, val, o, w, TRUE), w)
<1>1. Length(a) = L /\ Length(val) = n
  BY MemoryOf DEF Arrays
<1>2. PICK S, start, r :
        /\ S = Matches(a, val, L, n) /\ start = StartOf(a, o, TRUE)
        /\ r = BidirectionalIndexOf(a, val, o, w, TRUE)
  OBVIOUS
<1>3. \A p \in S : p \in 0..(L - n)
  BY <1>2 DEF Matches
<1>4. CASE L = 0 \/ (w = 2 /\ (L < 2 \/ n < 2))
  <2>1. S = {}
    <3>1. L < n
      <4>1. CASE L = 0
        BY <4>1
      <4>2. CASE w = 2 /\ (L < 2 \/ n < 2)
        <5>1. n % 2 = 0
          BY <4>2 DEF Even
        <5> QED
          BY <4>2, <5>1
      <4> QED
        BY <1>4, <4>1, <4>2
    <3> QED
      BY <1>3, <3>1
  <2>2. r = -1
    BY <1>1, <1>2, <1>4 DEF BidirectionalIndexOf
  <2>3. Ahead(S, start, w) = {}
    BY <2>1 DEF Ahead
  <2> QED
    BY <1>2, <2>2, <2>3 DEF FirstOf
<1>5. CASE ~(L = 0 \/ (w = 2 /\ (L < 2 \/ n < 2)))
  <2>1. start \in (-1)..(L - 1)
    <3>1. L \in Nat \ {0} /\ TRUE \in BOOLEAN
      BY <1>5
    <3> QED
      BY <1>2, <3>1, StartIs
  <2>2. r = IF start = -1 THEN -1 ELSE ArrayIndexOf(a, val, start, w)
    BY <1>1, <1>2, <1>5 DEF BidirectionalIndexOf
  <2>3. CASE start = -1
    <3>1. Ahead(S, start, w) = {}
      BY <2>3 DEF Ahead
    <3> QED
      BY <1>2, <2>2, <2>3, <3>1 DEF FirstOf
  <2>4. CASE start # -1
    <3>1. start \in 0..(L - 1)
      BY <2>1, <2>4
    <3>2. Ahead(S, start, w) = Onwards(S, start, w)
      BY <3>1 DEF Ahead, Onwards
    <3>3. FirstOf(Onwards(S, start, w), ArrayIndexOf(a, val, start, w), w)
      BY <1>2, <3>1, SearchFinds
    <3> QED
      BY <1>2, <2>2, <2>4, <3>2, <3>3
  <2> QED
    BY <2>3, <2>4
<1> QED
  BY <1>4, <1>5

LEMMA LastIndexOfFinds ==
    ASSUME NEW L \in Nat, NEW n \in Nat \ {0}, NEW a \in Arrays(L), NEW val \in Arrays(n),
           NEW o \in Int
    PROVE  LastOf({p \in Matches(a, val, L, n) : p <= StartOf(a, o, FALSE)},
                  BidirectionalIndexOf(a, val, o, 1, FALSE), 1)
<1>1. Length(a) = L /\ Length(val) = n
  BY MemoryOf DEF Arrays
<1>2. PICK S, last, l :
        /\ S = Matches(a, val, L, n) /\ last = StartOf(a, o, FALSE)
        /\ l = BidirectionalIndexOf(a, val, o, 1, FALSE)
  OBVIOUS
<1>3. \A p \in S : p \in 0..(L - n)
  BY <1>2 DEF Matches
<1>4. {p \in S : p <= last} = Back(S, last, 1)
  BY <1>3 DEF Back
<1>5. CASE L = 0
  <2>1. Back(S, last, 1) = {}
    BY <1>3, <1>5 DEF Back
  <2>2. l = -1
    BY <1>1, <1>2, <1>5 DEF BidirectionalIndexOf
  <2> QED
    BY <1>2, <1>4, <2>1, <2>2 DEF LastOf
<1>6. CASE L # 0
  <2>1. last \in (-1)..(L - 1)
    <3>1. L \in Nat \ {0} /\ FALSE \in BOOLEAN
      BY <1>6
    <3> QED
      BY <1>2, <3>1, StartIs
  <2>2. l = IF last = -1 THEN -1 ELSE ArrayLastIndexOf(a, val, last, 1)
    <3>1. n # 0 /\ 1 # 2
      OBVIOUS
    <3> QED
      BY <1>1, <1>2, <1>6, <3>1 DEF BidirectionalIndexOf
  <2>3. CASE last = -1
    <3>1. Back(S, last, 1) = {}
      BY <1>3, <2>3 DEF Back
    <3> QED
      BY <1>2, <1>4, <2>2, <2>3, <3>1 DEF LastOf
  <2>4. CASE last # -1
    <3>1. last \in 0..(L - 1) /\ 1 \in {1, 2} /\ Even(L, 1) /\ Even(n, 1) /\ Even(last, 1)
      BY <2>1, <2>4 DEF Even
    <3>2. LastOf(Back(S, last, 1), ArrayLastIndexOf(a, val, last, 1), 1)
      BY <1>2, <3>1, LastFinds
    <3> QED
      BY <1>2, <1>4, <2>2, <2>4, <3>2
  <2> QED
    BY <2>3, <2>4
<1> QED
  BY <1>5, <1>6

(* indexOf finds the first place where the value is, from the offset on,    *)
(* byte by byte or in units of two, and lastIndexOf byte by byte the last:  *)
(* the scan loses no place when it restarts after a partial match.          *)
(* compare is 0 exactly at those places, and changes its sign with the      *)
(* sides.                                                                   *)
THEOREM BufferIndexOfIsExact == Spec => []IndexOfIsExact
<1>1. ASSUME BufferInv PROVE IndexOfIsExact
  <2> SUFFICES ASSUME NEW b \in Range(bufs), NEW c \in Range(bufs), NEW w \in {1, 2},
                      NEW o \in Offsets \cup {-b.length - 1, -2}
               PROVE  LET a == Bytes(b)
                          val == Bytes(c)
                          start == StartOf(a, o, TRUE)
                          last == StartOf(a, o, FALSE)
                          matches == {p \in 0..(b.length - c.length) :
                                         \A j \in DOMAIN val : a[p + j] = val[j]}
                          ahead == {p \in matches :
                                       start >= 0 /\ p >= start /\ (p - start) % w = 0}
                          behind == {p \in matches : p <= last}
                      IN  /\ w = 1 =>
                               /\ CompareWhole(a, val) = -CompareWhole(val, a)
                               /\ \A p \in 0..(b.length - c.length) :
                                     Compare(a, val, 0, c.length, p, p + c.length) = 0
                                       <=> p \in matches
                          /\ c.length > 0 /\ (w = 2 => c.length % 2 = 0) =>
                               LET r == BidirectionalIndexOf(a, val, o, w, TRUE)
                               IN  IF ahead = {} THEN r \in {-1, Throws} /\ (r = Throws => w = 2)
                                   ELSE r \in ahead /\ \A p \in ahead : r <= p
                          /\ c.length > 0 /\ w = 1 =>
                               LET r == BidirectionalIndexOf(a, val, o, w, FALSE)
                               IN  IF behind = {} THEN r = -1
                                   ELSE r \in behind /\ \A p \in behind : p <= r
    BY Zenon DEF IndexOfIsExact
  <2>1. b \in Windows /\ Inside(b, store) /\ c \in Windows /\ Inside(c, store)
    BY <1>1, BufferOf
  <2>2. PICK L \in Nat, n \in Nat : L = b.length /\ n = c.length
    BY <2>1 DEF Windows
  <2>3. o \in Int
    BY <2>2, BufferAssumption
  <2>4. PICK a \in Arrays(L), val \in Arrays(n) : a = Bytes(b) /\ val = Bytes(c)
    BY <1>1, <2>1, <2>2, Viewed DEF Bytes, Arrays, BufferInv
  <2>5. PICK S, start, last : /\ S = Matches(a, val, L, n)
                              /\ start = StartOf(a, o, TRUE) /\ last = StartOf(a, o, FALSE)
    OBVIOUS
  <2>6. S = {p \in 0..(L - n) : \A j \in DOMAIN val : a[p + j] = val[j]}
    BY <2>5 DEF Matches, Arrays
  <2>7. CompareWhole(a, val) = -CompareWhole(val, a)
    BY CompareOpposite
  <2>8. \A p \in 0..(L - n) : Compare(a, val, 0, n, p, p + n) = 0 <=> p \in S
    BY <2>5, CompareEqual
  <2>9. PICK r, l : /\ r = BidirectionalIndexOf(a, val, o, w, TRUE)
                    /\ l = BidirectionalIndexOf(a, val, o, w, FALSE)
    OBVIOUS
  <2>10. PICK ahead, behind :
           /\ ahead = {p \in S : start >= 0 /\ p >= start /\ (p - start) % w = 0}
           /\ behind = {p \in S : p <= last}
    OBVIOUS
  <2>11. ASSUME n > 0, w = 2 => n % 2 = 0
         PROVE  IF ahead = {} THEN r \in {-1, Throws} /\ (r = Throws => w = 2)
                ELSE r \in ahead /\ \A p \in ahead : r <= p
    <3>1. n \in Nat \ {0} /\ Even(n, w)
      BY <2>11 DEF Even
    <3>2. FirstOf(Ahead(Matches(a, val, L, n), StartOf(a, o, TRUE), w),
                  BidirectionalIndexOf(a, val, o, w, TRUE), w)
      BY <2>3, <3>1, IndexOfFinds
    <3>3. FirstOf(ahead, r, w)
      BY <2>5, <2>9, <2>10, <3>2, Zenon DEF Ahead
    <3>4. -1 # Throws
      BY DEF Throws
    <3> QED
      BY <3>3, <3>4 DEF FirstOf
  <2>12. ASSUME n > 0, w = 1
         PROVE  IF behind = {} THEN l = -1 ELSE l \in behind /\ \A p \in behind : p <= l
    <3>1. n \in Nat \ {0}
      BY <2>12
    <3>2. LastOf({p \in Matches(a, val, L, n) : p <= StartOf(a, o, FALSE)},
                 BidirectionalIndexOf(a, val, o, 1, FALSE), 1)
      BY <2>3, <3>1, LastIndexOfFinds
    <3>3. LastOf(behind, l, 1)
      BY <2>5, <2>9, <2>10, <2>12, <3>2, Zenon
    <3>4. \A x \in behind : x \in Int
      BY <2>5, <2>10 DEF Matches
    <3>5. CASE behind = {}
      BY <3>3, <3>5 DEF LastOf
    <3>6. CASE behind # {}
      <4>1. l \in Int /\ l * 1 \in behind /\ \A p \in behind : p <= l * 1
        BY <3>3, <3>6 DEF LastOf
      <4>2. l * 1 = l
        BY <4>1
      <4> QED
        BY <3>6, <4>1, <4>2
    <3> QED
      BY <3>5, <3>6
  <2>13. S = {p \in 0..(b.length - c.length) :
                \A j \in DOMAIN Bytes(c) : Bytes(b)[p + j] = Bytes(c)[j]}
    BY <2>2, <2>4, <2>6, Zenon
  <2>14. start = StartOf(Bytes(b), o, TRUE) /\ last = StartOf(Bytes(b), o, FALSE)
    BY <2>4, <2>5, Zenon
  <2>15. /\ CompareWhole(Bytes(b), Bytes(c)) = -CompareWhole(Bytes(c), Bytes(b))
         /\ \A p \in 0..(b.length - c.length) :
               Compare(Bytes(b), Bytes(c), 0, c.length, p, p + c.length) = 0 <=> p \in S
    BY <2>2, <2>4, <2>7, <2>8, Zenon
  <2>16. /\ r = BidirectionalIndexOf(Bytes(b), Bytes(c), o, w, TRUE)
         /\ l = BidirectionalIndexOf(Bytes(b), Bytes(c), o, w, FALSE)
    BY <2>4, <2>9, Zenon
  <2>17. c.length > 0 /\ (w = 2 => c.length % 2 = 0) =>
           IF ahead = {} THEN r \in {-1, Throws} /\ (r = Throws => w = 2)
           ELSE r \in ahead /\ \A p \in ahead : r <= p
    BY <2>2, <2>11
  <2>18. c.length > 0 /\ w = 1 =>
           IF behind = {} THEN l = -1 ELSE l \in behind /\ \A p \in behind : p <= l
    BY <2>2, <2>12
  <2> QED
    BY <2>10, <2>13, <2>14, <2>15, <2>16, <2>17, <2>18, Zenon
<1> QED
  BY <1>1, BufferInvariant, PTL

LEMMA Listed ==
    ASSUME NEW S, NEW n \in Nat, NEW f, f \in [1..n -> S]
    PROVE  f \in Seq(S) /\ Len(f) = n
OBVIOUS

LEMMA Appended ==
    ASSUME NEW S, NEW s \in Seq(S), NEW t \in Seq(S)
    PROVE  /\ s \o t \in Seq(S) /\ Len(s \o t) = Len(s) + Len(t)
           /\ \A i \in 1..Len(s) : (s \o t)[i] = s[i]
           /\ \A i \in 1..Len(t) : (s \o t)[Len(s) + i] = t[i]
           /\ \A i \in 1..Len(s \o t) : i > Len(s) => (s \o t)[i] = t[i - Len(s)]
OBVIOUS

(* A list is determined by its length and its elements.                     *)
Lists(f, n) == DOMAIN f = 1..n /\ f = [i \in DOMAIN f |-> f[i]]
Agrees(s, f, n) == \A i \in 1..n : s[i] = f[i]

LEMMA SameSeq ==
    ASSUME NEW S, NEW s \in Seq(S), NEW n \in Nat, Len(s) = n, NEW f, Lists(f, n), Agrees(s, f, n)
    PROVE  s = f
<1>1. DOMAIN s = 1..n /\ s = [i \in DOMAIN s |-> s[i]]
  OBVIOUS
<1> QED
  BY <1>1 DEF Lists, Agrees

LEMMA EqualSeq ==
    ASSUME NEW S, NEW s \in Seq(S), NEW t \in Seq(S), Len(s) = Len(t), Agrees(s, t, Len(s))
    PROVE  s = t
BY DEF Agrees

(* Groups of the same length, and what Joined makes of them.                *)
EachLong(groups, n, k) == \A g \in 1..n : Len(groups[g]) = k
JoinedAt(groups, n, k, N) ==
    \A i \in 1..N : /\ (i - 1) \div k + 1 \in 1..n /\ ((i - 1) % k) + 1 \in 1..k
                    /\ Joined(groups, k)[i] = groups[(i - 1) \div k + 1][((i - 1) % k) + 1]

LEMMA JoinedIs ==
    ASSUME NEW S, NEW k \in {3, 4}, NEW n \in Nat, NEW groups \in Seq(Seq(S)), Len(groups) = n,
           EachLong(groups, n, k), NEW N, N = k * n
    PROVE  /\ Joined(groups, k) \in Seq(S) /\ Len(Joined(groups, k)) = N
           /\ JoinedAt(groups, n, k, N)
<1>1. N \in Nat
  OBVIOUS
<1>2. ASSUME NEW i \in 1..N
      PROVE  /\ (i - 1) \div k + 1 \in 1..n /\ ((i - 1) % k) + 1 \in 1..k
             /\ groups[(i - 1) \div k + 1][((i - 1) % k) + 1] \in S
  <2>1. (i - 1) \div k + 1 \in 1..n /\ ((i - 1) % k) + 1 \in 1..k
    <3>1. CASE k = 3
      BY <3>1
    <3>2. CASE k = 4
      BY <3>2
    <3> QED
      BY <3>1, <3>2
  <2>2. PICK g \in 1..n, p \in 1..k : g = (i - 1) \div k + 1 /\ p = ((i - 1) % k) + 1
    BY <2>1
  <2>3. groups[g] \in Seq(S) /\ Len(groups[g]) = k
    BY DEF EachLong
  <2>4. groups[g][p] \in S
    BY <2>3
  <2> QED
    BY <2>1, <2>2, <2>4
<1>3. Joined(groups, k) = [i \in 1..N |-> groups[(i - 1) \div k + 1][((i - 1) % k) + 1]]
  BY DEF Joined
<1>4. Joined(groups, k) \in [1..N -> S]
  BY <1>2, <1>3
<1> QED
  BY <1>1, <1>2, <1>3, <1>4, Listed DEF JoinedAt

LEMMA BeforeIs ==
    ASSUME NEW S, NEW s \in Seq(S), NEW c
    PROVE  /\ Before(s, c) \in Seq(S) /\ Len(Before(s, c)) <= Len(s)
           /\ \A i \in 1..Len(Before(s, c)) : Before(s, c)[i] = s[i] /\ s[i] # c
           /\ \/ Len(Before(s, c)) = Len(s)
              \/ Len(Before(s, c)) < Len(s) /\ s[Len(Before(s, c)) + 1] = c
<1>1. PICK here : here = {i \in 1..Len(s) : s[i] = c}
  OBVIOUS
<1>2. CASE here = {}
  <2>1. Before(s, c) = s
    BY <1>1, <1>2 DEF Before
  <2> QED
    BY <1>1, <1>2, <2>1
<1>3. CASE here # {}
  <2>1. \E i \in here : \A j \in here : i <= j
    <3>1. Len(s) \in Nat /\ here \in SUBSET (0..Len(s))
      BY <1>1
    <3> QED
      BY <1>3, <3>1, LeastExists
  <2>2. PICK f : f = CHOOSE i \in here : \A j \in here : i <= j
    OBVIOUS
  <2>3. f \in here /\ \A j \in here : f <= j
    BY <2>1, <2>2
  <2>4. Before(s, c) = SubSeq(s, 1, f - 1)
    BY <1>1, <1>3, <2>2 DEF Before
  <2>5. f \in 1..Len(s) /\ s[f] = c /\ \A i \in 1..(f - 1) : s[i] # c
    BY <1>1, <2>3
  <2> QED
    BY <2>4, <2>5
<1> QED
  BY <1>2, <1>3

LEMMA BeforePads ==
    ASSUME NEW S, NEW t \in Seq(S), Pad \in S, \A i \in 1..Len(t) : t[i] # Pad, NEW n \in Nat
    PROVE  /\ t \o [i \in 1..n |-> Pad] \in Seq(S)
           /\ Before(t \o [i \in 1..n |-> Pad], Pad) = t
<1>1. PICK p : p = [i \in 1..n |-> Pad]
  OBVIOUS
<1>2. p \in Seq(S) /\ Len(p) = n /\ \A i \in 1..n : p[i] = Pad
  <2>1. p \in [1..n -> S] /\ \A i \in 1..n : p[i] = Pad
    BY <1>1
  <2> QED
    BY <2>1, Listed
<1>3. PICK s \in Seq(S) : s = t \o p
  BY <1>2, Appended
<1>4. /\ Len(s) = Len(t) + n
      /\ \A i \in 1..Len(t) : s[i] = t[i]
      /\ \A i \in 1..Len(s) : i > Len(t) => s[i] = Pad
  <2>1. ASSUME NEW i \in 1..(Len(t) + n), i > Len(t) PROVE s[i] = Pad
    <3>1. s[i] = p[i - Len(t)] /\ i - Len(t) \in 1..n
      BY <1>2, <1>3, <2>1
    <3> QED
      BY <1>2, <3>1
  <2>2. Len(s) = Len(t) + n /\ \A i \in 1..Len(t) : s[i] = t[i]
    BY <1>2, <1>3, Appended
  <2> QED
    BY <2>1, <2>2
<1>5. PICK u \in Seq(S) : u = Before(s, Pad) /\ Len(u) <= Len(s)
         /\ (\A i \in 1..Len(u) : u[i] = s[i] /\ s[i] # Pad)
         /\ \/ Len(u) = Len(s)
            \/ Len(u) < Len(s) /\ s[Len(u) + 1] = Pad
  BY BeforeIs
<1>6. Len(u) = Len(t)
  <2>1. CASE Len(u) > Len(t)
    <3>1. Len(u) \in 1..Len(u)
      BY <2>1
    <3> QED
      BY <1>4, <1>5, <2>1, <3>1
  <2>2. CASE Len(u) < Len(t)
    <3>1. Len(u) + 1 \in 1..Len(t) /\ Len(u) < Len(s)
      BY <1>4, <2>2
    <3> QED
      BY <1>4, <1>5, <2>2, <3>1
  <2> QED
    BY <2>1, <2>2
<1>7. u = t
  BY <1>4, <1>5, <1>6
<1> QED
  BY <1>1, <1>3, <1>5, <1>7

LEMMA RevLookupRange ==
    /\ \A c : RevLookup(c) \in (-1)..63
    /\ \A c \in Alphabet : RevLookup(c) \in 0..63 /\ c # Pad /\ c \in Octet
<1>1. ASSUME NEW c PROVE RevLookup(c) \in (-1)..63
  BY DEF RevLookup
<1>2. ASSUME NEW c \in Alphabet PROVE RevLookup(c) \in 0..63 /\ c # Pad /\ c \in Octet
  BY DEF RevLookup, Alphabet, Pad, Octet
<1> QED
  BY <1>1, <1>2

(* The k-th byte that base64 digits make.                                   *)
Packed(d, k) ==
    LET D(i) == RevLookup(d[4 * ((k - 1) \div 3) + i])
    IN  CASE (k - 1) % 3 = 0 -> D(1) * 4 + D(2) \div 16
          [] (k - 1) % 3 = 1 -> (D(2) % 16) * 16 + D(3) \div 4
          [] (k - 1) % 3 = 2 -> (D(3) % 4) * 64 + D(4)

(* What a digit stands for.                                                 *)
Sextet == 0..63

(* Four digits, and three, as one number, and its bytes.                    *)
Number(a, b, c, d) == a * 262144 + b * 4096 + c * 64 + d
ShortNumber(a, b, c) == a * 1024 + b * 16 + c \div 4
BytesOf(tmp) == <<(tmp \div 65536) % 256, (tmp \div 256) % 256, tmp % 256>>
ShortBytesOf(tmp) == <<(tmp \div 256) % 256, tmp % 256>>
ThreeBytes(a, b, c, d) == <<a * 4 + b \div 16, (b % 16) * 16 + c \div 4, (c % 4) * 64 + d>>
TwoBytes(a, b, c) == <<a * 4 + b \div 16, (b % 16) * 16 + c \div 4>>

LEMMA Quartet ==
    ASSUME NEW a \in Sextet, NEW b \in Sextet, NEW c \in Sextet, NEW d \in Sextet
    PROVE  BytesOf(Number(a, b, c, d)) = ThreeBytes(a, b, c, d)
<1>1. PICK tmp \in Int : tmp = a * 262144 + b * 4096 + c * 64 + d
  BY SMT DEF Sextet
<1>2. /\ (tmp \div 65536) % 256 = a * 4 + b \div 16
      /\ (tmp \div 256) % 256 = (b % 16) * 16 + c \div 4
      /\ tmp % 256 = (c % 4) * 64 + d
  BY <1>1, SMT DEF Sextet
<1> QED
  BY <1>1, <1>2, SMT DEF BytesOf, Number, ThreeBytes

LEMMA Triple ==
    ASSUME NEW a \in Sextet, NEW b \in Sextet, NEW c \in Sextet
    PROVE  ShortBytesOf(ShortNumber(a, b, c)) = TwoBytes(a, b, c)
<1>1. PICK tmp \in Int : tmp = a * 1024 + b * 16 + c \div 4
  BY SMT DEF Sextet
<1>2. (tmp \div 256) % 256 = a * 4 + b \div 16 /\ tmp % 256 = (b % 16) * 16 + c \div 4
  BY <1>1, SMT DEF Sextet
<1> QED
  BY <1>1, <1>2, SMT DEF ShortBytesOf, ShortNumber, TwoBytes

LEMMA Pair ==
    ASSUME NEW a \in Sextet, NEW b \in Sextet
    PROVE  (a * 4 + b \div 16) % 256 = a * 4 + b \div 16
BY SMT DEF Sextet

(* How many groups there are, and how many bytes the last one lacks.        *)
PlaceHolders(validLen, len) == IF validLen = len THEN 0 ELSE 4 - (validLen % 4)
Groups(validLen, len) ==
    LET l == IF PlaceHolders(validLen, len) > 0 THEN validLen - 4 ELSE validLen
    IN  IF l <= 0 THEN 0 ELSE (l + 3) \div 4

LEMMA ToByteArrayIs ==
    ASSUME NEW s, NEW m, NEW n, m = Len(Before(s, Pad)), n = Len(s)
    PROVE  ToByteArray(s) = Joined([g \in 1..Groups(m, n) |-> GroupBytes(s, g)], 3)
                            \o LastBytes(s, Groups(m, n), PlaceHolders(m, n))
BY DEF ToByteArray, Groups, PlaceHolders

LEMMA GroupsNat ==
    ASSUME NEW m \in Nat, NEW n \in Nat
    PROVE  Groups(m, n) \in Nat
<1>1. PICK p : p = PlaceHolders(m, n)
  OBVIOUS
<1>2. p \in Int
  <2>1. 4 - (m % 4) \in Int
    OBVIOUS
  <2> QED
    BY <1>1, <2>1 DEF PlaceHolders
<1>3. PICK l \in Int : l = IF p > 0 THEN m - 4 ELSE m
  BY <1>2
<1>4. Groups(m, n) = IF l <= 0 THEN 0 ELSE (l + 3) \div 4
  BY <1>1, <1>3 DEF Groups
<1>5. l > 0 => (l + 3) \div 4 \in Nat
  OBVIOUS
<1> QED
  BY <1>4, <1>5

LEMMA GroupsOf ==
    ASSUME NEW m \in Nat, NEW n \in Nat, m >= 2, n = (4 - (m % 4)) % 4
    PROVE  \E g \in Nat, r \in 0..3 :
              /\ m = 4 * g + r /\ Groups(m, m + n) = g
              /\ PlaceHolders(m, m + n) = IF r = 0 THEN 0 ELSE 4 - r
<1>1. m \div 4 \in Nat /\ m % 4 \in 0..3 /\ m = 4 * (m \div 4) + (m % 4)
  OBVIOUS
<1>2. PICK g \in Nat : g = m \div 4
  BY <1>1
<1>3. PICK r \in 0..3 : r = m % 4
  BY <1>1
<1>4. m = 4 * g + r
  BY <1>1, <1>2, <1>3
<1>5. n = (IF r = 0 THEN 0 ELSE 4 - r)
  BY <1>3
<1>6. m = m + n <=> r = 0
  BY <1>5
<1>7. PlaceHolders(m, m + n) = IF r = 0 THEN 0 ELSE 4 - r
  BY <1>3, <1>6 DEF PlaceHolders
<1>8. PICK l \in Int : l = IF r = 0 THEN m ELSE m - 4
  OBVIOUS
<1>9. Groups(m, m + n) = IF l <= 0 THEN 0 ELSE (l + 3) \div 4
  BY <1>7, <1>8 DEF Groups
<1>10. g = IF l <= 0 THEN 0 ELSE (l + 3) \div 4
  BY <1>4, <1>8
<1> QED
  BY <1>4, <1>7, <1>9, <1>10

(* Whatever the text, bytes come out.                                       *)
LEMMA FourBytes ==
    ASSUME NEW s, NEW n \in Nat
    PROVE  /\ [g \in 1..n |-> GroupBytes(s, g)] \in Seq(Seq(Octet))
           /\ Len([g \in 1..n |-> GroupBytes(s, g)]) = n
           /\ EachLong([g \in 1..n |-> GroupBytes(s, g)], n, 3)
<1>1. ASSUME NEW g \in 1..n PROVE GroupBytes(s, g) \in Seq(Octet) /\ Len(GroupBytes(s, g)) = 3
  <2>1. PICK i : i = 4 * (g - 1)
    OBVIOUS
  <2>2. /\ RevLookup(s[i + 1]) \in Int /\ RevLookup(s[i + 2]) \in Int
        /\ RevLookup(s[i + 3]) \in Int /\ RevLookup(s[i + 4]) \in Int
    BY RevLookupRange
  <2>3. PICK tmp \in Int : tmp = RevLookup(s[i + 1]) * 262144 + RevLookup(s[i + 2]) * 4096
                                 + RevLookup(s[i + 3]) * 64 + RevLookup(s[i + 4])
    BY <2>2
  <2>4. GroupBytes(s, g) = <<(tmp \div 65536) % 256, (tmp \div 256) % 256, tmp % 256>>
    BY <2>1, <2>3, SMT DEF GroupBytes
  <2>5. PICK x \in Octet : x = (tmp \div 65536) % 256
    BY DEF Octet
  <2>6. PICK y \in Octet : y = (tmp \div 256) % 256
    BY DEF Octet
  <2>7. PICK z \in Octet : z = tmp % 256
    BY DEF Octet
  <2>8. GroupBytes(s, g) = <<x, y, z>>
    BY <2>4, <2>5, <2>6, <2>7
  <2> QED
    BY <2>8
<1>2. [g \in 1..n |-> GroupBytes(s, g)] \in [1..n -> Seq(Octet)]
  BY <1>1
<1> QED
  BY <1>1, <1>2, Listed DEF EachLong

LEMMA RestBytes ==
    ASSUME NEW s, NEW i \in Int, NEW placeHolders
    PROVE  LastBytes(s, i, placeHolders) \in Seq(Octet)
<1>1. PICK a, b, c : a = RevLookup(s[4 * i + 1]) /\ b = RevLookup(s[4 * i + 2])
                     /\ c = RevLookup(s[4 * i + 3])
  OBVIOUS
<1>2. a \in Int /\ b \in Int /\ c \in Int
  BY <1>1, RevLookupRange
<1>3. PICK two \in Octet : two = (a * 4 + b \div 16) % 256
  BY <1>2 DEF Octet
<1>4. PICK one \in Int : one = a * 1024 + b * 16 + c \div 4
  BY <1>2
<1>5. PICK x \in Octet : x = (one \div 256) % 256
  BY DEF Octet
<1>6. PICK y \in Octet : y = one % 256
  BY DEF Octet
<1>7. LastBytes(s, i, placeHolders) = CASE placeHolders = 2 -> <<two>>
                                        [] placeHolders = 1 -> <<x, y>>
                                        [] OTHER -> <<>>
  BY <1>1, <1>3, <1>4, <1>5, <1>6, SMT DEF LastBytes
<1>8. <<two>> \in Seq(Octet) /\ <<x, y>> \in Seq(Octet) /\ <<>> \in Seq(Octet)
  OBVIOUS
<1> QED
  BY <1>7, <1>8

LEMMA ToByteArrayBytes ==
    ASSUME NEW s \in Seq(CodeUnit)
    PROVE  ToByteArray(s) \in Seq(Octet)
<1>1. Before(s, Pad) \in Seq(CodeUnit)
  BY BeforeIs
<1>2. PICK m \in Nat : m = Len(Before(s, Pad))
  BY <1>1
<1>3. PICK n \in Nat : n = Len(s)
  OBVIOUS
<1>4. PICK groups \in Nat : groups = Groups(m, n)
  BY GroupsNat
<1>5. ToByteArray(s) = Joined([g \in 1..groups |-> GroupBytes(s, g)], 3)
                       \o LastBytes(s, groups, PlaceHolders(m, n))
  BY <1>2, <1>3, <1>4, ToByteArrayIs
<1>6. PICK f : f = [g \in 1..groups |-> GroupBytes(s, g)]
  OBVIOUS
<1>7. f \in Seq(Seq(Octet)) /\ Len(f) = groups /\ EachLong(f, groups, 3)
  BY <1>6, FourBytes
<1>8. Joined(f, 3) \in Seq(Octet)
  BY <1>7, JoinedIs
<1>9. LastBytes(s, groups, PlaceHolders(m, n)) \in Seq(Octet)
  BY RestBytes
<1> QED
  BY <1>5, <1>6, <1>8, <1>9, Appended

(* The bytes of a group in terms of its digits.                             *)
LEMMA PackedThree ==
    ASSUME NEW d, NEW g \in Nat
    PROVE  /\ Packed(d, 3 * g + 1) = RevLookup(d[4 * g + 1]) * 4 + RevLookup(d[4 * g + 2]) \div 16
           /\ Packed(d, 3 * g + 2)
                = (RevLookup(d[4 * g + 2]) % 16) * 16 + RevLookup(d[4 * g + 3]) \div 4
           /\ Packed(d, 3 * g + 3) = (RevLookup(d[4 * g + 3]) % 4) * 64 + RevLookup(d[4 * g + 4])
<1>1. /\ (3 * g + 1 - 1) \div 3 = g /\ (3 * g + 1 - 1) % 3 = 0
      /\ (3 * g + 2 - 1) \div 3 = g /\ (3 * g + 2 - 1) % 3 = 1
      /\ (3 * g + 3 - 1) \div 3 = g /\ (3 * g + 3 - 1) % 3 = 2
  OBVIOUS
<1>2. Packed(d, 3 * g + 1) = RevLookup(d[4 * g + 1]) * 4 + RevLookup(d[4 * g + 2]) \div 16
  BY <1>1 DEF Packed
<1>3. Packed(d, 3 * g + 2) = (RevLookup(d[4 * g + 2]) % 16) * 16 + RevLookup(d[4 * g + 3]) \div 4
  BY <1>1 DEF Packed
<1>4. Packed(d, 3 * g + 3) = (RevLookup(d[4 * g + 3]) % 4) * 64 + RevLookup(d[4 * g + 4])
  BY <1>1 DEF Packed
<1> QED
  BY <1>2, <1>3, <1>4

(* Digits in front of what is decoded.                                      *)
Same(d, s, m) == \A i \in 1..m : RevLookup(d[i]) \in Sextet /\ RevLookup(s[i]) = RevLookup(d[i])

LEMMA GroupPacked ==
    ASSUME NEW d, NEW s, NEW m \in Nat, NEW g \in Nat, Same(d, s, m), 4 * g + 4 <= m
    PROVE  GroupBytes(s, g + 1) = <<Packed(d, 3 * g + 1), Packed(d, 3 * g + 2), Packed(d, 3 * g + 3)>>
<1>1. 4 * g + 1 \in 1..m /\ 4 * g + 2 \in 1..m /\ 4 * g + 3 \in 1..m /\ 4 * g + 4 \in 1..m
  OBVIOUS
<1>2. PICK a \in Sextet : a = RevLookup(d[4 * g + 1]) /\ a = RevLookup(s[4 * g + 1])
  BY <1>1 DEF Same
<1>3. PICK b \in Sextet : b = RevLookup(d[4 * g + 2]) /\ b = RevLookup(s[4 * g + 2])
  BY <1>1 DEF Same
<1>4. PICK c \in Sextet : c = RevLookup(d[4 * g + 3]) /\ c = RevLookup(s[4 * g + 3])
  BY <1>1 DEF Same
<1>5. PICK e \in Sextet : e = RevLookup(d[4 * g + 4]) /\ e = RevLookup(s[4 * g + 4])
  BY <1>1 DEF Same
<1>7. GroupBytes(s, g + 1) = BytesOf(Number(a, b, c, e))
  <2>1. 4 * (g + 1 - 1) = 4 * g
    OBVIOUS
  <2> QED
    BY <1>2, <1>3, <1>4, <1>5, <2>1, SMT DEF GroupBytes, BytesOf, Number
<1>8. BytesOf(Number(a, b, c, e)) = ThreeBytes(a, b, c, e)
  BY Quartet
<1>9. <<Packed(d, 3 * g + 1), Packed(d, 3 * g + 2), Packed(d, 3 * g + 3)>> = ThreeBytes(a, b, c, e)
  <2>1. /\ Packed(d, 3 * g + 1) = RevLookup(d[4 * g + 1]) * 4 + RevLookup(d[4 * g + 2]) \div 16
        /\ Packed(d, 3 * g + 2)
             = (RevLookup(d[4 * g + 2]) % 16) * 16 + RevLookup(d[4 * g + 3]) \div 4
        /\ Packed(d, 3 * g + 3) = (RevLookup(d[4 * g + 3]) % 4) * 64 + RevLookup(d[4 * g + 4])
    BY PackedThree
  <2> QED
    BY <1>2, <1>3, <1>4, <1>5, <2>1 DEF ThreeBytes
<1> QED
  BY <1>7, <1>8, <1>9, SMT

LEMMA LastPacked ==
    ASSUME NEW d, NEW s, NEW m \in Nat, NEW g \in Nat, Same(d, s, m)
    PROVE  /\ 4 * g + 2 <= m => LastBytes(s, g, 2) = <<Packed(d, 3 * g + 1)>>
           /\ 4 * g + 3 <= m => LastBytes(s, g, 1) = <<Packed(d, 3 * g + 1), Packed(d, 3 * g + 2)>>
           /\ \A p : p # 1 /\ p # 2 => LastBytes(s, g, p) = <<>>
<1> SUFFICES ASSUME 4 * g + 2 <= m
             PROVE  /\ LastBytes(s, g, 2) = <<Packed(d, 3 * g + 1)>>
                    /\ 4 * g + 3 <= m =>
                          LastBytes(s, g, 1) = <<Packed(d, 3 * g + 1), Packed(d, 3 * g + 2)>>
  <2>1. \A p : p # 1 /\ p # 2 => LastBytes(s, g, p) = <<>>
    BY SMT DEF LastBytes
  <2> QED
    BY <2>1
<1>1. 4 * g + 1 \in 1..m /\ 4 * g + 2 \in 1..m /\ (4 * g + 3 <= m => 4 * g + 3 \in 1..m)
  OBVIOUS
<1>2. PICK a \in Sextet : a = RevLookup(d[4 * g + 1]) /\ a = RevLookup(s[4 * g + 1])
  BY <1>1 DEF Same
<1>3. PICK b \in Sextet : b = RevLookup(d[4 * g + 2]) /\ b = RevLookup(s[4 * g + 2])
  BY <1>1 DEF Same
<1>4. LastBytes(s, g, 2) = <<Packed(d, 3 * g + 1)>>
  <2>1. LastBytes(s, g, 2) = <<(a * 4 + b \div 16) % 256>>
    BY <1>2, <1>3, SMT DEF LastBytes
  <2>2. Packed(d, 3 * g + 1) = RevLookup(d[4 * g + 1]) * 4 + RevLookup(d[4 * g + 2]) \div 16
    BY PackedThree
  <2>3. (a * 4 + b \div 16) % 256 = a * 4 + b \div 16
    BY Pair, SMT
  <2> QED
    BY <1>2, <1>3, <2>1, <2>2, <2>3
<1>5. ASSUME 4 * g + 3 <= m
      PROVE  LastBytes(s, g, 1) = <<Packed(d, 3 * g + 1), Packed(d, 3 * g + 2)>>
  <2>1. PICK c \in Sextet : c = RevLookup(d[4 * g + 3]) /\ c = RevLookup(s[4 * g + 3])
    BY <1>1, <1>5 DEF Same
  <2>2. LastBytes(s, g, 1) = ShortBytesOf(ShortNumber(a, b, c))
    BY <1>2, <1>3, <2>1, SMT DEF LastBytes, ShortBytesOf, ShortNumber
  <2>3. ShortBytesOf(ShortNumber(a, b, c)) = TwoBytes(a, b, c)
    BY Triple
  <2>5. /\ Packed(d, 3 * g + 1) = RevLookup(d[4 * g + 1]) * 4 + RevLookup(d[4 * g + 2]) \div 16
        /\ Packed(d, 3 * g + 2)
             = (RevLookup(d[4 * g + 2]) % 16) * 16 + RevLookup(d[4 * g + 3]) \div 4
    BY PackedThree
  <2> QED
    BY <1>2, <1>3, <2>1, <2>2, <2>3, <2>5 DEF TwoBytes
<1> QED
  BY <1>4, <1>5

(* Decoding takes six bits of every digit.                                  *)
LEMMA Unpacked ==
    ASSUME NEW d \in Seq(CodeUnit), \A i \in 1..Len(d) : d[i] \in Alphabet, Len(d) >= 2
    PROVE  /\ d \o [i \in 1..((4 - (Len(d) % 4)) % 4) |-> Pad] \in Seq(CodeUnit)
           /\ ToByteArray(d \o [i \in 1..((4 - (Len(d) % 4)) % 4) |-> Pad])
                = [k \in 1..((6 * Len(d)) \div 8) |-> Packed(d, k)]
<1>1. PICK m \in Nat, n \in Nat : m = Len(d) /\ m >= 2 /\ n = (4 - (m % 4)) % 4
  OBVIOUS
<1>2. PICK s : s = d \o [i \in 1..n |-> Pad]
  OBVIOUS
<1>3. s \in Seq(CodeUnit) /\ Before(s, Pad) = d /\ Len(s) = m + n /\ \A i \in 1..m : s[i] = d[i]
  <2>1. /\ d \in Seq(CodeUnit) /\ Pad \in CodeUnit
        /\ \A i \in 1..Len(d) : d[i] # Pad
    <3>1. Pad \in CodeUnit
      BY DEF Pad, CodeUnit
    <3>2. \A i \in 1..Len(d) : d[i] # Pad
      BY RevLookupRange
    <3> QED
      BY <3>1, <3>2
  <2>2. s \in Seq(CodeUnit) /\ Before(s, Pad) = d
    BY <1>2, <2>1, BeforePads
  <2>3. PICK p : p = [i \in 1..n |-> Pad]
    OBVIOUS
  <2>4. p \in Seq(CodeUnit) /\ Len(p) = n
    <3>1. p \in [1..n -> CodeUnit]
      BY <2>1, <2>3
    <3> QED
      BY <3>1, Listed
  <2>5. Len(s) = m + n /\ \A i \in 1..m : s[i] = d[i]
    BY <1>1, <1>2, <2>1, <2>3, <2>4, Appended
  <2> QED
    BY <2>2, <2>5
<1>4. \E g \in Nat, r \in 0..3 :
         /\ m = 4 * g + r /\ Groups(m, m + n) = g
         /\ PlaceHolders(m, m + n) = IF r = 0 THEN 0 ELSE 4 - r
  BY <1>1, GroupsOf
<1>5. PICK g \in Nat, r \in 0..3 :
         /\ m = 4 * g + r /\ Groups(m, m + n) = g
         /\ PlaceHolders(m, m + n) = IF r = 0 THEN 0 ELSE 4 - r
  BY <1>4
<1>6. PICK placeHolders : /\ placeHolders = PlaceHolders(m, m + n)
                          /\ (r # 0 => placeHolders = 4 - r) /\ (r = 0 => placeHolders = 0)
  BY <1>5
<1>7. ToByteArray(s) = Joined([x \in 1..g |-> GroupBytes(s, x)], 3) \o LastBytes(s, g, placeHolders)
  BY <1>3, <1>5, <1>6, <1>1, ToByteArrayIs
<1>8. PICK f : f = [x \in 1..g |-> GroupBytes(s, x)]
  OBVIOUS
<1>88. f \in Seq(Seq(Octet)) /\ Len(f) = g /\ EachLong(f, g, 3)
  BY <1>8, FourBytes
<1>98. PICK N \in Nat : N = 3 * g
  OBVIOUS
<1>99. PICK h : h = Joined(f, 3)
  OBVIOUS
<1>9. h \in Seq(Octet) /\ Len(h) = N /\ JoinedAt(f, g, 3, N)
  <2>1. 3 \in {3, 4}
    OBVIOUS
  <2> QED
    BY <1>88, <1>98, <1>99, <2>1, JoinedIs
<1>10. Same(d, s, m)
  <2>1. ASSUME NEW i \in 1..m PROVE RevLookup(d[i]) \in Sextet /\ RevLookup(s[i]) = RevLookup(d[i])
    <3>1. d[i] \in Alphabet /\ s[i] = d[i]
      BY <1>1, <1>3
    <3> QED
      BY <3>1, RevLookupRange DEF Sextet
  <2> QED
    BY <2>1 DEF Same
<1>12. ASSUME NEW i \in 1..N PROVE h[i] = Packed(d, i)
  <2>0. /\ (i - 1) \div 3 + 1 \in 1..g /\ ((i - 1) % 3) + 1 \in 1..3
        /\ h[i] = f[(i - 1) \div 3 + 1][((i - 1) % 3) + 1]
    BY <1>9, <1>99 DEF JoinedAt
  <2>1. PICK x \in 1..g : x = (i - 1) \div 3 + 1
    BY <2>0
  <2>2. PICK p \in 1..3 : p = ((i - 1) % 3) + 1
    BY <2>0
  <2>3. i = 3 * (x - 1) + p
    BY <2>1, <2>2
  <2>4. PICK y \in Nat : y = x - 1 /\ x = y + 1 /\ 4 * y + 4 <= m
    BY <1>5
  <2>5. f[x] = GroupBytes(s, y + 1)
    BY <1>8, <2>4
  <2>6. f[x] = <<Packed(d, 3 * y + 1), Packed(d, 3 * y + 2), Packed(d, 3 * y + 3)>>
    BY <1>10, <2>4, <2>5, GroupPacked
  <2>7. h[i] = f[x][p]
    BY <2>0, <2>1, <2>2
  <2>8. (p = 1 /\ i = 3 * y + 1) \/ (p = 2 /\ i = 3 * y + 2) \/ (p = 3 /\ i = 3 * y + 3)
    <3>1. i = 3 * y + p
      BY <2>3, <2>4
    <3> QED
      BY <3>1
  <2> QED
    BY <2>6, <2>7, <2>8
<1>13. PICK t : t = LastBytes(s, g, placeHolders)
  OBVIOUS
<1>14. /\ t \in Seq(Octet) /\ 3 * g + Len(t) = (6 * m) \div 8
       /\ \A i \in 1..Len(t) : t[i] = Packed(d, 3 * g + i)
  <2>1. t \in Seq(Octet)
    BY <1>13, RestBytes
  <2>2. CASE r = 0 \/ r = 1
    <3>1. placeHolders # 1 /\ placeHolders # 2 /\ 3 * g = (6 * m) \div 8
      BY <1>5, <1>6, <2>2
    <3>2. t = <<>>
      BY <1>10, <1>13, <3>1, LastPacked
    <3> QED
      BY <2>1, <3>1, <3>2
  <2>3. CASE r = 2
    <3>1. placeHolders = 2 /\ 3 * g + 1 = (6 * m) \div 8 /\ 4 * g + 2 <= m
      BY <1>5, <1>6, <2>3
    <3>2. t = <<Packed(d, 3 * g + 1)>>
      BY <1>10, <1>13, <3>1, LastPacked
    <3>3. Len(t) = 1 /\ t[1] = Packed(d, 3 * g + 1)
      BY <3>2
    <3> QED
      BY <2>1, <3>1, <3>3
  <2>4. CASE r = 3
    <3>1. placeHolders = 1 /\ 3 * g + 2 = (6 * m) \div 8 /\ 4 * g + 3 <= m
      BY <1>5, <1>6, <2>4
    <3>2. t = <<Packed(d, 3 * g + 1), Packed(d, 3 * g + 2)>>
      BY <1>10, <1>13, <3>1, LastPacked
    <3>3. Len(t) = 2 /\ t[1] = Packed(d, 3 * g + 1) /\ t[2] = Packed(d, 3 * g + 2)
      BY <3>2
    <3> QED
      BY <2>1, <3>1, <3>3
  <2> QED
    BY <2>2, <2>3, <2>4
<1>15. PICK k \in Nat : k = (6 * m) \div 8 /\ k = N + Len(t)
  <2>1. N + Len(t) \in Nat
    BY <1>14
  <2> QED
    BY <1>14, <1>98, <2>1
<1>16. h \o t \in Seq(Octet) /\ Len(h \o t) = k
  <2>1. h \in Seq(Octet) /\ t \in Seq(Octet) /\ Len(h) = N
    BY <1>9, <1>14
  <2> QED
    BY <1>15, <2>1, Appended
<1>17. ASSUME NEW i \in 1..k PROVE (h \o t)[i] = Packed(d, i)
  <2>1. h \in Seq(Octet) /\ t \in Seq(Octet) /\ Len(h) = N /\ Len(t) \in Nat
    BY <1>9, <1>14
  <2>2. CASE i \in 1..N
    <3>1. (h \o t)[i] = h[i]
      BY <2>1, <2>2, Appended
    <3> QED
      BY <1>12, <2>2, <3>1
  <2>3. CASE i > N
    <3>1. PICK q \in 1..Len(t) : i = N + q
      <4>1. i - N \in 1..Len(t) /\ i = N + (i - N)
        BY <1>15, <2>1, <2>3
      <4> QED
        BY <4>1
    <3>2. (h \o t)[N + q] = t[q]
      BY <2>1, Appended
    <3>3. t[q] = Packed(d, N + q)
      BY <1>14, <1>98
    <3> QED
      BY <3>1, <3>2, <3>3
  <2>4. i \in 1..N \/ i > N
    OBVIOUS
  <2> QED
    BY <2>2, <2>3, <2>4
<1>18. PICK z : z = [i \in 1..k |-> Packed(d, i)]
  OBVIOUS
<1>19. Lists(z, k) /\ Agrees(h \o t, z, k)
  BY <1>17, <1>18 DEF Lists, Agrees
<1>20. h \o t = z
  BY <1>16, <1>19, SameSeq
<1>21. ToByteArray(s) = [i \in 1..k |-> Packed(d, i)]
  BY <1>7, <1>8, <1>99, <1>13, <1>18, <1>20, Zenon
<1>22. /\ d \o [i \in 1..n |-> Pad] \in Seq(CodeUnit)
       /\ ToByteArray(d \o [i \in 1..n |-> Pad]) = [i \in 1..k |-> Packed(d, i)]
  BY <1>2, <1>3, <1>21
<1> QED
  BY <1>1, <1>15, <1>22, Zenon

LEMMA FilterAll ==
    ASSUME NEW S, NEW s \in Seq(S), NEW keep, \A i \in 1..Len(s) : s[i] \in keep
    PROVE  Filter(s, keep) = s
<1>1. PICK t : t = Filter(s, keep)
  OBVIOUS
<1>2. PICK N \in Nat : N = Len(s)
  OBVIOUS
<1>3. t \in Seq(S) /\ \E m \in Nat : \E pos \in [1..m -> 1..N] : AtPositions(t, s, keep, m, pos)
  BY <1>1, <1>2, FilterPositions
<1>4. PICK m \in Nat : \E pos \in [1..m -> 1..N] : AtPositions(t, s, keep, m, pos)
  BY <1>3
<1>5. PICK pos \in [1..m -> 1..N] : AtPositions(t, s, keep, m, pos)
  BY <1>4
<1>6. /\ Len(t) = m
      /\ \A n \in 1..m : t[n] = s[pos[n]] /\ pos[n] >= n
      /\ \A i \in 1..N : \E n \in 1..m : pos[n] = i
  BY <1>2, <1>5 DEF AtPositions
<1>7. PICK T : T = {n \in 0..N : n <= m /\ \A i \in 1..n : pos[i] = i}
  OBVIOUS
<1>8. 0 \in T
  BY <1>7
<1>9. ASSUME NEW n \in 0..(N - 1), n \in T PROVE n + 1 \in T
  <2>1. n <= m /\ \A i \in 1..n : pos[i] = i
    BY <1>7, <1>9
  <2>2. n + 1 \in 1..N
    OBVIOUS
  <2>3. PICK k \in 1..m : pos[k] = n + 1
    BY <1>6, <2>2
  <2>4. k <= n + 1 /\ k \notin 1..n
    BY <1>6, <2>1, <2>3
  <2>5. k = n + 1
    BY <2>4
  <2>6. n + 1 <= m /\ \A i \in 1..(n + 1) : pos[i] = i
    BY <2>1, <2>3, <2>5
  <2> QED
    BY <1>7, <2>2, <2>6
<1>10. N \in T
  <2>1. \A n \in 0..N : n \in T
    BY <1>8, <1>9, UpTo
  <2> QED
    BY <2>1
<1>11. N <= m /\ \A i \in 1..N : pos[i] = i
  BY <1>7, <1>10
<1>12. m <= N
  <2>1. CASE m = 0
    BY <2>1
  <2>2. CASE m # 0
    <3>1. m \in 1..m
      BY <2>2
    <3>2. pos[m] >= m /\ pos[m] \in 1..N
      BY <1>6, <3>1
    <3> QED
      BY <3>2
  <2> QED
    BY <2>1, <2>2
<1>13. Len(t) = N /\ \A i \in 1..N : t[i] = s[i]
  BY <1>6, <1>11, <1>12
<1>14. t = s
  <2>1. Len(t) = Len(s) /\ Agrees(t, s, Len(t))
    BY <1>2, <1>13 DEF Agrees
  <2> QED
    BY <1>3, <2>1, EqualSeq
<1> QED
  BY <1>1, <1>14

LEMMA DigitsOf ==
    ASSUME NEW s \in Seq(CodeUnit)
    PROVE  /\ Base64Digits(s) \in Seq(CodeUnit)
           /\ \A i \in 1..Len(Base64Digits(s)) : Base64Digits(s)[i] \in Alphabet
<1>1. PICK b \in Seq(CodeUnit) : b = Before(s, Pad)
  BY BeforeIs
<1>2. PICK t : t = Filter(b, Alphabet)
  OBVIOUS
<1>3. /\ t \in Seq(CodeUnit)
      /\ \E m \in Nat : \E pos \in [1..m -> 1..Len(b)] : AtPositions(t, b, Alphabet, m, pos)
  BY <1>2, FilterPositions
<1>4. PICK m \in Nat : \E pos \in [1..m -> 1..Len(b)] : AtPositions(t, b, Alphabet, m, pos)
  BY <1>3
<1>5. PICK pos \in [1..m -> 1..Len(b)] : AtPositions(t, b, Alphabet, m, pos)
  BY <1>4
<1>6. \A i \in 1..Len(t) : t[i] \in Alphabet
  BY <1>5 DEF AtPositions
<1>7. Base64Digits(s) = t
  BY <1>1, <1>2 DEF Base64Digits
<1> QED
  BY <1>3, <1>6, <1>7

(* base64ToBytes: six bits of every digit.                                  *)
LEMMA Base64ToBytesIs ==
    ASSUME NEW s \in Seq(CodeUnit), NEW d, d = Base64Digits(s)
    PROVE  /\ Base64ToBytes(s) \in Seq(Octet)
           /\ Base64ToBytes(s) = [k \in 1..((6 * Len(d)) \div 8) |-> Packed(d, k)]
<1>1. d \in Seq(CodeUnit) /\ \A i \in 1..Len(d) : d[i] \in Alphabet
  BY DigitsOf
<1>2. PICK m \in Nat : m = Len(d)
  BY <1>1
<1>3. CASE m < 2
  <2>1. Base64clean(s) = <<>>
    BY <1>2, <1>3 DEF Base64clean
  <2>2. (6 * m) \div 8 = 0
    BY <1>3
  <2>33. PICK e : e = <<>>
    OBVIOUS
  <2>3. e \in Seq(CodeUnit) /\ Len(e) = 0
    BY <2>33
  <2>4. Before(e, Pad) \in Seq(CodeUnit) /\ Len(Before(e, Pad)) <= 0
    BY <2>3, BeforeIs
  <2>5. Len(Before(e, Pad)) = 0
    BY <2>4
  <2>6. Groups(0, 0) = 0 /\ PlaceHolders(0, 0) = 0
    BY DEF Groups, PlaceHolders
  <2>7. ToByteArray(e) = Joined([g \in 1..0 |-> GroupBytes(e, g)], 3) \o LastBytes(e, 0, 0)
    BY <2>3, <2>5, <2>6, ToByteArrayIs
  <2>8. LastBytes(e, 0, 0) = <<>>
    BY SMT DEF LastBytes
  <2>9. PICK f : f = [g \in 1..0 |-> GroupBytes(e, g)]
    OBVIOUS
  <2>10. f \in Seq(Seq(Octet)) /\ Len(f) = 0 /\ EachLong(f, 0, 3)
    BY <2>9, FourBytes
  <2>11. Joined(f, 3) \in Seq(Octet) /\ Len(Joined(f, 3)) = 0
    <3>1. PICK n \in Nat : n = 0 /\ 3 * n = 0
      OBVIOUS
    <3>2. f \in Seq(Seq(Octet)) /\ Len(f) = n /\ EachLong(f, n, 3) /\ 3 \in {3, 4} /\ 0 = 3 * n
      BY <2>10, <3>1
    <3> QED
      BY <3>2, JoinedIs
  <2>12. Joined(f, 3) = <<>>
    BY <2>11
  <2>13. ToByteArray(e) = <<>>
    BY <2>7, <2>8, <2>9, <2>12
  <2>14. [k \in 1..0 |-> Packed(d, k)] = <<>>
    OBVIOUS
  <2>15. Base64ToBytes(s) = <<>>
    BY <2>1, <2>33, <2>13 DEF Base64ToBytes
  <2>16. <<>> \in Seq(Octet)
    OBVIOUS
  <2>17. [k \in 1..((6 * Len(d)) \div 8) |-> Packed(d, k)] = <<>>
    BY <1>2, <2>2, <2>14
  <2> QED
    BY <2>15, <2>16, <2>17
<1>4. CASE m >= 2
  <2>1. Base64clean(s) = d \o [i \in 1..((4 - (Len(d) % 4)) % 4) |-> Pad]
    BY <1>2, <1>4 DEF Base64clean
  <2>2. /\ d \o [i \in 1..((4 - (Len(d) % 4)) % 4) |-> Pad] \in Seq(CodeUnit)
        /\ ToByteArray(d \o [i \in 1..((4 - (Len(d) % 4)) % 4) |-> Pad])
             = [k \in 1..((6 * Len(d)) \div 8) |-> Packed(d, k)]
    BY <1>1, <1>2, <1>4, Unpacked
  <2>3. ToByteArray(Base64clean(s)) \in Seq(Octet)
    BY <2>1, <2>2, ToByteArrayBytes
  <2> QED
    BY <2>1, <2>2, <2>3, Zenon DEF Base64ToBytes
<1> QED
  BY <1>2, <1>3, <1>4

Weight(r) == <<32, 16, 8, 4, 2, 1>>[r + 1]

LEMMA BitOf ==
    ASSUME NEW d, NEW g \in Nat, NEW q \in 0..3, NEW r \in 0..5, NEW i, i = 4 * g + q + 1,
           NEW j, j = 24 * g + 6 * q + r
    PROVE  Base64Bit(d, j) = (RevLookup(d[i]) \div Weight(r)) % 2
<1>1. j \div 6 + 1 = i /\ (j % 6) + 1 = r + 1
  OBVIOUS
<1> QED
  BY <1>1, Zenon DEF Base64Bit, Weight

LEMMA Weights ==
    /\ Weight(0) = 32 /\ Weight(1) = 16 /\ Weight(2) = 8 /\ Weight(3) = 4 /\ Weight(4) = 2
    /\ Weight(5) = 1
BY DEF Weight

(* The bits of one digit, by what they are worth in a byte.                 *)
Bits(a, r) == (a \div Weight(r)) % 2
LEMMA BitSums ==
    ASSUME NEW a \in Sextet
    PROVE  /\ 128 * Bits(a, 0) + 64 * Bits(a, 1) + 32 * Bits(a, 2) + 16 * Bits(a, 3)
                + 8 * Bits(a, 4) + 4 * Bits(a, 5) = a * 4
           /\ 2 * Bits(a, 0) + Bits(a, 1) = a \div 16
           /\ 128 * Bits(a, 2) + 64 * Bits(a, 3) + 32 * Bits(a, 4) + 16 * Bits(a, 5)
                = (a % 16) * 16
           /\ 8 * Bits(a, 0) + 4 * Bits(a, 1) + 2 * Bits(a, 2) + Bits(a, 3) = a \div 4
           /\ 128 * Bits(a, 4) + 64 * Bits(a, 5) = (a % 4) * 64
           /\ 32 * Bits(a, 0) + 16 * Bits(a, 1) + 8 * Bits(a, 2) + 4 * Bits(a, 3)
                + 2 * Bits(a, 4) + Bits(a, 5) = a
           /\ \A r \in 0..5 : Bits(a, r) \in Int
<1>1. /\ Bits(a, 0) = (a \div 32) % 2 /\ Bits(a, 1) = (a \div 16) % 2 /\ Bits(a, 2) = (a \div 8) % 2
      /\ Bits(a, 3) = (a \div 4) % 2 /\ Bits(a, 4) = (a \div 2) % 2 /\ Bits(a, 5) = a % 2
  <2>1. a \div 1 = a
    BY DEF Sextet
  <2> QED
    BY <2>1, Weights DEF Bits
<1>2. a \in 0..63
  BY DEF Sextet
<1>3. PICK c \in 0..1 : c = a % 2
  BY <1>2
<1>4. PICK e \in 0..1 : e = (a \div 2) % 2
  BY <1>2
<1>5. PICK f \in 0..1 : f = (a \div 4) % 2
  BY <1>2
<1>6. PICK g \in 0..1 : g = (a \div 8) % 2
  BY <1>2
<1>7. PICK h \in 0..1 : h = (a \div 16) % 2
  BY <1>2
<1>8. PICK i \in 0..1 : i = (a \div 32) % 2
  BY <1>2
<1>9. a = 32 * i + 16 * h + 8 * g + 4 * f + 2 * e + c
  BY <1>2, <1>3, <1>4, <1>5, <1>6, <1>7, <1>8, SMT
<1>10. a \div 16 = 2 * i + h /\ a % 16 = 8 * g + 4 * f + 2 * e + c
  BY <1>9, SMT
<1>11. a \div 4 = 8 * i + 4 * h + 2 * g + f /\ a % 4 = 2 * e + c
  BY <1>9, SMT
<1>12. \A r \in 0..5 : Bits(a, r) \in Int
  <2>1. /\ Bits(a, 0) \in Int /\ Bits(a, 1) \in Int /\ Bits(a, 2) \in Int
        /\ Bits(a, 3) \in Int /\ Bits(a, 4) \in Int /\ Bits(a, 5) \in Int
    BY <1>1, <1>3, <1>4, <1>5, <1>6, <1>7, <1>8
  <2>2. \A r \in 0..5 : r = 0 \/ r = 1 \/ r = 2 \/ r = 3 \/ r = 4 \/ r = 5
    OBVIOUS
  <2> QED
    BY <2>1, <2>2
<1>13. /\ Bits(a, 0) = i /\ Bits(a, 1) = h /\ Bits(a, 2) = g /\ Bits(a, 3) = f /\ Bits(a, 4) = e
       /\ Bits(a, 5) = c
  BY <1>1, <1>3, <1>4, <1>5, <1>6, <1>7, <1>8
<1>14. 128 * i + 64 * h + 32 * g + 16 * f + 8 * e + 4 * c = a * 4
  BY <1>9, SMT
<1>15. 128 * g + 64 * f + 32 * e + 16 * c = (a % 16) * 16
  BY <1>10, SMT
<1>16. 128 * e + 64 * c = (a % 4) * 64
  BY <1>11, SMT
<1> QED
  BY <1>9, <1>10, <1>11, <1>12, <1>13, <1>14, <1>15, <1>16

EightBits(d, k) ==
    LET Bit(m) == Base64Bit(d, 8 * (k - 1) + m)
    IN  128 * Bit(0) + 64 * Bit(1) + 32 * Bit(2) + 16 * Bit(3) + 8 * Bit(4) + 4 * Bit(5)
        + 2 * Bit(6) + Bit(7)

LEMMA EightIsPacked ==
    ASSUME NEW d, NEW m \in Nat, \A i \in 1..m : RevLookup(d[i]) \in Sextet,
           NEW k \in 1..((6 * m) \div 8)
    PROVE  EightBits(d, k) = Packed(d, k)
<1>1. PICK g \in Nat : g = (k - 1) \div 3
  OBVIOUS
<1>2. k = 3 * g + 1 \/ k = 3 * g + 2 \/ k = 3 * g + 3
  BY <1>1
<1>3. ASSUME NEW q \in 0..3, NEW r \in 0..5, NEW i, i = 4 * g + q + 1, NEW j, j = 24 * g + 6 * q + r
      PROVE  Base64Bit(d, j) = Bits(RevLookup(d[i]), r)
  BY <1>3, BitOf DEF Bits
<1>4. CASE k = 3 * g + 1
  <2>1. 4 * g + 1 \in 1..m /\ 4 * g + 2 \in 1..m
    BY <1>4
  <2>2. PICK a \in Sextet : a = RevLookup(d[4 * g + 1])
    BY <2>1
  <2>3. PICK b \in Sextet : b = RevLookup(d[4 * g + 2])
    BY <2>1
  <2>4. /\ Base64Bit(d, 8 * (k - 1) + 0) = Bits(a, 0) /\ Base64Bit(d, 8 * (k - 1) + 1) = Bits(a, 1)
        /\ Base64Bit(d, 8 * (k - 1) + 2) = Bits(a, 2) /\ Base64Bit(d, 8 * (k - 1) + 3) = Bits(a, 3)
        /\ Base64Bit(d, 8 * (k - 1) + 4) = Bits(a, 4) /\ Base64Bit(d, 8 * (k - 1) + 5) = Bits(a, 5)
        /\ Base64Bit(d, 8 * (k - 1) + 6) = Bits(b, 0) /\ Base64Bit(d, 8 * (k - 1) + 7) = Bits(b, 1)
    <3>1. 4 * g + 1 = 4 * g + 0 + 1 /\ 4 * g + 2 = 4 * g + 1 + 1
      OBVIOUS
    <3>2. /\ 8 * (k - 1) + 0 = 24 * g + 6 * 0 + 0 /\ 8 * (k - 1) + 1 = 24 * g + 6 * 0 + 1
          /\ 8 * (k - 1) + 2 = 24 * g + 6 * 0 + 2 /\ 8 * (k - 1) + 3 = 24 * g + 6 * 0 + 3
          /\ 8 * (k - 1) + 4 = 24 * g + 6 * 0 + 4 /\ 8 * (k - 1) + 5 = 24 * g + 6 * 0 + 5
          /\ 8 * (k - 1) + 6 = 24 * g + 6 * 1 + 0 /\ 8 * (k - 1) + 7 = 24 * g + 6 * 1 + 1
      BY <1>4
    <3> QED
      BY <1>3, <2>2, <2>3, <3>1, <3>2
  <2>5. EightBits(d, k) = 128 * Bits(a, 0) + 64 * Bits(a, 1) + 32 * Bits(a, 2) + 16 * Bits(a, 3)
                           + 8 * Bits(a, 4) + 4 * Bits(a, 5) + 2 * Bits(b, 0) + Bits(b, 1)
    BY <2>4 DEF EightBits
  <2> QED
    BY <1>4, <2>2, <2>3, <2>5, BitSums, PackedThree
<1>5. CASE k = 3 * g + 2
  <2>1. 4 * g + 2 \in 1..m /\ 4 * g + 3 \in 1..m
    BY <1>5
  <2>2. PICK a \in Sextet : a = RevLookup(d[4 * g + 2])
    BY <2>1
  <2>3. PICK b \in Sextet : b = RevLookup(d[4 * g + 3])
    BY <2>1
  <2>4. /\ Base64Bit(d, 8 * (k - 1) + 0) = Bits(a, 2) /\ Base64Bit(d, 8 * (k - 1) + 1) = Bits(a, 3)
        /\ Base64Bit(d, 8 * (k - 1) + 2) = Bits(a, 4) /\ Base64Bit(d, 8 * (k - 1) + 3) = Bits(a, 5)
        /\ Base64Bit(d, 8 * (k - 1) + 4) = Bits(b, 0) /\ Base64Bit(d, 8 * (k - 1) + 5) = Bits(b, 1)
        /\ Base64Bit(d, 8 * (k - 1) + 6) = Bits(b, 2) /\ Base64Bit(d, 8 * (k - 1) + 7) = Bits(b, 3)
    <3>1. 4 * g + 2 = 4 * g + 1 + 1 /\ 4 * g + 3 = 4 * g + 2 + 1
      OBVIOUS
    <3>2. /\ 8 * (k - 1) + 0 = 24 * g + 6 * 1 + 2 /\ 8 * (k - 1) + 1 = 24 * g + 6 * 1 + 3
          /\ 8 * (k - 1) + 2 = 24 * g + 6 * 1 + 4 /\ 8 * (k - 1) + 3 = 24 * g + 6 * 1 + 5
          /\ 8 * (k - 1) + 4 = 24 * g + 6 * 2 + 0 /\ 8 * (k - 1) + 5 = 24 * g + 6 * 2 + 1
          /\ 8 * (k - 1) + 6 = 24 * g + 6 * 2 + 2 /\ 8 * (k - 1) + 7 = 24 * g + 6 * 2 + 3
      BY <1>5
    <3> QED
      BY <1>3, <2>2, <2>3, <3>1, <3>2
  <2>5. EightBits(d, k) = 128 * Bits(a, 2) + 64 * Bits(a, 3) + 32 * Bits(a, 4) + 16 * Bits(a, 5)
                           + 8 * Bits(b, 0) + 4 * Bits(b, 1) + 2 * Bits(b, 2) + Bits(b, 3)
    BY <2>4 DEF EightBits
  <2> QED
    BY <1>5, <2>2, <2>3, <2>5, BitSums, PackedThree
<1>6. CASE k = 3 * g + 3
  <2>1. 4 * g + 3 \in 1..m /\ 4 * g + 4 \in 1..m
    BY <1>6
  <2>2. PICK a \in Sextet : a = RevLookup(d[4 * g + 3])
    BY <2>1
  <2>3. PICK b \in Sextet : b = RevLookup(d[4 * g + 4])
    BY <2>1
  <2>4. /\ Base64Bit(d, 8 * (k - 1) + 0) = Bits(a, 4) /\ Base64Bit(d, 8 * (k - 1) + 1) = Bits(a, 5)
        /\ Base64Bit(d, 8 * (k - 1) + 2) = Bits(b, 0) /\ Base64Bit(d, 8 * (k - 1) + 3) = Bits(b, 1)
        /\ Base64Bit(d, 8 * (k - 1) + 4) = Bits(b, 2) /\ Base64Bit(d, 8 * (k - 1) + 5) = Bits(b, 3)
        /\ Base64Bit(d, 8 * (k - 1) + 6) = Bits(b, 4) /\ Base64Bit(d, 8 * (k - 1) + 7) = Bits(b, 5)
    <3>1. 4 * g + 3 = 4 * g + 2 + 1 /\ 4 * g + 4 = 4 * g + 3 + 1
      OBVIOUS
    <3>2. /\ 8 * (k - 1) + 0 = 24 * g + 6 * 2 + 4 /\ 8 * (k - 1) + 1 = 24 * g + 6 * 2 + 5
          /\ 8 * (k - 1) + 2 = 24 * g + 6 * 3 + 0 /\ 8 * (k - 1) + 3 = 24 * g + 6 * 3 + 1
          /\ 8 * (k - 1) + 4 = 24 * g + 6 * 3 + 2 /\ 8 * (k - 1) + 5 = 24 * g + 6 * 3 + 3
          /\ 8 * (k - 1) + 6 = 24 * g + 6 * 3 + 4 /\ 8 * (k - 1) + 7 = 24 * g + 6 * 3 + 5
      BY <1>6
    <3> QED
      BY <1>3, <2>2, <2>3, <3>1, <3>2
  <2>5. EightBits(d, k) = 128 * Bits(a, 4) + 64 * Bits(a, 5) + 32 * Bits(b, 0) + 16 * Bits(b, 1)
                           + 8 * Bits(b, 2) + 4 * Bits(b, 3) + 2 * Bits(b, 4) + Bits(b, 5)
    BY <2>4 DEF EightBits
  <2> QED
    BY <1>6, <2>2, <2>3, <2>5, BitSums, PackedThree
<1> QED
  BY <1>2, <1>4, <1>5, <1>6

LEMMA BitsArePacked ==
    ASSUME NEW s \in Seq(CodeUnit)
    PROVE  Base64Bits(s) = Base64ToBytes(s)
<1>1. PICK d : d = Base64Digits(s)
  OBVIOUS
<1>2. d \in Seq(CodeUnit) /\ \A i \in 1..Len(d) : d[i] \in Alphabet
  BY <1>1, DigitsOf
<1>3. PICK m \in Nat : m = Len(d)
  BY <1>2
<1>4. \A i \in 1..m : RevLookup(d[i]) \in Sextet
  BY <1>2, <1>3, RevLookupRange DEF Sextet
<1>5. \A k \in 1..((6 * m) \div 8) : EightBits(d, k) = Packed(d, k)
  BY <1>4, EightIsPacked
<1>6. Base64Bits(s) = [k \in 1..((6 * m) \div 8) |-> EightBits(d, k)]
  BY <1>1, <1>3, Zenon DEF Base64Bits, EightBits
<1>7. Base64ToBytes(s) = [k \in 1..((6 * m) \div 8) |-> Packed(d, k)]
  BY <1>1, <1>3, Base64ToBytesIs
<1> QED
  BY <1>5, <1>6, <1>7

(* fromString makes the bytes that the encoder makes, if they fit into      *)
(* byteLength.                                                              *)
LEMMA FromIs ==
    ASSUME NEW s, NEW encoding \in Encodings, NEW length \in Nat, length = ByteLength(s, encoding),
           NEW src \in Seq(Octet), src = Encode(s, encoding, length), Len(src) <= length
    PROVE  FromString(s, encoding) = src
<1>1. PICK fresh : fresh = [i \in 1..length |-> 0]
  OBVIOUS
<1>2. fresh \in Seq(Octet) /\ Len(fresh) = length /\ length - 0 = length
  <2>1. fresh \in [1..length -> Octet]
    BY <1>1 DEF Octet
  <2> QED
    BY <2>1, Listed
<1>3. WrittenCount(fresh, s, 0, length, encoding) = Len(src)
  <2>1. /\ Least(length, length) = length /\ Least(length, Len(src)) = Len(src)
    BY DEF Least
  <2>2. Encode(s, encoding, Len(fresh) - 0) = src
    BY <1>2
  <2> QED
    BY <1>2, <2>1, <2>2 DEF WrittenCount
<1>4. WriteString(fresh, s, 0, length, encoding)
        = [i \in 1..length |-> IF i - 0 \in 1..Len(src) THEN src[i - 0] ELSE fresh[i]]
  BY <1>2, <1>3 DEF WriteString
<1>5. PICK w : w = [i \in 1..length |-> IF i \in 1..Len(src) THEN src[i] ELSE fresh[i]]
  OBVIOUS
<1>6. WriteString(fresh, s, 0, length, encoding) = w
  <2>1. \A i \in 1..length : i - 0 = i
    OBVIOUS
  <2> QED
    BY <1>4, <1>5, <2>1
<1>7. w \in Seq(Octet) /\ Len(w) = length /\ \A i \in 1..Len(src) : w[i] = src[i]
  <2>1. w \in [1..length -> Octet]
    BY <1>2, <1>5
  <2>2. \A i \in 1..Len(src) : w[i] = src[i]
    BY <1>5
  <2> QED
    BY <2>1, <2>2, Listed
<1>8. SubSeq(w, 1, Len(src)) = src
  <2>1. SubSeq(w, 1, Len(src)) \in Seq(Octet) /\ Len(SubSeq(w, 1, Len(src))) = Len(src)
    BY <1>7
  <2>2. Agrees(SubSeq(w, 1, Len(src)), src, Len(SubSeq(w, 1, Len(src))))
    BY <1>7, <2>1 DEF Agrees
  <2> QED
    BY <2>1, <2>2, EqualSeq
<1> QED
  BY <1>1, <1>3, <1>6, <1>8 DEF FromString

LEMMA FromBase64 ==
    ASSUME NEW s \in Seq(CodeUnit)
    PROVE  FromString(s, "base64") = Base64ToBytes(s) /\ Base64ToBytes(s) \in Seq(Octet)
<1>1. PICK src : src = Base64ToBytes(s)
  OBVIOUS
<1>2. src \in Seq(Octet)
  BY <1>1, Base64ToBytesIs
<1>3. CASE s # <<>>
  <2>1. ByteLength(s, "base64") = Len(src)
    BY <1>1, <1>3 DEF ByteLength
  <2>2. Encode(s, "base64", Len(src)) = src
    BY <1>1 DEF Encode
  <2>3. Len(src) \in Nat /\ Len(src) <= Len(src) /\ "base64" \in Encodings
    BY <1>2 DEF Encodings
  <2> QED
    BY <1>1, <1>2, <2>1, <2>2, <2>3, FromIs
<1>4. CASE s = <<>>
  <2>1. ByteLength(s, "base64") = 0
    BY <1>4 DEF ByteLength
  <2>2. Encode(s, "base64", 0) = src
    BY <1>1 DEF Encode
  <2>3. Len(src) = 0
    <3>1. PICK d : d = Base64Digits(s)
      OBVIOUS
    <3>2. Len(d) = 0
      <4>1. Before(s, Pad) \in Seq(CodeUnit) /\ Len(Before(s, Pad)) <= 0
        <5>1. Len(s) = 0
          BY <1>4
        <5> QED
          BY <5>1, BeforeIs
      <4>2. PICK b \in Seq(CodeUnit) : b = Before(s, Pad) /\ Len(b) = 0
        BY <4>1
      <4>3. Filter(b, Alphabet) = b
        <5>1. \A i \in 1..Len(b) : b[i] \in Alphabet
          BY <4>2
        <5> QED
          BY <5>1, FilterAll
      <4> QED
        BY <3>1, <4>2, <4>3 DEF Base64Digits
    <3>3. src = [k \in 1..0 |-> Packed(d, k)]
      <4>1. (6 * Len(d)) \div 8 = 0
        BY <3>2
      <4> QED
        BY <1>1, <3>1, <4>1, Base64ToBytesIs
    <3> QED
      BY <3>3
  <2>4. 0 \in Nat /\ Len(src) <= 0 /\ "base64" \in Encodings
    BY <2>3 DEF Encodings
  <2> QED
    BY <1>1, <1>2, <2>1, <2>2, <2>4, FromIs
<1> QED
  BY <1>3, <1>4

LEMMA OctetFacts ==
    /\ \A x \in Octet : x \in Int /\ x >= 0 /\ x <= 255 /\ x \in CodeUnit
    /\ \A x \in CodeUnit : x \in Int /\ x >= 0 /\ x <= 65535
    /\ \A x \in Int : x % 256 \in Octet
    /\ \A x \in CodeUnit : x \div 256 \in Octet
<1>1. \A x \in Octet : x \in Int /\ x >= 0 /\ x <= 255 /\ x \in CodeUnit
  BY SMT DEF Octet, CodeUnit
<1>2. \A x \in CodeUnit : x \in Int /\ x >= 0 /\ x <= 65535
  BY SMT DEF CodeUnit
<1>3. \A x \in Int : x % 256 \in Octet
  BY SMT DEF Octet
<1>4. ASSUME NEW x \in CodeUnit PROVE x \div 256 \in Octet
  <2>1. x \in Int /\ x >= 0 /\ x <= 65535
    BY <1>2, SMT
  <2>2. x \div 256 \in 0..255
    BY <2>1, SMT
  <2> QED
    BY <2>2, SMT DEF Octet
<1> QED
  BY <1>1, <1>2, <1>3, <1>4

-----------------------------------------------------------------------------
(* latin1 and ascii.                                                        *)

LEMMA AsciiBytes ==
    ASSUME NEW s \in Seq(CodeUnit)
    PROVE  AsciiToBytes(s) \in Seq(Octet) /\ Len(AsciiToBytes(s)) = Len(s)
<1>1. PICK n \in Nat : n = Len(s)
  OBVIOUS
<1>2. \A i \in 1..n : s[i] \in CodeUnit
  BY <1>1
<1>3. \A i \in 1..n : s[i] % 256 \in Octet
  BY <1>2, OctetFacts
<1>4. AsciiToBytes(s) = [i \in 1..n |-> s[i] % 256]
  BY <1>1 DEF AsciiToBytes
<1>5. AsciiToBytes(s) \in [1..n -> Octet]
  BY <1>3, <1>4
<1> QED
  BY <1>1, <1>5, Listed

LEMMA FromLatin1 ==
    ASSUME NEW s \in Seq(CodeUnit), NEW encoding \in {"ascii", "latin1"}
    PROVE  FromString(s, encoding) = AsciiToBytes(s)
<1>1. PICK n \in Nat : n = Len(s)
  OBVIOUS
<1>2. ByteLength(s, encoding) = n
  <2>1. s = <<>> => n = 0
    BY <1>1
  <2> QED
    BY <1>1, <2>1 DEF ByteLength
<1>3. Encode(s, encoding, n) = AsciiToBytes(s)
  BY DEF Encode
<1>4. AsciiToBytes(s) \in Seq(Octet) /\ Len(AsciiToBytes(s)) <= n /\ encoding \in Encodings
  BY <1>1, AsciiBytes DEF Encodings
<1> QED
  BY <1>2, <1>3, <1>4, FromIs

LEMMA Latin1Survives ==
    ASSUME NEW b \in Seq(Octet)
    PROVE  b \in Seq(CodeUnit) /\ FromString(Latin1Slice(b), "latin1") = b
<1>1. PICK n \in Nat : n = Len(b)
  OBVIOUS
<1>2. \A i \in 1..n : b[i] \in Octet
  BY <1>1
<1>3. b \in Seq(CodeUnit)
  <2>1. \A i \in 1..n : b[i] \in CodeUnit
    BY <1>2, OctetFacts
  <2> QED
    BY <1>1, <2>1
<1>4. FromString(b, "latin1") = AsciiToBytes(b)
  BY <1>3, FromLatin1
<1>5. \A i \in 1..n : b[i] % 256 = b[i]
  <2>1. \A x \in Octet : x % 256 = x
    BY SMT DEF Octet
  <2> QED
    BY <1>2, <2>1
<1>6. AsciiToBytes(b) \in Seq(Octet) /\ Len(AsciiToBytes(b)) = n
  BY <1>1, <1>3, AsciiBytes
<1>7. Agrees(AsciiToBytes(b), b, n)
  BY <1>1, <1>5 DEF AsciiToBytes, Agrees
<1>8. AsciiToBytes(b) = b
  BY <1>1, <1>6, <1>7, EqualSeq
<1> QED
  BY <1>3, <1>4, <1>8 DEF Latin1Slice

-----------------------------------------------------------------------------
(* UTF-16.                                                                  *)

(* The bytes of the first n code units, the lower half first.               *)
Halves(b, s, n) == \A i \in 1..n : b[2 * i - 1] = s[i] % 256 /\ b[2 * i] = s[i] \div 256

LEMMA Utf16Bytes ==
    ASSUME NEW s \in Seq(CodeUnit), NEW units \in Nat
    PROVE  /\ Utf16leToBytes(s, units) \in Seq(Octet)
           /\ Len(Utf16leToBytes(s, units)) = 2 * Least(Len(s), units \div 2)
           /\ Len(Utf16leToBytes(s, units)) <= units
           /\ Halves(Utf16leToBytes(s, units), s, Least(Len(s), units \div 2))
<1>1. PICK n \in Nat : n = Least(Len(s), units \div 2) /\ n <= Len(s) /\ 2 * n <= units
  <2>1. units \div 2 \in Nat /\ 2 * (units \div 2) <= units
    OBVIOUS
  <2> QED
    BY <2>1 DEF Least
<1>2. PICK N \in Nat : N = 2 * n
  OBVIOUS
<1>3. PICK w : w = [i \in 1..N |->
         IF i % 2 = 1 THEN s[(i + 1) \div 2] % 256 ELSE s[i \div 2] \div 256]
  OBVIOUS
<1>4. Utf16leToBytes(s, units) = w
  BY <1>1, <1>2, <1>3 DEF Utf16leToBytes
<1>5. \A i \in 1..n : s[i] \in CodeUnit
  BY <1>1
<1>6. ASSUME NEW i \in 1..N PROVE w[i] \in Octet
  <2>1. CASE i % 2 = 1
    <3>1. PICK j \in 1..n : j = (i + 1) \div 2
      BY <1>2, <2>1
    <3>2. s[j] % 256 \in Octet
      BY <1>5, OctetFacts
    <3> QED
      BY <1>3, <2>1, <3>1, <3>2
  <2>2. CASE i % 2 # 1
    <3>1. PICK j \in 1..n : j = i \div 2
      BY <1>2, <2>2
    <3>2. s[j] \div 256 \in Octet
      BY <1>5, OctetFacts
    <3> QED
      BY <1>3, <2>2, <3>1, <3>2
  <2> QED
    BY <2>1, <2>2
<1>7. w \in [1..N -> Octet]
  BY <1>3, <1>6
<1>8. w \in Seq(Octet) /\ Len(w) = N
  BY <1>7, Listed
<1>9. ASSUME NEW i \in 1..n PROVE w[2 * i - 1] = s[i] % 256 /\ w[2 * i] = s[i] \div 256
  <2>1. /\ 2 * i - 1 \in 1..N /\ 2 * i \in 1..N /\ (2 * i - 1) % 2 = 1 /\ (2 * i) % 2 # 1
        /\ (2 * i - 1 + 1) \div 2 = i /\ (2 * i) \div 2 = i
    BY <1>2
  <2> QED
    BY <1>3, <2>1
<1> QED
  BY <1>1, <1>2, <1>4, <1>8, <1>9 DEF Halves

LEMMA FromUcs2 ==
    ASSUME NEW s \in Seq(CodeUnit)
    PROVE  FromString(s, "ucs2") = Utf16leToBytes(s, 2 * Len(s))
<1>1. PICK n \in Nat : n = 2 * Len(s)
  OBVIOUS
<1>2. ByteLength(s, "ucs2") = n
  <2>1. s = <<>> => n = 0
    BY <1>1
  <2> QED
    BY <1>1, <2>1 DEF ByteLength
<1>3. Encode(s, "ucs2", n) = Utf16leToBytes(s, n)
  BY DEF Encode
<1>4. Utf16leToBytes(s, n) \in Seq(Octet) /\ Len(Utf16leToBytes(s, n)) <= n /\ "ucs2" \in Encodings
  BY Utf16Bytes DEF Encodings
<1> QED
  BY <1>1, <1>2, <1>3, <1>4, FromIs

LEMMA Utf16Text ==
    ASSUME NEW b \in Seq(Octet)
    PROVE  /\ Utf16leSlice(b) \in Seq(CodeUnit) /\ Len(Utf16leSlice(b)) = Len(b) \div 2
           /\ Halves(b, Utf16leSlice(b), Len(b) \div 2)
<1>1. PICK n \in Nat : n = Len(b) \div 2
  OBVIOUS
<1>2. ASSUME NEW i \in 1..n
      PROVE  /\ b[2 * i - 1] + b[2 * i] * 256 \in CodeUnit
             /\ (b[2 * i - 1] + b[2 * i] * 256) % 256 = b[2 * i - 1]
             /\ (b[2 * i - 1] + b[2 * i] * 256) \div 256 = b[2 * i]
  <2>1. 2 * i - 1 \in 1..Len(b) /\ 2 * i \in 1..Len(b)
    BY <1>1
  <2>2. PICK x \in Octet : x = b[2 * i - 1]
    BY <2>1
  <2>3. PICK y \in Octet : y = b[2 * i]
    BY <2>1
  <2>4. x + y * 256 \in CodeUnit /\ (x + y * 256) % 256 = x /\ (x + y * 256) \div 256 = y
    <3>1. x \in Int /\ x >= 0 /\ x <= 255 /\ y \in Int /\ y >= 0 /\ y <= 255
      BY OctetFacts
    <3>2. (x + y * 256) % 256 = x /\ (x + y * 256) \div 256 = y
      BY <3>1, SMT
    <3>3. x + y * 256 \in CodeUnit
      BY <3>1, SMT DEF CodeUnit
    <3> QED
      BY <3>2, <3>3
  <2> QED
    BY <2>2, <2>3, <2>4
<1>3. Utf16leSlice(b) = [i \in 1..n |-> b[2 * i - 1] + b[2 * i] * 256]
  BY <1>1 DEF Utf16leSlice
<1>4. Utf16leSlice(b) \in [1..n -> CodeUnit]
  BY <1>2, <1>3
<1>5. Utf16leSlice(b) \in Seq(CodeUnit) /\ Len(Utf16leSlice(b)) = n
  BY <1>4, Listed
<1>6. \A i \in 1..n : Utf16leSlice(b)[i] = b[2 * i - 1] + b[2 * i] * 256
  BY <1>3
<1> QED
  BY <1>1, <1>2, <1>5, <1>6 DEF Halves

LEMMA Ucs2Survives ==
    ASSUME NEW b \in Seq(Octet)
    PROVE  FromString(Utf16leSlice(b), "ucs2") = SubSeq(b, 1, 2 * (Len(b) \div 2))
<1>1. PICK n \in Nat : n = Len(b) \div 2 /\ 2 * n <= Len(b)
  OBVIOUS
<1>2. PICK s : s = Utf16leSlice(b)
  OBVIOUS
<1>3. s \in Seq(CodeUnit) /\ Len(s) = n
      /\ Halves(b, s, n)
  BY <1>1, <1>2, Utf16Text
<1>4. PICK N \in Nat : N = 2 * n
  OBVIOUS
<1>5. PICK w : w = Utf16leToBytes(s, N)
  OBVIOUS
<1>6. FromString(s, "ucs2") = w
  BY <1>3, <1>4, <1>5, FromUcs2
<1>7. Least(Len(s), N \div 2) = n
  BY <1>3, <1>4 DEF Least
<1>8. /\ w \in Seq(Octet) /\ Len(w) = N
      /\ Halves(w, s, n)
  <2>1. Len(w) = 2 * Least(Len(s), N \div 2) /\ Halves(w, s, Least(Len(s), N \div 2))
    BY <1>3, <1>5, Utf16Bytes
  <2>2. w \in Seq(Octet)
    BY <1>3, <1>5, Utf16Bytes
  <2> QED
    BY <1>4, <1>7, <2>1, <2>2
<1>9. PICK v : v = SubSeq(b, 1, N)
  OBVIOUS
<1>10. v \in Seq(Octet) /\ Len(v) = N /\ \A i \in 1..N : v[i] = b[i]
  BY <1>1, <1>4, <1>9
<1>11. ASSUME NEW i \in 1..N PROVE w[i] = v[i]
  <2>1. PICK j \in 1..n : i = 2 * j - 1 \/ i = 2 * j
    <3>1. (i + 1) \div 2 \in 1..n /\ (i = 2 * ((i + 1) \div 2) - 1 \/ i = 2 * ((i + 1) \div 2))
      BY <1>4
    <3> QED
      BY <3>1
  <2>2. w[2 * j - 1] = b[2 * j - 1] /\ w[2 * j] = b[2 * j]
    <3>1. w[2 * j - 1] = s[j] % 256 /\ w[2 * j] = s[j] \div 256
      BY <1>8 DEF Halves
    <3>2. b[2 * j - 1] = s[j] % 256 /\ b[2 * j] = s[j] \div 256
      BY <1>3 DEF Halves
    <3> QED
      BY <3>1, <3>2
  <2> QED
    BY <1>10, <2>1, <2>2
<1>12. w = v
  <2>1. Agrees(w, v, N)
    BY <1>11 DEF Agrees
  <2> QED
    BY <1>8, <1>10, <2>1, EqualSeq
<1> QED
  BY <1>1, <1>2, <1>4, <1>6, <1>9, <1>12

-----------------------------------------------------------------------------
(* hex.                                                                     *)

LEMMA HexFacts ==
    /\ \A c : HexDigit(c) \in (-1)..15
    /\ \A x \in 0..15 : HexDigit(HexChar(x)) = x /\ HexChar(x) \in CodeUnit
<1>1. ASSUME NEW c PROVE HexDigit(c) \in (-1)..15
  BY SMT DEF HexDigit
<1>2. ASSUME NEW x \in 0..15 PROVE HexDigit(HexChar(x)) = x /\ HexChar(x) \in CodeUnit
  <2>1. CASE x < 10
    <3>1. HexChar(x) = x + 48 /\ x + 48 \in 48..57
      BY <2>1 DEF HexChar
    <3> QED
      BY <3>1, SMT DEF HexDigit, CodeUnit
  <2>2. CASE x >= 10
    <3>1. HexChar(x) = x + 87 /\ x + 87 \in 97..102
      BY <2>2 DEF HexChar
    <3> QED
      BY <3>1, SMT DEF HexDigit, CodeUnit
  <2> QED
    BY <2>1, <2>2
<1> QED
  BY <1>1, <1>2

(* The pairs of characters of which one is not a hex digit.                 *)
BadPairs(s) == {i \in 1..(Len(s) \div 2) : HexDigit(s[2 * i - 1]) < 0 \/ HexDigit(s[2 * i]) < 0}

GoodPairs(s) == IF BadPairs(s) = {} THEN Len(s) \div 2
                ELSE (CHOOSE i \in BadPairs(s) : \A j \in BadPairs(s) : i <= j) - 1

LEMMA HexBytes ==
    ASSUME NEW s \in Seq(CodeUnit)
    PROVE  /\ HexToBytes(s) \in Seq(Octet) /\ Len(HexToBytes(s)) <= Len(s) \div 2
           /\ BadPairs(s) = {} =>
                /\ Len(HexToBytes(s)) = Len(s) \div 2
                /\ \A i \in 1..(Len(s) \div 2) :
                      HexToBytes(s)[i] = HexDigit(s[2 * i - 1]) * 16 + HexDigit(s[2 * i])
<1>1. PICK N \in Nat : N = Len(s) \div 2
  OBVIOUS
<1>2. PICK bad \in SUBSET (1..N) : bad = BadPairs(s)
  BY <1>1 DEF BadPairs
<1>33. PICK n : n = GoodPairs(s)
  OBVIOUS
<1>3. n \in 0..N /\ \A i \in 1..n : i \notin bad
  <2>1. CASE bad = {}
    BY <1>1, <1>2, <1>33, <2>1 DEF GoodPairs
  <2>2. CASE bad # {}
    <3>1. PICK f : f = CHOOSE i \in bad : \A j \in bad : i <= j
      OBVIOUS
    <3>2. \E i \in bad : \A j \in bad : i <= j
      <4>1. bad \in SUBSET (0..N)
        OBVIOUS
      <4> QED
        BY <2>2, <4>1, LeastExists
    <3>3. f \in bad /\ \A j \in bad : f <= j
      BY <3>1, <3>2
    <3>4. f \in 1..N /\ f - 1 \in 0..N /\ \A i \in 1..(f - 1) : i \notin bad
      BY <3>3
    <3>5. n = f - 1
      BY <1>2, <1>33, <2>2, <3>1 DEF GoodPairs
    <3> QED
      BY <3>4, <3>5
  <2> QED
    BY <2>1, <2>2
<1>4. PICK w : w = [i \in 1..n |-> HexDigit(s[2 * i - 1]) * 16 + HexDigit(s[2 * i])]
  OBVIOUS
<1>5. HexToBytes(s) = w
  BY <1>33, <1>4, Zenon DEF HexToBytes, BadPairs, GoodPairs
<1>6. ASSUME NEW i \in 1..n PROVE w[i] \in Octet
  <2>1. i \notin bad /\ i \in 1..N
    BY <1>3
  <2>11. ~(HexDigit(s[2 * i - 1]) < 0 \/ HexDigit(s[2 * i]) < 0)
    BY <1>1, <1>2, <2>1 DEF BadPairs
  <2>12. \A x \in (-1)..15 : ~(x < 0) => x \in 0..15
    OBVIOUS
  <2>2. HexDigit(s[2 * i - 1]) \in (-1)..15 /\ HexDigit(s[2 * i]) \in (-1)..15
    BY HexFacts
  <2>3. PICK x \in 0..15 : x = HexDigit(s[2 * i - 1])
    BY <2>11, <2>12, <2>2, Zenon
  <2>4. PICK y \in 0..15 : y = HexDigit(s[2 * i])
    BY <2>11, <2>12, <2>2, Zenon
  <2>5. x * 16 + y \in Octet
    BY SMT DEF Octet
  <2> QED
    BY <1>4, <2>3, <2>4, <2>5
<1>7. w \in [1..n -> Octet]
  BY <1>4, <1>6
<1>8. w \in Seq(Octet) /\ Len(w) = n
  BY <1>3, <1>7, Listed
<1>9. bad = {} => n = N
  BY <1>1, <1>2, <1>33 DEF GoodPairs
<1>10. bad = {} => \A i \in 1..N : w[i] = HexDigit(s[2 * i - 1]) * 16 + HexDigit(s[2 * i])
  BY <1>4, <1>9
<1> QED
  BY <1>1, <1>2, <1>3, <1>5, <1>8, <1>9, <1>10

LEMMA FromHex ==
    ASSUME NEW s \in Seq(CodeUnit)
    PROVE  FromString(s, "hex") = HexToBytes(s)
<1>1. PICK n \in Nat : n = Len(s) \div 2
  OBVIOUS
<1>2. ByteLength(s, "hex") = n
  <2>1. s = <<>> => n = 0
    BY <1>1
  <2> QED
    BY <1>1, <2>1 DEF ByteLength
<1>3. Encode(s, "hex", n) = HexToBytes(s)
  BY DEF Encode
<1>4. HexToBytes(s) \in Seq(Octet) /\ Len(HexToBytes(s)) <= n /\ "hex" \in Encodings
  BY <1>1, HexBytes DEF Encodings
<1> QED
  BY <1>2, <1>3, <1>4, FromIs

LEMMA HexText ==
    ASSUME NEW b \in Seq(Octet)
    PROVE  /\ HexSlice(b) \in Seq(CodeUnit) /\ Len(HexSlice(b)) = 2 * Len(b)
           /\ \A i \in 1..Len(b) : /\ HexDigit(HexSlice(b)[2 * i - 1]) = b[i] \div 16
                                   /\ HexDigit(HexSlice(b)[2 * i]) = b[i] % 16
                                   /\ b[i] \div 16 \in 0..15 /\ b[i] % 16 \in 0..15
                                   /\ (b[i] \div 16) * 16 + (b[i] % 16) = b[i]
<1>1. PICK n \in Nat : n = Len(b)
  OBVIOUS
<1>2. PICK N \in Nat : N = 2 * n
  OBVIOUS
<1>3. PICK w : w = [i \in 1..N |-> IF i % 2 = 1 THEN HexChar(b[(i + 1) \div 2] \div 16)
                                           ELSE HexChar(b[i \div 2] % 16)]
  OBVIOUS
<1>4. HexSlice(b) = w
  BY <1>1, <1>2, <1>3 DEF HexSlice
<1>5. ASSUME NEW i \in 1..n
      PROVE  b[i] \div 16 \in 0..15 /\ b[i] % 16 \in 0..15 /\ (b[i] \div 16) * 16 + (b[i] % 16) = b[i]
  <2>1. PICK x \in Octet : x = b[i]
    BY <1>1
  <2>2. x \div 16 \in 0..15 /\ x % 16 \in 0..15 /\ (x \div 16) * 16 + (x % 16) = x
    BY SMT DEF Octet
  <2> QED
    BY <2>1, <2>2
<1>6. ASSUME NEW i \in 1..N PROVE w[i] \in CodeUnit
  <2>1. CASE i % 2 = 1
    <3>1. PICK j \in 1..n : j = (i + 1) \div 2
      BY <1>2, <2>1
    <3> QED
      BY <1>3, <1>5, <2>1, <3>1, HexFacts
  <2>2. CASE i % 2 # 1
    <3>1. PICK j \in 1..n : j = i \div 2
      BY <1>2, <2>2
    <3> QED
      BY <1>3, <1>5, <2>2, <3>1, HexFacts
  <2> QED
    BY <2>1, <2>2
<1>7. w \in [1..N -> CodeUnit]
  BY <1>3, <1>6
<1>8. w \in Seq(CodeUnit) /\ Len(w) = N
  BY <1>7, Listed
<1>9. ASSUME NEW i \in 1..n
      PROVE  HexDigit(w[2 * i - 1]) = b[i] \div 16 /\ HexDigit(w[2 * i]) = b[i] % 16
  <2>1. /\ 2 * i - 1 \in 1..N /\ 2 * i \in 1..N /\ (2 * i - 1) % 2 = 1 /\ (2 * i) % 2 # 1
        /\ (2 * i - 1 + 1) \div 2 = i /\ (2 * i) \div 2 = i
    BY <1>2
  <2>2. w[2 * i - 1] = HexChar(b[i] \div 16) /\ w[2 * i] = HexChar(b[i] % 16)
    BY <1>3, <2>1
  <2> QED
    BY <1>5, <2>2, HexFacts
<1> QED
  BY <1>1, <1>2, <1>4, <1>5, <1>8, <1>9

LEMMA HexSurvives ==
    ASSUME NEW b \in Seq(Octet)
    PROVE  FromString(HexSlice(b), "hex") = b
<1>1. PICK s : s = HexSlice(b)
  OBVIOUS
<1>2. PICK n \in Nat : n = Len(b)
  OBVIOUS
<1>3. /\ s \in Seq(CodeUnit) /\ Len(s) = 2 * n
      /\ \A i \in 1..n : /\ HexDigit(s[2 * i - 1]) = b[i] \div 16 /\ HexDigit(s[2 * i]) = b[i] % 16
                         /\ b[i] \div 16 \in 0..15 /\ b[i] % 16 \in 0..15
                         /\ (b[i] \div 16) * 16 + (b[i] % 16) = b[i]
  BY <1>1, <1>2, HexText
<1>4. Len(s) \div 2 = n
  BY <1>3
<1>5. BadPairs(s) = {}
  <2>1. ASSUME NEW i \in 1..n PROVE ~(HexDigit(s[2 * i - 1]) < 0 \/ HexDigit(s[2 * i]) < 0)
    <3>1. PICK x : x = b[i] \div 16 /\ x = HexDigit(s[2 * i - 1])
      BY <1>3
    <3>2. PICK y : y = b[i] % 16 /\ y = HexDigit(s[2 * i])
      BY <1>3
    <3>3. x \in 0..15 /\ y \in 0..15
      BY <1>3, <3>1, <3>2
    <3>4. ~(x < 0 \/ y < 0)
      BY <3>3
    <3> QED
      BY <3>1, <3>2, <3>4, Zenon
  <2> QED
    BY <1>4, <2>1 DEF BadPairs
<1>6. PICK w : w = HexToBytes(s)
  OBVIOUS
<1>7. w \in Seq(Octet) /\ Len(w) = n
      /\ \A i \in 1..n : w[i] = HexDigit(s[2 * i - 1]) * 16 + HexDigit(s[2 * i])
  BY <1>3, <1>4, <1>5, <1>6, HexBytes
<1>8. Agrees(w, b, n)
  BY <1>3, <1>7 DEF Agrees
<1>9. w = b
  BY <1>2, <1>7, <1>8, EqualSeq
<1> QED
  BY <1>1, <1>3, <1>6, <1>9, FromHex

-----------------------------------------------------------------------------
(* base64.                                                                  *)

LEMMA LookupFacts ==
    ASSUME NEW d \in Sextet
    PROVE  Lookup(d) \in Alphabet /\ RevLookup(Lookup(d)) = d /\ Lookup(d) \in CodeUnit
<1>1. d \in 0..63
  BY DEF Sextet
<1>2. CASE d \in 0..25
  <2>1. PICK c \in 65..90 : c = d + 65
    BY <1>2, SMT
  <2>2. Lookup(d) = c
    BY <1>2, <2>1, SMT DEF Lookup
  <2>3. RevLookup(c) = d
    BY <1>2, <2>1, SMT DEF RevLookup
  <2>4. c \in Alphabet /\ c \in CodeUnit
    BY SMT DEF Alphabet, CodeUnit
  <2> QED
    BY <2>2, <2>3, <2>4
<1>3. CASE d \in 26..51
  <2>1. PICK c \in 97..122 : c = d + 71
    BY <1>3, SMT
  <2>2. Lookup(d) = c
    BY <1>3, <2>1, SMT DEF Lookup
  <2>3. RevLookup(c) = d
    BY <1>3, <2>1, SMT DEF RevLookup
  <2>4. c \in Alphabet /\ c \in CodeUnit
    BY SMT DEF Alphabet, CodeUnit
  <2> QED
    BY <2>2, <2>3, <2>4
<1>4. CASE d \in 52..61
  <2>1. PICK c \in 48..57 : c = d - 4
    BY <1>4, SMT
  <2>2. Lookup(d) = c
    BY <1>4, <2>1, SMT DEF Lookup
  <2>3. RevLookup(c) = d
    BY <1>4, <2>1, SMT DEF RevLookup
  <2>4. c \in Alphabet /\ c \in CodeUnit
    BY SMT DEF Alphabet, CodeUnit
  <2> QED
    BY <2>2, <2>3, <2>4
<1>5. CASE d = 62
  <2>1. Lookup(d) = 43
    BY <1>5, SMT DEF Lookup
  <2> QED
    BY <1>5, <2>1, SMT DEF RevLookup, Alphabet, CodeUnit
<1>6. CASE d = 63
  <2>1. Lookup(d) = 47
    BY <1>6, SMT DEF Lookup
  <2> QED
    BY <1>6, <2>1, SMT DEF RevLookup, Alphabet, CodeUnit
<1> QED
  BY <1>1, <1>2, <1>3, <1>4, <1>5, <1>6

(* The bytes of group x, zero beyond the end, and the digits they make.     *)
ByteAt(b, i) == IF i <= Len(b) THEN b[i] ELSE 0
Sextet1(p) == p \div 4
Sextet2(p, q) == (p % 4) * 16 + q \div 16
Sextet3(q, r) == (q % 16) * 4 + r \div 64
Sextet4(r) == r % 64

LEMMA SextetsAre ==
    ASSUME NEW p \in Octet, NEW q \in Octet, NEW r \in Octet
    PROVE  /\ Sextet1(p) \in Sextet /\ Sextet2(p, q) \in Sextet
           /\ Sextet3(q, r) \in Sextet /\ Sextet4(r) \in Sextet
           /\ Sextet1(p) * 4 + Sextet2(p, q) \div 16 = p
           /\ (Sextet2(p, q) % 16) * 16 + Sextet3(q, r) \div 4 = q
           /\ (Sextet3(q, r) % 4) * 64 + Sextet4(r) = r
<1>1. p \in 0..255 /\ q \in 0..255 /\ r \in 0..255
  BY DEF Octet
<1>2. PICK a \in 0..63 : a = p \div 4
  BY <1>1, SMT
<1>3. PICK b \in 0..3 : b = p % 4
  BY <1>1, SMT
<1>4. PICK c \in 0..15 : c = q \div 16
  BY <1>1, SMT
<1>5. PICK d \in 0..15 : d = q % 16
  BY <1>1, SMT
<1>6. PICK e \in 0..3 : e = r \div 64
  BY <1>1, SMT
<1>7. PICK f \in 0..63 : f = r % 64
  BY <1>1, SMT
<1>8. p = 4 * a + b /\ q = 16 * c + d /\ r = 64 * e + f
  BY <1>1, <1>2, <1>3, <1>4, <1>5, <1>6, <1>7, SMT
<1>9. PICK x \in 0..63 : x = b * 16 + c /\ x \div 16 = b /\ x % 16 = c
  BY SMT
<1>10. PICK y \in 0..63 : y = d * 4 + e /\ y \div 4 = d /\ y % 4 = e
  BY SMT
<1>11. Sextet1(p) = a /\ Sextet2(p, q) = x /\ Sextet3(q, r) = y /\ Sextet4(r) = f
  BY <1>2, <1>3, <1>4, <1>5, <1>6, <1>7, <1>9, <1>10, SMT DEF Sextet1, Sextet2, Sextet3, Sextet4
<1>12. a \in Sextet /\ x \in Sextet /\ y \in Sextet /\ f \in Sextet
  BY DEF Sextet
<1>13. a * 4 + b = p /\ c * 16 + d = q /\ e * 64 + f = r
  BY <1>8, SMT
<1> QED
  BY <1>9, <1>10, <1>11, <1>12, <1>13

ByteNumber(p, q, r) == p * 65536 + q * 256 + r

LEMMA TripletIs ==
    ASSUME NEW p \in Octet, NEW q \in Octet, NEW r \in Octet
    PROVE  TripletToBase64(ByteNumber(p, q, r))
             = <<Lookup(Sextet1(p)), Lookup(Sextet2(p, q)), Lookup(Sextet3(q, r)), Lookup(Sextet4(r))>>
<1>1. p \in 0..255 /\ q \in 0..255 /\ r \in 0..255
  BY DEF Octet
<1>2. PICK num \in Int : num = p * 65536 + q * 256 + r
  BY <1>1, SMT
<1>3. num \div 262144 = p \div 4
  BY <1>1, <1>2, SMT
<1>4. (num \div 4096) % 64 = (p % 4) * 16 + q \div 16
  <2>1. PICK x \in 0..15 : x = q \div 16
    BY <1>1, SMT
  <2>2. num \div 4096 = p * 16 + x
    BY <1>1, <1>2, <2>1, SMT
  <2>3. (p * 16 + x) % 64 = (p % 4) * 16 + x
    BY <1>1, SMT
  <2> QED
    BY <2>1, <2>2, <2>3, SMT
<1>5. (num \div 64) % 64 = (q % 16) * 4 + r \div 64
  BY <1>1, <1>2, SMT
<1>6. num % 64 = r % 64
  BY <1>1, <1>2, SMT
<1> QED
  BY <1>2, <1>3, <1>4, <1>5, <1>6, SMT DEF TripletToBase64, ByteNumber, Sextet1, Sextet2, Sextet3, Sextet4

LEMMA LastDigitsAre ==
    ASSUME NEW p \in Octet, NEW q \in Octet
    PROVE  /\ (p * 16) % 64 = Sextet2(p, 0)
           /\ (p * 256 + q) \div 1024 = Sextet1(p) /\ ((p * 256 + q) \div 16) % 64 = Sextet2(p, q)
           /\ ((p * 256 + q) * 4) % 64 = Sextet3(q, 0)
<1>1. p \in 0..255 /\ q \in 0..255
  BY DEF Octet
<1>2. (p * 16) % 64 = (p % 4) * 16 + 0 \div 16
  BY <1>1, SMT
<1>3. (p * 256 + q) \div 1024 = p \div 4
  BY <1>1, SMT
<1>4. ((p * 256 + q) \div 16) % 64 = (p % 4) * 16 + q \div 16
  BY <1>1, SMT
<1>5. ((p * 256 + q) * 4) % 64 = (q % 16) * 4 + 0 \div 64
  BY <1>1, SMT
<1> QED
  BY <1>2, <1>3, <1>4, <1>5, SMT DEF Sextet1, Sextet2, Sextet3, Sextet4

(* The i-th digit that bytes make.                                          *)
SextetOf(b, i) ==
    LET B(j) == ByteAt(b, 3 * ((i - 1) \div 4) + j)
    IN  CASE (i - 1) % 4 = 0 -> Sextet1(B(1))
          [] (i - 1) % 4 = 1 -> Sextet2(B(1), B(2))
          [] (i - 1) % 4 = 2 -> Sextet3(B(2), B(3))
          [] (i - 1) % 4 = 3 -> Sextet4(B(3))
LEMMA SextetsOf ==
    ASSUME NEW b, NEW x \in Nat
    PROVE  /\ SextetOf(b, 4 * x + 1) = Sextet1(ByteAt(b, 3 * x + 1))
           /\ SextetOf(b, 4 * x + 2) = Sextet2(ByteAt(b, 3 * x + 1), ByteAt(b, 3 * x + 2))
           /\ SextetOf(b, 4 * x + 3) = Sextet3(ByteAt(b, 3 * x + 2), ByteAt(b, 3 * x + 3))
           /\ SextetOf(b, 4 * x + 4) = Sextet4(ByteAt(b, 3 * x + 3))
<1>1. /\ (4 * x + 1 - 1) \div 4 = x /\ (4 * x + 1 - 1) % 4 = 0
      /\ (4 * x + 2 - 1) \div 4 = x /\ (4 * x + 2 - 1) % 4 = 1
      /\ (4 * x + 3 - 1) \div 4 = x /\ (4 * x + 3 - 1) % 4 = 2
      /\ (4 * x + 4 - 1) \div 4 = x /\ (4 * x + 4 - 1) % 4 = 3
  OBVIOUS
<1>2. SextetOf(b, 4 * x + 1) = Sextet1(ByteAt(b, 3 * x + 1))
  BY <1>1 DEF SextetOf
<1>3. SextetOf(b, 4 * x + 2) = Sextet2(ByteAt(b, 3 * x + 1), ByteAt(b, 3 * x + 2))
  BY <1>1 DEF SextetOf
<1>4. SextetOf(b, 4 * x + 3) = Sextet3(ByteAt(b, 3 * x + 2), ByteAt(b, 3 * x + 3))
  BY <1>1 DEF SextetOf
<1>5. SextetOf(b, 4 * x + 4) = Sextet4(ByteAt(b, 3 * x + 3))
  BY <1>1 DEF SextetOf
<1> QED
  BY <1>2, <1>3, <1>4, <1>5

LEMMA ByteAtOctet ==
    ASSUME NEW b \in Seq(Octet), NEW i \in Nat \ {0}
    PROVE  ByteAt(b, i) \in Octet
<1>1. 0 \in Octet
  BY DEF Octet
<1>2. i <= Len(b) => b[i] \in Octet
  OBVIOUS
<1> QED
  BY <1>1, <1>2 DEF ByteAt

LEMMA SextetOfIs ==
    ASSUME NEW b \in Seq(Octet), NEW i \in Nat \ {0}
    PROVE  SextetOf(b, i) \in Sextet
<1>1. PICK x \in Nat : x = (i - 1) \div 4
  OBVIOUS
<1>2. i = 4 * x + 1 \/ i = 4 * x + 2 \/ i = 4 * x + 3 \/ i = 4 * x + 4
  BY <1>1
<1>3. PICK p \in Octet : p = ByteAt(b, 3 * x + 1)
  BY ByteAtOctet
<1>4. PICK q \in Octet : q = ByteAt(b, 3 * x + 2)
  BY ByteAtOctet
<1>5. PICK r \in Octet : r = ByteAt(b, 3 * x + 3)
  BY ByteAtOctet
<1>6. /\ Sextet1(p) \in Sextet /\ Sextet2(p, q) \in Sextet
      /\ Sextet3(q, r) \in Sextet /\ Sextet4(r) \in Sextet
  BY SextetsAre
<1>7. /\ SextetOf(b, 4 * x + 1) = Sextet1(p) /\ SextetOf(b, 4 * x + 2) = Sextet2(p, q)
      /\ SextetOf(b, 4 * x + 3) = Sextet3(q, r) /\ SextetOf(b, 4 * x + 4) = Sextet4(r)
  BY <1>3, <1>4, <1>5, SextetsOf
<1> QED
  BY <1>2, <1>6, <1>7

SignAt(b, i) == Lookup(SextetOf(b, i))

LEMMA GroupNumber ==
    ASSUME NEW b, NEW g, NEW p, NEW q, NEW r, b[3 * g - 2] = p, b[3 * g - 1] = q, b[3 * g] = r
    PROVE  EncodeGroup(b, g) = TripletToBase64(ByteNumber(p, q, r))
BY SMT DEF EncodeGroup, ByteNumber

LEMMA GroupText ==
    ASSUME NEW b \in Seq(Octet), NEW x \in Nat, 3 * x + 3 <= Len(b)
    PROVE  EncodeGroup(b, x + 1)
             = <<SignAt(b, 4 * x + 1), SignAt(b, 4 * x + 2), SignAt(b, 4 * x + 3), SignAt(b, 4 * x + 4)>>
<1>1. 3 * x + 1 \in 1..Len(b) /\ 3 * x + 2 \in 1..Len(b) /\ 3 * x + 3 \in 1..Len(b)
  OBVIOUS
<1>2. PICK p \in Octet : p = b[3 * x + 1] /\ p = ByteAt(b, 3 * x + 1)
  BY <1>1 DEF ByteAt
<1>3. PICK q \in Octet : q = b[3 * x + 2] /\ q = ByteAt(b, 3 * x + 2)
  BY <1>1 DEF ByteAt
<1>4. PICK r \in Octet : r = b[3 * x + 3] /\ r = ByteAt(b, 3 * x + 3)
  BY <1>1 DEF ByteAt
<1>5. 3 * (x + 1) - 2 = 3 * x + 1 /\ 3 * (x + 1) - 1 = 3 * x + 2 /\ 3 * (x + 1) = 3 * x + 3
  OBVIOUS
<1>6. EncodeGroup(b, x + 1) = TripletToBase64(ByteNumber(p, q, r))
  <2>1. b[3 * (x + 1) - 2] = p /\ b[3 * (x + 1) - 1] = q /\ b[3 * (x + 1)] = r
    BY <1>2, <1>3, <1>4, <1>5
  <2> QED
    BY <2>1, GroupNumber
<1>7. EncodeGroup(b, x + 1)
        = <<Lookup(Sextet1(p)), Lookup(Sextet2(p, q)), Lookup(Sextet3(q, r)), Lookup(Sextet4(r))>>
  <2>1. TripletToBase64(ByteNumber(p, q, r))
          = <<Lookup(Sextet1(p)), Lookup(Sextet2(p, q)), Lookup(Sextet3(q, r)), Lookup(Sextet4(r))>>
    BY TripletIs, Zenon
  <2> QED
    BY <1>6, <2>1, Zenon
<1>8. /\ SextetOf(b, 4 * x + 1) = Sextet1(p) /\ SextetOf(b, 4 * x + 2) = Sextet2(p, q)
      /\ SextetOf(b, 4 * x + 3) = Sextet3(q, r) /\ SextetOf(b, 4 * x + 4) = Sextet4(r)
  BY <1>2, <1>3, <1>4, SextetsOf
<1> QED
  BY <1>7, <1>8 DEF SignAt

LEMMA LastText ==
    ASSUME NEW b \in Seq(Octet), NEW g \in Nat, NEW r \in 0..2, Len(b) = 3 * g + r
    PROVE  /\ r = 0 => EncodeLast(b) = <<>>
           /\ r = 1 => EncodeLast(b) = <<SignAt(b, 4 * g + 1), SignAt(b, 4 * g + 2), Pad, Pad>>
           /\ r = 2 => EncodeLast(b) = <<SignAt(b, 4 * g + 1), SignAt(b, 4 * g + 2), SignAt(b, 4 * g + 3), Pad>>
<1>1. PICK len \in Nat : len = Len(b) /\ len = 3 * g + r /\ len % 3 = r
  OBVIOUS
<1>2. CASE r = 0
  <2>1. EncodeLast(b) = <<>>
    <3>1. len % 3 # 1 /\ len % 3 # 2
      BY <1>1, <1>2
    <3> QED
      BY <1>1, <3>1, Zenon DEF EncodeLast
  <2> QED
    BY <1>2, <2>1
<1>3. CASE r = 1
  <2>1. PICK p \in Octet : p = b[len] /\ p = ByteAt(b, 3 * g + 1)
    BY <1>1, <1>3 DEF ByteAt
  <2>2. ByteAt(b, 3 * g + 2) = 0 /\ 0 \in Octet
    BY <1>1, <1>3 DEF ByteAt, Octet
  <2>3. EncodeLast(b) = <<Lookup(p \div 4), Lookup((p * 16) % 64), Pad, Pad>>
    BY <1>1, <1>3, <2>1, SMT DEF EncodeLast
  <2>4. p \div 4 = Sextet1(p) /\ (p * 16) % 64 = Sextet2(p, 0)
    BY <2>2, LastDigitsAre DEF Sextet1
  <2>5. SextetOf(b, 4 * g + 1) = Sextet1(p) /\ SextetOf(b, 4 * g + 2) = Sextet2(p, 0)
    BY <2>1, <2>2, SextetsOf
  <2>6. EncodeLast(b) = <<Lookup(Sextet1(p)), Lookup(Sextet2(p, 0)), Pad, Pad>>
    BY <2>3, <2>4
  <2> QED
    BY <1>3, <2>5, <2>6 DEF SignAt
<1>4. CASE r = 2
  <2>1. PICK p \in Octet : p = b[len - 1] /\ p = ByteAt(b, 3 * g + 1)
    BY <1>1, <1>4 DEF ByteAt
  <2>2. PICK q \in Octet : q = b[len] /\ q = ByteAt(b, 3 * g + 2)
    BY <1>1, <1>4 DEF ByteAt
  <2>3. ByteAt(b, 3 * g + 3) = 0 /\ 0 \in Octet
    BY <1>1, <1>4 DEF ByteAt, Octet
  <2>4. PICK tmp : tmp = p * 256 + q
    OBVIOUS
  <2>5. EncodeLast(b) = <<Lookup(tmp \div 1024), Lookup((tmp \div 16) % 64), Lookup((tmp * 4) % 64), Pad>>
    BY <1>1, <1>4, <2>1, <2>2, <2>4, SMT DEF EncodeLast
  <2>6. /\ tmp \div 1024 = Sextet1(p) /\ (tmp \div 16) % 64 = Sextet2(p, q)
        /\ (tmp * 4) % 64 = Sextet3(q, 0)
    BY <2>4, LastDigitsAre, SMT
  <2>7. /\ SextetOf(b, 4 * g + 1) = Sextet1(p) /\ SextetOf(b, 4 * g + 2) = Sextet2(p, q)
        /\ SextetOf(b, 4 * g + 3) = Sextet3(q, 0)
    BY <2>1, <2>2, <2>3, SextetsOf
  <2>8. EncodeLast(b) = <<Lookup(Sextet1(p)), Lookup(Sextet2(p, q)), Lookup(Sextet3(q, 0)), Pad>>
    BY <2>5, <2>6, SMT
  <2> QED
    BY <1>4, <2>7, <2>8 DEF SignAt
<1> QED
  BY <1>2, <1>3, <1>4

LEMMA SignFits ==
    ASSUME NEW b \in Seq(Octet), NEW i \in Nat \ {0}
    PROVE  /\ SignAt(b, i) \in Alphabet /\ SignAt(b, i) \in CodeUnit
           /\ RevLookup(SignAt(b, i)) = SextetOf(b, i)
BY SextetOfIs, LookupFacts DEF SignAt

LEMMA GroupsText ==
    ASSUME NEW b \in Seq(Octet), NEW g \in Nat, 3 * g <= Len(b), NEW N, N = 4 * g,
           NEW h, h = Joined([x \in 1..g |-> EncodeGroup(b, x)], 4)
    PROVE  h \in Seq(CodeUnit) /\ Len(h) = N /\ \A i \in 1..N : h[i] = SignAt(b, i)
<1>1. PICK f : f = [x \in 1..g |-> EncodeGroup(b, x)]
  OBVIOUS
<1>2. ASSUME NEW x \in 1..g
      PROVE  \E y \in Nat : /\ x = y + 1
                /\ f[x] = <<SignAt(b, 4 * y + 1), SignAt(b, 4 * y + 2), SignAt(b, 4 * y + 3), SignAt(b, 4 * y + 4)>>
  <2>1. PICK y \in Nat : x = y + 1 /\ 3 * y + 3 <= Len(b)
    <3>1. x - 1 \in Nat /\ x = (x - 1) + 1 /\ 3 * (x - 1) + 3 <= Len(b)
      OBVIOUS
    <3> QED
      BY <3>1
  <2>2. EncodeGroup(b, y + 1)
          = <<SignAt(b, 4 * y + 1), SignAt(b, 4 * y + 2), SignAt(b, 4 * y + 3), SignAt(b, 4 * y + 4)>>
    BY <2>1, GroupText
  <2>3. f[x] = EncodeGroup(b, y + 1)
    BY <1>1, <2>1
  <2> QED
    BY <2>1, <2>2, <2>3
<1>3. ASSUME NEW x \in 1..g PROVE f[x] \in Seq(CodeUnit) /\ Len(f[x]) = 4
  <2>1. PICK y \in Nat :
           f[x] = <<SignAt(b, 4 * y + 1), SignAt(b, 4 * y + 2), SignAt(b, 4 * y + 3), SignAt(b, 4 * y + 4)>>
    BY <1>2
  <2>2. /\ SignAt(b, 4 * y + 1) \in CodeUnit /\ SignAt(b, 4 * y + 2) \in CodeUnit
        /\ SignAt(b, 4 * y + 3) \in CodeUnit /\ SignAt(b, 4 * y + 4) \in CodeUnit
    BY SignFits
  <2> QED
    BY <2>1, <2>2
<1>4. f \in [1..g -> Seq(CodeUnit)]
  BY <1>1, <1>3
<1>5. f \in Seq(Seq(CodeUnit)) /\ Len(f) = g /\ EachLong(f, g, 4)
  BY <1>3, <1>4, Listed DEF EachLong
<1>6. h \in Seq(CodeUnit) /\ Len(h) = N /\ JoinedAt(f, g, 4, N)
  <2>1. 4 \in {3, 4}
    OBVIOUS
  <2> QED
    BY <1>1, <1>5, <2>1, JoinedIs
<1>7. ASSUME NEW i \in 1..N PROVE h[i] = SignAt(b, i)
  <2>1. /\ (i - 1) \div 4 + 1 \in 1..g /\ ((i - 1) % 4) + 1 \in 1..4
        /\ h[i] = f[(i - 1) \div 4 + 1][((i - 1) % 4) + 1]
    BY <1>1, <1>6 DEF JoinedAt
  <2>2. PICK x \in 1..g : x = (i - 1) \div 4 + 1
    BY <2>1
  <2>3. PICK p \in 1..4 : p = ((i - 1) % 4) + 1
    BY <2>1
  <2>4. h[i] = f[x][p]
    BY <2>1, <2>2, <2>3
  <2>5. PICK y \in Nat : /\ x = y + 1
           /\ f[x] = <<SignAt(b, 4 * y + 1), SignAt(b, 4 * y + 2), SignAt(b, 4 * y + 3), SignAt(b, 4 * y + 4)>>
    BY <1>2
  <2>6. i = 4 * y + p
    <3>1. x = y + 1
      BY <2>5
    <3>2. i \in Nat \ {0}
      OBVIOUS
    <3>3. i = 4 * (x - 1) + p
      BY <2>2, <2>3, <3>2
    <3> QED
      BY <3>1, <3>3
  <2>7. \/ p = 1 /\ i = 4 * y + 1
        \/ p = 2 /\ i = 4 * y + 2
        \/ p = 3 /\ i = 4 * y + 3
        \/ p = 4 /\ i = 4 * y + 4
    BY <2>6
  <2>8. /\ f[x][1] = SignAt(b, 4 * y + 1) /\ f[x][2] = SignAt(b, 4 * y + 2)
        /\ f[x][3] = SignAt(b, 4 * y + 3) /\ f[x][4] = SignAt(b, 4 * y + 4)
    BY <2>5
  <2>9. f[x][p] = SignAt(b, i)
    BY <2>7, <2>8
  <2> QED
    BY <2>4, <2>9
<1> QED
  BY <1>6, <1>7

Continues(l, b, N, n) == \A i \in 1..n : l[i] = SignAt(b, N + i)
Signs(t, b, m) == \A i \in 1..m : t[i] = SignAt(b, i)
Pads(n) == [i \in 1..n |-> Pad]
LEMMA PadUnit == Pad \in CodeUnit
BY SMT DEF Pad, CodeUnit

LEMMA FewOf ==
    ASSUME NEW S, NEW x \in S, NEW y \in S, NEW z \in S, NEW u \in S
    PROVE  /\ <<>> \in Seq(S) /\ <<x>> \in Seq(S) /\ <<x, y>> \in Seq(S) /\ <<x, y, z>> \in Seq(S)
           /\ <<x, y, z, u>> \in Seq(S)
OBVIOUS

LEMMA TwoAndTwo ==
    ASSUME NEW S, NEW x \in S, NEW y \in S, NEW z \in S, NEW u \in S
    PROVE  <<x, y>> \o <<z, u>> = <<x, y, z, u>>
<1>1. PICK h : h = <<x, y>>
  OBVIOUS
<1>2. PICK l : l = <<z, u>>
  OBVIOUS
<1>3. PICK t : t = h \o l
  OBVIOUS
<1>4. h \in Seq(S) /\ l \in Seq(S) /\ Len(h) = 2 /\ Len(l) = 2 /\ 4 = 2 + 2
  BY <1>1, <1>2
<1>5. /\ t \in Seq(S) /\ Len(t) = 4
      /\ \A i \in 1..2 : t[i] = h[i]
      /\ \A i \in 1..2 : t[2 + i] = l[i]
  <2>1. h \in Seq(S) /\ l \in Seq(S)
    BY <1>4
  <2>2. /\ h \o l \in Seq(S) /\ Len(h \o l) = Len(h) + Len(l)
        /\ \A i \in 1..Len(h) : (h \o l)[i] = h[i]
        /\ \A i \in 1..Len(l) : (h \o l)[Len(h) + i] = l[i]
    BY <2>1, Appended
  <2> QED
    BY <1>3, <1>4, <2>2
<1>6. t[1] = x /\ t[2] = y /\ t[3] = z /\ t[4] = u
  <2>1. t[1] = h[1] /\ t[2] = h[2] /\ t[2 + 1] = l[1] /\ t[2 + 2] = l[2]
    BY <1>5
  <2> QED
    BY <1>1, <1>2, <2>1
<1>7. t = <<x, y, z, u>>
  BY <1>5, <1>6
<1> QED
  BY <1>1, <1>2, <1>3, <1>7

LEMMA ThreeAndOne ==
    ASSUME NEW S, NEW x \in S, NEW y \in S, NEW z \in S, NEW u \in S
    PROVE  <<x, y, z>> \o <<u>> = <<x, y, z, u>>
<1>1. PICK h : h = <<x, y, z>>
  OBVIOUS
<1>2. PICK l : l = <<u>>
  OBVIOUS
<1>3. PICK t : t = h \o l
  OBVIOUS
<1>4. h \in Seq(S) /\ l \in Seq(S) /\ Len(h) = 3 /\ Len(l) = 1 /\ 4 = 3 + 1
  BY <1>1, <1>2
<1>5. /\ t \in Seq(S) /\ Len(t) = 4
      /\ \A i \in 1..3 : t[i] = h[i]
      /\ \A i \in 1..1 : t[3 + i] = l[i]
  <2>1. h \in Seq(S) /\ l \in Seq(S)
    BY <1>4
  <2>2. /\ h \o l \in Seq(S) /\ Len(h \o l) = Len(h) + Len(l)
        /\ \A i \in 1..Len(h) : (h \o l)[i] = h[i]
        /\ \A i \in 1..Len(l) : (h \o l)[Len(h) + i] = l[i]
    BY <2>1, Appended
  <2> QED
    BY <1>3, <1>4, <2>2
<1>6. t[1] = x /\ t[2] = y /\ t[3] = z /\ t[4] = u
  <2>1. t[1] = h[1] /\ t[2] = h[2] /\ t[3] = h[3] /\ t[3 + 1] = l[1]
    BY <1>5
  <2> QED
    BY <1>1, <1>2, <2>1
<1>7. t = <<x, y, z, u>>
  BY <1>5, <1>6
<1> QED
  BY <1>1, <1>2, <1>3, <1>7

LEMMA PadsAre ==
    ASSUME NEW n \in Nat
    PROVE  Pads(n) \in Seq(CodeUnit) /\ Len(Pads(n)) = n /\ \A i \in 1..n : Pads(n)[i] = Pad
<1>1. Pad \in CodeUnit
  BY PadUnit
<1>2. Pads(n) \in [1..n -> CodeUnit] /\ \A i \in 1..n : Pads(n)[i] = Pad
  BY <1>1 DEF Pads
<1> QED
  BY <1>2, Listed

LEMMA FewPads == Pads(0) = <<>> /\ Pads(1) = <<Pad>> /\ Pads(2) = <<Pad, Pad>>
BY DEF Pads

(* t is what h followed by l is. *)
Chained(t, h, l) ==
    /\ Len(t) = Len(h) + Len(l)
    /\ \A i \in 1..Len(h) : t[i] = h[i]
    /\ \A i \in 1..Len(l) : t[Len(h) + i] = l[i]

LEMMA Chain ==
    ASSUME NEW S, NEW h \in Seq(S), NEW l \in Seq(S)
    PROVE  h \o l \in Seq(S) /\ Chained(h \o l, h, l)
BY DEF Chained

LEMMA SignsAppended ==
    ASSUME NEW b \in Seq(Octet), NEW N, NEW h \in Seq(CodeUnit), Len(h) = N, Signs(h, b, N),
           NEW l \in Seq(CodeUnit), NEW n, n = Len(l), Continues(l, b, N, n),
           NEW M, M = N + n
    PROVE  h \o l \in Seq(CodeUnit) /\ Len(h \o l) = M /\ Signs(h \o l, b, M)
<1>1. PICK t : t = h \o l
  OBVIOUS
<1>2. /\ t \in Seq(CodeUnit) /\ Len(t) = M
      /\ \A i \in 1..N : t[i] = h[i]
      /\ \A i \in 1..n : t[N + i] = l[i]
  <2>1. t \in Seq(CodeUnit) /\ Chained(t, h, l)
    BY <1>1, Chain
  <2>2. Len(h) = N /\ Len(l) = n /\ M = N + n
    OBVIOUS
  <2>3. t \in Seq(CodeUnit) /\ Len(t) = M
    BY <2>1, <2>2 DEF Chained
  <2>4. \A i \in 1..N : t[i] = h[i]
    BY <2>1, <2>2 DEF Chained
  <2>5. \A i \in 1..n : t[N + i] = l[i]
    BY <2>1, <2>2 DEF Chained
  <2> QED
    BY <2>3, <2>4, <2>5
<1>3. ASSUME NEW i \in 1..M PROVE t[i] = SignAt(b, i)
  <2>1. CASE i \in 1..N
    BY <1>2, <2>1 DEF Signs
  <2>2. CASE i > N
    <3>1. PICK q \in 1..n : i = N + q
      <4>1. i - N \in 1..n /\ i = N + (i - N)
        BY <2>2
      <4> QED
        BY <4>1
    <3> QED
      BY <1>2, <3>1 DEF Continues
  <2> QED
    BY <2>1, <2>2
<1> QED
  BY <1>1, <1>2, <1>3 DEF Signs

LEMMA Associative ==
    ASSUME NEW S, NEW s \in Seq(S), NEW t \in Seq(S), NEW u \in Seq(S)
    PROVE  s \o (t \o u) = (s \o t) \o u
OBVIOUS

(* fromByteArray: digits and then the padding.                              *)
LEMMA Base64Text ==
    ASSUME NEW b \in Seq(Octet)
    PROVE  \E m \in Nat : \E n \in Nat : \E t \in Seq(CodeUnit) :
              /\ Len(t) = m /\ (6 * m) \div 8 = Len(b) /\ Signs(t, b, m)
              /\ FromByteArray(b) = t \o Pads(n)
<1>1. PICK len \in Nat : len = Len(b)
  OBVIOUS
<1>2. PICK g \in Nat : g = len \div 3
  OBVIOUS
<1>3. PICK r \in 0..2 : r = len % 3
  OBVIOUS
<1>4. len = 3 * g + r /\ 3 * g <= len
  BY <1>2, <1>3
<1>5. PICK N \in Nat : N = 4 * g
  OBVIOUS
<1>6. PICK h : h = Joined([x \in 1..g |-> EncodeGroup(b, x)], 4)
  OBVIOUS
<1>7. h \in Seq(CodeUnit) /\ Len(h) = N /\ Signs(h, b, N)
  <2>1. h \in Seq(CodeUnit) /\ Len(h) = N /\ \A i \in 1..N : h[i] = SignAt(b, i)
    <3>1. 3 * g <= Len(b)
      BY <1>1, <1>4
    <3> QED
      BY <1>5, <1>6, <3>1, GroupsText
  <2> QED
    BY <2>1 DEF Signs
<1>8. FromByteArray(b) = h \o EncodeLast(b)
  BY <1>1, <1>2, <1>6 DEF FromByteArray
<1>9. PICK x \in CodeUnit : x = SignAt(b, N + 1)
  BY SignFits
<1>10. PICK y \in CodeUnit : y = SignAt(b, N + 2)
  BY SignFits
<1>11. PICK z \in CodeUnit : z = SignAt(b, N + 3)
  BY SignFits
<1>12. /\ r = 0 => EncodeLast(b) = <<>>
       /\ r = 1 => EncodeLast(b) = <<x, y, Pad, Pad>>
       /\ r = 2 => EncodeLast(b) = <<x, y, z, Pad>>
  <2>1. /\ r = 0 => EncodeLast(b) = <<>>
        /\ r = 1 => EncodeLast(b) = <<SignAt(b, 4 * g + 1), SignAt(b, 4 * g + 2), Pad, Pad>>
        /\ r = 2 => EncodeLast(b) = <<SignAt(b, 4 * g + 1), SignAt(b, 4 * g + 2), SignAt(b, 4 * g + 3), Pad>>
    BY <1>1, <1>4, LastText
  <2> QED
    BY <1>5, <1>9, <1>10, <1>11, <2>1
<1>13. ASSUME NEW l \in Seq(CodeUnit), NEW k \in Nat, k = Len(l), NEW n \in Nat,
              EncodeLast(b) = l \o Pads(n),
              (6 * (N + k)) \div 8 = len, Continues(l, b, N, k)
       PROVE  \E m \in Nat : \E q \in Nat : \E t \in Seq(CodeUnit) :
                 /\ Len(t) = m /\ (6 * m) \div 8 = len /\ Signs(t, b, m)
                 /\ FromByteArray(b) = t \o Pads(q)
  <2>1. PICK M \in Nat : M = N + k
    OBVIOUS
  <2>2. h \o l \in Seq(CodeUnit) /\ Len(h \o l) = M /\ Signs(h \o l, b, M)
    <3>1. k = Len(l) /\ Continues(l, b, N, k)
      BY <1>13
    <3> QED
      BY <1>7, <3>1, <2>1, SignsAppended
  <2>3. h \o (l \o Pads(n)) = (h \o l) \o Pads(n)
    <3>1. Pads(n) \in Seq(CodeUnit)
      BY PadsAre
    <3> QED
      BY <1>7, <3>1, Associative
  <2>4. FromByteArray(b) = (h \o l) \o Pads(n) /\ (6 * M) \div 8 = len
    BY <1>8, <1>13, <2>1, <2>3
  <2> QED
    BY <2>2, <2>4
<1>14. Pad \in CodeUnit
  BY PadUnit
<1>15. CASE r = 0
  <2>1. Pads(0) = <<>> /\ <<>> \o Pads(0) = <<>>
    BY FewPads
  <2>2. EncodeLast(b) = <<>> \o Pads(0)
    BY <1>12, <1>15, <2>1
  <2>3. <<>> \in Seq(CodeUnit) /\ Len(<<>>) = 0 /\ 0 \in Nat /\ (6 * (N + 0)) \div 8 = len
    BY <1>4, <1>5, <1>15
  <2>4. PICK l \in Seq(CodeUnit) : l = <<>> /\ Len(l) = 0
    BY <2>3
  <2>5. Continues(l, b, N, 0)
    BY DEF Continues
  <2>6. EncodeLast(b) = l \o Pads(0)
    BY <2>2, <2>4
  <2> QED
    BY <1>1, <1>13, <2>3, <2>4, <2>5, <2>6
<1>16. CASE r = 1
  <2>1. PICK l \in Seq(CodeUnit) : l = <<x, y>> /\ Len(l) = 2 /\ l[1] = x /\ l[2] = y
    <3>1. <<x, y>> \in Seq(CodeUnit)
      BY FewOf
    <3> QED
      BY <3>1
  <2>2. l \o Pads(2) = <<x, y, Pad, Pad>>
    <3>1. Pads(2) = <<Pad, Pad>>
      BY FewPads
    <3>2. <<x, y>> \o <<Pad, Pad>> = <<x, y, Pad, Pad>>
      BY <1>14, TwoAndTwo
    <3> QED
      BY <2>1, <3>1, <3>2
  <2>3. EncodeLast(b) = l \o Pads(2)
    BY <1>12, <1>16, <2>2
  <2>4. (6 * (N + 2)) \div 8 = len
    BY <1>4, <1>5, <1>16
  <2>5. Continues(l, b, N, 2)
    <3>1. 1..2 = {1, 2}
      OBVIOUS
    <3> QED
      BY <1>9, <1>10, <2>1, <3>1 DEF Continues
  <2> QED
    BY <1>1, <1>13, <2>1, <2>3, <2>4, <2>5
<1>17. CASE r = 2
  <2>1. PICK l \in Seq(CodeUnit) : l = <<x, y, z>> /\ Len(l) = 3 /\ l[1] = x /\ l[2] = y /\ l[3] = z
    <3>1. <<x, y, z>> \in Seq(CodeUnit)
      BY FewOf
    <3> QED
      BY <3>1
  <2>2. l \o Pads(1) = <<x, y, z, Pad>>
    <3>1. Pads(1) = <<Pad>>
      BY FewPads
    <3>2. <<x, y, z>> \o <<Pad>> = <<x, y, z, Pad>>
      BY <1>14, ThreeAndOne
    <3> QED
      BY <2>1, <3>1, <3>2
  <2>3. EncodeLast(b) = l \o Pads(1)
    BY <1>12, <1>17, <2>2
  <2>4. (6 * (N + 3)) \div 8 = len
    BY <1>4, <1>5, <1>17
  <2>5. Continues(l, b, N, 3)
    <3>1. 1..3 = {1, 2, 3}
      OBVIOUS
    <3> QED
      BY <1>9, <1>10, <1>11, <2>1, <3>1 DEF Continues
  <2> QED
    BY <1>1, <1>13, <2>1, <2>3, <2>4, <2>5
<1>18. r = 0 \/ r = 1 \/ r = 2
  OBVIOUS
<1> QED
  BY <1>1, <1>15, <1>16, <1>17, <1>18

LEMMA PackedSigns ==
    ASSUME NEW b \in Seq(Octet), NEW m \in Nat, NEW t, Signs(t, b, m), (6 * m) \div 8 = Len(b),
           NEW k \in 1..Len(b)
    PROVE  Packed(t, k) = b[k]
<1>1. PICK x \in Nat : x = (k - 1) \div 3
  OBVIOUS
<1>2. PICK len \in Nat : len = Len(b) /\ (6 * m) \div 8 = len /\ k <= len
  OBVIOUS
<1>3. PICK p \in Octet : p = ByteAt(b, 3 * x + 1)
  BY ByteAtOctet
<1>4. PICK q \in Octet : q = ByteAt(b, 3 * x + 2)
  BY ByteAtOctet
<1>5. PICK r \in Octet : r = ByteAt(b, 3 * x + 3)
  BY ByteAtOctet
<1>6. /\ SextetOf(b, 4 * x + 1) = Sextet1(p) /\ SextetOf(b, 4 * x + 2) = Sextet2(p, q)
      /\ SextetOf(b, 4 * x + 3) = Sextet3(q, r) /\ SextetOf(b, 4 * x + 4) = Sextet4(r)
  BY <1>3, <1>4, <1>5, SextetsOf
<1>7. ASSUME NEW i \in 1..m PROVE RevLookup(t[i]) = SextetOf(b, i)
  <2>1. t[i] = SignAt(b, i) /\ i \in Nat \ {0}
    BY DEF Signs
  <2> QED
    BY <2>1, SignFits
<1>8. /\ Sextet1(p) * 4 + Sextet2(p, q) \div 16 = p
      /\ (Sextet2(p, q) % 16) * 16 + Sextet3(q, r) \div 4 = q
      /\ (Sextet3(q, r) % 4) * 64 + Sextet4(r) = r
  BY SextetsAre
<1>9. ByteAt(b, k) = b[k]
  BY DEF ByteAt
<1>10. CASE k = 3 * x + 1
  <2>1. 4 * x + 1 \in 1..m /\ 4 * x + 2 \in 1..m
    BY <1>2, <1>10
  <2>2. RevLookup(t[4 * x + 1]) = Sextet1(p) /\ RevLookup(t[4 * x + 2]) = Sextet2(p, q)
    BY <1>6, <1>7, <2>1
  <2>3. Packed(t, 3 * x + 1) = RevLookup(t[4 * x + 1]) * 4 + RevLookup(t[4 * x + 2]) \div 16
    BY PackedThree
  <2>4. Packed(t, 3 * x + 1) = p
    BY <1>8, <2>2, <2>3, Zenon
  <2> QED
    BY <1>3, <1>9, <1>10, <2>4
<1>11. CASE k = 3 * x + 2
  <2>1. 4 * x + 2 \in 1..m /\ 4 * x + 3 \in 1..m
    BY <1>2, <1>11
  <2>2. RevLookup(t[4 * x + 2]) = Sextet2(p, q) /\ RevLookup(t[4 * x + 3]) = Sextet3(q, r)
    BY <1>6, <1>7, <2>1
  <2>3. Packed(t, 3 * x + 2) = (RevLookup(t[4 * x + 2]) % 16) * 16 + RevLookup(t[4 * x + 3]) \div 4
    BY PackedThree
  <2>4. Packed(t, 3 * x + 2) = q
    BY <1>8, <2>2, <2>3, Zenon
  <2> QED
    BY <1>4, <1>9, <1>11, <2>4
<1>12. CASE k = 3 * x + 3
  <2>1. 4 * x + 3 \in 1..m /\ 4 * x + 4 \in 1..m
    BY <1>2, <1>12
  <2>2. RevLookup(t[4 * x + 3]) = Sextet3(q, r) /\ RevLookup(t[4 * x + 4]) = Sextet4(r)
    BY <1>6, <1>7, <2>1
  <2>3. Packed(t, 3 * x + 3) = (RevLookup(t[4 * x + 3]) % 4) * 64 + RevLookup(t[4 * x + 4])
    BY PackedThree
  <2>4. Packed(t, 3 * x + 3) = r
    BY <1>8, <2>2, <2>3, Zenon
  <2> QED
    BY <1>5, <1>9, <1>12, <2>4
<1>13. k = 3 * x + 1 \/ k = 3 * x + 2 \/ k = 3 * x + 3
  BY <1>1
<1> QED
  BY <1>10, <1>11, <1>12, <1>13

(* base64 text is code units, and decoding it gives the bytes back.         *)
LEMMA Base64Survives ==
    ASSUME NEW b \in Seq(Octet)
    PROVE  FromByteArray(b) \in Seq(CodeUnit) /\ FromString(FromByteArray(b), "base64") = b
<1>1. PICK m \in Nat : \E n \in Nat : \E t \in Seq(CodeUnit) :
              /\ Len(t) = m /\ (6 * m) \div 8 = Len(b) /\ Signs(t, b, m)
              /\ FromByteArray(b) = t \o Pads(n)
  BY Base64Text
<1>2. PICK n \in Nat : \E t \in Seq(CodeUnit) :
              /\ Len(t) = m /\ (6 * m) \div 8 = Len(b) /\ Signs(t, b, m)
              /\ FromByteArray(b) = t \o Pads(n)
  BY <1>1
<1>3. PICK t \in Seq(CodeUnit) :
              /\ Len(t) = m /\ (6 * m) \div 8 = Len(b) /\ Signs(t, b, m)
              /\ FromByteArray(b) = t \o Pads(n)
  BY <1>2
<1>4. ASSUME NEW i \in 1..Len(t) PROVE t[i] \in Alphabet /\ t[i] # Pad
  <2>1. t[i] = SignAt(b, i) /\ i \in Nat \ {0}
    BY <1>3 DEF Signs
  <2>2. t[i] \in Alphabet
    BY <2>1, SignFits
  <2> QED
    BY <2>2, RevLookupRange
<1>5. PICK s : s = FromByteArray(b)
  OBVIOUS
<1>6. s \in Seq(CodeUnit) /\ Before(s, Pad) = t
  <2>1. /\ t \o [i \in 1..n |-> Pad] \in Seq(CodeUnit)
        /\ Before(t \o [i \in 1..n |-> Pad], Pad) = t
    BY <1>4, PadUnit, BeforePads
  <2>2. s = t \o [i \in 1..n |-> Pad]
    BY <1>3, <1>5 DEF Pads
  <2> QED
    BY <2>1, <2>2
<1>7. Base64Digits(s) = t
  <2>1. Filter(t, Alphabet) = t
    BY <1>4, FilterAll
  <2> QED
    BY <1>6, <2>1 DEF Base64Digits
<1>8. FromString(s, "base64") = Base64ToBytes(s) /\ Base64ToBytes(s) \in Seq(Octet)
  BY <1>6, FromBase64
<1>9. Base64ToBytes(s) = [k \in 1..((6 * Len(t)) \div 8) |-> Packed(t, k)]
  BY <1>6, <1>7, Base64ToBytesIs
<1>10. Base64ToBytes(s) = [k \in 1..Len(b) |-> Packed(t, k)]
  BY <1>3, <1>9
<1>11. \A k \in 1..Len(b) : Packed(t, k) = b[k]
  BY <1>3, PackedSigns
<1>12. Base64ToBytes(s) = [k \in 1..Len(b) |-> b[k]]
  BY <1>10, <1>11
<1>13. b = [k \in 1..Len(b) |-> b[k]]
  OBVIOUS
<1> QED
  BY <1>5, <1>6, <1>8, <1>12, <1>13

LEMMA FromEmpty ==
    ASSUME NEW encoding, Encode(<<>>, encoding, 0) \in Seq(Octet)
    PROVE  FromString(<<>>, encoding) = <<>>
<1>1. ByteLength(<<>>, encoding) = 0
  BY DEF ByteLength
<1>2. PICK src \in Seq(Octet) : src = Encode(<<>>, encoding, 0)
  OBVIOUS
<1>3. PICK fresh : fresh = [i \in 1..0 |-> 0]
  OBVIOUS
<1>4. fresh \in Seq(Octet) /\ Len(fresh) = 0 /\ Len(fresh) - 0 = 0
  <2>1. fresh \in [1..0 -> Octet]
    BY <1>3
  <2> QED
    BY <2>1, Listed
<1>5. WrittenCount(fresh, <<>>, 0, 0, encoding) = 0
  <2>1. Least(0, 0) = 0 /\ Least(0, Len(src)) = 0
    BY DEF Least
  <2> QED
    BY <1>2, <1>4, <2>1 DEF WrittenCount
<1>6. PICK w : w = WriteString(fresh, <<>>, 0, 0, encoding)
  OBVIOUS
<1>7. w = [i \in 1..0 |-> IF i - 0 \in 1..0 THEN src[i - 0] ELSE fresh[i]]
  BY <1>2, <1>4, <1>5, <1>6 DEF WriteString
<1>8. w \in Seq(Octet) /\ Len(w) = 0
  <2>1. w \in [1..0 -> Octet]
    BY <1>7
  <2> QED
    BY <2>1, Listed
<1>9. SubSeq(w, 1, 0) = <<>>
  BY <1>8
<1> QED
  BY <1>1, <1>3, <1>5, <1>6, <1>9 DEF FromString

LEMMA WholeSubSeq ==
    ASSUME NEW S, NEW s \in Seq(S)
    PROVE  SubSeq(s, 1, Len(s)) = s
OBVIOUS

LEMMA ToStringAll ==
    ASSUME NEW S, NEW b \in Seq(S), NEW encoding
    PROVE  ToStringOf(b, encoding, 0, Len(b)) = IF Len(b) = 0 THEN <<>> ELSE Decode(b, encoding)
<1>1. PICK n \in Nat : n = Len(b)
  OBVIOUS
<1>2. SubSeq(b, 0 + 1, n) = b
  <2>1. SubSeq(b, 1, n) = b /\ 0 + 1 = 1
    BY <1>1, WholeSubSeq
  <2> QED
    BY <2>1
<1>3. Least(n, n) = n /\ ~(0 < 0)
  BY DEF Least
<1>4. ToStringOf(b, encoding, 0, n) = IF 0 > n \/ n <= 0 THEN <<>> ELSE Decode(b, encoding)
  BY <1>1, <1>2, <1>3 DEF ToStringOf
<1> QED
  BY <1>1, <1>4

LEMMA EmptyIs ==
    ASSUME NEW S, NEW s \in Seq(S), Len(s) = 0
    PROVE  s = <<>>
OBVIOUS

LEMMA EmptyUnits ==
    /\ <<>> \in Seq(CodeUnit) /\ <<>> \in Seq(Octet) /\ Len(<<>>) = 0
OBVIOUS

(* BytesSurviveText, for all bytes.                                         *)
LEMMA BytesSurvive ==
    ASSUME NEW b \in Seq(Octet), NEW encoding \in {"hex", "base64", "latin1", "ucs2"}
    PROVE  FromString(ToStringOf(b, encoding, 0, Len(b)), encoding)
             = IF encoding = "ucs2" THEN SubSeq(b, 1, 2 * (Len(b) \div 2)) ELSE b
<1>1. CASE Len(b) = 0
  <2>1. b = <<>> /\ SubSeq(b, 1, 2 * (Len(b) \div 2)) = <<>>
    BY <1>1
  <2>2. ToStringOf(b, encoding, 0, Len(b)) = <<>>
    BY <1>1, ToStringAll
  <2>3. Encode(<<>>, encoding, 0) \in Seq(Octet)
    <3>1. /\ AsciiToBytes(<<>>) \in Seq(Octet) /\ HexToBytes(<<>>) \in Seq(Octet)
          /\ Base64ToBytes(<<>>) \in Seq(Octet)
      BY EmptyUnits, AsciiBytes, HexBytes, FromBase64
    <3>2. Utf16leToBytes(<<>>, 0) \in Seq(Octet)
      BY EmptyUnits, Utf16Bytes
    <3> QED
      BY <3>1, <3>2 DEF Encode
  <2>4. FromString(<<>>, encoding) = <<>>
    BY <2>3, FromEmpty
  <2> QED
    BY <2>1, <2>2, <2>4
<1>2. CASE Len(b) # 0
  <2>1. ToStringOf(b, encoding, 0, Len(b)) = Decode(b, encoding)
    BY <1>2, ToStringAll
  <2>2. CASE encoding = "hex"
    <3>1. Decode(b, "hex") = HexSlice(b)
      BY DEF Decode
    <3> QED
      BY <2>1, <2>2, <3>1, HexSurvives
  <2>3. CASE encoding = "base64"
    <3>1. Decode(b, "base64") = FromByteArray(b)
      BY DEF Decode
    <3> QED
      BY <2>1, <2>3, <3>1, Base64Survives
  <2>4. CASE encoding = "latin1"
    <3>1. Decode(b, "latin1") = Latin1Slice(b)
      BY DEF Decode
    <3> QED
      BY <2>1, <2>4, <3>1, Latin1Survives
  <2>5. CASE encoding = "ucs2"
    <3>1. Decode(b, "ucs2") = Utf16leSlice(b)
      BY DEF Decode
    <3> QED
      BY <2>1, <2>5, <3>1, Ucs2Survives
  <2> QED
    BY <2>2, <2>3, <2>4, <2>5
<1> QED
  BY <1>1, <1>2

-----------------------------------------------------------------------------
(* UTF-8: the bytes of code points.                                         *)

CodePoints == {c \in Nat : c < 1114112}
Heads(lo, hi) == {x \in Nat : x >= lo /\ x < hi}
SixBits == {x \in Nat : x < 64}
OneByte == {c \in Nat : c < 128}
TwoByte == {c \in Nat : c >= 128 /\ c < 2048}
ThreeByte == {c \in Nat : c >= 2048 /\ c < 65536}
FourByte == {c \in Nat : c >= 65536 /\ c < 1114112}
PairPoint(l, t) == (l - 55296) * 1024 + (t - 56320) + 65536

LEMMA UnitFacts ==
    /\ \A c \in CodeUnit : c \in CodePoints /\ c \in Int
    /\ \A c \in CodeUnit : ~(Lead(c) /\ Trail(c))
    /\ ~Lead(0) /\ ~Trail(0)
    /\ 65533 \in CodeUnit /\ ~Lead(65533) /\ ~Trail(65533)
    /\ 0 \in CodeUnit
<1>1. \A c \in CodeUnit : c \in CodePoints /\ c \in Int
  BY SMT DEF CodeUnit, CodePoints
<1>2. \A c \in CodeUnit : ~(Lead(c) /\ Trail(c))
  BY SMT DEF CodeUnit, Lead, Trail
<1>3. /\ ~Lead(0) /\ ~Trail(0)
      /\ 65533 \in CodeUnit /\ ~Lead(65533) /\ ~Trail(65533)
      /\ 0 \in CodeUnit
  BY SMT DEF CodeUnit, Lead, Trail
<1> QED
  BY <1>1, <1>2, <1>3

LEMMA PairFacts ==
    ASSUME NEW l \in CodeUnit, NEW t \in CodeUnit, Lead(l), Trail(t)
    PROVE  PairPoint(l, t) \in FourByte /\ PairPoint(l, t) \in CodePoints
BY SMT DEF PairPoint, Lead, Trail, CodePoints, CodeUnit, FourByte

LEMMA EncodeOne ==
    ASSUME NEW cp \in OneByte
    PROVE  EncodeUtf8(cp) = <<cp>> /\ cp \in Octet
BY SMT DEF EncodeUtf8, Octet, OneByte

LEMMA EncodeTwo ==
    ASSUME NEW cp \in TwoByte
    PROVE  \E x \in Heads(2, 32) : \E y \in SixBits :
              cp = x * 64 + y /\ EncodeUtf8(cp) = <<x + 192, y + 128>>
<1>1. cp \div 64 \in Heads(2, 32)
  BY SMT DEF TwoByte, Heads
<1>2. cp % 64 \in SixBits
  BY SMT DEF TwoByte, SixBits
<1>3. PICK x : x = cp \div 64
  OBVIOUS
<1>4. PICK y : y = cp % 64
  OBVIOUS
<1>5. cp = x * 64 + y
  BY <1>3, <1>4, SMT DEF TwoByte
<1>6. EncodeUtf8(cp) = <<x + 192, y + 128>>
  BY <1>3, <1>4, SMT DEF EncodeUtf8, TwoByte
<1>7. x \in Heads(2, 32) /\ y \in SixBits
  BY <1>1, <1>2, <1>3, <1>4
<1> QED
  BY <1>5, <1>6, <1>7

LEMMA EncodeThree ==
    ASSUME NEW cp \in ThreeByte
    PROVE  \E x \in Heads(0, 16) : \E y \in SixBits : \E z \in SixBits :
              cp = x * 4096 + y * 64 + z /\ EncodeUtf8(cp) = <<x + 224, y + 128, z + 128>>
<1>1. cp \div 4096 \in Heads(0, 16)
  BY SMT DEF ThreeByte, Heads
<1>2. (cp \div 64) % 64 \in SixBits
  BY SMT DEF ThreeByte, SixBits
<1>3. cp % 64 \in SixBits
  BY SMT DEF ThreeByte, SixBits
<1>4. PICK x : x = cp \div 4096
  OBVIOUS
<1>5. PICK y : y = (cp \div 64) % 64
  OBVIOUS
<1>6. PICK z : z = cp % 64
  OBVIOUS
<1>7. cp = x * 4096 + y * 64 + z
  BY <1>4, <1>5, <1>6, SMT DEF ThreeByte
<1>8. EncodeUtf8(cp) = <<x + 224, y + 128, z + 128>>
  BY <1>4, <1>5, <1>6, SMT DEF EncodeUtf8, ThreeByte
<1>9. x \in Heads(0, 16) /\ y \in SixBits /\ z \in SixBits
  BY <1>1, <1>2, <1>3, <1>4, <1>5, <1>6
<1> QED
  BY <1>7, <1>8, <1>9

LEMMA EncodeFour ==
    ASSUME NEW cp \in FourByte
    PROVE  \E x \in Heads(0, 5) : \E y \in SixBits : \E z \in SixBits : \E w \in SixBits :
              cp = x * 262144 + y * 4096 + z * 64 + w /\ EncodeUtf8(cp) = <<x + 240, y + 128, z + 128, w + 128>>
<1>1. cp \div 262144 \in Heads(0, 5)
  BY SMT DEF FourByte, Heads
<1>2. (cp \div 4096) % 64 \in SixBits
  BY SMT DEF FourByte, SixBits
<1>3. (cp \div 64) % 64 \in SixBits
  BY SMT DEF FourByte, SixBits
<1>4. cp % 64 \in SixBits
  BY SMT DEF FourByte, SixBits
<1>5. PICK x : x = cp \div 262144
  OBVIOUS
<1>6. PICK y : y = (cp \div 4096) % 64
  OBVIOUS
<1>7. PICK z : z = (cp \div 64) % 64
  OBVIOUS
<1>8. PICK w : w = cp % 64
  OBVIOUS
<1>9. cp = x * 262144 + y * 4096 + z * 64 + w
  BY <1>5, <1>6, <1>7, <1>8, SMT DEF FourByte
<1>10. EncodeUtf8(cp) = <<x + 240, y + 128, z + 128, w + 128>>
  BY <1>5, <1>6, <1>7, <1>8, SMT DEF EncodeUtf8, FourByte
<1>11. x \in Heads(0, 5) /\ y \in SixBits /\ z \in SixBits /\ w \in SixBits
  BY <1>1, <1>2, <1>3, <1>4, <1>5, <1>6, <1>7, <1>8
<1> QED
  BY <1>9, <1>10, <1>11

LEMMA EncodeTypes ==
    ASSUME NEW cp \in CodePoints
    PROVE  /\ EncodeUtf8(cp) \in Seq(Octet) /\ Len(EncodeUtf8(cp)) \in 1..4
           /\ cp \in CodeUnit => Len(EncodeUtf8(cp)) <= 3
<1>1. CASE cp \in OneByte
  <2>1. EncodeUtf8(cp) = <<cp>> /\ cp \in Octet
    BY <1>1, EncodeOne
  <2> QED
    BY <2>1
<1>2. CASE cp \in TwoByte
  <2>1. PICK x \in Heads(2, 32) : \E y \in SixBits : EncodeUtf8(cp) = <<x + 192, y + 128>>
    BY <1>2, EncodeTwo
  <2>2. PICK y \in SixBits : EncodeUtf8(cp) = <<x + 192, y + 128>>
    BY <2>1
  <2>3. x + 192 \in Octet /\ y + 128 \in Octet
    BY SMT DEF Octet, SixBits, Heads
  <2> QED
    BY <2>2, <2>3
<1>3. CASE cp \in ThreeByte
  <2>1. PICK x \in Heads(0, 16) : \E y \in SixBits : \E z \in SixBits :
              EncodeUtf8(cp) = <<x + 224, y + 128, z + 128>>
    BY <1>3, EncodeThree
  <2>2. PICK y \in SixBits : \E z \in SixBits : EncodeUtf8(cp) = <<x + 224, y + 128, z + 128>>
    BY <2>1
  <2>3. PICK z \in SixBits : EncodeUtf8(cp) = <<x + 224, y + 128, z + 128>>
    BY <2>2
  <2>4. x + 224 \in Octet /\ y + 128 \in Octet /\ z + 128 \in Octet
    BY SMT DEF Octet, SixBits, Heads
  <2> QED
    BY <2>3, <2>4
<1>4. CASE cp \in FourByte
  <2>1. PICK x \in Heads(0, 5) : \E y \in SixBits : \E z \in SixBits : \E w \in SixBits :
              EncodeUtf8(cp) = <<x + 240, y + 128, z + 128, w + 128>>
    BY <1>4, EncodeFour
  <2>2. PICK y \in SixBits : \E z \in SixBits : \E w \in SixBits :
              EncodeUtf8(cp) = <<x + 240, y + 128, z + 128, w + 128>>
    BY <2>1
  <2>3. PICK z \in SixBits : \E w \in SixBits : EncodeUtf8(cp) = <<x + 240, y + 128, z + 128, w + 128>>
    BY <2>2
  <2>4. PICK w \in SixBits : EncodeUtf8(cp) = <<x + 240, y + 128, z + 128, w + 128>>
    BY <2>3
  <2>5. x + 240 \in Octet /\ y + 128 \in Octet /\ z + 128 \in Octet /\ w + 128 \in Octet
    BY SMT DEF Octet, SixBits, Heads
  <2>6. cp \notin CodeUnit
    BY <1>4, SMT DEF CodeUnit, FourByte
  <2> QED
    BY <2>4, <2>5, <2>6
<1>5. cp \in OneByte \/ cp \in TwoByte \/ cp \in ThreeByte \/ cp \in FourByte
  BY SMT DEF CodePoints, OneByte, TwoByte, ThreeByte, FourByte
<1> QED
  BY <1>1, <1>2, <1>3, <1>4, <1>5, Zenon

LEMMA ReplacementIs ==
    /\ EncodeUtf8(65533) = Replacement /\ Replacement \in Seq(Octet) /\ Len(Replacement) = 3
<1>1. EncodeUtf8(65533) = Replacement
  <2>1. 65533 \div 4096 = 15 /\ (65533 \div 64) % 64 = 63 /\ 65533 % 64 = 61
    BY SMT
  <2> QED
    BY <2>1, SMT DEF EncodeUtf8, Replacement
<1>2. 239 \in Octet /\ 191 \in Octet /\ 189 \in Octet
  BY SMT DEF Octet
<1> QED
  BY <1>1, <1>2, SMT DEF Replacement

(* No surrogate is without its partner.                                     *)
Paired(c) ==
    \A i \in 1..Len(c) : /\ Lead(c[i]) => i + 1 \in 1..Len(c) /\ Trail(c[i + 1])
                         /\ Trail(c[i]) => i - 1 \in 1..Len(c) /\ Lead(c[i - 1])

Fffd == 65533

LEMMA FffdFacts ==
    /\ Fffd \in CodeUnit /\ ~Lead(Fffd) /\ ~Trail(Fffd) /\ EncodeUtf8(Fffd) = Replacement
BY UnitFacts, ReplacementIs, SMT DEF Fffd

LEMMA WellFormedIs ==
    ASSUME NEW s \in Seq(CodeUnit), NEW c, c = WellFormed(s)
    PROVE  /\ c \in Seq(CodeUnit) /\ Len(c) = Len(s)
           /\ \A i \in 1..Len(s) : c[i] = IF Lone(s, i) THEN Fffd ELSE s[i]
<1>1. PICK n \in Nat : n = Len(s)
  OBVIOUS
<1>2. c = [i \in 1..n |-> IF Lone(s, i) THEN Fffd ELSE s[i]]
  BY <1>1, SMT DEF WellFormed, Fffd
<1>3. \A i \in 1..n : s[i] \in CodeUnit
  BY <1>1
<1>4. c \in [1..n -> CodeUnit]
  BY <1>2, <1>3, FffdFacts
<1>5. c \in Seq(CodeUnit) /\ Len(c) = n
  BY <1>4, Listed
<1> QED
  BY <1>1, <1>2, <1>5

LEMMA WellFormedPaired ==
    ASSUME NEW s \in Seq(CodeUnit), NEW c, c = WellFormed(s)
    PROVE  Paired(c)
<1>1. PICK n \in Nat : n = Len(s)
  OBVIOUS
<1>2. Len(c) = n /\ \A i \in 1..n : c[i] = IF Lone(s, i) THEN Fffd ELSE s[i]
  BY <1>1, WellFormedIs
<1>3. \A i \in 1..n : s[i] \in CodeUnit
  BY <1>1
<1>4. ASSUME NEW i \in 1..n, Lead(c[i]) PROVE i + 1 \in 1..n /\ Trail(c[i + 1])
  <2>1. ~Lone(s, i) /\ c[i] = s[i]
    BY <1>2, <1>4, FffdFacts
  <2>2. Lead(s[i]) /\ i # n /\ Trail(s[i + 1])
    BY <1>1, <1>4, <2>1 DEF Lone
  <2>3. i + 1 \in 1..n /\ (i + 1) - 1 = i /\ i + 1 # 1
    BY <2>2
  <2>4. s[(i + 1) - 1] = s[i]
    BY <2>3
  <2>5. ~Lead(s[i + 1])
    BY <1>3, <2>2, <2>3, UnitFacts
  <2>6. ~Lone(s, i + 1)
    BY <2>2, <2>3, <2>4, <2>5 DEF Lone
  <2> QED
    BY <1>2, <2>2, <2>3, <2>6
<1>5. ASSUME NEW i \in 1..n, Trail(c[i]) PROVE i - 1 \in 1..n /\ Lead(c[i - 1])
  <2>1. ~Lone(s, i) /\ c[i] = s[i]
    BY <1>2, <1>5, FffdFacts
  <2>2. Trail(s[i]) /\ i # 1 /\ Lead(s[i - 1])
    BY <1>5, <2>1 DEF Lone
  <2>3. i - 1 \in 1..n /\ (i - 1) + 1 = i /\ i - 1 # n
    BY <2>2
  <2>4. s[(i - 1) + 1] = s[i]
    BY <2>3
  <2>5. ~Trail(s[i - 1])
    BY <1>3, <2>2, <2>3, UnitFacts
  <2>6. ~Lone(s, i - 1)
    BY <1>1, <2>2, <2>3, <2>4, <2>5 DEF Lone
  <2> QED
    BY <1>2, <2>2, <2>3, <2>6
<1> QED
  BY <1>2, <1>4, <1>5 DEF Paired

(* The bytes that the i-th code unit adds.                                  *)
Chunk(c, i) ==
    IF Lead(c[i]) THEN <<>>
    ELSE EncodeUtf8(IF Trail(c[i]) THEN PairPoint(c[i - 1], c[i]) ELSE c[i])

LEMMA ChunkIs ==
    ASSUME NEW c \in Seq(CodeUnit), Paired(c), NEW i \in 1..Len(c)
    PROVE  /\ Chunk(c, i) \in Seq(Octet) /\ Len(Chunk(c, i)) <= 4
           /\ ~Trail(c[i]) => Len(Chunk(c, i)) <= 3
           /\ Lead(c[i]) => Chunk(c, i) = <<>>
<1>1. c[i] \in CodeUnit
  OBVIOUS
<1>2. CASE Lead(c[i])
  BY <1>1, <1>2, UnitFacts DEF Chunk
<1>3. CASE ~Lead(c[i]) /\ Trail(c[i])
  <2>1. i - 1 \in 1..Len(c) /\ Lead(c[i - 1])
    BY <1>3 DEF Paired
  <2>2. PairPoint(c[i - 1], c[i]) \in CodePoints
    <3>1. PICK l \in CodeUnit : l = c[i - 1]
      BY <2>1
    <3>2. PICK t \in CodeUnit : t = c[i]
      BY <1>1
    <3>3. Lead(l) /\ Trail(t)
      BY <1>3, <2>1, <3>1, <3>2
    <3>4. PairPoint(l, t) \in CodePoints
      BY <3>3, PairFacts
    <3> QED
      BY <3>1, <3>2, <3>4
  <2>3. Chunk(c, i) = EncodeUtf8(PairPoint(c[i - 1], c[i]))
    BY <1>3 DEF Chunk
  <2>4. PICK p \in CodePoints : p = PairPoint(c[i - 1], c[i])
    BY <2>2
  <2>5. EncodeUtf8(p) \in Seq(Octet) /\ Len(EncodeUtf8(p)) <= 4
    <3>1. EncodeUtf8(p) \in Seq(Octet) /\ Len(EncodeUtf8(p)) \in 1..4
      BY EncodeTypes, Zenon
    <3>2. PICK e : e = EncodeUtf8(p)
      OBVIOUS
    <3>3. e \in Seq(Octet) /\ Len(e) \in 1..4
      BY <3>1, <3>2, Zenon
    <3>4. Len(e) <= 4
      <4>1. PICK l \in 1..4 : l = Len(e)
        BY <3>3, Zenon
      <4>2. l <= 4
        OBVIOUS
      <4> QED
        BY <4>1, <4>2, Zenon
    <3> QED
      BY <3>2, <3>3, <3>4
  <2> QED
    BY <1>3, <2>3, <2>4, <2>5
<1>4. CASE ~Lead(c[i]) /\ ~Trail(c[i])
  <2>1. Chunk(c, i) = EncodeUtf8(c[i])
    BY <1>4 DEF Chunk
  <2>2. c[i] \in CodePoints
    BY <1>1, UnitFacts
  <2>3. EncodeUtf8(c[i]) \in Seq(Octet) /\ Len(EncodeUtf8(c[i])) <= 3
    BY <1>1, <2>2, EncodeTypes
  <2> QED
    BY <1>4, <2>1, <2>3
<1> QED
  BY <1>2, <1>3, <1>4

(* The bytes of the first i code units.                                     *)
Totals(T, c, n) == T[0] = <<>> /\ \A i \in 1..n : T[i] = T[i - 1] \o Chunk(c, i)

LEMMA TotalsExist ==
    ASSUME NEW c, NEW n \in Nat
    PROVE  \E T : Totals(T, c, n)
<1>1. PICK S : S = {m \in 0..n : \E T : Totals(T, c, m)}
  OBVIOUS
<1>2. 0 \in S
  <2>1. PICK T : T = [i \in 0..0 |-> <<>>]
    OBVIOUS
  <2>2. T[0] = <<>>
    BY <2>1
  <2>3. Totals(T, c, 0)
    BY <2>2 DEF Totals
  <2> QED
    BY <1>1, <2>3
<1>3. ASSUME NEW m \in 0..(n - 1), m \in S PROVE m + 1 \in S
  <2>1. PICK T : Totals(T, c, m)
    BY <1>1, <1>3
  <2>2. PICK U : U = [i \in 0..(m + 1) |-> IF i = m + 1 THEN T[m] \o Chunk(c, m + 1) ELSE T[i]]
    OBVIOUS
  <2>3. \A i \in 0..m : U[i] = T[i]
    BY <2>2
  <2>4. U[m + 1] = T[m] \o Chunk(c, m + 1)
    BY <2>2
  <2>5. ASSUME NEW i \in 1..(m + 1) PROVE U[i] = U[i - 1] \o Chunk(c, i)
    <3>1. U[i - 1] = T[i - 1]
      BY <2>3
    <3>2. CASE i = m + 1
      <4>1. i - 1 = m
        BY <3>2
      <4> QED
        BY <2>4, <3>1, <3>2, <4>1
    <3>3. CASE i # m + 1
      <4>1. i \in 1..m
        BY <3>3
      <4>2. T[i] = T[i - 1] \o Chunk(c, i) /\ U[i] = T[i]
        BY <2>1, <2>3, <4>1 DEF Totals
      <4> QED
        BY <3>1, <4>2
    <3> QED
      BY <3>2, <3>3
  <2>6. U[0] = <<>>
    BY <2>1, <2>3 DEF Totals
  <2>7. Totals(U, c, m + 1)
    BY <2>5, <2>6 DEF Totals
  <2> QED
    BY <1>1, <2>7
<1>4. n \in S
  BY <1>2, <1>3, UpTo
<1> QED
  BY <1>1, <1>4

LEMMA TotalsAre ==
    ASSUME NEW c \in Seq(CodeUnit), Paired(c), NEW n \in Nat, n = Len(c), NEW T, Totals(T, c, n)
    PROVE  \A i \in 0..n : /\ T[i] \in Seq(Octet) /\ Len(T[i]) <= 3 * i
                           /\ i > 0 /\ Lead(c[i]) => Len(T[i]) <= 3 * (i - 1)
<1> DEFINE P(i) == /\ T[i] \in Seq(Octet) /\ Len(T[i]) <= 3 * i
                   /\ i > 0 /\ Lead(c[i]) => Len(T[i]) <= 3 * (i - 1)
<1>1. PICK S : S = {i \in 0..n : P(i)}
  OBVIOUS
<1>2. 0 \in S
  <2>1. T[0] = <<>> /\ Len(T[0]) = 0
    BY DEF Totals
  <2>2. P(0)
    BY <2>1
  <2> QED
    BY <1>1, <2>2
<1>3. ASSUME NEW m \in 0..(n - 1), m \in S PROVE m + 1 \in S
  <2>1. PICK i \in 1..n : i = m + 1
    OBVIOUS
  <2>2. T[i] = T[m] \o Chunk(c, i)
    <3>1. i - 1 = m
      BY <2>1
    <3> QED
      BY <3>1 DEF Totals
  <2>3. P(m)
    BY <1>1, <1>3
  <2>4. /\ Chunk(c, i) \in Seq(Octet) /\ Len(Chunk(c, i)) <= 4
        /\ ~Trail(c[i]) => Len(Chunk(c, i)) <= 3
        /\ Lead(c[i]) => Chunk(c, i) = <<>>
    BY ChunkIs
  <2>5. PICK k \in Seq(Octet) : k = Chunk(c, i)
    BY <2>4
  <2>6. PICK t \in Seq(Octet) : t = T[m]
    BY <2>3
  <2>7. T[i] \in Seq(Octet) /\ Len(T[i]) = Len(t) + Len(k)
    BY <2>2, <2>5, <2>6
  <2>8. Len(t) <= 3 * m /\ (m > 0 /\ Lead(c[m]) => Len(t) <= 3 * (m - 1)) /\ m = i - 1
    BY <2>1, <2>3, <2>6
  <2>9. Lead(c[i]) => Len(k) = 0
    BY <2>4, <2>5
  <2>10. Len(k) <= 4 /\ (~Trail(c[i]) => Len(k) <= 3)
    BY <2>4, <2>5
  <2>11. Trail(c[i]) => m > 0 /\ Lead(c[m])
    BY <2>1 DEF Paired
  <2>12. Len(T[i]) <= 3 * i
    BY <2>7, <2>8, <2>10, <2>11
  <2>13. Lead(c[i]) => Len(T[i]) <= 3 * (i - 1)
    BY <2>7, <2>8, <2>9
  <2>14. P(i)
    BY <2>7, <2>12, <2>13
  <2> QED
    BY <1>1, <2>1, <2>14
<1>4. \A i \in 0..n : i \in S
  BY <1>2, <1>3, UpTo
<1> QED
  BY <1>1, <1>4

(* The bytes of more code units begin with those of fewer.                  *)
Begins(t, u) == Len(t) <= Len(u) /\ \A p \in 1..Len(t) : u[p] = t[p]

LEMMA TotalsGrow ==
    ASSUME NEW c \in Seq(CodeUnit), Paired(c), NEW n \in Nat, n = Len(c), NEW T, Totals(T, c, n),
           NEW i \in 0..n, NEW j \in 0..n, i <= j
    PROVE  Begins(T[i], T[j])
<1>1. \A m \in 0..n : T[m] \in Seq(Octet)
  BY TotalsAre
<1>2. PICK S : S = {m \in 0..n : i <= m => Begins(T[i], T[m])}
  OBVIOUS
<1>3. Begins(T[i], T[i])
  BY <1>1 DEF Begins
<1>4. 0 \in S
  <2>1. i <= 0 => i = 0
    OBVIOUS
  <2> QED
    BY <1>2, <1>3, <2>1
<1>5. ASSUME NEW m \in 0..(n - 1), m \in S PROVE m + 1 \in S
  <2>1. PICK k \in 1..n : k = m + 1 /\ k - 1 = m
    OBVIOUS
  <2>2. CASE i <= m
    <3>1. PICK t \in Seq(Octet) : t = T[i]
      BY <1>1
    <3>2. PICK u \in Seq(Octet) : u = T[m]
      BY <1>1
    <3>3. PICK h \in Seq(Octet) : h = Chunk(c, k)
      BY ChunkIs
    <3>4. T[k] = u \o h
      BY <2>1, <3>2, <3>3 DEF Totals
    <3>5. Begins(t, u) /\ Len(t) \in Nat
      BY <1>1, <1>2, <1>5, <2>2, <3>1, <3>2
    <3>6. Chained(u \o h, u, h)
      BY Chain
    <3>7. Begins(t, u \o h)
      <4>1. PICK w : w = u \o h
        OBVIOUS
      <4>2. Len(u) \in Nat /\ Len(h) \in Nat /\ Len(t) <= Len(u)
        BY <3>5 DEF Begins
      <4>3. Len(w) = Len(u) + Len(h) /\ \A p \in 1..Len(u) : w[p] = u[p]
        BY <3>6, <4>1 DEF Chained
      <4>4. \A p \in 1..Len(t) : p \in 1..Len(u) /\ u[p] = t[p]
        <5>1. \A p \in 1..Len(t) : u[p] = t[p]
          BY <3>5 DEF Begins
        <5>2. \A p \in 1..Len(t) : p \in 1..Len(u)
          BY <4>2
        <5> QED
          BY <5>1, <5>2
      <4>5. Len(t) <= Len(w)
        BY <3>5, <4>2, <4>3
      <4>6. \A p \in 1..Len(t) : w[p] = t[p]
        BY <4>3, <4>4
      <4> QED
        BY <4>1, <4>5, <4>6 DEF Begins
    <3>8. Begins(T[i], T[k])
      BY <3>1, <3>4, <3>7
    <3>9. k \in S
      BY <1>2, <3>8
    <3> QED
      BY <2>1, <3>9
  <2>3. CASE ~(i <= m)
    <3>1. i <= k => i = k
      BY <2>1, <2>3
    <3> QED
      BY <1>2, <1>3, <2>1, <3>1
  <2> QED
    BY <2>2, <2>3
<1>6. \A m \in 0..n : m \in S
  BY <1>4, <1>5, UpTo
<1> QED
  BY <1>2, <1>6

-----------------------------------------------------------------------------
(* utf8ToBytes: the loop's state.                                           *)

Leads == {x \in CodeUnit : x = 0 \/ Lead(x)}
Turns == [bytes : Seq(Octet), lead : Leads, stop : BOOLEAN, units : Int]

(* The bytes are t and there is room for the rest of total, or none is left.*)
Fits(st, t, total) == st \in Turns /\ ~st.stop /\ st.bytes = t
                      /\ st.units = total - Len(t) /\ st.units >= 0
Full(st, t) == st \in Turns /\ (st.stop \/ st.units < 0) /\ st.bytes = t
Added(r, t, u, total) == Fits(r, u, total) \/ (Full(r, t) /\ Len(u) > total)

LEMMA ReplaceIs ==
    ASSUME NEW st \in Turns, NEW r, r = Replace(st)
    PROVE  /\ r \in Turns /\ r.lead = st.lead /\ r.stop = st.stop /\ r.units = st.units - 3
           /\ r.bytes = IF st.units < 3 THEN st.bytes ELSE st.bytes \o Replacement
<1>1. st.bytes \in Seq(Octet) /\ st.lead \in Leads /\ st.stop \in BOOLEAN /\ st.units \in Int
  BY DEF Turns
<1>2. st.units - 3 > -1 <=> ~(st.units < 3)
  BY <1>1
<1>3. st.bytes \o Replacement \in Seq(Octet)
  BY <1>1, ReplacementIs
<1>4. PICK nb \in Seq(Octet) : nb = IF st.units - 3 > -1 THEN st.bytes \o Replacement ELSE st.bytes
  BY <1>1, <1>3
<1>5. PICK nu \in Int : nu = st.units - 3
  BY <1>1
<1>6. r = [st EXCEPT !.units = nu, !.bytes = nb]
  BY <1>4, <1>5 DEF Replace
<1>7. r.lead = st.lead /\ r.stop = st.stop /\ r.units = nu /\ r.bytes = nb
  BY <1>6 DEF Turns
<1>8. r \in Turns
  BY <1>6 DEF Turns
<1> QED
  BY <1>2, <1>4, <1>5, <1>7, <1>8

Emitted(r, st, b) ==
    /\ r \in Turns /\ r.lead = 0
    /\ st.units < Len(b) => r.stop /\ r.bytes = st.bytes
    /\ ~(st.units < Len(b)) => /\ r.stop = st.stop /\ r.units = st.units - Len(b)
                               /\ r.bytes = st.bytes \o b

LEMMA EmitIs ==
    ASSUME NEW st \in Turns, NEW cp \in CodePoints, NEW b, b = EncodeUtf8(cp), NEW r, r = Emit(st, cp)
    PROVE  Emitted(r, st, b)
<1>1. st.bytes \in Seq(Octet) /\ st.lead \in Leads /\ st.stop \in BOOLEAN /\ st.units \in Int
  BY DEF Turns
<1>2. b \in Seq(Octet)
  BY EncodeTypes
<1>3. 0 \in Leads
  BY UnitFacts DEF Leads
<1>4. st.units - Len(b) < 0 <=> st.units < Len(b)
  BY <1>1, <1>2
<1>5. CASE st.units < Len(b)
  <2>1. r = [st EXCEPT !.lead = 0, !.stop = TRUE]
    BY <1>4, <1>5 DEF Emit
  <2>2. r.lead = 0 /\ r.stop = TRUE /\ r.bytes = st.bytes
    BY <2>1 DEF Turns
  <2>3. r \in Turns
    BY <1>3, <2>1 DEF Turns
  <2> QED
    BY <1>5, <2>2, <2>3 DEF Emitted
<1>6. CASE ~(st.units < Len(b))
  <2>1. PICK nb \in Seq(Octet) : nb = st.bytes \o b
    <3>1. st.bytes \o b \in Seq(Octet)
      BY <1>1, <1>2, Chain, Zenon
    <3> QED
      BY <3>1, Zenon
  <2>2. PICK nu \in Int : nu = st.units - Len(b)
    BY <1>1, <1>2
  <2>3. r = [st EXCEPT !.lead = 0, !.units = nu, !.bytes = nb]
    <3>1. ~(st.units - Len(EncodeUtf8(cp)) < 0)
      BY <1>4, <1>6
    <3>2. r = [st EXCEPT !.lead = 0, !.units = @ - Len(EncodeUtf8(cp)), !.bytes = @ \o EncodeUtf8(cp)]
      BY <3>1 DEF Emit
    <3> QED
      BY <2>1, <2>2, <3>2
  <2>4. r.lead = 0 /\ r.stop = st.stop /\ r.bytes = nb /\ r.units = nu
    BY <2>3 DEF Turns
  <2>5. r \in Turns
    BY <1>3, <2>3 DEF Turns
  <2> QED
    BY <1>6, <2>1, <2>2, <2>4, <2>5 DEF Emitted
<1> QED
  BY <1>5, <1>6

Replaced(r, st, t, total) ==
    r.lead = st.lead /\ ~r.stop /\ Added(r, t, t \o Replacement, total)

LEMMA ReplacedIs ==
    ASSUME NEW t \in Seq(Octet), NEW total \in Nat, NEW st, Fits(st, t, total)
    PROVE  Replaced(Replace(st), st, t, total)
<1>8. PICK r : r = Replace(st)
  OBVIOUS
<1>9. PICK u : u = t \o Replacement
  OBVIOUS
<1>1. st \in Turns /\ st.stop = FALSE /\ st.bytes = t /\ st.units = total - Len(t) /\ st.units >= 0
  BY DEF Fits, Turns
<1>2. /\ r \in Turns /\ r.lead = st.lead /\ r.stop = FALSE /\ r.units = st.units - 3
      /\ r.bytes = IF st.units < 3 THEN t ELSE u
  BY <1>1, <1>8, <1>9, ReplaceIs
<1>3. Len(u) = Len(t) + 3 /\ Len(t) \in Nat /\ u \in Seq(Octet)
  <2>1. PICK q \in Seq(Octet) : q = Replacement /\ Len(q) = 3
    BY ReplacementIs
  <2>2. t \o q \in Seq(Octet) /\ Chained(t \o q, t, q)
    BY Chain, Zenon
  <2>3. u \in Seq(Octet) /\ Len(u) = Len(t) + Len(q)
    BY <1>9, <2>1, <2>2 DEF Chained
  <2> QED
    BY <2>1, <2>3
<1>4. st.units \in Int
  BY <1>1, <1>3
<1>5. ASSUME st.units < 3 PROVE Added(r, t, u, total)
  <2>1. r.units < 0 /\ Len(u) > total /\ r.bytes = t
    BY <1>1, <1>2, <1>3, <1>4, <1>5
  <2>2. Full(r, t)
    BY <1>2, <2>1 DEF Full
  <2> QED
    BY <2>1, <2>2 DEF Added
<1>6. ASSUME ~(st.units < 3) PROVE Added(r, t, u, total)
  <2>1. r.units = total - Len(u) /\ r.units >= 0 /\ r.bytes = u
    BY <1>1, <1>2, <1>3, <1>4, <1>6
  <2>2. Fits(r, u, total)
    BY <1>2, <2>1 DEF Fits
  <2> QED
    BY <2>2 DEF Added
<1>7. Added(r, t, u, total)
  BY <1>5, <1>6
<1> QED
  BY <1>2, <1>7, <1>8, <1>9 DEF Replaced

LEMMA EmitAdds ==
    ASSUME NEW t \in Seq(Octet), NEW total \in Nat, NEW st, Fits(st, t, total),
           NEW cp \in CodePoints, NEW r, r = Emit(st, cp), NEW u, u = t \o EncodeUtf8(cp)
    PROVE  r.lead = 0 /\ Added(r, t, u, total)
<1>1. st \in Turns /\ st.stop = FALSE /\ st.bytes = t /\ st.units = total - Len(t) /\ st.units >= 0
  BY DEF Fits, Turns
<1>2. PICK b \in Seq(Octet) : b = EncodeUtf8(cp)
  BY EncodeTypes
<1>3. /\ r \in Turns /\ r.lead = 0
      /\ st.units < Len(b) => r.stop /\ r.bytes = st.bytes
      /\ ~(st.units < Len(b)) => /\ r.stop = st.stop /\ r.units = st.units - Len(b)
                                 /\ r.bytes = st.bytes \o b
  <2>1. Emitted(r, st, b)
    BY <1>1, <1>2, EmitIs, Zenon
  <2> QED
    BY <2>1 DEF Emitted
<1>4. Len(u) = Len(t) + Len(b) /\ Len(t) \in Nat /\ Len(b) \in Nat /\ u = t \o b
  <2>1. u = t \o b
    BY <1>2
  <2> QED
    BY <2>1
<1>5. CASE st.units < Len(b)
  <2>1. r.stop /\ r.bytes = t /\ Len(u) > total
    BY <1>1, <1>3, <1>4, <1>5
  <2> QED
    BY <1>3, <2>1 DEF Added, Full
<1>6. CASE ~(st.units < Len(b))
  <2>1. r.units = total - Len(u) /\ r.units >= 0 /\ r.bytes = u /\ r.stop = FALSE
    BY <1>1, <1>3, <1>4, <1>6
  <2> QED
    BY <1>3, <2>1 DEF Added, Fits
<1> QED
  BY <1>3, <1>5, <1>6

(* Without room nothing more is written.                                    *)
LEMMA FullReplace ==
    ASSUME NEW t, NEW st, Full(st, t), ~st.stop, NEW r, r = Replace(st)
    PROVE  Full(r, t) /\ ~r.stop /\ r.lead = st.lead
<1>1. st \in Turns /\ st.units < 0 /\ st.bytes = t
  BY DEF Full
<1>2. st.units \in Int /\ st.units < 3
  BY <1>1 DEF Turns
<1>3. r \in Turns /\ r.lead = st.lead /\ r.stop = st.stop /\ r.units = st.units - 3 /\ r.bytes = t
  BY <1>1, <1>2, ReplaceIs
<1>4. r.units < 0
  BY <1>1, <1>2, <1>3
<1> QED
  BY <1>3, <1>4 DEF Full

LEMMA FullEmit ==
    ASSUME NEW t, NEW st, Full(st, t), ~st.stop, NEW cp \in CodePoints, NEW r, r = Emit(st, cp)
    PROVE  Full(r, t)
<1>1. st \in Turns /\ st.units < 0 /\ st.bytes = t
  BY DEF Full
<1>2. PICK b \in Seq(Octet) : b = EncodeUtf8(cp)
  BY EncodeTypes
<1>3. st.units < Len(b)
  <2>1. st.units \in Int /\ Len(b) \in Nat
    BY <1>1, <1>2 DEF Turns
  <2> QED
    BY <1>1, <2>1
<1>4. Emitted(r, st, b)
  BY <1>1, <1>2, EmitIs, Zenon
<1>5. r \in Turns /\ r.stop /\ r.bytes = t
  BY <1>1, <1>3, <1>4 DEF Emitted
<1> QED
  BY <1>5 DEF Full

(* One turn of the loop, by what the code unit is and whether a lead waits. *)
LEMMA UnitCases ==
    ASSUME NEW st \in Turns, ~st.stop, NEW c \in CodeUnit, NEW final \in BOOLEAN,
           NEW r, r = Utf8Unit(st, c, final)
    PROVE  /\ Lead(c) /\ st.lead = 0 /\ final => r = Replace(st)
           /\ Lead(c) /\ st.lead = 0 /\ ~final => r = [st EXCEPT !.lead = c]
           /\ Trail(c) /\ st.lead = 0 => r = Replace(st)
           /\ Lead(c) /\ st.lead # 0 => r = [Replace(st) EXCEPT !.lead = c]
           /\ Trail(c) /\ st.lead # 0 => r = Emit(st, PairPoint(st.lead, c))
           /\ ~Lead(c) /\ ~Trail(c) /\ st.lead = 0 => r = Emit(st, c)
           /\ ~Lead(c) /\ ~Trail(c) /\ st.lead # 0 => r = Emit(Replace(st), c)
<1>1. ~(Lead(c) /\ Trail(c))
  BY UnitFacts
<1>2. CASE Lead(c)
  BY <1>1, <1>2 DEF Utf8Unit
<1>3. CASE Trail(c) /\ st.lead = 0
  BY <1>1, <1>3 DEF Utf8Unit
<1>4. CASE Trail(c) /\ st.lead # 0
  BY <1>1, <1>4, SMT DEF Utf8Unit, PairPoint
<1>5. CASE ~Lead(c) /\ ~Trail(c)
  BY <1>5 DEF Utf8Unit
<1> QED
  BY <1>2, <1>3, <1>4, <1>5, Zenon

LEMMA KeepLead ==
    ASSUME NEW st \in Turns, NEW c \in CodeUnit, Lead(c), NEW r, r = [st EXCEPT !.lead = c]
    PROVE  r \in Turns /\ r.lead = c /\ r.stop = st.stop /\ r.units = st.units /\ r.bytes = st.bytes
<1>1. c \in Leads
  BY DEF Leads
<1> QED
  BY <1>1 DEF Turns

LEMMA LeadIs ==
    ASSUME NEW st \in Turns, st.lead # 0
    PROVE  st.lead \in CodeUnit /\ Lead(st.lead)
BY DEF Turns, Leads

LEMMA UnitFull ==
    ASSUME NEW t, NEW st, Full(st, t), NEW c \in CodeUnit, NEW final \in BOOLEAN,
           NEW r, r = Utf8Unit(st, c, final)
    PROVE  Full(r, t)
<1>1. CASE st.stop
  <2>1. r = st
    BY <1>1 DEF Utf8Unit
  <2> QED
    BY <2>1
<1>2. CASE ~st.stop
  <2>0. st \in Turns
    BY DEF Full
  <2>1. CASE r = Replace(st)
    BY <1>2, <2>1, FullReplace
  <2>2. CASE Lead(c) /\ r = [st EXCEPT !.lead = c]
    <3>1. r \in Turns /\ r.stop = st.stop /\ r.units = st.units /\ r.bytes = st.bytes
      BY <2>0, <2>2, KeepLead
    <3> QED
      BY <3>1 DEF Full
  <2>3. CASE Lead(c) /\ r = [Replace(st) EXCEPT !.lead = c]
    <3>1. PICK q : q = Replace(st)
      OBVIOUS
    <3>2. Full(q, t) /\ q \in Turns
      BY <1>2, <3>1, FullReplace DEF Full
    <3>3. r \in Turns /\ r.stop = q.stop /\ r.units = q.units /\ r.bytes = q.bytes
      BY <2>3, <3>1, <3>2, KeepLead
    <3> QED
      BY <3>2, <3>3 DEF Full
  <2>4. CASE Trail(c) /\ st.lead # 0 /\ r = Emit(st, PairPoint(st.lead, c))
    <3>1. PairPoint(st.lead, c) \in CodePoints
      BY <2>0, <2>4, LeadIs, PairFacts, Zenon
    <3> QED
      BY <1>2, <2>4, <3>1, FullEmit, Zenon
  <2>5. CASE r = Emit(st, c)
    <3>1. c \in CodePoints
      BY UnitFacts
    <3> QED
      BY <1>2, <2>5, <3>1, FullEmit, Zenon
  <2>6. CASE r = Emit(Replace(st), c)
    <3>1. c \in CodePoints
      BY UnitFacts
    <3>2. PICK q : q = Replace(st)
      OBVIOUS
    <3>3. Full(q, t) /\ ~q.stop
      BY <1>2, <3>2, FullReplace
    <3> QED
      BY <2>6, <3>1, <3>2, <3>3, FullEmit, Zenon
  <2> QED
    BY <1>2, <2>0, <2>1, <2>2, <2>3, <2>4, <2>5, <2>6, UnitCases, Zenon
<1> QED
  BY <1>1, <1>2

(* utf8ToBytes holds a lead when it comes to s[i]; of the characters of the *)
(* first i units, those up to Ended are done; a character ends at k.        *)
Waits(s, i) == i > 1 /\ Lead(s[i - 1])
Ended(s, n, i) == IF i > 0 /\ Lead(s[i]) /\ (i < n \/ Waits(s, i)) THEN i - 1 ELSE i
End(c, k) == k = 0 \/ ~Lead(c[k])

LEMMA ChunkOf ==
    ASSUME NEW s \in Seq(CodeUnit), NEW n \in Nat, n = Len(s), NEW c, c = WellFormed(s),
           NEW i \in 1..n
    PROVE  /\ Lone(s, i) => Chunk(c, i) = Replacement
           /\ ~Lead(s[i]) /\ ~Trail(s[i]) => Chunk(c, i) = EncodeUtf8(s[i])
           /\ Lead(s[i]) /\ i < n /\ Trail(s[i + 1]) => Chunk(c, i) = <<>>
           /\ Trail(s[i]) /\ Waits(s, i) => Chunk(c, i) = EncodeUtf8(PairPoint(s[i - 1], s[i]))
<1>1. \A j \in 1..n : c[j] = IF Lone(s, j) THEN Fffd ELSE s[j]
  BY WellFormedIs
<1>2. \A j \in 1..n : s[j] \in CodeUnit /\ ~(Lead(s[j]) /\ Trail(s[j]))
  BY UnitFacts
<1>3. ASSUME Lone(s, i) PROVE Chunk(c, i) = Replacement
  <2>1. c[i] = Fffd
    BY <1>1, <1>3
  <2> QED
    BY <2>1, FffdFacts DEF Chunk
<1>4. ASSUME ~Lead(s[i]), ~Trail(s[i]) PROVE Chunk(c, i) = EncodeUtf8(s[i])
  <2>1. ~Lone(s, i)
    BY <1>4 DEF Lone
  <2>2. c[i] = s[i]
    BY <1>1, <2>1
  <2> QED
    BY <1>4, <2>2 DEF Chunk
<1>5. ASSUME Lead(s[i]), i < n, Trail(s[i + 1]) PROVE Chunk(c, i) = <<>>
  <2>1. ~Lone(s, i)
    BY <1>2, <1>5 DEF Lone
  <2>2. c[i] = s[i]
    BY <1>1, <2>1
  <2> QED
    BY <1>5, <2>2 DEF Chunk
<1>6. ASSUME Trail(s[i]), Waits(s, i) PROVE Chunk(c, i) = EncodeUtf8(PairPoint(s[i - 1], s[i]))
  <2>1. PICK h \in 1..n : h = i - 1 /\ h + 1 = i /\ h # n
    BY <1>6 DEF Waits
  <2>2. Lead(s[h]) /\ i # 1
    BY <1>6, <2>1 DEF Waits
  <2>3. ~Lone(s, i)
    BY <1>2, <1>6, <2>1, <2>2 DEF Lone
  <2>4. ~Lone(s, h)
    BY <1>2, <1>6, <2>1, <2>2 DEF Lone
  <2>5. c[i] = s[i] /\ c[h] = s[h]
    BY <1>1, <2>3, <2>4
  <2>6. ~Lead(c[i]) /\ Trail(c[i])
    BY <1>2, <1>6, <2>5
  <2> QED
    BY <2>1, <2>5, <2>6 DEF Chunk
<1> QED
  BY <1>3, <1>4, <1>5, <1>6, Zenon

LEMMA Ends ==
    ASSUME NEW s \in Seq(CodeUnit), NEW n \in Nat, n = Len(s), NEW c, c = WellFormed(s),
           NEW i \in 0..n
    PROVE  Ended(s, n, i) \in 0..n /\ Ended(s, n, i) <= i /\ End(c, Ended(s, n, i))
<1>1. \A j \in 1..n : c[j] = IF Lone(s, j) THEN Fffd ELSE s[j]
  BY WellFormedIs
<1>2. \A j \in 1..n : s[j] \in CodeUnit /\ ~(Lead(s[j]) /\ Trail(s[j]))
  BY UnitFacts
<1>3. CASE i = 0
  <2>1. Ended(s, n, i) = 0
    BY <1>3 DEF Ended
  <2> QED
    BY <2>1 DEF End
<1>4. CASE i > 0 /\ Lead(s[i]) /\ (i < n \/ Waits(s, i))
  <2>1. PICK h \in 0..n : h = i - 1 /\ h + 1 = i /\ h # n /\ h < i
    BY <1>4
  <2>2. Ended(s, n, i) = h
    BY <1>4, <2>1 DEF Ended
  <2>3. End(c, h)
    <3>1. CASE h = 0
      BY <3>1 DEF End
    <3>2. CASE h # 0
      <4>1. h \in 1..n /\ i \in 1..n
        BY <3>2, <1>4
      <4>2. Lone(s, h) \/ ~Lead(s[h])
        BY <1>2, <1>4, <2>1, <4>1 DEF Lone
      <4>3. ~Lead(c[h])
        BY <1>1, <4>1, <4>2, FffdFacts
      <4> QED
        BY <4>3 DEF End
    <3> QED
      BY <3>1, <3>2
  <2> QED
    BY <2>1, <2>2, <2>3
<1>5. CASE i > 0 /\ ~(Lead(s[i]) /\ (i < n \/ Waits(s, i)))
  <2>1. Ended(s, n, i) = i
    BY <1>5 DEF Ended
  <2>2. i \in 1..n
    BY <1>5
  <2>3. Lone(s, i) \/ ~Lead(s[i])
    BY <1>5, <2>2 DEF Lone
  <2>4. ~Lead(c[i])
    BY <1>1, <2>2, <2>3, FffdFacts
  <2> QED
    BY <2>1, <2>4 DEF End
<1> QED
  BY <1>3, <1>4, <1>5

(* What a turn adds to the bytes.                                           *)
TurnFacts(s, n, T, i, p, e, u) ==
    /\ p = IF Waits(s, i) THEN i - 2 ELSE i - 1
    /\ e = IF Lead(u) /\ (i < n \/ Waits(s, i)) THEN i - 1 ELSE i
    /\ Lead(u) /\ ~Waits(s, i) /\ i = n => T[e] = T[p] \o Replacement
    /\ Lead(u) /\ ~Waits(s, i) /\ i # n => e = p
    /\ Trail(u) /\ ~Waits(s, i) => T[e] = T[p] \o Replacement
    /\ Lead(u) /\ Waits(s, i) => T[e] = T[p] \o Replacement
    /\ Trail(u) /\ Waits(s, i) => T[e] = T[p] \o EncodeUtf8(PairPoint(s[i - 1], u))
    /\ ~Lead(u) /\ ~Trail(u) /\ ~Waits(s, i) => T[e] = T[p] \o EncodeUtf8(u)
    /\ ~Lead(u) /\ ~Trail(u) /\ Waits(s, i) =>
          T[i - 1] = T[p] \o Replacement /\ T[e] = T[i - 1] \o EncodeUtf8(u)

LEMMA TurnAdds ==
    ASSUME NEW s \in Seq(CodeUnit), NEW n \in Nat, n = Len(s), NEW c, c = WellFormed(s),
           NEW T, Totals(T, c, n), NEW i \in 1..n,
           NEW p, p = Ended(s, n, i - 1), NEW e, e = Ended(s, n, i)
    PROVE  TurnFacts(s, n, T, i, p, e, s[i])
<1>1. PICK h \in 0..n : h = i - 1 /\ h + 1 = i /\ h < n
  OBVIOUS
<1>2. \A j \in 1..n : s[j] \in CodeUnit /\ ~(Lead(s[j]) /\ Trail(s[j]))
  BY UnitFacts
<1>3. Waits(s, i) <=> h > 0 /\ Lead(s[h])
  BY <1>1 DEF Waits
<1>4. p = IF Waits(s, i) THEN h - 1 ELSE h
  BY <1>1, <1>3 DEF Ended
<1>5. e = IF Lead(s[i]) /\ (i < n \/ Waits(s, i)) THEN h ELSE i
  BY <1>1 DEF Ended
<1>6. T[i] = T[h] \o Chunk(c, i)
  BY <1>1 DEF Totals
<1>7. Waits(s, i) => T[h] = T[p] \o Chunk(c, h)
  <2>1. SUFFICES ASSUME Waits(s, i) PROVE T[h] = T[p] \o Chunk(c, h)
    OBVIOUS
  <2>2. h \in 1..n /\ p = h - 1
    BY <1>1, <1>3, <1>4, <2>1
  <2>3. T[h] = T[h - 1] \o Chunk(c, h)
    BY <2>2 DEF Totals
  <2> QED
    BY <2>2, <2>3
<1>8. /\ Lone(s, i) => Chunk(c, i) = Replacement
      /\ ~Lead(s[i]) /\ ~Trail(s[i]) => Chunk(c, i) = EncodeUtf8(s[i])
      /\ Trail(s[i]) /\ Waits(s, i) => Chunk(c, i) = EncodeUtf8(PairPoint(s[i - 1], s[i]))
  BY ChunkOf
<1>9. Waits(s, i) => /\ Lone(s, h) => Chunk(c, h) = Replacement
                     /\ Trail(s[i]) => Chunk(c, h) = <<>>
  <2>1. SUFFICES ASSUME Waits(s, i)
                 PROVE  /\ Lone(s, h) => Chunk(c, h) = Replacement
                        /\ Trail(s[i]) => Chunk(c, h) = <<>>
    OBVIOUS
  <2>2. h \in 1..n /\ Lead(s[h])
    BY <1>1, <1>3, <2>1
  <2>3. /\ Lone(s, h) => Chunk(c, h) = Replacement
        /\ Lead(s[h]) /\ h < n /\ Trail(s[h + 1]) => Chunk(c, h) = <<>>
    BY <2>2, ChunkOf
  <2> QED
    BY <1>1, <2>2, <2>3
<1>10. Lead(s[i]) /\ i = n => Lone(s, i)
  BY DEF Lone
<1>11. Trail(s[i]) /\ ~Waits(s, i) => Lone(s, i)
  BY <1>1, <1>3 DEF Lone
<1>12. Waits(s, i) /\ ~Trail(s[i]) => Lone(s, h)
  BY <1>1, <1>3 DEF Lone
<1>13. T[p] \in Seq(Octet)
  <2>1. p \in 0..n
    BY <1>1, <1>3, <1>4
  <2>2. c \in Seq(CodeUnit) /\ Paired(c) /\ n = Len(c)
    BY WellFormedIs, WellFormedPaired
  <2> QED
    BY <2>1, <2>2, TotalsAre
<1>14. /\ Lead(s[i]) /\ ~Waits(s, i) /\ i = n => T[e] = T[p] \o Replacement
       /\ Lead(s[i]) /\ ~Waits(s, i) /\ i # n => e = p
       /\ Trail(s[i]) /\ ~Waits(s, i) => T[e] = T[p] \o Replacement
       /\ ~Lead(s[i]) /\ ~Trail(s[i]) /\ ~Waits(s, i) => T[e] = T[p] \o EncodeUtf8(s[i])
  <2>1. CASE ~Waits(s, i)
    <3>1. p = h
      BY <1>4, <2>1
    <3>2. CASE Lead(s[i]) /\ i = n
      BY <1>2, <1>5, <1>6, <1>8, <1>10, <2>1, <3>1, <3>2
    <3>3. CASE Lead(s[i]) /\ i # n
      BY <1>2, <1>5, <3>1, <3>3
    <3>4. CASE ~Lead(s[i])
      <4>1. T[e] = T[p] \o Chunk(c, i)
        BY <1>5, <1>6, <3>1, <3>4
      <4> QED
        BY <1>8, <1>11, <2>1, <3>4, <4>1
    <3> QED
      BY <3>2, <3>3, <3>4
  <2> QED
    BY <2>1
<1>15. /\ Lead(s[i]) /\ Waits(s, i) => T[e] = T[p] \o Replacement
       /\ Trail(s[i]) /\ Waits(s, i) => T[e] = T[p] \o EncodeUtf8(PairPoint(s[i - 1], s[i]))
       /\ ~Lead(s[i]) /\ ~Trail(s[i]) /\ Waits(s, i) =>
                 T[h] = T[p] \o Replacement /\ T[e] = T[h] \o EncodeUtf8(s[i])
  <2>1. CASE Waits(s, i)
    <3>1. T[h] = T[p] \o Chunk(c, h)
      BY <1>7, <2>1
    <3>2. CASE Lead(s[i])
      <4>1. e = h /\ ~Trail(s[i])
        BY <1>2, <1>5, <2>1, <3>2
      <4>2. T[e] = T[p] \o Replacement
        BY <1>9, <1>12, <2>1, <3>1, <4>1
      <4> QED
        BY <3>2, <4>1, <4>2
    <3>3. CASE Trail(s[i])
      <4>1. e = i /\ ~Lead(s[i])
        BY <1>2, <1>5, <3>3
      <4>2. T[h] = T[p]
        <5>1. T[h] = T[p] \o <<>>
          BY <1>9, <2>1, <3>1, <3>3
        <5> QED
          BY <1>13, <5>1
      <4>3. T[e] = T[p] \o EncodeUtf8(PairPoint(s[i - 1], s[i]))
        BY <1>6, <1>8, <2>1, <3>3, <4>1, <4>2
      <4> QED
        BY <3>3, <4>1, <4>3
    <3>4. CASE ~Lead(s[i]) /\ ~Trail(s[i])
      <4>1. e = i
        BY <1>5, <3>4
      <4>2. T[h] = T[p] \o Replacement
        BY <1>9, <1>12, <2>1, <3>1, <3>4
      <4>3. T[e] = T[h] \o EncodeUtf8(s[i])
        BY <1>6, <1>8, <3>4, <4>1
      <4> QED
        BY <3>4, <4>2, <4>3
    <3> QED
      BY <3>2, <3>3, <3>4
  <2> QED
    BY <2>1
<1>16. /\ p = IF Waits(s, i) THEN i - 2 ELSE i - 1
       /\ e = IF Lead(s[i]) /\ (i < n \/ Waits(s, i)) THEN i - 1 ELSE i
  BY <1>1, <1>4, <1>5
<1> QED
  BY <1>1, <1>14, <1>15, <1>16, Zenon DEF TurnFacts

(* The loop after the i-th code unit: all characters that have ended are    *)
(* written, or those that fit and there is no room for the next one.        *)
AtUnit(st, s, T, n, total, i) ==
    /\ Fits(st, T[Ended(s, n, i)], total)
    /\ st.lead = IF Ended(s, n, i) = i THEN 0 ELSE s[i]
FullAt(st, c, T, n, total, m) ==
    \E k \in 0..n : /\ End(c, k) /\ Len(T[k]) <= total /\ Full(st, T[k])
                    /\ \E j \in 0..m : Len(T[j]) > total
Turned(st, s, c, T, n, total, i) ==
    AtUnit(st, s, T, n, total, i) \/ FullAt(st, c, T, n, total, Ended(s, n, i))

LEMMA FullAdded ==
    ASSUME NEW c, NEW n \in Nat, NEW T, NEW total \in Nat, NEW p \in 0..n, End(c, p),
           T[p] \in Seq(Octet), Len(T[p]) <= total,
           NEW m \in 0..n, NEW j \in 0..m, NEW r, Full(r, T[p]), Len(T[j]) > total
    PROVE  FullAt(r, c, T, n, total, m)
BY DEF FullAt

LEMMA Utf8TurnKeeps ==
    ASSUME NEW s \in Seq(CodeUnit), NEW n \in Nat, n = Len(s), NEW c, c = WellFormed(s),
           NEW T, Totals(T, c, n), NEW total \in Nat, NEW i \in 1..n,
           NEW st, Turned(st, s, c, T, n, total, i - 1),
           NEW r, r = Utf8Unit(st, s[i], i = n)
    PROVE  Turned(r, s, c, T, n, total, i)
<1>1. PICK h \in 0..n : h = i - 1
  OBVIOUS
<1>2. PICK p : p = Ended(s, n, h)
  OBVIOUS
<1>3. PICK e : e = Ended(s, n, i)
  OBVIOUS
<1>4. p \in 0..n /\ p <= h /\ End(c, p)
  BY <1>2, Ends
<1>5. e \in 0..n /\ e <= i /\ End(c, e)
  BY <1>3, Ends
<1>6. \A j \in 0..n : T[j] \in Seq(Octet)
  <2>1. c \in Seq(CodeUnit) /\ Paired(c) /\ n = Len(c)
    BY WellFormedIs, WellFormedPaired
  <2> QED
    BY <2>1, TotalsAre
<1>7. PICK u \in CodeUnit : u = s[i]
  OBVIOUS
<1>8. PICK final \in BOOLEAN : final = (i = n)
  OBVIOUS
<1>9. r = Utf8Unit(st, u, final)
  BY <1>7, <1>8
<1>10. /\ p = IF Waits(s, i) THEN i - 2 ELSE i - 1
       /\ e = IF Lead(u) /\ (i < n \/ Waits(s, i)) THEN i - 1 ELSE i
       /\ Lead(u) /\ ~Waits(s, i) /\ i = n => T[e] = T[p] \o Replacement
       /\ Lead(u) /\ ~Waits(s, i) /\ i # n => e = p
       /\ Trail(u) /\ ~Waits(s, i) => T[e] = T[p] \o Replacement
       /\ Lead(u) /\ Waits(s, i) => T[e] = T[p] \o Replacement
       /\ Trail(u) /\ Waits(s, i) => T[e] = T[p] \o EncodeUtf8(PairPoint(s[i - 1], u))
       /\ ~Lead(u) /\ ~Trail(u) /\ ~Waits(s, i) => T[e] = T[p] \o EncodeUtf8(u)
       /\ ~Lead(u) /\ ~Trail(u) /\ Waits(s, i) =>
             T[i - 1] = T[p] \o Replacement /\ T[e] = T[i - 1] \o EncodeUtf8(u)
  <2>1. p = Ended(s, n, i - 1)
    BY <1>1, <1>2
  <2>2. TurnFacts(s, n, T, i, p, e, s[i])
    BY <1>3, <2>1, TurnAdds, Zenon
  <2>3. TurnFacts(s, n, T, i, p, e, u)
    BY <1>7, <2>2
  <2> QED
    BY <2>3, Zenon DEF TurnFacts
<1>11. CASE FullAt(st, c, T, n, total, p)
  <2>1. PICK k \in 0..n : /\ End(c, k) /\ Len(T[k]) <= total /\ Full(st, T[k])
                          /\ \E j \in 0..p : Len(T[j]) > total
    BY <1>11 DEF FullAt
  <2>2. PICK j \in 0..p : Len(T[j]) > total
    BY <2>1
  <2>3. j \in 0..e
    <3>1. p <= e
      BY <1>10
    <3> QED
      BY <1>4, <1>5, <3>1
  <2>4. Full(r, T[k])
    BY <1>9, <2>1, UnitFull
  <2>5. FullAt(r, c, T, n, total, e)
    BY <2>1, <2>2, <2>3, <2>4 DEF FullAt
  <2> QED
    BY <1>3, <2>5 DEF Turned
<1>12. CASE AtUnit(st, s, T, n, total, h)
  <2>1. Fits(st, T[p], total) /\ st.lead = IF p = h THEN 0 ELSE s[h]
    BY <1>2, <1>12 DEF AtUnit
  <2>2. PICK t \in Seq(Octet) : t = T[p]
    BY <1>4, <1>6
  <2>3. st \in Turns /\ ~st.stop /\ Len(t) \in Nat /\ Len(t) <= total
    BY <2>1, <2>2 DEF Fits
  <2>4. Waits(s, i) => st.lead # 0 /\ st.lead = s[i - 1]
    <3>1. SUFFICES ASSUME Waits(s, i) PROVE st.lead # 0 /\ st.lead = s[i - 1]
      OBVIOUS
    <3>2. p # h /\ Lead(s[h])
      BY <1>1, <1>10, <3>1 DEF Waits
    <3> QED
      BY <1>1, <2>1, <3>2, UnitFacts
  <2>5. ~Waits(s, i) => st.lead = 0
    BY <1>1, <1>10, <2>1
  <2>6. ASSUME NEW q, NEW m \in 0..e, Added(q, t, T[m], total)
        PROVE  Fits(q, T[m], total) \/ FullAt(q, c, T, n, total, e)
    <3>1. CASE Fits(q, T[m], total)
      BY <3>1
    <3>2. CASE Full(q, t) /\ Len(T[m]) > total
      BY <1>4, <1>5, <2>2, <2>3, <3>2 DEF FullAt
    <3> QED
      BY <2>6, <3>1, <3>2 DEF Added
  <2>7. e \in 0..e
    BY <1>5
  <2>8. ASSUME NEW q, q.lead = IF e = i THEN 0 ELSE u,
               Fits(q, T[e], total) \/ FullAt(q, c, T, n, total, e)
        PROVE  Turned(q, s, c, T, n, total, i)
    BY <1>3, <1>7, <2>8 DEF Turned, AtUnit
  <2>9. ASSUME NEW q, FullAt(q, c, T, n, total, e)
        PROVE  Turned(q, s, c, T, n, total, i)
    BY <1>3, <2>9 DEF Turned
  <2>10. /\ Lead(u) /\ st.lead = 0 /\ final => r = Replace(st)
         /\ Lead(u) /\ st.lead = 0 /\ ~final => r = [st EXCEPT !.lead = u]
         /\ Trail(u) /\ st.lead = 0 => r = Replace(st)
         /\ Lead(u) /\ st.lead # 0 => r = [Replace(st) EXCEPT !.lead = u]
         /\ Trail(u) /\ st.lead # 0 => r = Emit(st, PairPoint(st.lead, u))
         /\ ~Lead(u) /\ ~Trail(u) /\ st.lead = 0 => r = Emit(st, u)
         /\ ~Lead(u) /\ ~Trail(u) /\ st.lead # 0 => r = Emit(Replace(st), u)
    BY <1>9, <2>3, UnitCases
  <2>11. ~(Lead(u) /\ Trail(u)) /\ u \in CodePoints
    BY UnitFacts
  <2>12. PICK q : q = Replace(st)
    OBVIOUS
  <2>13. q.lead = st.lead /\ ~q.stop /\ Added(q, t, t \o Replacement, total)
    <3>1. Fits(st, t, total)
      BY <2>1, <2>2
    <3>2. Replaced(Replace(st), st, t, total)
      BY <3>1, ReplacedIs, Zenon
    <3> QED
      BY <2>12, <3>2 DEF Replaced
  <2>14. CASE Lead(u) /\ ~Waits(s, i)
    <3>1. CASE i = n
      <4>1. r = q /\ q.lead = 0 /\ e = i
        <5>1. final
          BY <1>8, <3>1, Zenon
        <5>2. r = q /\ q.lead = 0
          BY <2>5, <2>10, <2>12, <2>13, <2>14, <5>1, Zenon
        <5>3. e = i
          BY <1>10, <2>14, <3>1
        <5> QED
          BY <5>2, <5>3
      <4>2. T[e] = t \o Replacement
        BY <1>10, <2>2, <2>14, <3>1
      <4>3. Fits(q, T[e], total) \/ FullAt(q, c, T, n, total, e)
        BY <2>6, <2>7, <2>13, <4>2
      <4> QED
        BY <2>8, <4>1, <4>3
    <3>2. CASE i # n
      <4>1. r = [st EXCEPT !.lead = u] /\ e = p /\ e # i
        <5>1. ~final
          BY <1>8, <3>2, Zenon
        <5>2. r = [st EXCEPT !.lead = u]
          BY <2>5, <2>10, <2>14, <5>1, Zenon
        <5>3. e = p /\ e # i
          BY <1>10, <2>14, <3>2
        <5> QED
          BY <5>2, <5>3, Zenon
      <4>2. r \in Turns /\ r.lead = u /\ r.stop = st.stop /\ r.units = st.units /\ r.bytes = st.bytes
        BY <2>3, <2>14, <4>1, KeepLead
      <4>3. Fits(r, T[e], total)
        BY <2>1, <4>1, <4>2 DEF Fits
      <4> QED
        BY <2>8, <4>1, <4>2, <4>3
    <3> QED
      BY <3>1, <3>2
  <2>15. CASE Trail(u) /\ ~Waits(s, i)
    <3>1. r = q /\ q.lead = 0 /\ e = i
      BY <1>10, <2>5, <2>10, <2>11, <2>12, <2>13, <2>15
    <3>2. T[e] = t \o Replacement
      BY <1>10, <2>2, <2>15
    <3>3. Fits(q, T[e], total) \/ FullAt(q, c, T, n, total, e)
      BY <2>6, <2>7, <2>13, <3>2
    <3> QED
      BY <2>8, <3>1, <3>3
  <2>16. CASE Lead(u) /\ Waits(s, i)
    <3>1. r = [q EXCEPT !.lead = u] /\ e = i - 1 /\ e # i
      BY <1>10, <2>4, <2>10, <2>12, <2>16
    <3>2. q \in Turns
      BY <2>13 DEF Added, Fits, Full
    <3>3. r \in Turns /\ r.lead = u /\ r.stop = q.stop /\ r.units = q.units /\ r.bytes = q.bytes
      BY <2>16, <3>1, <3>2, KeepLead
    <3>4. Added(r, t, t \o Replacement, total)
      BY <2>13, <3>3 DEF Added, Fits, Full
    <3>5. T[e] = t \o Replacement
      BY <1>10, <2>2, <2>16
    <3>6. Fits(r, T[e], total) \/ FullAt(r, c, T, n, total, e)
      BY <2>6, <2>7, <3>4, <3>5
    <3> QED
      BY <2>8, <3>1, <3>3, <3>6
  <2>17. CASE Trail(u) /\ Waits(s, i)
    <3>1. PICK l \in CodeUnit : l = st.lead /\ Lead(l)
      BY <2>3, <2>4, <2>17, LeadIs
    <3>2. PICK cp \in CodePoints : cp = PairPoint(l, u)
      BY <2>17, <3>1, PairFacts
    <3>3. r = Emit(st, cp) /\ e = i
      BY <1>10, <2>4, <2>10, <2>11, <2>17, <3>1, <3>2
    <3>4. T[e] = t \o EncodeUtf8(cp)
      BY <1>10, <2>2, <2>4, <2>17, <3>1, <3>2
    <3>5. r.lead = 0 /\ Added(r, t, t \o EncodeUtf8(cp), total)
      BY <2>1, <2>2, <3>3, EmitAdds
    <3>6. Fits(r, T[e], total) \/ FullAt(r, c, T, n, total, e)
      BY <2>6, <2>7, <3>4, <3>5
    <3> QED
      BY <2>8, <3>3, <3>5, <3>6
  <2>18. CASE ~Lead(u) /\ ~Trail(u) /\ ~Waits(s, i)
    <3>1. r = Emit(st, u) /\ e = i
      BY <1>10, <2>5, <2>10, <2>18
    <3>2. T[e] = t \o EncodeUtf8(u)
      BY <1>10, <2>2, <2>18
    <3>3. r.lead = 0 /\ Added(r, t, t \o EncodeUtf8(u), total)
      BY <2>1, <2>2, <2>11, <3>1, EmitAdds
    <3>4. Fits(r, T[e], total) \/ FullAt(r, c, T, n, total, e)
      BY <2>6, <2>7, <3>2, <3>3
    <3> QED
      BY <2>8, <3>1, <3>3, <3>4
  <2>19. CASE ~Lead(u) /\ ~Trail(u) /\ Waits(s, i)
    <3>1. r = Emit(q, u) /\ e = i
      BY <1>10, <2>4, <2>10, <2>12, <2>19
    <3>2. T[h] = t \o Replacement /\ T[e] = T[h] \o EncodeUtf8(u)
      BY <1>1, <1>10, <2>2, <2>19
    <3>3. CASE Fits(q, T[h], total)
      <4>1. PICK v \in Seq(Octet) : v = T[h]
        BY <1>6
      <4>2. r.lead = 0 /\ Added(r, v, T[e], total)
        BY <2>11, <3>1, <3>2, <3>3, <4>1, EmitAdds
      <4>3. CASE Fits(r, T[e], total)
        BY <2>8, <3>1, <4>2, <4>3
      <4>4. CASE Full(r, v) /\ Len(T[e]) > total
        <5>1. End(c, h)
          <6>1. Lone(s, h)
            BY <1>1, <1>7, <2>19 DEF Lone, Waits
          <6>2. h \in 1..n
            BY <1>1, <2>19 DEF Waits
          <6>3. c[h] = Fffd
            BY <6>1, <6>2, WellFormedIs
          <6> QED
            BY <6>3, FffdFacts DEF End
        <5>2. Len(v) <= total
          BY <3>3, <4>1 DEF Fits
        <5>3. FullAt(r, c, T, n, total, e)
          BY <2>7, <4>1, <4>4, <5>1, <5>2 DEF FullAt
        <5> QED
          BY <2>9, <5>3
      <4> QED
        BY <4>2, <4>3, <4>4 DEF Added
    <3>4. CASE Full(q, t) /\ Len(T[h]) > total
      <4>1. Full(r, t)
        BY <2>11, <2>13, <3>1, <3>4, FullEmit
      <4>2. h \in 0..e
        BY <1>1, <3>1
      <4>3. FullAt(r, c, T, n, total, e)
        BY <1>4, <2>2, <2>3, <3>4, <4>1, <4>2 DEF FullAt
      <4> QED
        BY <2>9, <4>3
    <3> QED
      BY <2>13, <3>2, <3>3, <3>4 DEF Added
  <2> QED
    BY <2>14, <2>15, <2>16, <2>17, <2>18, <2>19, Zenon
<1> QED
  BY <1>1, <1>2, <1>11, <1>12, Zenon DEF Turned

(* The loop of utf8ToBytes, as a recursion that has a solution.             *)
Utf8Turn(g, s, first, i) == IF i = 0 THEN first ELSE Utf8Unit(g[i - 1], s[i], i = Len(s))
Utf8Turns(g, n, s, first) == g = [i \in 0..n |-> Utf8Turn(g, s, first, i)]

LEMMA Utf8TurnsExist ==
    ASSUME NEW s, NEW first, NEW N \in Nat
    PROVE  \E g : Utf8Turns(g, N, s, first)
<1>1. PICK T : T = {m \in 0..N : \E g : Utf8Turns(g, m, s, first)}
  OBVIOUS
<1>2. 0 \in T
  <2>1. PICK g : g = [i \in 0..0 |-> first]
    OBVIOUS
  <2>2. \A i \in 0..0 : Utf8Turn(g, s, first, i) = first
    BY DEF Utf8Turn
  <2>3. Utf8Turns(g, 0, s, first)
    BY <2>1, <2>2 DEF Utf8Turns
  <2> QED
    BY <1>1, <2>3
<1>3. ASSUME NEW m \in 0..(N - 1), m \in T PROVE m + 1 \in T
  <2>1. PICK g : Utf8Turns(g, m, s, first)
    BY <1>1, <1>3
  <2>2. PICK h : h = [i \in 0..(m + 1) |-> IF i = m + 1 THEN Utf8Turn(g, s, first, i) ELSE g[i]]
    OBVIOUS
  <2>3. \A i \in 0..m : i # m + 1 /\ i \in 0..(m + 1) /\ h[i] = g[i]
    BY <2>2
  <2>4. ASSUME NEW i \in 0..(m + 1) PROVE Utf8Turn(h, s, first, i) = Utf8Turn(g, s, first, i)
    <3>1. CASE i = 0
      BY <3>1 DEF Utf8Turn
    <3>2. CASE i # 0
      <4>1. i - 1 \in 0..m
        BY <3>2
      <4>2. h[i - 1] = g[i - 1]
        BY <2>3, <4>1
      <4> QED
        BY <3>2, <4>2 DEF Utf8Turn
    <3> QED
      BY <3>1, <3>2
  <2>5. ASSUME NEW i \in 0..(m + 1) PROVE h[i] = Utf8Turn(h, s, first, i)
    <3>1. CASE i = m + 1
      BY <2>2, <2>4, <3>1
    <3>2. CASE i # m + 1
      <4>1. i \in 0..m
        BY <3>2
      <4>2. g[i] = Utf8Turn(g, s, first, i)
        BY <2>1, <4>1 DEF Utf8Turns
      <4> QED
        BY <2>3, <2>4, <4>1, <4>2
    <3> QED
      BY <3>1, <3>2
  <2>6. h = [i \in 0..(m + 1) |-> Utf8Turn(h, s, first, i)]
    <3>1. h = [i \in 0..(m + 1) |-> h[i]]
      BY <2>2
    <3> QED
      BY <2>5, <3>1
  <2>7. m + 1 \in 0..N
    OBVIOUS
  <2> QED
    BY <1>1, <2>6, <2>7 DEF Utf8Turns
<1>4. \A m \in 0..N : m \in T
  BY <1>2, <1>3, UpTo
<1>5. N \in 0..N
  OBVIOUS
<1> QED
  BY <1>1, <1>4, <1>5

Room(n, room) == IF room = 0 THEN 3 * n ELSE room

(* What utf8ToBytes writes: the bytes of all characters, or of the first    *)
(* ones, and then there was no room for some character.                     *)
WritesOf(b, s, c, T, n, total) ==
    \/ b = T[Ended(s, n, n)] /\ Len(T[Ended(s, n, n)]) <= total
    \/ \E k \in 0..n : /\ End(c, k) /\ Len(T[k]) <= total /\ b = T[k]
                       /\ \E j \in 0..Ended(s, n, n) : Len(T[j]) > total

LEMMA Utf8Writes ==
    ASSUME NEW s \in Seq(CodeUnit), NEW n \in Nat, n = Len(s), NEW c, c = WellFormed(s),
           NEW T, Totals(T, c, n), NEW room \in Nat, NEW total, total = Room(n, room)
    PROVE  WritesOf(Utf8ToBytes(s, room), s, c, T, n, total)
<1>1. total \in Nat
  BY DEF Room
<1>2. PICK first : first = [bytes |-> <<>>, lead |-> 0, stop |-> FALSE, units |-> total]
  OBVIOUS
<1>3. PICK g : g = CHOOSE h : Utf8Turns(h, n, s, first)
  OBVIOUS
<1>4. Utf8Turns(g, n, s, first)
  BY <1>3, Utf8TurnsExist
<1>5. Utf8ToBytes(s, room) = g[n].bytes
  BY <1>2, <1>3 DEF Utf8ToBytes, Utf8Turns, Utf8Turn, Room
<1>6. \A i \in 0..n : g[i] = Utf8Turn(g, s, first, i)
  BY <1>4 DEF Utf8Turns
<1>7. PICK S : S = {i \in 0..n : Turned(g[i], s, c, T, n, total, i)}
  OBVIOUS
<1>8. 0 \in S
  <2>1. g[0] = first
    BY <1>6 DEF Utf8Turn
  <2>2. first \in Turns /\ first.lead = 0 /\ first.stop = FALSE /\ first.units = total /\ first.bytes = <<>>
    <3>1. 0 \in Leads
      BY UnitFacts DEF Leads
    <3>2. <<>> \in Seq(Octet)
      OBVIOUS
    <3> QED
      BY <1>1, <1>2, <3>1, <3>2 DEF Turns
  <2>3. Ended(s, n, 0) = 0 /\ T[0] = <<>> /\ Len(T[0]) = 0
    BY DEF Ended, Totals
  <2>4. Fits(first, T[0], total)
    BY <1>1, <2>2, <2>3 DEF Fits
  <2>5. Turned(first, s, c, T, n, total, 0)
    BY <2>2, <2>3, <2>4 DEF Turned, AtUnit
  <2> QED
    BY <1>7, <2>1, <2>5
<1>9. ASSUME NEW m \in 0..(n - 1), m \in S PROVE m + 1 \in S
  <2>1. PICK i \in 1..n : i = m + 1 /\ i - 1 = m /\ i # 0 /\ i \in 0..n
    OBVIOUS
  <2>2. g[i] = Utf8Unit(g[i - 1], s[i], i = n)
    BY <1>6, <2>1 DEF Utf8Turn
  <2>3. Turned(g[i - 1], s, c, T, n, total, i - 1)
    BY <1>7, <1>9, <2>1
  <2>4. Turned(g[i], s, c, T, n, total, i)
    BY <1>1, <2>2, <2>3, Utf8TurnKeeps, Zenon
  <2> QED
    BY <1>7, <2>1, <2>4
<1>10. \A i \in 0..n : i \in S
  BY <1>8, <1>9, UpTo
<1>11. Turned(g[n], s, c, T, n, total, n)
  BY <1>7, <1>10
<1>12. CASE AtUnit(g[n], s, T, n, total, n)
  <2>1. Fits(g[n], T[Ended(s, n, n)], total)
    BY <1>12 DEF AtUnit
  <2>2. PICK e \in 0..n : e = Ended(s, n, n)
    BY Ends
  <2>3. T[e] \in Seq(Octet)
    <3>1. c \in Seq(CodeUnit) /\ Paired(c) /\ n = Len(c)
      BY WellFormedIs, WellFormedPaired
    <3> QED
      BY <3>1, TotalsAre
  <2>4. g[n].bytes = T[e] /\ Len(T[e]) <= total
    BY <1>1, <2>1, <2>2, <2>3 DEF Fits
  <2> QED
    BY <1>5, <2>2, <2>4 DEF WritesOf
<1>13. CASE FullAt(g[n], c, T, n, total, Ended(s, n, n))
  BY <1>5, <1>13 DEF FullAt, Full, WritesOf
<1> QED
  BY <1>11, <1>12, <1>13 DEF Turned

(* Without a limit, and with just enough room, nothing is left out.         *)
LEMMA Utf8All ==
    ASSUME NEW s \in Seq(CodeUnit), NEW n \in Nat, n = Len(s), NEW c, c = WellFormed(s),
           NEW T, Totals(T, c, n), NEW e, e = Ended(s, n, n)
    PROVE  e \in 0..n /\ T[e] \in Seq(Octet) /\ Utf8ToBytes(s, 0) = T[e] /\ Utf8ToBytes(s, Len(T[e])) = T[e]
<1>1. e \in 0..n
  BY Ends
<1>2. c \in Seq(CodeUnit) /\ Paired(c) /\ n = Len(c)
  BY WellFormedIs, WellFormedPaired
<1>3. \A i \in 0..n : T[i] \in Seq(Octet) /\ Len(T[i]) <= 3 * i
  BY <1>2, TotalsAre
<1>4. \A i \in 0..n : Len(T[i]) \in Nat
  BY <1>3
<1>5. Utf8ToBytes(s, 0) = T[e]
  <2>1. 3 * n = Room(n, 0)
    BY DEF Room
  <2>2. WritesOf(Utf8ToBytes(s, 0), s, c, T, n, 3 * n)
    BY <2>1, Utf8Writes, Zenon
  <2>3. ASSUME NEW j \in 0..e, Len(T[j]) > 3 * n PROVE FALSE
    BY <1>1, <1>3, <1>4, <2>3
  <2> QED
    BY <2>2, <2>3 DEF WritesOf
<1>6. ASSUME Len(T[e]) # 0 PROVE Utf8ToBytes(s, Len(T[e])) = T[e]
  <2>1. PICK room \in Nat : room = Len(T[e])
    BY <1>1, <1>4
  <2>2. room = Room(n, room)
    BY <1>6, <2>1 DEF Room
  <2>3. WritesOf(Utf8ToBytes(s, room), s, c, T, n, room)
    BY <2>2, Utf8Writes, Zenon
  <2>4. ASSUME NEW j \in 0..e, Len(T[j]) > room PROVE FALSE
    <3>1. j \in 0..n /\ j <= e
      BY <1>1
    <3>2. Begins(T[j], T[e])
      BY <1>1, <1>2, <3>1, TotalsGrow
    <3> QED
      BY <1>1, <1>4, <2>1, <2>4, <3>1, <3>2 DEF Begins
  <2> QED
    BY <2>1, <2>3, <2>4 DEF WritesOf
<1> QED
  BY <1>1, <1>3, <1>5, <1>6

LEMMA Utf8Typed ==
    ASSUME NEW s \in Seq(CodeUnit), NEW room \in Nat
    PROVE  Utf8ToBytes(s, room) \in Seq(Octet)
<1>1. PICK n \in Nat : n = Len(s)
  OBVIOUS
<1>2. PICK c : c = WellFormed(s)
  OBVIOUS
<1>3. PICK T : Totals(T, c, n)
  BY TotalsExist
<1>4. PICK total : total = Room(n, room)
  OBVIOUS
<1>5. WritesOf(Utf8ToBytes(s, room), s, c, T, n, total)
  BY <1>1, <1>2, <1>3, <1>4, Utf8Writes
<1>6. \A i \in 0..n : T[i] \in Seq(Octet)
  <2>1. c \in Seq(CodeUnit) /\ Paired(c) /\ n = Len(c)
    BY <1>1, <1>2, WellFormedIs, WellFormedPaired
  <2> QED
    BY <1>3, <2>1, TotalsAre
<1>7. Ended(s, n, n) \in 0..n
  BY <1>1, <1>2, Ends
<1> QED
  BY <1>5, <1>6, <1>7 DEF WritesOf

(* Buffer.from(s, 'utf8').                                                  *)
LEMMA FromUtf8 ==
    ASSUME NEW s \in Seq(CodeUnit), NEW n \in Nat, n = Len(s), NEW c, c = WellFormed(s),
           NEW T, Totals(T, c, n), NEW e, e = Ended(s, n, n)
    PROVE  FromString(s, "utf8") = T[e] /\ e \in 0..n /\ T[e] \in Seq(Octet)
<1>1. e \in 0..n /\ T[e] \in Seq(Octet) /\ Utf8ToBytes(s, 0) = T[e] /\ Utf8ToBytes(s, Len(T[e])) = T[e]
  BY Utf8All
<1>2. CASE s = <<>>
  <2>1. e = 0 /\ T[0] = <<>>
    BY <1>1, <1>2 DEF Totals
  <2>2. Encode(<<>>, "utf8", 0) \in Seq(Octet)
    BY <1>1, <1>2 DEF Encode
  <2> QED
    BY <1>1, <1>2, <2>1, <2>2, FromEmpty
<1>3. CASE s # <<>>
  <2>1. PICK src \in Seq(Octet) : src = T[e]
    BY <1>1
  <2>2. PICK length \in Nat : length = Len(src)
    OBVIOUS
  <2>3. length = ByteLength(s, "utf8")
    BY <1>1, <1>3, <2>1, <2>2 DEF ByteLength
  <2>4. src = Encode(s, "utf8", length)
    BY <1>1, <2>1, <2>2 DEF Encode
  <2>5. "utf8" \in Encodings /\ Len(src) <= length
    BY <2>2 DEF Encodings
  <2>6. FromString(s, "utf8") = src
    BY <2>3, <2>4, <2>5, FromIs
  <2> QED
    BY <1>1, <2>1, <2>6
<1> QED
  BY <1>2, <1>3

LEMMA PairedWellFormed ==
    ASSUME NEW d \in Seq(CodeUnit), Paired(d)
    PROVE  WellFormed(d) = d
<1>1. PICK k \in Nat : k = Len(d)
  OBVIOUS
<1>2. ASSUME NEW i \in 1..k PROVE ~Lone(d, i)
  <2>1. Lead(d[i]) => i + 1 \in 1..k /\ Trail(d[i + 1])
    BY <1>1 DEF Paired
  <2>2. Trail(d[i]) => i - 1 \in 1..k /\ Lead(d[i - 1])
    BY <1>1 DEF Paired
  <2> QED
    BY <1>1, <2>1, <2>2 DEF Lone
<1>3. PICK w : w = WellFormed(d)
  OBVIOUS
<1>4. w \in Seq(CodeUnit) /\ Len(w) = k /\ \A i \in 1..k : w[i] = IF Lone(d, i) THEN Fffd ELSE d[i]
  BY <1>1, <1>3, WellFormedIs
<1>5. Len(w) = Len(d) /\ Agrees(w, d, Len(w))
  BY <1>1, <1>2, <1>4 DEF Agrees
<1>6. w = d
  BY <1>4, <1>5, EqualSeq, Zenon
<1> QED
  BY <1>3, <1>6

(* The bytes of the first characters are those of the first code units.     *)
LEMMA PrefixBytes ==
    ASSUME NEW c \in Seq(CodeUnit), Paired(c), NEW n \in Nat, n = Len(c), NEW T, Totals(T, c, n),
           NEW k \in 0..n, End(c, k)
    PROVE  Utf8ToBytes(SubSeq(c, 1, k), 0) = T[k]
<1>1. PICK d : d = SubSeq(c, 1, k)
  OBVIOUS
<1>2. d \in Seq(CodeUnit) /\ Len(d) = k /\ \A i \in 1..k : d[i] = c[i]
  BY <1>1
<1>3. Paired(d)
  <2>1. ASSUME NEW i \in 1..k, Lead(d[i]) PROVE i + 1 \in 1..k /\ Trail(d[i + 1])
    <3>1. Lead(c[i]) /\ i \in 1..n
      BY <1>2, <2>1
    <3>2. Trail(c[i + 1])
      BY <3>1 DEF Paired
    <3>3. i # k
      BY <3>1 DEF End
    <3>4. i + 1 \in 1..k
      BY <3>3
    <3> QED
      BY <1>2, <3>2, <3>4
  <2>2. ASSUME NEW i \in 1..k, Trail(d[i]) PROVE i - 1 \in 1..k /\ Lead(d[i - 1])
    <3>1. Trail(c[i]) /\ i \in 1..n
      BY <1>2, <2>2
    <3>2. Lead(c[i - 1]) /\ i - 1 \in 1..n
      BY <3>1 DEF Paired
    <3>3. i - 1 \in 1..k
      BY <3>2
    <3> QED
      BY <1>2, <3>2, <3>3
  <2> QED
    BY <1>2, <2>1, <2>2 DEF Paired
<1>4. d = WellFormed(d)
  BY <1>2, <1>3, PairedWellFormed
<1>5. Totals(T, d, k)
  <2>1. ASSUME NEW i \in 1..k PROVE T[i] = T[i - 1] \o Chunk(d, i)
    <3>1. i \in 1..n /\ d[i] = c[i]
      BY <1>2
    <3>2. T[i] = T[i - 1] \o Chunk(c, i)
      BY <3>1 DEF Totals
    <3>3. Trail(c[i]) => d[i - 1] = c[i - 1]
      <4>1. SUFFICES ASSUME Trail(c[i]) PROVE d[i - 1] = c[i - 1]
        OBVIOUS
      <4>2. i - 1 \in 1..n
        BY <3>1, <4>1 DEF Paired
      <4>3. i - 1 \in 1..k
        BY <4>2
      <4> QED
        BY <1>2, <4>3
    <3>4. Chunk(d, i) = Chunk(c, i)
      BY <3>1, <3>3 DEF Chunk
    <3> QED
      BY <3>2, <3>4
  <2> QED
    BY <2>1 DEF Totals
<1>6. k = Ended(d, k, k)
  <2>1. k > 0 => ~Lead(d[k])
    BY <1>2 DEF End
  <2> QED
    BY <2>1 DEF Ended
<1>7. k \in Nat /\ k = Len(d)
  BY <1>2
<1>8. Utf8ToBytes(d, 0) = T[k]
  BY <1>2, <1>4, <1>5, <1>6, <1>7, Utf8All
<1> QED
  BY <1>1, <1>8

-----------------------------------------------------------------------------
(* write.                                                                   *)

SliceOf(S, w, b, o, n) == w \in Seq(S) /\ Len(w) = n /\ \A j \in 1..n : w[j] = b[o + j]

LEMMA Sliced ==
    ASSUME NEW S, NEW b \in Seq(S), NEW o \in Nat, NEW n \in Nat, o + n <= Len(b),
           NEW w, w = SubSeq(b, o + 1, o + n)
    PROVE  SliceOf(S, w, b, o, n)
<1>1. \A j \in 1..n : b[o + j] \in S
  <2>1. \A j \in 1..n : o + j \in 1..Len(b)
    OBVIOUS
  <2> QED
    BY <2>1
<1>2. w = [j \in 1..(o + n - (o + 1) + 1) |-> b[(o + 1) + j - 1]]
  OBVIOUS
<1>3. o + n - (o + 1) + 1 = n /\ \A j \in 1..n : (o + 1) + j - 1 = o + j
  OBVIOUS
<1>4. w = [j \in 1..n |-> b[o + j]]
  BY <1>2, <1>3
<1>5. w \in [1..n -> S]
  BY <1>1, <1>4
<1> QED
  BY <1>4, <1>5, Listed DEF SliceOf

LEMMA WriteIs ==
    ASSUME NEW a \in Seq(Octet), NEW s, NEW o \in 0..Len(a), NEW length \in Nat, NEW encoding,
           NEW src \in Seq(Octet), src = Encode(s, encoding, Len(a) - o),
           NEW n, n = WrittenCount(a, s, o, length, encoding),
           NEW b, b = WriteString(a, s, o, length, encoding)
    PROVE  /\ n \in Nat /\ n <= Len(src) /\ n <= Len(a) - o
           /\ b \in Seq(Octet) /\ Len(b) = Len(a)
           /\ \A i \in 1..Len(a) : b[i] = IF i - o \in 1..n THEN src[i - o] ELSE a[i]
<1>1. n \in Nat /\ n <= Len(src) /\ n <= Len(a) - o
  <2>1. PICK r \in Nat : r = Len(a) - o
    OBVIOUS
  <2>2. PICK l \in Nat : l = Len(src)
    OBVIOUS
  <2>3. PICK limit : limit = IF encoding = "hex" /\ length = 0 THEN r ELSE Least(length, r)
    OBVIOUS
  <2>4. limit \in Nat /\ limit <= r
    BY <2>3 DEF Least
  <2>5. n = Least(limit, l)
    BY <2>1, <2>2, <2>3 DEF WrittenCount
  <2>6. n \in Nat /\ n <= l /\ n <= r
    BY <2>4, <2>5 DEF Least
  <2> QED
    BY <2>1, <2>2, <2>6
<1>2. PICK N \in Nat : N = Len(a)
  OBVIOUS
<1>3. b = [i \in 1..N |-> IF i - o \in 1..n THEN src[i - o] ELSE a[i]]
  BY <1>2 DEF WriteString
<1>4. \A i \in 1..N : (IF i - o \in 1..n THEN src[i - o] ELSE a[i]) \in Octet
  <2>1. \A i \in 1..N : a[i] \in Octet
    BY <1>2
  <2>2. \A j \in 1..n : src[j] \in Octet
    BY <1>1
  <2> QED
    BY <2>1, <2>2
<1>5. b \in [1..N -> Octet]
  BY <1>3, <1>4
<1>6. b \in Seq(Octet) /\ Len(b) = N
  BY <1>5, Listed
<1>7. \A i \in 1..N : b[i] = IF i - o \in 1..n THEN src[i - o] ELSE a[i]
  BY <1>3
<1> QED
  BY <1>1, <1>2, <1>6, <1>7

(* write of utf8: whole characters, and nothing else is touched.            *)
WholeBytes(c) == {Utf8ToBytes(SubSeq(c, 1, k), 0) : k \in {k \in 0..Len(c) : k = 0 \/ ~Lead(c[k])}}

LEMMA WritesWhole ==
    ASSUME NEW a \in Seq(Octet), NEW s \in Seq(CodeUnit), NEW o \in 0..Len(a),
           NEW room, room = Len(a) - o,
           NEW n, n = WrittenCount(a, s, o, room, "utf8"),
           NEW b, b = WriteString(a, s, o, room, "utf8"),
           NEW c, c = WellFormed(s)
    PROVE  /\ SubSeq(b, o + 1, o + n) \in WholeBytes(c)
           /\ n <= room
           /\ \A i \in 1..Len(b) : i <= o \/ i > o + n => b[i] = a[i]
<1>1. room \in Nat
  OBVIOUS
<1>2. PICK src \in Seq(Octet) : src = Utf8ToBytes(s, room)
  BY <1>1, Utf8Typed
<1>3. src = Encode(s, "utf8", Len(a) - o)
  BY <1>2 DEF Encode
<1>4. /\ n \in Nat /\ n <= Len(src) /\ n <= room
      /\ b \in Seq(Octet) /\ Len(b) = Len(a)
      /\ \A i \in 1..Len(a) : b[i] = IF i - o \in 1..n THEN src[i - o] ELSE a[i]
  BY <1>1, <1>3, WriteIs
<1>5. n = Least(room, Len(src))
  <2>1. WrittenCount(a, s, o, room, "utf8") = Least(Least(room, room), Len(src))
    BY <1>3 DEF WrittenCount
  <2>2. Least(room, room) = room
    BY DEF Least
  <2> QED
    BY <2>1, <2>2
<1>6. PICK m \in Nat : m = Len(s)
  OBVIOUS
<1>7. c \in Seq(CodeUnit) /\ Paired(c) /\ m = Len(c)
  BY <1>6, WellFormedIs, WellFormedPaired
<1>8. PICK T : Totals(T, c, m)
  BY TotalsExist
<1>9. ASSUME NEW k \in 0..m, End(c, k) PROVE T[k] \in WholeBytes(c)
  <2>1. Utf8ToBytes(SubSeq(c, 1, k), 0) = T[k]
    BY <1>7, <1>8, <1>9, PrefixBytes
  <2>2. k \in {x \in 0..Len(c) : x = 0 \/ ~Lead(c[x])}
    BY <1>7, <1>9 DEF End
  <2> QED
    BY <2>1, <2>2, Zenon DEF WholeBytes
<1>10. SubSeq(b, o + 1, o + n) \in WholeBytes(c)
  <2>1. CASE room = 0
    <3>1. n = 0
      BY <1>1, <1>4, <2>1
    <3>2. SubSeq(b, o + 1, o + n) = <<>>
      BY <1>4, <3>1
    <3>3. T[0] = <<>> /\ End(c, 0) /\ 0 \in 0..m
      BY <1>8 DEF Totals, End
    <3> QED
      BY <1>9, <3>2, <3>3
  <2>2. CASE room # 0
    <3>1. room = Room(m, room)
      BY <2>2 DEF Room
    <3>2. WritesOf(src, s, c, T, m, room)
      BY <1>1, <1>2, <1>6, <1>8, <3>1, Utf8Writes, Zenon
    <3>3. End(c, Ended(s, m, m)) /\ Ended(s, m, m) \in 0..m
      BY <1>6, Ends
    <3>4. PICK k \in 0..m : End(c, k) /\ src = T[k] /\ Len(src) <= room
      BY <3>2, <3>3 DEF WritesOf
    <3>5. n = Len(src)
      BY <1>1, <1>5, <3>4 DEF Least
    <3>6. SubSeq(b, o + 1, o + n) = src
      <4>1. PICK w : w = SubSeq(b, o + 1, o + n)
        OBVIOUS
      <4>2. o + n <= Len(b) /\ o \in Nat
        BY <1>4
      <4>3. w \in Seq(Octet) /\ Len(w) = n /\ \A j \in 1..n : w[j] = b[o + j]
        <5>1. b \in Seq(Octet) /\ n \in Nat
          BY <1>4
        <5>2. SliceOf(Octet, w, b, o, n)
          BY <4>1, <4>2, <5>1, Sliced, Zenon
        <5> QED
          BY <5>2 DEF SliceOf
      <4>4. \A j \in 1..n : b[o + j] = src[j]
        <5>1. \A j \in 1..n : o + j \in 1..Len(a) /\ (o + j) - o = j
          BY <1>4, <4>2
        <5> QED
          BY <1>4, <5>1
      <4>5. Len(w) = Len(src) /\ Agrees(w, src, Len(w))
        BY <3>5, <4>3, <4>4 DEF Agrees
      <4>6. w = src
        BY <4>3, <4>5, EqualSeq, Zenon
      <4> QED
        BY <4>1, <4>6
    <3> QED
      BY <1>9, <3>4, <3>6
  <2> QED
    BY <2>1, <2>2
<1>11. \A i \in 1..Len(b) : i <= o \/ i > o + n => b[i] = a[i]
  <2>1. \A i \in 1..Len(b) : i <= o \/ i > o + n => i - o \notin 1..n
    BY <1>4
  <2> QED
    BY <1>4, <2>1
<1> QED
  BY <1>4, <1>10, <1>11

-----------------------------------------------------------------------------
(* utf8Slice.                                                               *)

LEMMA SixFacts ==
    ASSUME NEW y \in SixBits
    PROVE  (y + 128) \div 64 = 2 /\ (y + 128) % 64 = y
BY SMT DEF SixBits

LEMMA HeadFacts ==
    /\ \A x \in OneByte : BytesPerSequence(x) = 1
    /\ \A x \in Heads(2, 32) : BytesPerSequence(x + 192) = 2 /\ (x + 192) % 32 = x
    /\ \A x \in Heads(0, 16) : BytesPerSequence(x + 224) = 3 /\ (x + 224) % 16 = x
    /\ \A x \in Heads(0, 5) : BytesPerSequence(x + 240) = 4 /\ (x + 240) % 16 = x
<1>1. \A x \in OneByte : BytesPerSequence(x) = 1
  BY SMT DEF BytesPerSequence, OneByte
<1>2. \A x \in Heads(2, 32) : BytesPerSequence(x + 192) = 2 /\ (x + 192) % 32 = x
  BY SMT DEF BytesPerSequence, Heads
<1>3. \A x \in Heads(0, 16) : BytesPerSequence(x + 224) = 3 /\ (x + 224) % 16 = x
  BY SMT DEF BytesPerSequence, Heads
<1>4. \A x \in Heads(0, 5) : BytesPerSequence(x + 240) = 4 /\ (x + 240) % 16 = x
  BY SMT DEF BytesPerSequence, Heads
<1> QED
  BY <1>1, <1>2, <1>3, <1>4, Zenon

Two(x, y) == (x % 32) * 64 + (y % 64)
Three(x, y, z) == (x % 16) * 4096 + (y % 64) * 64 + (z % 64)
Four(x, y, z, w) == (x % 16) * 262144 + (y % 64) * 4096 + (z % 64) * 64 + (w % 64)

LEMMA CodePointIs ==
    ASSUME NEW b, NEW i \in Int
    PROVE  /\ CodePoint(b, i, 1) = IF b[i] < 128 THEN b[i] ELSE -1
           /\ CodePoint(b, i, 2) = IF b[i + 1] \div 64 = 2 /\ Two(b[i], b[i + 1]) > 127
                                   THEN Two(b[i], b[i + 1]) ELSE -1
           /\ CodePoint(b, i, 3) =
                 IF /\ b[i + 1] \div 64 = 2 /\ b[i + 2] \div 64 = 2
                    /\ Three(b[i], b[i + 1], b[i + 2]) > 2047
                    /\ ~Lead(Three(b[i], b[i + 1], b[i + 2])) /\ ~Trail(Three(b[i], b[i + 1], b[i + 2]))
                 THEN Three(b[i], b[i + 1], b[i + 2]) ELSE -1
           /\ CodePoint(b, i, 4) =
                 IF /\ b[i + 1] \div 64 = 2 /\ b[i + 2] \div 64 = 2 /\ b[i + 3] \div 64 = 2
                    /\ Four(b[i], b[i + 1], b[i + 2], b[i + 3]) > 65535
                    /\ Four(b[i], b[i + 1], b[i + 2], b[i + 3]) < 1114112
                 THEN Four(b[i], b[i + 1], b[i + 2], b[i + 3]) ELSE -1
<1>1. CodePoint(b, i, 1) = IF b[i] < 128 THEN b[i] ELSE -1
  BY SMT DEF CodePoint
<1>2. CodePoint(b, i, 2) = IF b[i + 1] \div 64 = 2 /\ Two(b[i], b[i + 1]) > 127
                           THEN Two(b[i], b[i + 1]) ELSE -1
  BY SMT DEF CodePoint, Two
<1>3. CodePoint(b, i, 3) =
                 IF /\ b[i + 1] \div 64 = 2 /\ b[i + 2] \div 64 = 2
                    /\ Three(b[i], b[i + 1], b[i + 2]) > 2047
                    /\ ~Lead(Three(b[i], b[i + 1], b[i + 2])) /\ ~Trail(Three(b[i], b[i + 1], b[i + 2]))
                 THEN Three(b[i], b[i + 1], b[i + 2]) ELSE -1
  BY SMT DEF CodePoint, Three
<1>4. CodePoint(b, i, 4) =
                 IF /\ b[i + 1] \div 64 = 2 /\ b[i + 2] \div 64 = 2 /\ b[i + 3] \div 64 = 2
                    /\ Four(b[i], b[i + 1], b[i + 2], b[i + 3]) > 65535
                    /\ Four(b[i], b[i + 1], b[i + 2], b[i + 3]) < 1114112
                 THEN Four(b[i], b[i + 1], b[i + 2], b[i + 3]) ELSE -1
  BY SMT DEF CodePoint, Four
<1> QED
  BY <1>1, <1>2, <1>3, <1>4, SMT

LEMMA NumbersFit ==
    /\ \A x \in Octet : \A y \in Octet : Two(x, y) \in Nat /\ Two(x, y) < 2048
    /\ \A x \in Octet : \A y \in Octet : \A z \in Octet :
          Three(x, y, z) \in Nat /\ Three(x, y, z) < 65536
    /\ \A x \in Octet : \A y \in Octet : \A z \in Octet : \A w \in Octet : Four(x, y, z, w) \in Nat
<1>0. \A x \in Octet : x % 32 \in Heads(0, 32) /\ x % 16 \in Heads(0, 16) /\ x % 64 \in Heads(0, 64)
  BY SMT DEF Octet, Heads
<1>1. \A x \in Octet : \A y \in Octet : Two(x, y) \in Nat /\ Two(x, y) < 2048
  BY <1>0, SMT DEF Two, Heads
<1>2. \A x \in Octet : \A y \in Octet : \A z \in Octet :
          Three(x, y, z) \in Nat /\ Three(x, y, z) < 65536
  BY <1>0, SMT DEF Three, Heads
<1>3. \A x \in Octet : \A y \in Octet : \A z \in Octet : \A w \in Octet : Four(x, y, z, w) \in Nat
  BY <1>0, SMT DEF Four, Heads
<1> QED
  BY <1>1, <1>2, <1>3, SMT

LEMMA CodePointTyped ==
    ASSUME NEW b \in Seq(Octet), NEW i \in 1..Len(b), NEW n \in 1..4, i + n - 1 <= Len(b)
    PROVE  CodePoint(b, i, n) \in CodePoints \/ CodePoint(b, i, n) = -1
<1>0. i \in Int /\ \A j \in 1..Len(b) : b[j] \in Octet
  OBVIOUS
<1>1. CASE n = 1
  <2>1. PICK x \in Octet : x = b[i]
    BY <1>0
  <2>2. CodePoint(b, i, 1) = IF x < 128 THEN x ELSE -1
    BY <1>0, <2>1, CodePointIs
  <2>3. x \in CodePoints
    BY SMT DEF Octet, CodePoints
  <2> QED
    BY <1>1, <2>2, <2>3
<1>2. CASE n = 2
  <2>1. PICK x \in Octet : x = b[i]
    BY <1>0
  <2>2. PICK y \in Octet : y = b[i + 1]
    <3>1. i + 1 \in 1..Len(b)
      BY <1>2
    <3> QED
      BY <1>0, <3>1
  <2>3. CodePoint(b, i, 2) = Two(x, y) \/ CodePoint(b, i, 2) = -1
    BY <1>0, <2>1, <2>2, CodePointIs
  <2>4. Two(x, y) \in CodePoints
    BY NumbersFit, SMT DEF CodePoints
  <2> QED
    BY <1>2, <2>3, <2>4
<1>3. CASE n = 3
  <2>0. i + 1 \in 1..Len(b) /\ i + 2 \in 1..Len(b)
    BY <1>3
  <2>1. PICK x \in Octet : x = b[i]
    BY <1>0
  <2>2. PICK y \in Octet : y = b[i + 1]
    BY <1>0, <2>0
  <2>3. PICK z \in Octet : z = b[i + 2]
    BY <1>0, <2>0
  <2>4. CodePoint(b, i, 3) = Three(x, y, z) \/ CodePoint(b, i, 3) = -1
    BY <1>0, <2>1, <2>2, <2>3, CodePointIs
  <2>5. Three(x, y, z) \in CodePoints
    <3>1. Three(x, y, z) \in Nat /\ Three(x, y, z) < 65536
      BY NumbersFit
    <3> QED
      BY <3>1, SMT DEF CodePoints
  <2> QED
    BY <1>3, <2>4, <2>5
<1>4. CASE n = 4
  <2>0. i + 1 \in 1..Len(b) /\ i + 2 \in 1..Len(b) /\ i + 3 \in 1..Len(b)
    BY <1>4
  <2>1. PICK x \in Octet : x = b[i]
    BY <1>0
  <2>2. PICK y \in Octet : y = b[i + 1]
    BY <1>0, <2>0
  <2>3. PICK z \in Octet : z = b[i + 2]
    BY <1>0, <2>0
  <2>4. PICK w \in Octet : w = b[i + 3]
    BY <1>0, <2>0
  <2>5. \/ CodePoint(b, i, 4) = Four(x, y, z, w) /\ Four(x, y, z, w) < 1114112
        \/ CodePoint(b, i, 4) = -1
    BY <1>0, <2>1, <2>2, <2>3, <2>4, CodePointIs
  <2>6. Four(x, y, z, w) < 1114112 => Four(x, y, z, w) \in CodePoints
    BY NumbersFit, SMT DEF CodePoints
  <2> QED
    BY <1>4, <2>5, <2>6
<1> QED
  BY <1>1, <1>2, <1>3, <1>4

LEMMA CharCodesTyped ==
    ASSUME NEW cp \in CodePoints
    PROVE  CharCodes(cp) \in Seq(CodeUnit)
<1>1. CASE cp > 65535
  <2>1. CharCodes(cp) = <<(cp - 65536) \div 1024 + 55296, ((cp - 65536) % 1024) + 56320>>
    BY <1>1, SMT DEF CharCodes
  <2>2. (cp - 65536) \div 1024 + 55296 \in CodeUnit /\ ((cp - 65536) % 1024) + 56320 \in CodeUnit
    BY <1>1, SMT DEF CodePoints, CodeUnit
  <2> QED
    BY <2>1, <2>2
<1>2. CASE ~(cp > 65535)
  <2>1. CharCodes(cp) = <<cp>>
    BY <1>2, SMT DEF CharCodes
  <2>2. cp \in CodeUnit
    BY <1>2, SMT DEF CodePoints, CodeUnit
  <2> QED
    BY <2>1, <2>2
<1> QED
  BY <1>1, <1>2

(* The character at i, and the loop of utf8Slice as a recursion.            *)
PointAt(b, i) ==
    IF i + BytesPerSequence(b[i]) - 1 <= Len(b) THEN CodePoint(b, i, BytesPerSequence(b[i])) ELSE -1
RestAt(g, b, i) ==
    IF i > Len(b) THEN <<>>
    ELSE IF PointAt(b, i) = -1 THEN <<65533>> \o g[i + 1]
    ELSE CharCodes(PointAt(b, i)) \o g[i + BytesPerSequence(b[i])]
Rests(g, b, from) == g = [i \in from..(Len(b) + 1) |-> RestAt(g, b, i)]

LEMMA StepsOn ==
    ASSUME NEW b \in Seq(Octet), NEW N \in Nat, N = Len(b), NEW i \in 1..N
    PROVE  /\ BytesPerSequence(b[i]) \in 1..4
           /\ PointAt(b, i) # -1 => i + BytesPerSequence(b[i]) \in (i + 1)..(N + 1)
           /\ PointAt(b, i) \in CodePoints \/ PointAt(b, i) = -1
<1>1. PICK k : k = BytesPerSequence(b[i])
  OBVIOUS
<1>2. k \in 1..4
  BY <1>1 DEF BytesPerSequence
<1>3. PointAt(b, i) = IF i + k - 1 <= N THEN CodePoint(b, i, k) ELSE -1
  BY <1>1 DEF PointAt
<1>4. PointAt(b, i) # -1 => i + k \in (i + 1)..(N + 1)
  BY <1>2, <1>3
<1>5. PointAt(b, i) \in CodePoints \/ PointAt(b, i) = -1
  <2>1. CASE i + k - 1 <= N
    <3>1. CodePoint(b, i, k) \in CodePoints \/ CodePoint(b, i, k) = -1
      BY <1>2, <2>1, CodePointTyped
    <3> QED
      BY <1>3, <2>1, <3>1
  <2> QED
    BY <1>3, <2>1
<1> QED
  BY <1>1, <1>2, <1>4, <1>5

LEMMA RestAtIs ==
    ASSUME NEW b \in Seq(Octet), NEW N \in Nat, N = Len(b), NEW i \in 1..(N + 1), NEW g, NEW h,
           \A j \in (i + 1)..(N + 1) : h[j] = g[j]
    PROVE  RestAt(h, b, i) = RestAt(g, b, i)
<1>1. CASE i > N
  BY <1>1 DEF RestAt
<1>2. CASE ~(i > N)
  <2>1. i \in 1..N
    BY <1>2
  <2>2. PointAt(b, i) # -1 => i + BytesPerSequence(b[i]) \in (i + 1)..(N + 1)
    BY <2>1, StepsOn
  <2>3. i + 1 \in (i + 1)..(N + 1)
    BY <2>1
  <2> QED
    BY <1>2, <2>2, <2>3 DEF RestAt
<1> QED
  BY <1>1, <1>2

LEMMA RestsExist ==
    ASSUME NEW b \in Seq(Octet)
    PROVE  \E g : Rests(g, b, 1)
<1>0. PICK N \in Nat : N = Len(b)
  OBVIOUS
<1>1. PICK T : T = {d \in 0..N : \E g : Rests(g, b, N + 1 - d)}
  OBVIOUS
<1>2. 0 \in T
  <2>1. PICK g : g = [i \in (N + 1)..(N + 1) |-> <<>>]
    OBVIOUS
  <2>2. \A i \in (N + 1)..(N + 1) : RestAt(g, b, i) = <<>>
    BY <1>0 DEF RestAt
  <2>3. g = [i \in (N + 1)..(N + 1) |-> RestAt(g, b, i)]
    BY <2>1, <2>2
  <2>4. N + 1 - 0 = N + 1
    OBVIOUS
  <2>5. Rests(g, b, N + 1 - 0)
    BY <1>0, <2>3, <2>4 DEF Rests
  <2> QED
    BY <1>1, <2>5
<1>3. ASSUME NEW d \in 0..(N - 1), d \in T PROVE d + 1 \in T
  <2>0. PICK m \in 1..N : m = N + 1 - (d + 1) /\ m + 1 = N + 1 - d
    OBVIOUS
  <2>1. PICK g : Rests(g, b, m + 1)
    BY <1>1, <1>3, <2>0
  <2>2. PICK h : h = [i \in m..(N + 1) |-> IF i = m THEN RestAt(g, b, i) ELSE g[i]]
    OBVIOUS
  <2>3. \A i \in (m + 1)..(N + 1) : i # m /\ i \in m..(N + 1) /\ h[i] = g[i]
    BY <2>2
  <2>4. ASSUME NEW i \in m..(N + 1) PROVE RestAt(h, b, i) = RestAt(g, b, i)
    <3>1. i \in 1..(N + 1)
      OBVIOUS
    <3>2. \A j \in (i + 1)..(N + 1) : h[j] = g[j]
      BY <2>3
    <3> QED
      BY <1>0, <3>1, <3>2, RestAtIs
  <2>5. ASSUME NEW i \in m..(N + 1) PROVE h[i] = RestAt(h, b, i)
    <3>1. CASE i = m
      BY <2>2, <2>4, <3>1
    <3>2. CASE i # m
      <4>1. i \in (m + 1)..(N + 1)
        BY <3>2
      <4>2. g[i] = RestAt(g, b, i)
        BY <1>0, <2>1, <4>1 DEF Rests
      <4> QED
        BY <2>3, <2>4, <4>1, <4>2
    <3> QED
      BY <3>1, <3>2
  <2>6. h = [i \in m..(N + 1) |-> RestAt(h, b, i)]
    <3>1. h = [i \in m..(N + 1) |-> h[i]]
      BY <2>2
    <3> QED
      BY <2>5, <3>1
  <2>7. Rests(h, b, N + 1 - (d + 1))
    BY <1>0, <2>0, <2>6 DEF Rests
  <2>8. d + 1 \in 0..N
    OBVIOUS
  <2> QED
    BY <1>1, <2>7, <2>8
<1>4. \A d \in 0..N : d \in T
  BY <1>2, <1>3, UpTo
<1>5. N \in T
  BY <1>4
<1>6. N + 1 - N = 1
  OBVIOUS
<1>7. \E g : Rests(g, b, N + 1 - N)
  BY <1>1, <1>5, Zenon
<1> QED
  BY <1>6, <1>7

(* The text from each byte on.                                              *)
SliceRun(g, b) == \A i \in 1..(Len(b) + 1) : g[i] = RestAt(g, b, i)

LEMMA SliceReads ==
    ASSUME NEW b \in Seq(Octet)
    PROVE  \E g : SliceRun(g, b) /\ Utf8Slice(b) = g[1]
<1>1. PICK g : g = CHOOSE h : Rests(h, b, 1)
  OBVIOUS
<1>2. Rests(g, b, 1)
  BY <1>1, RestsExist
<1>3. Utf8Slice(b) = g[1]
  BY <1>1 DEF Utf8Slice, Rests, RestAt, PointAt
<1>4. SliceRun(g, b)
  BY <1>2 DEF Rests, SliceRun
<1> QED
  BY <1>3, <1>4

LEMMA ReadTyped ==
    ASSUME NEW b \in Seq(Octet), NEW g, SliceRun(g, b)
    PROVE  \A i \in 1..(Len(b) + 1) : g[i] \in Seq(CodeUnit)
<1>0. PICK N \in Nat : N = Len(b)
  OBVIOUS
<1>1. \A i \in 1..(N + 1) : g[i] = RestAt(g, b, i)
  BY <1>0 DEF SliceRun
<1>2. PICK T : T = {d \in 0..N : \A i \in (N + 1 - d)..(N + 1) : g[i] \in Seq(CodeUnit)}
  OBVIOUS
<1>3. 0 \in T
  <2>1. g[N + 1] = <<>>
    <3>1. PICK i \in 1..(N + 1) : i = N + 1
      OBVIOUS
    <3>2. i > Len(b)
      BY <1>0, <3>1
    <3>3. RestAt(g, b, i) = <<>>
      BY <3>2 DEF RestAt
    <3>4. g[i] = RestAt(g, b, i)
      BY <1>1
    <3> QED
      BY <3>1, <3>3, <3>4
  <2>2. \A i \in (N + 1 - 0)..(N + 1) : i = N + 1
    OBVIOUS
  <2>3. <<>> \in Seq(CodeUnit)
    OBVIOUS
  <2>4. \A i \in (N + 1 - 0)..(N + 1) : g[i] \in Seq(CodeUnit)
    BY <2>1, <2>2, <2>3, Zenon
  <2>5. 0 \in 0..N
    OBVIOUS
  <2> QED
    BY <1>2, <2>4, <2>5, Zenon
<1>4. ASSUME NEW d \in 0..(N - 1), d \in T PROVE d + 1 \in T
  <2>1. PICK m \in 1..N : m = N + 1 - (d + 1) /\ m + 1 = N + 1 - d
    OBVIOUS
  <2>2. \A i \in (m + 1)..(N + 1) : g[i] \in Seq(CodeUnit)
    BY <1>2, <1>4, <2>1
  <2>3. g[m] = RestAt(g, b, m) /\ ~(m > N)
    BY <1>1
  <2>4. /\ PointAt(b, m) # -1 => m + BytesPerSequence(b[m]) \in (m + 1)..(N + 1)
        /\ PointAt(b, m) \in CodePoints \/ PointAt(b, m) = -1
    BY <1>0, StepsOn
  <2>5. g[m] \in Seq(CodeUnit)
    <3>1. CASE PointAt(b, m) = -1
      <4>1. g[m] = <<65533>> \o g[m + 1]
        BY <1>0, <2>3, <3>1 DEF RestAt
      <4>2. <<65533>> \in Seq(CodeUnit)
        BY UnitFacts
      <4>3. g[m + 1] \in Seq(CodeUnit)
        BY <2>2
      <4> QED
        BY <4>1, <4>2, <4>3, Chain
    <3>2. CASE PointAt(b, m) # -1
      <4>1. g[m] = CharCodes(PointAt(b, m)) \o g[m + BytesPerSequence(b[m])]
        BY <1>0, <2>3, <3>2 DEF RestAt
      <4>2. CharCodes(PointAt(b, m)) \in Seq(CodeUnit)
        BY <2>4, <3>2, CharCodesTyped
      <4>3. g[m + BytesPerSequence(b[m])] \in Seq(CodeUnit)
        BY <2>2, <2>4, <3>2
      <4> QED
        BY <4>1, <4>2, <4>3, Chain
    <3> QED
      BY <3>1, <3>2
  <2>6. \A i \in (N + 1 - (d + 1))..(N + 1) : i = m \/ i \in (m + 1)..(N + 1)
    BY <2>1
  <2>7. d + 1 \in 0..N
    OBVIOUS
  <2> QED
    BY <1>2, <2>2, <2>5, <2>6, <2>7
<1>5. \A d \in 0..N : d \in T
  BY <1>3, <1>4, UpTo
<1>6. N \in T
  BY <1>5
<1>7. N + 1 - N = 1
  OBVIOUS
<1>8. \A i \in (N + 1 - N)..(N + 1) : g[i] \in Seq(CodeUnit)
  BY <1>2, <1>6
<1> QED
  BY <1>0, <1>7, <1>8

LEMMA SliceTyped ==
    ASSUME NEW b \in Seq(Octet)
    PROVE  Utf8Slice(b) \in Seq(CodeUnit)
<1>1. PICK g : SliceRun(g, b) /\ Utf8Slice(b) = g[1]
  BY SliceReads
<1>2. 1 \in 1..(Len(b) + 1)
  OBVIOUS
<1> QED
  BY <1>1, <1>2, ReadTyped

(* The bytes h stand in b behind o.                                         *)
Stand(h, b, o) == o + Len(h) <= Len(b) /\ \A q \in 1..Len(h) : b[o + q] = h[q]

(* utf8Slice reads the code point that was encoded.                         *)
LEMMA PointRead ==
    ASSUME NEW b \in Seq(Octet), NEW o \in Nat, NEW cp \in CodePoints, ~Lead(cp), ~Trail(cp),
           NEW h, h = EncodeUtf8(cp), Stand(h, b, o), NEW p, p = o + 1
    PROVE  PointAt(b, p) = cp /\ BytesPerSequence(b[p]) = Len(h)
<1>0. p \in Int
  OBVIOUS
<1>1. CASE cp \in OneByte
  <2>1. h = <<cp>> /\ Len(h) = 1 /\ h[1] = cp
    BY <1>1, EncodeOne
  <2>2. b[p] = cp /\ p + 1 - 1 <= Len(b)
    BY <2>1 DEF Stand
  <2>3. BytesPerSequence(b[p]) = 1
    BY <1>1, <2>2, HeadFacts, Zenon
  <2>4. CodePoint(b, p, 1) = IF b[p] < 128 THEN b[p] ELSE -1
    BY <1>0, CodePointIs, SMT
  <2>5. CodePoint(b, p, 1) = cp
    BY <1>1, <2>2, <2>4 DEF OneByte
  <2>6. PointAt(b, p) = CodePoint(b, p, 1)
    BY <2>2, <2>3 DEF PointAt
  <2> QED
    BY <2>1, <2>3, <2>5, <2>6
<1>2. CASE cp \in TwoByte
  <2>1. PICK x \in Heads(2, 32) : \E y \in SixBits : cp = x * 64 + y /\ h = <<x + 192, y + 128>>
    BY <1>2, EncodeTwo
  <2>2. PICK y \in SixBits : cp = x * 64 + y /\ h = <<x + 192, y + 128>>
    BY <2>1
  <2>3. Len(h) = 2 /\ h[1] = x + 192 /\ h[2] = y + 128
    BY <2>2
  <2>4. b[o + 1] = x + 192 /\ b[o + 2] = y + 128 /\ o + 2 <= Len(b)
    BY <2>3 DEF Stand
  <2>5. b[p] = x + 192 /\ b[p + 1] = y + 128 /\ p + 2 - 1 <= Len(b)
    <3>1. p = o + 1 /\ p + 1 = o + 2 /\ p + 2 - 1 = o + 2
      OBVIOUS
    <3> QED
      BY <2>4, <3>1
  <2>6. BytesPerSequence(b[p]) = 2 /\ (x + 192) % 32 = x
    BY <2>5, HeadFacts, Zenon
  <2>7. (y + 128) \div 64 = 2 /\ (y + 128) % 64 = y
    BY SixFacts
  <2>8. CodePoint(b, p, 2) = IF b[p + 1] \div 64 = 2 /\ Two(b[p], b[p + 1]) > 127
                             THEN Two(b[p], b[p + 1]) ELSE -1
    BY <1>0, CodePointIs, SMT
  <2>9. Two(b[p], b[p + 1]) = cp
    BY <2>2, <2>5, <2>6, <2>7, SMT DEF Two
  <2>10. cp > 127
    BY <1>2, SMT DEF TwoByte
  <2>11. CodePoint(b, p, 2) = cp
    BY <2>5, <2>7, <2>8, <2>9, <2>10
  <2>12. PointAt(b, p) = CodePoint(b, p, 2)
    BY <2>5, <2>6 DEF PointAt
  <2> QED
    BY <2>3, <2>6, <2>11, <2>12
<1>3. CASE cp \in ThreeByte
  <2>1. PICK x \in Heads(0, 16) : \E y \in SixBits : \E z \in SixBits :
              cp = x * 4096 + y * 64 + z /\ h = <<x + 224, y + 128, z + 128>>
    BY <1>3, EncodeThree
  <2>2. PICK y \in SixBits : \E z \in SixBits :
              cp = x * 4096 + y * 64 + z /\ h = <<x + 224, y + 128, z + 128>>
    BY <2>1
  <2>3. PICK z \in SixBits : cp = x * 4096 + y * 64 + z /\ h = <<x + 224, y + 128, z + 128>>
    BY <2>2
  <2>4. Len(h) = 3 /\ h[1] = x + 224 /\ h[2] = y + 128 /\ h[3] = z + 128
    BY <2>3
  <2>5. b[o + 1] = x + 224 /\ b[o + 2] = y + 128 /\ b[o + 3] = z + 128 /\ o + 3 <= Len(b)
    BY <2>4 DEF Stand
  <2>6. b[p] = x + 224 /\ b[p + 1] = y + 128 /\ b[p + 2] = z + 128 /\ p + 3 - 1 <= Len(b)
    <3>1. p = o + 1 /\ p + 1 = o + 2 /\ p + 2 = o + 3 /\ p + 3 - 1 = o + 3
      OBVIOUS
    <3> QED
      BY <2>5, <3>1
  <2>7. BytesPerSequence(b[p]) = 3 /\ (x + 224) % 16 = x
    <3>1. BytesPerSequence(x + 224) = 3 /\ (x + 224) % 16 = x
      BY HeadFacts, SMT
    <3> QED
      BY <2>6, <3>1
  <2>8. /\ (y + 128) \div 64 = 2 /\ (y + 128) % 64 = y
        /\ (z + 128) \div 64 = 2 /\ (z + 128) % 64 = z
    BY SixFacts
  <2>9. PICK v : v = Three(b[p], b[p + 1], b[p + 2])
    OBVIOUS
  <2>10. CodePoint(b, p, 3) = IF /\ b[p + 1] \div 64 = 2 /\ b[p + 2] \div 64 = 2
                                 /\ v > 2047 /\ ~Lead(v) /\ ~Trail(v)
                              THEN v ELSE -1
    BY <1>0, <2>9, CodePointIs, SMT
  <2>11. v = cp
    BY <2>3, <2>6, <2>7, <2>8, <2>9, SMT DEF Three
  <2>12. cp > 2047
    BY <1>3, SMT DEF ThreeByte
  <2>13. CodePoint(b, p, 3) = cp
    BY <2>6, <2>8, <2>10, <2>11, <2>12
  <2>14. PointAt(b, p) = CodePoint(b, p, 3)
    BY <2>6, <2>7 DEF PointAt
  <2> QED
    BY <2>4, <2>7, <2>13, <2>14
<1>4. CASE cp \in FourByte
  <2>1. PICK x \in Heads(0, 5) : \E y \in SixBits : \E z \in SixBits : \E w \in SixBits :
              cp = x * 262144 + y * 4096 + z * 64 + w /\ h = <<x + 240, y + 128, z + 128, w + 128>>
    BY <1>4, EncodeFour
  <2>2. PICK y \in SixBits : \E z \in SixBits : \E w \in SixBits :
              cp = x * 262144 + y * 4096 + z * 64 + w /\ h = <<x + 240, y + 128, z + 128, w + 128>>
    BY <2>1
  <2>3. PICK z \in SixBits : \E w \in SixBits :
              cp = x * 262144 + y * 4096 + z * 64 + w /\ h = <<x + 240, y + 128, z + 128, w + 128>>
    BY <2>2
  <2>4. PICK w \in SixBits :
              cp = x * 262144 + y * 4096 + z * 64 + w /\ h = <<x + 240, y + 128, z + 128, w + 128>>
    BY <2>3
  <2>5. Len(h) = 4 /\ h[1] = x + 240 /\ h[2] = y + 128 /\ h[3] = z + 128 /\ h[4] = w + 128
    BY <2>4
  <2>6. /\ b[o + 1] = x + 240 /\ b[o + 2] = y + 128 /\ b[o + 3] = z + 128 /\ b[o + 4] = w + 128
        /\ o + 4 <= Len(b)
    BY <2>5 DEF Stand
  <2>7. /\ b[p] = x + 240 /\ b[p + 1] = y + 128 /\ b[p + 2] = z + 128 /\ b[p + 3] = w + 128
        /\ p + 4 - 1 <= Len(b)
    <3>1. p = o + 1 /\ p + 1 = o + 2 /\ p + 2 = o + 3 /\ p + 3 = o + 4 /\ p + 4 - 1 = o + 4
      OBVIOUS
    <3> QED
      BY <2>6, <3>1
  <2>8. BytesPerSequence(b[p]) = 4 /\ (x + 240) % 16 = x
    <3>1. BytesPerSequence(x + 240) = 4 /\ (x + 240) % 16 = x
      BY HeadFacts, SMT
    <3> QED
      BY <2>7, <3>1
  <2>9. /\ (y + 128) \div 64 = 2 /\ (y + 128) % 64 = y
        /\ (z + 128) \div 64 = 2 /\ (z + 128) % 64 = z
        /\ (w + 128) \div 64 = 2 /\ (w + 128) % 64 = w
    BY SixFacts
  <2>10. PICK v : v = Four(b[p], b[p + 1], b[p + 2], b[p + 3])
    OBVIOUS
  <2>11. CodePoint(b, p, 4) =
            IF /\ b[p + 1] \div 64 = 2 /\ b[p + 2] \div 64 = 2 /\ b[p + 3] \div 64 = 2
               /\ v > 65535 /\ v < 1114112
            THEN v ELSE -1
    BY <1>0, <2>10, CodePointIs, SMT
  <2>12. v = cp
    BY <2>4, <2>7, <2>8, <2>9, <2>10, SMT DEF Four
  <2>13. cp > 65535 /\ cp < 1114112
    BY <1>4, SMT DEF FourByte
  <2>14. CodePoint(b, p, 4) = cp
    BY <2>7, <2>9, <2>11, <2>12, <2>13
  <2>15. PointAt(b, p) = CodePoint(b, p, 4)
    BY <2>7, <2>8 DEF PointAt
  <2> QED
    BY <2>5, <2>8, <2>14, <2>15
<1>5. cp \in OneByte \/ cp \in TwoByte \/ cp \in ThreeByte \/ cp \in FourByte
  BY SMT DEF CodePoints, OneByte, TwoByte, ThreeByte, FourByte
<1> QED
  BY <1>1, <1>2, <1>3, <1>4, <1>5, Zenon

(* fromCharCode of what was encoded.                                        *)
LEMMA CodesRead ==
    /\ \A u \in CodeUnit : CharCodes(u) = <<u>>
    /\ \A l \in CodeUnit : \A t \in CodeUnit :
          Lead(l) /\ Trail(t) => CharCodes(PairPoint(l, t)) = <<l, t>>
    /\ \A l \in CodeUnit : \A t \in CodeUnit :
          Lead(l) /\ Trail(t) => ~Lead(PairPoint(l, t)) /\ ~Trail(PairPoint(l, t))
<1>1. \A u \in CodeUnit : CharCodes(u) = <<u>>
  BY SMT DEF CharCodes, CodeUnit
<1>2. ASSUME NEW l \in CodeUnit, NEW t \in CodeUnit, Lead(l), Trail(t)
      PROVE  /\ CharCodes(PairPoint(l, t)) = <<l, t>>
             /\ ~Lead(PairPoint(l, t)) /\ ~Trail(PairPoint(l, t))
  <2>1. PICK x \in Int : l = x + 55296 /\ x >= 0 /\ x < 1024
    <3>1. l - 55296 \in Int /\ l = (l - 55296) + 55296 /\ l - 55296 >= 0 /\ l - 55296 < 1024
      BY <1>2, SMT DEF CodeUnit, Lead
    <3> QED
      BY <3>1, SMT
  <2>2. PICK y \in Int : t = y + 56320 /\ y >= 0 /\ y < 1024
    <3>1. t - 56320 \in Int /\ t = (t - 56320) + 56320 /\ t - 56320 >= 0 /\ t - 56320 < 1024
      BY <1>2, SMT DEF CodeUnit, Trail
    <3> QED
      BY <3>1, SMT
  <2>3. PICK cp \in Int : cp = PairPoint(l, t) /\ cp = x * 1024 + y + 65536
    BY <2>1, <2>2, SMT DEF PairPoint
  <2>4. cp > 65535 /\ (cp - 65536) \div 1024 = x /\ (cp - 65536) % 1024 = y
    BY <2>1, <2>2, <2>3, SMT
  <2>5. CharCodes(cp) = <<l, t>>
    BY <2>1, <2>2, <2>4, SMT DEF CharCodes
  <2>6. ~Lead(cp) /\ ~Trail(cp)
    BY <2>4, SMT DEF Lead, Trail
  <2> QED
    BY <2>3, <2>5, <2>6
<1> QED
  BY <1>1, <1>2, Zenon

LEMMA StandIn ==
    ASSUME NEW t \in Seq(Octet), NEW h \in Seq(Octet), NEW b \in Seq(Octet), Begins(t \o h, b)
    PROVE  Stand(h, b, Len(t))
<1>1. PICK w : w = t \o h
  OBVIOUS
<1>2. Chained(w, t, h)
  BY <1>1, Chain
<1>3. Len(w) = Len(t) + Len(h) /\ \A q \in 1..Len(h) : w[Len(t) + q] = h[q]
  BY <1>2 DEF Chained
<1>4. Len(w) <= Len(b) /\ \A q \in 1..Len(w) : b[q] = w[q]
  BY <1>1 DEF Begins
<1>5. \A q \in 1..Len(h) : Len(t) + q \in 1..Len(w)
  BY <1>3
<1> QED
  BY <1>3, <1>4, <1>5 DEF Stand

LEMMA FrontOne ==
    ASSUME NEW c \in Seq(CodeUnit), NEW e \in Nat, e <= Len(c), NEW m \in 1..e
    PROVE  <<c[m]>> \o SubSeq(c, m + 1, e) = SubSeq(c, m, e)
<1>1. PICK l \in Nat : l = e - m /\ m + l <= Len(c) /\ m + l = e
  OBVIOUS
<1>2. PICK r : r = SubSeq(c, m + 1, m + l)
  OBVIOUS
<1>3. SliceOf(CodeUnit, r, c, m, l)
  <2>1. m \in Nat
    OBVIOUS
  <2> QED
    BY <1>1, <1>2, <2>1, Sliced, Zenon
<1>4. PICK k \in Nat : k = m - 1 /\ k + 1 = m /\ k + (l + 1) = e
  BY <1>1
<1>5. PICK w : w = SubSeq(c, k + 1, k + (l + 1))
  OBVIOUS
<1>6. l + 1 \in Nat /\ k + (l + 1) <= Len(c)
  BY <1>4
<1>7. SliceOf(CodeUnit, w, c, k, l + 1)
  BY <1>4, <1>5, <1>6, Sliced
<1>8. PICK f : f = <<c[m]>>
  OBVIOUS
<1>9. f \in Seq(CodeUnit) /\ Len(f) = 1 /\ f[1] = c[m]
  BY <1>8
<1>10. f \o r \in Seq(CodeUnit) /\ Chained(f \o r, f, r)
  <2>1. r \in Seq(CodeUnit)
    BY <1>3 DEF SliceOf
  <2> QED
    BY <1>9, <2>1, Chain, Zenon
<1>11. PICK v \in Seq(CodeUnit) : v = f \o r
  BY <1>10
<1>12. Len(v) = 1 + l /\ v[1] = c[m] /\ \A j \in 1..l : v[1 + j] = c[m + j]
  BY <1>3, <1>9, <1>10, <1>11 DEF Chained, SliceOf
<1>13. w \in Seq(CodeUnit) /\ Len(w) = l + 1 /\ \A j \in 1..(l + 1) : w[j] = c[k + j]
  BY <1>7 DEF SliceOf
<1>14. Len(v) = Len(w)
  BY <1>12, <1>13
<1>15. ASSUME NEW j \in 1..(l + 1) PROVE v[j] = w[j]
  <2>1. CASE j = 1
    BY <1>4, <1>12, <1>13, <2>1
  <2>2. CASE j # 1
    <3>1. PICK i \in 1..l : j = 1 + i /\ k + j = m + i
      <4>1. j - 1 \in 1..l /\ j = 1 + (j - 1) /\ k + j = m + (j - 1)
        BY <1>4, <2>2
      <4> QED
        BY <4>1
    <3>2. v[j] = c[m + i]
      BY <1>12, <3>1
    <3>3. w[j] = c[k + j]
      BY <1>13
    <3> QED
      BY <3>1, <3>2, <3>3
  <2> QED
    BY <2>1, <2>2
<1>16. Agrees(v, w, Len(v))
  BY <1>12, <1>15 DEF Agrees
<1>17. v = w
  BY <1>13, <1>14, <1>16, EqualSeq, Zenon
<1> QED
  BY <1>1, <1>2, <1>4, <1>5, <1>8, <1>11, <1>17

LEMMA OneTwo ==
    ASSUME NEW S, NEW x \in S, NEW y \in S
    PROVE  <<x>> \in Seq(S) /\ <<y>> \in Seq(S) /\ <<x>> \o <<y>> = <<x, y>>
<1>1. PICK f : f = <<x>>
  OBVIOUS
<1>2. PICK g : g = <<y>>
  OBVIOUS
<1>3. PICK v : v = <<x, y>>
  OBVIOUS
<1>4. /\ f \in Seq(S) /\ Len(f) = 1 /\ f[1] = x
      /\ g \in Seq(S) /\ Len(g) = 1 /\ g[1] = y
  BY <1>1, <1>2
<1>5. v \in Seq(S) /\ Len(v) = 2 /\ v[1] = x /\ v[2] = y
  BY <1>3
<1>6. PICK w : w = f \o g
  OBVIOUS
<1>7. w \in Seq(S) /\ Chained(w, f, g)
  BY <1>4, <1>6, Chain
<1>8. Len(w) = 2 /\ w[1] = x /\ w[2] = y
  BY <1>4, <1>7 DEF Chained
<1>9. \A i \in 1..2 : i = 1 \/ i = 2
  OBVIOUS
<1>10. Len(w) = Len(v) /\ Agrees(w, v, Len(w))
  BY <1>5, <1>8, <1>9 DEF Agrees
<1>11. w = v
  BY <1>5, <1>7, <1>10, EqualSeq, Zenon
<1> QED
  BY <1>1, <1>2, <1>3, <1>4, <1>6, <1>11, Zenon

LEMMA FrontOf ==
    ASSUME NEW x \in CodeUnit, NEW y \in CodeUnit, NEW r \in Seq(CodeUnit)
    PROVE  <<x>> \o (<<y>> \o r) = <<x, y>> \o r
<1>1. <<x>> \in Seq(CodeUnit) /\ <<y>> \in Seq(CodeUnit) /\ <<x>> \o <<y>> = <<x, y>>
  BY OneTwo
<1>2. PICK f \in Seq(CodeUnit) : f = <<x>>
  BY <1>1, Zenon
<1>3. PICK g \in Seq(CodeUnit) : g = <<y>>
  BY <1>1, Zenon
<1>4. f \o (g \o r) = (f \o g) \o r
  BY Associative
<1> QED
  BY <1>1, <1>2, <1>3, <1>4, Zenon

LEMMA FrontTwo ==
    ASSUME NEW c \in Seq(CodeUnit), NEW e \in Nat, e <= Len(c), NEW m \in 1..e, m + 1 <= e
    PROVE  <<c[m], c[m + 1]>> \o SubSeq(c, (m + 1) + 1, e) = SubSeq(c, m, e)
<1>1. PICK k \in 1..e : k = m + 1
  OBVIOUS
<1>2. <<c[m]>> \o SubSeq(c, k, e) = SubSeq(c, m, e)
  BY <1>1, FrontOne
<1>3. <<c[k]>> \o SubSeq(c, k + 1, e) = SubSeq(c, k, e)
  BY FrontOne
<1>4. PICK x \in CodeUnit : x = c[m]
  OBVIOUS
<1>5. PICK y \in CodeUnit : y = c[k]
  <2>1. k \in 1..Len(c)
    OBVIOUS
  <2> QED
    BY <2>1
<1>6. PICK r \in Seq(CodeUnit) : r = SubSeq(c, k + 1, e)
  <2>1. PICK l \in Nat : l = e - k /\ k + l = e /\ k \in Nat
    OBVIOUS
  <2>2. SliceOf(CodeUnit, SubSeq(c, k + 1, k + l), c, k, l)
    BY <2>1, Sliced, Zenon
  <2> QED
    BY <2>1, <2>2 DEF SliceOf
<1>7. <<x>> \o (<<y>> \o r) = <<x, y>> \o r
  BY FrontOf, Zenon
<1> QED
  BY <1>1, <1>2, <1>3, <1>4, <1>5, <1>6, <1>7, Zenon

(* From the end of the i-th code unit on, the bytes read back as the rest.  *)
BackTo(g, c, T, e, i) == g[Len(T[i]) + 1] = SubSeq(c, i + 1, e)

Continued(g, t, u, cp) == g[Len(t) + 1] = CharCodes(cp) \o g[Len(u) + 1]

LEMMA RestGoes ==
    ASSUME NEW g, NEW b, NEW p, ~(p > Len(b)), PointAt(b, p) # -1
    PROVE  RestAt(g, b, p) = CharCodes(PointAt(b, p)) \o g[p + BytesPerSequence(b[p])]
BY SMT DEF RestAt

LEMMA BackBy ==
    ASSUME NEW b \in Seq(Octet), NEW g, SliceRun(g, b),
           NEW t \in Seq(Octet), NEW u \in Seq(Octet), NEW cp \in CodePoints, ~Lead(cp), ~Trail(cp),
           u = t \o EncodeUtf8(cp), Begins(u, b)
    PROVE  Continued(g, t, u, cp)
<1>1. PICK h \in Seq(Octet) : h = EncodeUtf8(cp) /\ Len(h) >= 1
  <2>1. PICK h \in Seq(Octet) : h = EncodeUtf8(cp)
    BY EncodeTypes
  <2>2. Len(h) \in 1..4
    BY <2>1, EncodeTypes, Zenon
  <2>3. PICK l \in 1..4 : l = Len(h)
    BY <2>2, Zenon
  <2>4. Len(h) >= 1
    BY <2>3
  <2> QED
    BY <2>1, <2>4, Zenon
<1>2. u = t \o h
  BY <1>1
<1>3. PICK o \in Nat : o = Len(t)
  OBVIOUS
<1>4. Stand(h, b, o)
  BY <1>2, <1>3, StandIn
<1>5. PICK p : p = o + 1
  OBVIOUS
<1>6. PointAt(b, p) = cp /\ BytesPerSequence(b[p]) = Len(h)
  BY <1>1, <1>4, <1>5, PointRead
<1>7. Len(u) = o + Len(h) /\ Len(h) \in Nat
  <2>1. Chained(t \o h, t, h)
    BY Chain
  <2> QED
    BY <1>2, <1>3, <2>1 DEF Chained
<1>8. o + Len(h) <= Len(b) /\ Len(b) \in Nat
  BY <1>4 DEF Stand
<1>9. p \in 1..(Len(b) + 1) /\ ~(p > Len(b)) /\ p + Len(h) = Len(u) + 1
  BY <1>1, <1>5, <1>7, <1>8
<1>10. cp # -1
  BY DEF CodePoints
<1>11. g[p] = RestAt(g, b, p)
  BY <1>9 DEF SliceRun
<1>12. g[p] = CharCodes(cp) \o g[p + Len(h)]
  <2>1. PointAt(b, p) # -1
    BY <1>6, <1>10, Zenon
  <2>2. RestAt(g, b, p) = CharCodes(PointAt(b, p)) \o g[p + BytesPerSequence(b[p])]
    BY <1>9, <2>1, RestGoes, Zenon
  <2> QED
    BY <1>6, <1>11, <2>2, Zenon
<1>13. Len(t) + 1 = p /\ Len(u) + 1 = p + Len(h)
  BY <1>3, <1>5, <1>9
<1> QED
  BY <1>12, <1>13, Zenon DEF Continued

LEMMA BackStep ==
    ASSUME NEW c \in Seq(CodeUnit), Paired(c), NEW n \in Nat, n = Len(c), NEW T, Totals(T, c, n),
           NEW e \in 0..n, End(c, e), NEW b, b = T[e], NEW g, SliceRun(g, b),
           NEW i \in 0..(e - 1), End(c, i),
           \A j \in (i + 1)..e : End(c, j) => BackTo(g, c, T, e, j)
    PROVE  BackTo(g, c, T, e, i)
<1>1. \A j \in 0..n : T[j] \in Seq(Octet)
  BY TotalsAre
<1>2. b \in Seq(Octet)
  BY <1>1
<1>3. PICK m \in 1..n : m = i + 1 /\ m - 1 = i /\ m \in (i + 1)..e /\ m \in 1..e
  OBVIOUS
<1>4. \A j \in 1..n : c[j] \in CodeUnit /\ ~(Lead(c[j]) /\ Trail(c[j])) /\ c[j] \in CodePoints
  BY UnitFacts
<1>5. ~Trail(c[m])
  <2>1. SUFFICES ASSUME Trail(c[m]) PROVE FALSE
    OBVIOUS
  <2>2. i \in 1..n /\ Lead(c[i])
    BY <1>3, <2>1 DEF Paired
  <2> QED
    BY <2>2 DEF End
<1>6. T[m] = T[i] \o Chunk(c, m)
  BY <1>3 DEF Totals
<1>7. PICK t \in Seq(Octet) : t = T[i]
  BY <1>1
<1>8. CASE ~Lead(c[m])
  <2>1. PICK u \in Seq(Octet) : u = T[m]
    BY <1>1
  <2>2. PICK x \in CodeUnit : x = c[m]
    BY <1>4
  <2>3. x \in CodePoints /\ ~Lead(x) /\ ~Trail(x)
    BY <1>4, <1>5, <1>8, <2>2
  <2>4. u = t \o EncodeUtf8(x)
    BY <1>5, <1>6, <1>7, <1>8, <2>1, <2>2 DEF Chunk
  <2>5. Begins(u, b)
    <3>1. m \in 0..n /\ m <= e
      BY <1>3
    <3> QED
      BY <2>1, <3>1, TotalsGrow
  <2>6. g[Len(t) + 1] = CharCodes(x) \o g[Len(u) + 1]
    <3>1. Continued(g, t, u, x)
      BY <1>2, <2>3, <2>4, <2>5, BackBy, Zenon
    <3> QED
      BY <3>1, Zenon DEF Continued
  <2>7. End(c, m)
    BY <1>8 DEF End
  <2>8. g[Len(u) + 1] = SubSeq(c, m + 1, e)
    BY <1>3, <2>1, <2>7 DEF BackTo
  <2>9. CharCodes(x) = <<c[m]>>
    BY <2>2, CodesRead
  <2>10. <<c[m]>> \o SubSeq(c, m + 1, e) = SubSeq(c, m, e)
    <3>1. e \in Nat /\ e <= Len(c)
      OBVIOUS
    <3> QED
      BY <1>3, <3>1, FrontOne
  <2> QED
    BY <1>3, <1>7, <2>6, <2>8, <2>9, <2>10 DEF BackTo
<1>9. CASE Lead(c[m])
  <2>1. m + 1 \in 1..n /\ Trail(c[m + 1])
    BY <1>9 DEF Paired
  <2>2. m # e
    BY <1>3, <1>9 DEF End
  <2>3. PICK k \in 1..n : k = m + 1 /\ k - 1 = m /\ k \in (i + 1)..e
    BY <1>3, <2>1, <2>2
  <2>4. PICK l \in CodeUnit : l = c[m]
    BY <1>4
  <2>5. PICK x \in CodeUnit : x = c[k]
    BY <1>4
  <2>6. Lead(l) /\ Trail(x)
    BY <1>9, <2>1, <2>3, <2>4, <2>5
  <2>7. PICK cp \in CodePoints : cp = PairPoint(l, x)
    BY <2>6, PairFacts
  <2>8. ~Lead(cp) /\ ~Trail(cp) /\ CharCodes(cp) = <<l, x>>
    BY <2>6, <2>7, CodesRead, Zenon
  <2>9. PICK u \in Seq(Octet) : u = T[k]
    BY <1>1
  <2>10. u = t \o EncodeUtf8(cp)
    <3>1. Chunk(c, m) = <<>>
      BY <1>9 DEF Chunk
    <3>2. T[m] = t
      BY <1>6, <1>7, <3>1
    <3>3. T[k] = T[m] \o Chunk(c, k)
      BY <2>3 DEF Totals
    <3>4. ~Lead(c[k]) /\ Trail(c[k])
      BY <1>4, <2>5, <2>6
    <3>5. Chunk(c, k) = EncodeUtf8(PairPoint(c[m], c[k]))
      BY <2>3, <3>4 DEF Chunk
    <3> QED
      BY <2>4, <2>5, <2>7, <2>9, <3>2, <3>3, <3>5, Zenon
  <2>11. Begins(u, b)
    <3>1. k \in 0..n /\ k <= e
      BY <2>3
    <3> QED
      BY <2>9, <3>1, TotalsGrow
  <2>12. g[Len(t) + 1] = CharCodes(cp) \o g[Len(u) + 1]
    <3>1. Continued(g, t, u, cp)
      BY <1>2, <2>8, <2>10, <2>11, BackBy, Zenon
    <3> QED
      BY <3>1, Zenon DEF Continued
  <2>13. End(c, k)
    BY <1>4, <2>5, <2>6 DEF End
  <2>14. g[Len(u) + 1] = SubSeq(c, k + 1, e)
    BY <2>3, <2>9, <2>13 DEF BackTo
  <2>15. <<c[m], c[m + 1]>> \o SubSeq(c, (m + 1) + 1, e) = SubSeq(c, m, e)
    <3>1. e \in Nat /\ e <= Len(c) /\ m + 1 <= e
      BY <2>3
    <3> QED
      BY <1>3, <3>1, FrontTwo
  <2>16. <<l, x>> \o SubSeq(c, k + 1, e) = SubSeq(c, m, e)
    BY <2>3, <2>4, <2>5, <2>15, Zenon
  <2> QED
    BY <1>3, <1>7, <2>8, <2>12, <2>14, <2>16 DEF BackTo
<1> QED
  BY <1>8, <1>9

LEMMA Utf8ReadsBack ==
    ASSUME NEW c \in Seq(CodeUnit), Paired(c), NEW n \in Nat, n = Len(c), NEW T, Totals(T, c, n),
           NEW e \in 0..n, End(c, e), NEW b, b = T[e]
    PROVE  Utf8Slice(b) = SubSeq(c, 1, e)
<1>1. b \in Seq(Octet)
  BY TotalsAre
<1>2. PICK g : SliceRun(g, b) /\ Utf8Slice(b) = g[1]
  BY <1>1, SliceReads
<1>3. PICK S : S = {d \in 0..e : \A j \in (e - d)..e : End(c, j) => BackTo(g, c, T, e, j)}
  OBVIOUS
<1>4. 0 \in S
  <2>1. PICK p \in 1..(Len(b) + 1) : p = Len(b) + 1 /\ p > Len(b)
    BY <1>1
  <2>2. g[p] = <<>>
    <3>1. g[p] = RestAt(g, b, p)
      BY <1>2 DEF SliceRun
    <3> QED
      BY <2>1, <3>1 DEF RestAt
  <2>3. SubSeq(c, e + 1, e) = <<>>
    OBVIOUS
  <2>4. BackTo(g, c, T, e, e)
    BY <2>1, <2>2, <2>3 DEF BackTo
  <2>5. \A j \in (e - 0)..e : j = e
    OBVIOUS
  <2>6. 0 \in 0..e
    OBVIOUS
  <2> QED
    BY <1>3, <2>4, <2>5, <2>6, Zenon
<1>5. ASSUME NEW d \in 0..(e - 1), d \in S PROVE d + 1 \in S
  <2>1. PICK i \in 0..(e - 1) : i = e - (d + 1) /\ i + 1 = e - d
    OBVIOUS
  <2>2. \A j \in (i + 1)..e : End(c, j) => BackTo(g, c, T, e, j)
    BY <1>3, <1>5, <2>1
  <2>3. End(c, i) => BackTo(g, c, T, e, i)
    BY <1>2, <2>2, BackStep
  <2>4. \A j \in (e - (d + 1))..e : j = i \/ j \in (i + 1)..e
    BY <2>1
  <2>5. d + 1 \in 0..e
    OBVIOUS
  <2> QED
    BY <1>3, <2>2, <2>3, <2>4, <2>5, Zenon
<1>6. \A d \in 0..e : d \in S
  <2>1. e \in Nat
    OBVIOUS
  <2> QED
    BY <1>4, <1>5, <2>1, UpTo, Zenon
<1>7. e \in S
  BY <1>6
<1>8. End(c, 0) /\ e - e = 0 /\ 0 \in 0..e
  BY DEF End
<1>9. BackTo(g, c, T, e, 0)
  BY <1>3, <1>7, <1>8
<1>10. T[0] = <<>> /\ Len(T[0]) + 1 = 1 /\ 0 + 1 = 1
  BY DEF Totals
<1> QED
  BY <1>2, <1>9, <1>10 DEF BackTo

(* A string survives utf8, but for what is not well formed.                 *)
LEMMA SliceEmpty == Utf8Slice(<<>>) = <<>>
<1>1. <<>> \in Seq(Octet) /\ Len(<<>>) = 0
  OBVIOUS
<1>2. PICK b \in Seq(Octet) : b = <<>> /\ Len(b) = 0
  BY <1>1, Zenon
<1>3. PICK g : SliceRun(g, b) /\ Utf8Slice(b) = g[1]
  BY SliceReads
<1>4. 1 \in 1..(Len(b) + 1) /\ 1 > Len(b)
  BY <1>2
<1>5. g[1] = RestAt(g, b, 1)
  BY <1>3, <1>4 DEF SliceRun
<1>6. RestAt(g, b, 1) = <<>>
  BY <1>4 DEF RestAt
<1> QED
  BY <1>2, <1>3, <1>5, <1>6, Zenon

LEMMA ToStringUtf8 ==
    ASSUME NEW b \in Seq(Octet), NEW m \in Nat, Len(b) <= m
    PROVE  ToStringOf(b, "utf8", 0, m) = Utf8Slice(b)
<1>1. Least(m, Len(b)) = Len(b) /\ Least(Len(b), Len(b)) = Len(b)
  BY DEF Least
<1>2. ToStringOf(b, "utf8", 0, m) = ToStringOf(b, "utf8", 0, Len(b))
  BY <1>1 DEF ToStringOf
<1>3. ToStringOf(b, "utf8", 0, Len(b)) = IF Len(b) = 0 THEN <<>> ELSE Decode(b, "utf8")
  BY ToStringAll
<1>4. Decode(b, "utf8") = Utf8Slice(b)
  BY DEF Decode
<1>5. Len(b) = 0 => Utf8Slice(b) = <<>>
  <2>1. Len(b) = 0 => b = <<>>
    BY EmptyIs
  <2> QED
    BY <2>1, SliceEmpty
<1> QED
  BY <1>2, <1>3, <1>4, <1>5

LEMMA WellFormedFront ==
    ASSUME NEW s \in Seq(CodeUnit), NEW n \in Nat, n = Len(s), n > 1, Lead(s[n]), Lead(s[n - 1]),
           NEW c, c = WellFormed(s)
    PROVE  SubSeq(c, 1, n - 1) = WellFormed(SubSeq(s, 1, n - 1))
<1>1. PICK m \in Nat : m = n - 1 /\ m + 1 = n /\ m \in 1..n /\ m <= n
  OBVIOUS
<1>2. PICK d : d = SubSeq(s, 1, m)
  OBVIOUS
<1>3. d \in Seq(CodeUnit) /\ Len(d) = m /\ \A i \in 1..m : d[i] = s[i]
  BY <1>1, <1>2
<1>4. c \in Seq(CodeUnit) /\ Len(c) = n /\ \A i \in 1..n : c[i] = IF Lone(s, i) THEN Fffd ELSE s[i]
  BY WellFormedIs
<1>5. PICK w : w = WellFormed(d)
  OBVIOUS
<1>6. w \in Seq(CodeUnit) /\ Len(w) = m /\ \A i \in 1..m : w[i] = IF Lone(d, i) THEN Fffd ELSE d[i]
  BY <1>3, <1>5, WellFormedIs
<1>7. PICK v : v = SubSeq(c, 1, m)
  OBVIOUS
<1>8. v \in Seq(CodeUnit) /\ Len(v) = m /\ \A i \in 1..m : v[i] = c[i]
  BY <1>1, <1>4, <1>7
<1>9. ASSUME NEW i \in 1..m PROVE Lone(d, i) <=> Lone(s, i)
  <2>1. i \in 1..n /\ i # n /\ d[i] = s[i]
    BY <1>1, <1>3
  <2>2. (i = 1 \/ ~Lead(d[i - 1])) <=> (i = 1 \/ ~Lead(s[i - 1]))
    <3>1. i # 1 => i - 1 \in 1..m
      OBVIOUS
    <3> QED
      BY <1>3, <3>1
  <2>3. (i = m \/ ~Trail(d[i + 1])) <=> ~Trail(s[i + 1])
    <3>1. CASE i = m
      <4>1. i + 1 = n /\ n \in 1..n
        BY <1>1, <3>1
      <4>2. s[n] \in CodeUnit
        BY <4>1
      <4>3. ~Trail(s[n])
        BY <4>2, UnitFacts
      <4> QED
        BY <3>1, <4>1, <4>3
    <3>2. CASE i # m
      <4>1. i + 1 \in 1..m
        BY <3>2
      <4> QED
        BY <1>3, <3>2, <4>1
    <3> QED
      BY <3>1, <3>2
  <2> QED
    BY <1>3, <2>1, <2>2, <2>3 DEF Lone
<1>10. \A i \in 1..m : v[i] = w[i]
  <2>1. \A i \in 1..m : i \in 1..n
    BY <1>1
  <2> QED
    BY <1>3, <1>4, <1>6, <1>8, <1>9, <2>1
<1>11. Len(v) = Len(w) /\ Agrees(v, w, Len(v))
  BY <1>6, <1>8, <1>10 DEF Agrees
<1>12. v = w
  BY <1>6, <1>8, <1>11, EqualSeq, Zenon
<1> QED
  BY <1>1, <1>2, <1>5, <1>7, <1>12

LEMMA RoundTrip ==
    ASSUME str \in Seq(CodeUnit)
    PROVE  Utf8RoundTrip
<1>1. PICK n \in Nat : n = Len(str)
  OBVIOUS
<1>2. PICK c : c = WellFormed(str)
  OBVIOUS
<1>3. PICK T : Totals(T, c, n)
  BY TotalsExist
<1>4. PICK e : e = Ended(str, n, n)
  OBVIOUS
<1>5. PICK b \in Seq(Octet) : b = T[e] /\ FromString(str, "utf8") = b /\ e \in 0..n
  BY <1>1, <1>2, <1>3, <1>4, FromUtf8
<1>6. c \in Seq(CodeUnit) /\ Paired(c) /\ n = Len(c)
  BY <1>1, <1>2, WellFormedIs, WellFormedPaired
<1>7. End(c, e)
  BY <1>1, <1>2, <1>4, Ends
<1>8. Utf8Slice(b) = SubSeq(c, 1, e)
  BY <1>3, <1>5, <1>6, <1>7, Utf8ReadsBack
<1>9. Len(b) <= 4 * n /\ 4 * n \in Nat
  <2>1. Len(T[e]) <= 3 * e
    BY <1>3, <1>5, <1>6, TotalsAre
  <2> QED
    BY <1>5, <2>1
<1>10. ToStringOf(FromString(str, "utf8"), "utf8", 0, 4 * n) = SubSeq(c, 1, e)
  BY <1>5, <1>8, <1>9, ToStringUtf8
<1>11. PICK lost \in BOOLEAN : lost = (n > 1 /\ Lead(str[n]) /\ Lead(str[n - 1]))
  OBVIOUS
<1>12. SubSeq(c, 1, e) = WellFormed(IF lost THEN SubSeq(str, 1, n - 1) ELSE str)
  <2>1. CASE lost
    <3>1. n > 1 /\ Lead(str[n]) /\ Lead(str[n - 1])
      BY <1>11, <2>1
    <3>2. e = n - 1
      BY <1>4, <3>1 DEF Ended, Waits
    <3>3. SubSeq(c, 1, n - 1) = WellFormed(SubSeq(str, 1, n - 1))
      BY <1>1, <1>2, <3>1, WellFormedFront
    <3> QED
      BY <2>1, <3>2, <3>3
  <2>2. CASE ~lost
    <3>1. ~(n > 1 /\ Lead(str[n]) /\ Lead(str[n - 1]))
      BY <1>11, <2>2
    <3>2. e = n
      BY <1>4, <3>1 DEF Ended, Waits
    <3>3. SubSeq(c, 1, n) = c
      BY <1>6, WholeSubSeq
    <3> QED
      BY <1>2, <2>2, <3>2, <3>3
  <2> QED
    BY <2>1, <2>2
<1>13. ToStringOf(FromString(str, "utf8"), "utf8", 0, 4 * n)
         = WellFormed(IF n > 1 /\ Lead(str[n]) /\ Lead(str[n - 1]) THEN SubSeq(str, 1, n - 1) ELSE str)
  BY <1>10, <1>11, <1>12, Zenon
<1> QED
  BY <1>1, <1>13, Zenon DEF Utf8RoundTrip

-----------------------------------------------------------------------------
(* The program keeps code units in strings and bytes in Buffers.            *)

LEMMA EncodeTyped ==
    ASSUME NEW s \in Seq(CodeUnit), NEW encoding \in Encodings, NEW room \in Nat
    PROVE  Encode(s, encoding, room) \in Seq(Octet)
<1>1. /\ AsciiToBytes(s) \in Seq(Octet) /\ Utf8ToBytes(s, room) \in Seq(Octet)
      /\ Utf16leToBytes(s, room) \in Seq(Octet) /\ HexToBytes(s) \in Seq(Octet)
      /\ Base64ToBytes(s) \in Seq(Octet)
  BY AsciiBytes, Utf8Typed, Utf16Bytes, HexBytes, FromBase64
<1> QED
  BY <1>1 DEF Encode, Encodings

LEMMA FromTyped ==
    ASSUME NEW s \in Seq(CodeUnit), NEW encoding \in Encodings
    PROVE  FromString(s, encoding) \in Seq(Octet)
<1>1. CASE encoding = "utf8"
  <2>1. PICK n \in Nat : n = Len(s)
    OBVIOUS
  <2>2. PICK T : Totals(T, WellFormed(s), n)
    BY TotalsExist
  <2>3. FromString(s, "utf8") = T[Ended(s, n, n)] /\ T[Ended(s, n, n)] \in Seq(Octet)
    BY <2>1, <2>2, FromUtf8, Zenon
  <2> QED
    BY <1>1, <2>3
<1>2. CASE encoding \in {"ascii", "latin1"}
  BY <1>2, FromLatin1, AsciiBytes
<1>3. CASE encoding = "ucs2"
  <2>1. 2 * Len(s) \in Nat
    OBVIOUS
  <2> QED
    BY <1>3, <2>1, FromUcs2, Utf16Bytes
<1>4. CASE encoding = "hex"
  BY <1>4, FromHex, HexBytes
<1>5. CASE encoding = "base64"
  BY <1>5, FromBase64
<1> QED
  BY <1>1, <1>2, <1>3, <1>4, <1>5 DEF Encodings

LEMMA AsciiText ==
    ASSUME NEW b \in Seq(Octet)
    PROVE  AsciiSlice(b) \in Seq(CodeUnit)
<1>1. PICK n \in Nat : n = Len(b)
  OBVIOUS
<1>2. \A i \in 1..n : b[i] % 128 \in CodeUnit
  <2>1. \A x \in Octet : x % 128 \in CodeUnit
    BY SMT DEF Octet, CodeUnit
  <2>2. \A i \in 1..n : b[i] \in Octet
    BY <1>1
  <2> QED
    BY <2>1, <2>2
<1>3. AsciiSlice(b) \in [1..n -> CodeUnit]
  BY <1>1, <1>2 DEF AsciiSlice
<1> QED
  BY <1>3, Listed

LEMMA DecodeTyped ==
    ASSUME NEW b \in Seq(Octet), NEW encoding \in Encodings
    PROVE  Decode(b, encoding) \in Seq(CodeUnit)
<1>1. /\ Utf8Slice(b) \in Seq(CodeUnit) /\ Utf16leSlice(b) \in Seq(CodeUnit)
      /\ AsciiSlice(b) \in Seq(CodeUnit) /\ HexSlice(b) \in Seq(CodeUnit)
      /\ FromByteArray(b) \in Seq(CodeUnit)
  BY SliceTyped, Utf16Text, AsciiText, HexText, Base64Survives
<1>2. Latin1Slice(b) \in Seq(CodeUnit)
  BY Latin1Survives DEF Latin1Slice
<1> QED
  BY <1>1, <1>2 DEF Decode, Encodings

LEMMA ToStringTyped ==
    ASSUME NEW b \in Seq(Octet), NEW encoding \in Encodings, NEW start \in Int, NEW end \in Int
    PROVE  ToStringOf(b, encoding, start, end) \in Seq(CodeUnit)
<1>1. PICK s \in Nat : s = IF start < 0 THEN 0 ELSE start
  OBVIOUS
<1>2. PICK e \in Int : e = Least(end, Len(b)) /\ e <= Len(b)
  BY DEF Least
<1>3. ToStringOf(b, encoding, start, end) =
        IF s > Len(b) \/ e <= s THEN <<>> ELSE Decode(SubSeq(b, s + 1, e), encoding)
  BY <1>1, <1>2 DEF ToStringOf
<1>4. CASE s > Len(b) \/ e <= s
  BY <1>3, <1>4
<1>5. CASE ~(s > Len(b) \/ e <= s)
  <2>1. PICK n \in Nat : s + n = e
    <3>1. e - s \in Nat /\ s + (e - s) = e
      BY <1>5
    <3> QED
      BY <3>1
  <2>2. s + n <= Len(b)
    BY <1>2, <2>1
  <2>3. SliceOf(Octet, SubSeq(b, s + 1, s + n), b, s, n)
    BY <2>2, Sliced, Zenon
  <2>4. PICK w \in Seq(Octet) : w = SubSeq(b, s + 1, e)
    BY <2>1, <2>3 DEF SliceOf
  <2>5. Decode(w, encoding) \in Seq(CodeUnit)
    BY DecodeTyped
  <2> QED
    BY <1>3, <1>5, <2>4, <2>5
<1> QED
  BY <1>4, <1>5

LEMMA TextsTyped ==
    ASSUME NEW s \in Texts
    PROVE  s \in Seq(CodeUnit)
<1>1. s \in Seq(Units) /\ Units \subseteq CodeUnit
  BY StringsAssumption
<1>2. PICK n \in Nat : n = Len(s)
  BY <1>1
<1>3. s \in [1..n -> CodeUnit]
  BY <1>1, <1>2
<1> QED
  BY <1>3, Listed

LEMMA ConvertCounts ==
    ASSUME StringTypeOK, Convert
    PROVE  conversions' \in 0..MaxConversions
BY StringsAssumption DEF StringTypeOK, Convert

LEMMA StringStep ==
    ASSUME StringTypeOK, [StringNext]_stringVars
    PROVE  StringTypeOK'
<1>1. str \in Seq(CodeUnit) /\ buf \in Seq(Octet) /\ conversions \in 0..MaxConversions
  BY DEF StringTypeOK
<1>2. ASSUME NEW c \in Units, AppendUnit(c) PROVE StringTypeOK'
  <2>1. c \in CodeUnit
    BY StringsAssumption
  <2>2. str' \in Seq(CodeUnit)
    BY <1>1, <1>2, <2>1 DEF AppendUnit
  <2> QED
    BY <1>1, <1>2, <2>2 DEF AppendUnit, StringTypeOK
<1>3. ASSUME NEW o \in Octets, AppendOctet(o) PROVE StringTypeOK'
  <2>1. o \in Octet
    BY StringsAssumption
  <2>2. buf' \in Seq(Octet)
    BY <1>1, <1>3, <2>1 DEF AppendOctet
  <2> QED
    BY <1>1, <1>3, <2>2 DEF AppendOctet, StringTypeOK
<1>4. ASSUME NEW encoding \in Encodings, FromText(encoding) PROVE StringTypeOK'
  <2>1. buf' = FromString(str, encoding) /\ str' = <<>> /\ Convert
    BY <1>4 DEF FromText
  <2>2. buf' \in Seq(Octet)
    BY <1>1, <2>1, FromTyped
  <2>3. str' \in Seq(CodeUnit)
    BY <2>1
  <2> QED
    BY <2>1, <2>2, <2>3, ConvertCounts DEF StringTypeOK
<1>5. ASSUME NEW encoding \in Encodings, NEW s \in Texts, NEW o \in 0..MaxOctets,
             WriteText(s, o, MaxOctets - o, encoding)
      PROVE  StringTypeOK'
  <2>1. /\ buf' = WriteString(buf, s, o, MaxOctets - o, encoding) /\ str' = str /\ Convert
        /\ o <= Len(buf)
    BY <1>5 DEF WriteText, CanWrite
  <2>2. PICK length \in Nat : length = MaxOctets - o
    BY StringsAssumption
  <2>3. o \in 0..Len(buf) /\ Len(buf) - o \in Nat
    BY <1>1, <2>1, StringsAssumption
  <2>4. PICK src \in Seq(Octet) : src = Encode(s, encoding, Len(buf) - o)
    BY <2>3, TextsTyped, EncodeTyped
  <2>5. WriteString(buf, s, o, length, encoding) \in Seq(Octet)
    BY <1>1, <2>3, <2>4, WriteIs, Zenon
  <2>6. buf' \in Seq(Octet)
    BY <2>1, <2>2, <2>5
  <2> QED
    BY <1>1, <2>1, <2>6, ConvertCounts DEF StringTypeOK
<1>6. ASSUME NEW encoding \in Encodings, NEW s \in (-1)..MaxOctets, NEW e \in (-1)..MaxOctets,
             DecodeToString(encoding, s, e)
      PROVE  StringTypeOK'
  <2>1. str' = ToStringOf(buf, encoding, s, e) /\ buf' = <<>> /\ Convert
    BY <1>6 DEF DecodeToString
  <2>2. s \in Int /\ e \in Int
    BY StringsAssumption
  <2>3. str' \in Seq(CodeUnit)
    BY <1>1, <2>1, <2>2, ToStringTyped
  <2>4. buf' \in Seq(Octet)
    BY <2>1
  <2> QED
    BY <2>1, <2>3, <2>4, ConvertCounts DEF StringTypeOK
<1>7. CASE UNCHANGED stringVars
  BY <1>1, <1>7 DEF stringVars, StringTypeOK
<1> QED
  BY <1>2, <1>3, <1>4, <1>5, <1>6, <1>7 DEF StringNext

(* Strings stay sequences of code units and Buffers sequences of bytes,     *)
(* whatever fromString, write and toString are called with.                 *)
THEOREM StringsStayTyped == StringSpec => []StringTypeOK
<1>1. StringInit => StringTypeOK
  BY StringsAssumption DEF StringInit, StringTypeOK
<1>2. StringTypeOK /\ [StringNext]_stringVars => StringTypeOK'
  BY StringStep
<1> QED
  BY <1>1, <1>2, PTL DEF StringSpec

(* Buffer.from(b.toString(encoding), encoding) is b again for hex, base64,  *)
(* latin1 and ucs2 (node/buffer.js, base64-js.js), for Buffers of any bytes *)
(* and any length.                                                          *)
THEOREM BufferTextKeepsBytes == StringSpec => []BytesSurviveText
<1>1. StringTypeOK => BytesSurviveText
  BY BytesSurvive DEF StringTypeOK, BytesSurviveText
<1> QED
  BY <1>1, StringsStayTyped, PTL

(* Buffer.from(s, 'base64') is the bits of the digits of s, for text with   *)
(* and without padding, with foreign characters and of either alphabet.     *)
THEOREM BufferBase64IsBits == StringSpec => []Base64IsBits
<1>1. StringTypeOK => Base64IsBits
  BY FromBase64, BitsArePacked DEF StringTypeOK, Base64IsBits
<1> QED
  BY <1>1, StringsStayTyped, PTL

(* Buffer.from(s).toString() is s with every lone surrogate replaced, but   *)
(* for the second of two leads at the end, which utf8ToBytes loses.         *)
THEOREM BufferUtf8RoundTrip == StringSpec => []Utf8RoundTrip
<1>1. StringTypeOK => Utf8RoundTrip
  BY RoundTrip DEF StringTypeOK
<1> QED
  BY <1>1, StringsStayTyped, PTL

(* write(s, offset) never cuts a character: what it writes are the bytes of *)
(* the first characters of s, it stays inside the Buffer, and all other     *)
(* bytes are as before.                                                     *)
THEOREM BufferWritesWholeCharacters == StringSpec => []WritesWholeCharacters
<1>1. ASSUME StringTypeOK PROVE WritesWholeCharacters
  <2>1. buf \in Seq(Octet)
    BY <1>1 DEF StringTypeOK
  <2>2. ASSUME NEW s \in Texts, NEW o \in 0..Len(buf)
        PROVE  LET room == Len(buf) - o
                   n == WrittenCount(buf, s, o, room, "utf8")
                   b == WriteString(buf, s, o, room, "utf8")
                   chars == WellFormed(s)
                   ends == {k \in 0..Len(s) : k = 0 \/ ~Lead(chars[k])}
                   Wholes == {Utf8ToBytes(SubSeq(chars, 1, k), 0) : k \in ends}
               IN  /\ SubSeq(b, o + 1, o + n) \in Wholes
                   /\ n <= room
                   /\ \A i \in 1..Len(b) : i <= o \/ i > o + n => b[i] = buf[i]
    <3>1. s \in Seq(CodeUnit)
      BY TextsTyped
    <3>2. PICK room : room = Len(buf) - o
      OBVIOUS
    <3>3. PICK n : n = WrittenCount(buf, s, o, room, "utf8")
      OBVIOUS
    <3>4. PICK b : b = WriteString(buf, s, o, room, "utf8")
      OBVIOUS
    <3>5. PICK chars : chars = WellFormed(s)
      OBVIOUS
    <3>6. /\ SubSeq(b, o + 1, o + n) \in WholeBytes(chars)
          /\ n <= room
          /\ \A i \in 1..Len(b) : i <= o \/ i > o + n => b[i] = buf[i]
      BY <2>1, <3>1, <3>2, <3>3, <3>4, <3>5, WritesWhole
    <3>7. Len(chars) = Len(s)
      BY <3>1, <3>5, WellFormedIs
    <3>8. WholeBytes(chars) = {Utf8ToBytes(SubSeq(chars, 1, k), 0) :
                                 k \in {k \in 0..Len(s) : k = 0 \/ ~Lead(chars[k])}}
      BY <3>7 DEF WholeBytes
    <3> QED
      BY <3>2, <3>3, <3>4, <3>5, <3>6, <3>8, Zenon
  <2> QED
    BY <2>2, Zenon DEF WritesWholeCharacters
<1> QED
  BY <1>1, StringsStayTyped, PTL

=============================================================================
