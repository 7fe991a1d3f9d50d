--------------------------- MODULE VmEngine_proofs ---------------------------
(***************************************************************************)
(* VmEngine for every job of the two checked-in programs: the interpreter  *)
(* never leaves the code or the caller's memory, a patched one runs        *)
(* nothing, and the programs leave what they are to compute, whatever the  *)
(* lengths of buffer and key and whatever the two texts.                   *)
(*                                                                         *)
(* The programs are disassembled once (XorListing, VerifyListing) from the *)
(* bytes of the header; the invariant says for each address what the       *)
(* registers hold there, in the style of Floyd, with the number of         *)
(* characters done as the loops' only unknown; and one lemma for each kind *)
(* of instruction takes a step from an address to the next.                *)
(***************************************************************************)
EXTENDS VmEngine, TLAPS

\* The values of the numbers that are left folded below, and what a byte is.
LEMMA WordIs == Word = 65536
  BY DEF Word

LEMMA WordInt == Word \in Int
  BY WordIs

LEMMA WordRange == \A v : v \in 0 .. Word - 1 <=> v \in Int /\ 0 <= v /\ v <= 65535
<1>1. Word \in Int /\ Word - 1 = 65535
  BY WordIs
<1>2. \A v : v \in 0 .. Word - 1 <=> v \in Int /\ 0 <= v /\ v <= Word - 1
  BY <1>1
<1> QED
  BY <1>1, <1>2

LEMMA CellRange == \A c \in Cells : c \in Int /\ 1 <= c /\ c <= 65534
<1> SUFFICES ASSUME NEW c \in Cells
             PROVE  c \in Int /\ 1 <= c /\ c <= 65534
  OBVIOUS
<1>1. Word \in Int /\ Word - 2 = 65534
  BY WordIs
<1>2. c \in Int /\ 1 <= c /\ c <= Word - 2
  BY <1>1, CellsAssumption
<1> QED
  BY <1>1, <1>2

LEMMA ByteIs == \A b : b \in Byte <=> b \in Int /\ 0 <= b /\ b <= 255
  BY DEF Byte

-----------------------------------------------------------------------------
(***************************************************************************)
(* Bits, remainders and words.                                             *)
(***************************************************************************)
\* A byte, and what the two instructions of the programs make of two of them, has
\* the bits below 256 only.
ByteOf(has(_)) ==
  LET bit(w) == IF has(w) THEN w ELSE 0
  IN  bit(1) + bit(2) + bit(4) + bit(8) + bit(16) + bit(32) + bit(64) + bit(128)

LEMMA ByteBits == \A a \in Byte : a = ByteOf(LAMBDA w : Odd(a \div w))
  BY DEF ByteOf, Odd, Byte

LEMMA OrBits ==
  \A a, b \in Byte : Or(a, b) = ByteOf(LAMBDA w : Odd(a \div w) \/ Odd(b \div w))
<1> SUFFICES ASSUME NEW a \in Byte, NEW b \in Byte
             PROVE  Or(a, b) = ByteOf(LAMBDA w : Odd(a \div w) \/ Odd(b \div w))
  OBVIOUS
<1> DEFINE bit(w) == IF Odd(a \div w) \/ Odd(b \div w) THEN w ELSE 0
           low == bit(1) + bit(2) + bit(4) + bit(8) + bit(16) + bit(32) + bit(64) + bit(128)
<1>1. /\ bit(256) = 0 /\ bit(512) = 0 /\ bit(1024) = 0 /\ bit(2048) = 0
      /\ bit(4096) = 0 /\ bit(8192) = 0 /\ bit(16384) = 0 /\ bit(32768) = 0
  BY DEF Odd, Byte
<1>2. /\ bit(1) \in Nat /\ bit(2) \in Nat /\ bit(4) \in Nat /\ bit(8) \in Nat
      /\ bit(16) \in Nat /\ bit(32) \in Nat /\ bit(64) \in Nat /\ bit(128) \in Nat
  OBVIOUS
<1>3. /\ Or(a, b) = low + bit(256) + bit(512) + bit(1024) + bit(2048) + bit(4096) + bit(8192)
                    + bit(16384) + bit(32768)
      /\ ByteOf(LAMBDA w : Odd(a \div w) \/ Odd(b \div w)) = low
  BY DEF Or, WordOf, ByteOf
<1> HIDE DEF bit
<1> QED
  BY <1>1, <1>2, <1>3

LEMMA XorBits ==
  \A a, b \in Byte : Xor(a, b) = ByteOf(LAMBDA w : ~(Odd(a \div w) <=> Odd(b \div w)))
<1> SUFFICES ASSUME NEW a \in Byte, NEW b \in Byte
             PROVE  Xor(a, b) = ByteOf(LAMBDA w : ~(Odd(a \div w) <=> Odd(b \div w)))
  OBVIOUS
<1> DEFINE bit(w) == IF ~(Odd(a \div w) <=> Odd(b \div w)) THEN w ELSE 0
           low == bit(1) + bit(2) + bit(4) + bit(8) + bit(16) + bit(32) + bit(64) + bit(128)
<1>1. /\ bit(256) = 0 /\ bit(512) = 0 /\ bit(1024) = 0 /\ bit(2048) = 0
      /\ bit(4096) = 0 /\ bit(8192) = 0 /\ bit(16384) = 0 /\ bit(32768) = 0
  BY DEF Odd, Byte
<1>2. /\ bit(1) \in Nat /\ bit(2) \in Nat /\ bit(4) \in Nat /\ bit(8) \in Nat
      /\ bit(16) \in Nat /\ bit(32) \in Nat /\ bit(64) \in Nat /\ bit(128) \in Nat
  OBVIOUS
<1>3. /\ Xor(a, b) = low + bit(256) + bit(512) + bit(1024) + bit(2048) + bit(4096) + bit(8192)
                     + bit(16384) + bit(32768)
      /\ ByteOf(LAMBDA w : ~(Odd(a \div w) <=> Odd(b \div w))) = low
  BY DEF Xor, WordOf, ByteOf
<1> HIDE DEF bit
<1> QED
  BY <1>1, <1>2, <1>3

\* Two bytes differ exactly when the bytes' XOR does from 0, and OR collects differences.
LEMMA ByteWords ==
  ASSUME NEW a \in Byte, NEW b \in Byte
  PROVE  /\ Or(a, b) \in Byte /\ Xor(a, b) \in Byte
         /\ Or(a, b) = 0 <=> a = 0 /\ b = 0
         /\ Xor(a, b) = 0 <=> a = b
<1>1. /\ Or(a, b) = ByteOf(LAMBDA w : Odd(a \div w) \/ Odd(b \div w))
      /\ Xor(a, b) = ByteOf(LAMBDA w : ~(Odd(a \div w) <=> Odd(b \div w)))
  BY OrBits, XorBits
<1>2. a = ByteOf(LAMBDA w : Odd(a \div w)) /\ b = ByteOf(LAMBDA w : Odd(b \div w))
  BY ByteBits
<1>3. Or(a, b) \in Byte
  <2> DEFINE bit(w) == IF Odd(a \div w) \/ Odd(b \div w) THEN w ELSE 0
  <2>1. Or(a, b) = bit(1) + bit(2) + bit(4) + bit(8) + bit(16) + bit(32) + bit(64) + bit(128)
    BY <1>1 DEF ByteOf
  <2>2. /\ bit(1) \in Int /\ 0 <= bit(1) /\ bit(1) <= 1
        /\ bit(2) \in Int /\ 0 <= bit(2) /\ bit(2) <= 2
        /\ bit(4) \in Int /\ 0 <= bit(4) /\ bit(4) <= 4
        /\ bit(8) \in Int /\ 0 <= bit(8) /\ bit(8) <= 8
        /\ bit(16) \in Int /\ 0 <= bit(16) /\ bit(16) <= 16
        /\ bit(32) \in Int /\ 0 <= bit(32) /\ bit(32) <= 32
        /\ bit(64) \in Int /\ 0 <= bit(64) /\ bit(64) <= 64
        /\ bit(128) \in Int /\ 0 <= bit(128) /\ bit(128) <= 128
    OBVIOUS
  <2> HIDE DEF bit
  <2>3. /\ bit(1) + bit(2) + bit(4) + bit(8) + bit(16) + bit(32) + bit(64) + bit(128) \in Int
        /\ 0 <= bit(1) + bit(2) + bit(4) + bit(8) + bit(16) + bit(32) + bit(64) + bit(128)
        /\ bit(1) + bit(2) + bit(4) + bit(8) + bit(16) + bit(32) + bit(64) + bit(128) <= 255
    BY <2>2
  <2> QED
    BY <2>1, <2>3, ByteIs, Zenon
<1>6. Xor(a, b) \in Byte
  <2> DEFINE bit(w) == IF ~(Odd(a \div w) <=> Odd(b \div w)) THEN w ELSE 0
  <2>1. Xor(a, b) = bit(1) + bit(2) + bit(4) + bit(8) + bit(16) + bit(32) + bit(64) + bit(128)
    BY <1>1 DEF ByteOf
  <2>2. /\ bit(1) \in Int /\ 0 <= bit(1) /\ bit(1) <= 1
        /\ bit(2) \in Int /\ 0 <= bit(2) /\ bit(2) <= 2
        /\ bit(4) \in Int /\ 0 <= bit(4) /\ bit(4) <= 4
        /\ bit(8) \in Int /\ 0 <= bit(8) /\ bit(8) <= 8
        /\ bit(16) \in Int /\ 0 <= bit(16) /\ bit(16) <= 16
        /\ bit(32) \in Int /\ 0 <= bit(32) /\ bit(32) <= 32
        /\ bit(64) \in Int /\ 0 <= bit(64) /\ bit(64) <= 64
        /\ bit(128) \in Int /\ 0 <= bit(128) /\ bit(128) <= 128
    OBVIOUS
  <2> HIDE DEF bit
  <2>3. /\ bit(1) + bit(2) + bit(4) + bit(8) + bit(16) + bit(32) + bit(64) + bit(128) \in Int
        /\ 0 <= bit(1) + bit(2) + bit(4) + bit(8) + bit(16) + bit(32) + bit(64) + bit(128)
        /\ bit(1) + bit(2) + bit(4) + bit(8) + bit(16) + bit(32) + bit(64) + bit(128) <= 255
    BY <2>2
  <2> QED
    BY <2>1, <2>3, ByteIs, Zenon
<1>4. Or(a, b) = 0 <=> a = 0 /\ b = 0
  BY <1>1, <1>2 DEF ByteOf
<1>5. Xor(a, b) = 0 <=> a = b
  BY <1>1, <1>2 DEF ByteOf
<1> QED
  BY <1>3, <1>4, <1>5, <1>6

\* The three operations are numbers for any words.
LEMMA WordWords ==
  ASSUME NEW a \in 0 .. Word - 1, NEW b \in 0 .. Word - 1
  PROVE  And(a, b) \in Int /\ Or(a, b) \in Int /\ Xor(a, b) \in Int
<1> DEFINE sum(bit(_)) == bit(1) + bit(2) + bit(4) + bit(8) + bit(16) + bit(32) + bit(64)
      + bit(128) + bit(256) + bit(512) + bit(1024) + bit(2048) + bit(4096) + bit(8192)
      + bit(16384) + bit(32768)
           both(w) == IF Odd(a \div w) /\ Odd(b \div w) THEN w ELSE 0
           either(w) == IF Odd(a \div w) \/ Odd(b \div w) THEN w ELSE 0
           one(w) == IF ~(Odd(a \div w) <=> Odd(b \div w)) THEN w ELSE 0
<1>1. And(a, b) = sum(both) /\ Or(a, b) = sum(either) /\ Xor(a, b) = sum(one)
  BY DEF And, Or, Xor, WordOf
<1>2. \A w \in Nat : both(w) \in Int /\ either(w) \in Int /\ one(w) \in Int
  OBVIOUS
<1> HIDE DEF both, either, one
<1>3. And(a, b) \in Int
  BY <1>1, <1>2
<1>4. Or(a, b) \in Int
  BY <1>1, <1>2
<1>5. Xor(a, b) \in Int
  BY <1>1, <1>2
<1> QED
  BY <1>3, <1>4, <1>5

LEMMA Shifts ==
  ASSUME NEW a \in Nat, NEW b \in Nat
  PROVE  ShiftLeft(a, b) \in Int /\ ShiftRight(a, b) \in Int
  BY WordIs DEF ShiftLeft, ShiftRight, Power

LEMMA Wraps == \A v \in Int : Wrap(v) \in 0 .. Word - 1
<1> SUFFICES ASSUME NEW v \in Int
             PROVE  v % Word \in Int /\ 0 <= v % Word /\ v % Word <= 65535
  BY WordRange DEF Wrap
<1> QED
  BY WordIs

\* The division of a number by k is the only way to write it as a multiple and a rest.
LEMMA DivisionIsUnique ==
  ASSUME NEW k \in Nat \ {0}, NEW q \in Nat, NEW p \in Nat,
         NEW r \in 0 .. k - 1, NEW s \in 0 .. k - 1, k * q + r = k * p + s
  PROVE  r = s
<1>1. CASE p = q
  BY <1>1
<1>2. CASE p < q
  <2>1. PICK d \in Nat : q = p + 1 + d
    <3>1. q = p + 1 + (q - p - 1) /\ q - p - 1 \in Nat
      BY <1>2
    <3> QED
      BY <3>1
  <2>2. k * q = k * p + k + k * d /\ k * d >= 0
    BY <2>1
  <2> QED
    BY <2>2
<1>3. CASE q < p
  <2>1. PICK d \in Nat : p = q + 1 + d
    <3>1. p = q + 1 + (p - q - 1) /\ p - q - 1 \in Nat
      BY <1>3
    <3> QED
      BY <3>1
  <2>2. k * p = k * q + k + k * d /\ k * d >= 0
    BY <2>1
  <2> QED
    BY <2>2
<1> QED
  BY <1>1, <1>2, <1>3

\* The key's index: one further, or back at 0 when it reaches the key's length.
LEMMA NextRemainder ==
  ASSUME NEW i \in Nat, NEW k \in Nat \ {0}
  PROVE  /\ i % k \in 0 .. k - 1
         /\ (i + 1) % k = IF (i % k) + 1 = k THEN 0 ELSE (i % k) + 1
<1> DEFINE q == i \div k
           r == i % k
           p == (i + 1) \div k
           s == (i + 1) % k
<1>1. /\ q \in Nat /\ r \in 0 .. k - 1 /\ i = k * q + r
      /\ p \in Nat /\ s \in 0 .. k - 1 /\ i + 1 = k * p + s
  OBVIOUS
<1> HIDE DEF q, r, p, s
<1>2. CASE r + 1 = k
  <2>1. i + 1 = k * (q + 1) + 0
    <3>1. k * (q + 1) = k * q + k
      BY <1>1
    <3> QED
      BY <3>1, <1>1, <1>2
  <2>2. s = 0
    BY <2>1, <1>1, DivisionIsUnique, q + 1 \in Nat, 0 \in 0 .. k - 1
  <2> QED
    BY <2>2, <1>1, <1>2 DEF r, s
<1>3. CASE r + 1 # k
  <2>1. i + 1 = k * q + (r + 1) /\ r + 1 \in 0 .. k - 1
    <3>1. k * q \in Nat
      BY <1>1
    <3> QED
      BY <3>1, <1>1, <1>3
  <2>2. s = r + 1
    BY <2>1, <1>1, DivisionIsUnique
  <2> QED
    BY <2>2, <1>1, <1>3 DEF r, s
<1> QED
  BY <1>2, <1>3

-----------------------------------------------------------------------------
(***************************************************************************)
(* Fetched bytes and types.                                                *)
(***************************************************************************)
EngineTypes == TypeOK /\ job \in Jobs

\* Every byte of the header is written XOR 255, and decoded by the same.
LEMMA Decoding == \A b \in Byte : VM_DEC[b] = 255 - b
  BY SMTT(60) DEF VM_DEC, Xor, WordOf, Odd, Byte, VM_OPCODE_XOR_KEY

LEMMA ProgramBytes ==
  /\ VM_BC_verify_hash \in Seq(Byte) /\ Len(VM_BC_verify_hash) = 151
  /\ VM_BC_xor_decrypt \in Seq(Byte) /\ Len(VM_BC_xor_decrypt) = 110
  BY DEF VM_BC_verify_hash, VM_BC_xor_decrypt, Byte

LEMMA JobTypes ==
  ASSUME job \in Jobs
  PROVE  /\ job.by \in Callers
         /\ job.program \in {"verify_hash", "xor_decrypt"} \cup DOMAIN Tests
         /\ job.args \in [0 .. 3 -> 0 .. Word - 1]
         /\ job.memory \in [Cells -> Byte]
         /\ Provided(job)
  BY JobsAssumption DEF Job

LEMMA CodeTypes ==
  ASSUME job \in Jobs
  PROVE  Code(job.program) \in Seq(Byte) /\ CodeSize \in 0 .. Word - 1
<1>1. Code(job.program) \in Seq(Byte) /\ Len(Code(job.program)) < Word
  <2>1. CASE job.program = "verify_hash"
    <3>1. Code(job.program) = VM_BC_verify_hash
      BY <2>1 DEF Code
    <3> QED
      BY <3>1, ProgramBytes, WordIs
  <2>3. CASE job.program = "xor_decrypt"
    <3>1. Code(job.program) = VM_BC_xor_decrypt
      BY <2>3 DEF Code
    <3> QED
      BY <3>1, ProgramBytes, WordIs
  <2>2. CASE job.program \notin {"verify_hash", "xor_decrypt"}
    <3>1. job.program \in DOMAIN Tests /\ Code(job.program) = Tests[job.program]
      BY <2>2, JobTypes DEF Code
    <3> QED
      BY <3>1, TestsAssumption
  <2> QED
    BY <2>1, <2>3, <2>2
<1>2. Len(Code(job.program)) \in Nat
  BY <1>1
<1> QED
  <2>1. Len(Code(job.program)) <= 65535
    BY <1>1, <1>2, WordIs
  <2> QED
    BY <1>1, <1>2, <2>1, WordRange DEF CodeSize

\* What is fetched behind the end of the code is 0 here.
LEMMA FetchedBytes ==
  ASSUME job \in Jobs, pc \in Nat, NEW n \in Nat
  PROVE  At(n) \in Byte
<1>1. CASE pc + n < CodeSize
  <2>1. Code(job.program)[pc + n + 1] \in Byte
    BY <1>1, CodeTypes DEF CodeSize
  <2>2. Dec(Code(job.program)[pc + n + 1]) \in Byte
    BY <2>1, Decoding, ByteIs DEF Dec
  <2> QED
    BY <1>1, <2>2 DEF At
<1>2. CASE ~(pc + n < CodeSize)
  BY <1>2, ByteIs DEF At
<1> QED
  BY <1>1, <1>2

LEMMA Operands ==
  ASSUME job \in Jobs, pc \in Nat, NEW n \in Nat
  PROVE  Low(n) \in Registers /\ High(n) \in Registers /\ Imm(n) \in 0 .. Word - 1
<1>1. At(n) \in Byte /\ At(n + 1) \in Byte
  BY FetchedBytes, n + 1 \in Nat
<1>2. At(n) % 16 \in 0 .. 15 /\ At(n) \div 16 \in 0 .. 15
  BY <1>1, ByteIs
<1>3. At(n) + 256 * At(n + 1) \in 0 .. Word - 1
  BY <1>1, ByteIs, WordRange
<1> QED
  BY <1>2, <1>3 DEF Low, High, Imm, Registers

LEMMA PutTypes ==
  ASSUME regs \in [Registers -> 0 .. Word - 1], NEW r \in Registers, NEW v \in Int, Put(r, v)
  PROVE  regs' \in [Registers -> 0 .. Word - 1]
<1>1. Wrap(v) \in 0 .. Word - 1
  BY Wraps
<1> QED
  BY <1>1 DEF Put

\* Text written over the cells from the buffer on.
LEMMA FilledTypes ==
  ASSUME EngineTypes, NEW text \in Seq(Byte), Filled(text)
  PROVE  memory' \in [Cells -> Byte]
<1> SUFFICES ASSUME NEW c \in Cells
             PROVE  (IF c \in job.args[0] .. job.args[0] + Len(text) - 1
                     THEN text[c - job.args[0] + 1] ELSE memory[c]) \in Byte
  BY DEF Filled
<1>1. c \in Int /\ job.args[0] \in Int /\ memory[c] \in Byte
  <2>1. memory \in [Cells -> Byte] /\ job.args \in [0 .. 3 -> 0 .. Word - 1]
    BY JobTypes DEF EngineTypes, TypeOK
  <2>2. job.args[0] \in 0 .. Word - 1 /\ memory[c] \in Byte
    BY <2>1
  <2> QED
    BY <2>2, CellRange, WordRange
<1>2. CASE c \in job.args[0] .. job.args[0] + Len(text) - 1
  <2>1. c - job.args[0] + 1 \in 1 .. Len(text)
    BY <1>1, <1>2
  <2> QED
    BY <2>1, <1>2
<1> QED
  BY <1>1, <1>2

LEMMA PartTypes ==
  ASSUME NEW s \in Seq(Byte), NEW from \in Nat, NEW size \in Nat, from + size <= Len(s)
  PROVE  /\ SubSeq(s, from + 1, from + size) \in Seq(Byte)
         /\ Len(SubSeq(s, from + 1, from + size)) = size
<1>1. Len(s) \in Nat /\ from + size \in Nat
  OBVIOUS
<1>2. \A i \in from + 1 .. from + size : s[i] \in Byte
  BY <1>1
<1>3. SubSeq(s, from + 1, from + size) = [i \in 1 .. size |-> s[i + from]]
  BY <1>1
<1> QED
  BY <1>2, <1>3

LEMMA ConcatTypes ==
  ASSUME NEW a \in Seq(Byte), NEW b \in Seq(Byte), NEW c \in Seq(Byte), NEW d \in Seq(Byte)
  PROVE  /\ a \o b \o c \o d \in Seq(Byte)
         /\ Len(a \o b \o c \o d) = Len(a) + Len(b) + Len(c) + Len(d)
<1>1. a \o b \in Seq(Byte) /\ Len(a \o b) = Len(a) + Len(b)
  OBVIOUS
<1>2. (a \o b) \o c \in Seq(Byte) /\ Len((a \o b) \o c) = Len(a) + Len(b) + Len(c)
  BY <1>1
<1> QED
  BY <1>2

\* The parts of a string, joined, are bytes, as many as their lengths say while they
\* lie in the pool.
LEMMA JoinedTypes ==
  ASSUME NEW i \in DOMAIN T3_DESCRIPTORS, NEW n \in 0 .. Len(T3_DESCRIPTORS[i]),
         \A m \in 1 .. n : Fits(T3_DESCRIPTORS[i], m)
  PROVE  /\ Joined(T3_DESCRIPTORS[i], n) \in Seq(Byte)
         /\ Len(Joined(T3_DESCRIPTORS[i], n)) = Length(T3_DESCRIPTORS[i], n)
         /\ Length(T3_DESCRIPTORS[i], n) \in Nat
<1> DEFINE parts == T3_DESCRIPTORS[i]
           part(m) == IF m <= n THEN SubSeq(T3_SEG_POOL, parts[m][1] + 1, parts[m][1] + parts[m][2])
                      ELSE <<>>
           size(m) == IF m <= n THEN parts[m][2] ELSE 0
<1>1. parts \in Seq(Nat \X Nat) /\ T3_SEG_POOL \in Seq(Byte) /\ n \in Nat
  BY StringsAssumption
<1>2. ASSUME NEW m \in 1 .. 4
      PROVE  part(m) \in Seq(Byte) /\ Len(part(m)) = size(m) /\ size(m) \in Nat
  <2>1. CASE m <= n
    <3>1. m \in 1 .. Len(parts)
      BY <2>1, <1>1
    <3>2. parts[m] \in Nat \X Nat
      BY <3>1, <1>1
    <3>3. parts[m][1] \in Nat /\ parts[m][2] \in Nat
      BY <3>2
    <3>4. parts[m][1] + parts[m][2] <= Len(T3_SEG_POOL)
      BY <2>1, <3>1 DEF Fits
    <3>5. /\ SubSeq(T3_SEG_POOL, parts[m][1] + 1, parts[m][1] + parts[m][2]) \in Seq(Byte)
          /\ Len(SubSeq(T3_SEG_POOL, parts[m][1] + 1, parts[m][1] + parts[m][2])) = parts[m][2]
      <4> HIDE DEF parts
      <4> QED
        BY <3>3, <3>4, <1>1, PartTypes
    <3> QED
      BY <2>1, <3>3, <3>5
  <2>2. CASE ~(m <= n)
    BY <2>2
  <2> QED
    BY <2>1, <2>2
<1>3. /\ Joined(parts, n) = part(1) \o part(2) \o part(3) \o part(4)
      /\ Length(parts, n) = size(1) + size(2) + size(3) + size(4)
  BY DEF Joined, Length
<1>4. /\ part(1) \in Seq(Byte) /\ Len(part(1)) = size(1) /\ size(1) \in Nat
      /\ part(2) \in Seq(Byte) /\ Len(part(2)) = size(2) /\ size(2) \in Nat
      /\ part(3) \in Seq(Byte) /\ Len(part(3)) = size(3) /\ size(3) \in Nat
      /\ part(4) \in Seq(Byte) /\ Len(part(4)) = size(4) /\ size(4) \in Nat
  BY <1>2
<1> HIDE DEF parts, part, size
<1>5. /\ part(1) \o part(2) \o part(3) \o part(4) \in Seq(Byte)
      /\ Len(part(1) \o part(2) \o part(3) \o part(4)) = size(1) + size(2) + size(3) + size(4)
  <2>1. /\ part(1) \o part(2) \o part(3) \o part(4) \in Seq(Byte)
        /\ Len(part(1) \o part(2) \o part(3) \o part(4))
             = Len(part(1)) + Len(part(2)) + Len(part(3)) + Len(part(4))
    BY <1>4, ConcatTypes
  <2> QED
    BY <1>4, <2>1
<1>6. size(1) + size(2) + size(3) + size(4) \in Nat
  BY <1>4
<1> QED
  BY <1>3, <1>5, <1>6, Zenon DEF parts

\* One instruction after the other keeps words in the registers and bytes in memory.
LEMMA InstructionTypes == EngineTypes /\ Step => EngineTypes'
<1> SUFFICES ASSUME EngineTypes, Step
             PROVE  EngineTypes'
  OBVIOUS
<1> USE DEF EngineTypes
<1>1. /\ regs \in [Registers -> 0 .. Word - 1] /\ flags \subseteq {"Z", "N"}
      /\ pc \in 0 .. Word - 1 /\ memory \in [Cells -> Byte] /\ violation \in BOOLEAN
      /\ state \in {"asked", "new", "running", "returned", "error", "refused", "fault"}
      /\ job \in Jobs
  BY DEF TypeOK
<1>2. pc \in Int /\ 0 <= pc /\ pc <= 65535 /\ pc \in Nat
  BY <1>1, WordRange
<1>3. \A n \in Nat : Wrap(pc + n) \in 0 .. Word - 1
  BY <1>2, Wraps, \A n \in Nat : pc + n \in Int
<1>4. /\ Low(1) \in Registers /\ High(1) \in Registers /\ Low(2) \in Registers
      /\ Imm(2) \in 0 .. Word - 1 /\ Imm(1) \in 0 .. Word - 1
      /\ At(0) \in Byte /\ At(1) \in Byte
  BY <1>1, <1>2, Operands, FetchedBytes, 0 \in Nat, 1 \in Nat, 2 \in Nat
<1>5. \A r \in Registers : regs[r] \in 0 .. Word - 1 /\ regs[r] \in Int /\ regs[r] \in Nat
  BY <1>1, WordRange
<1>6. Same => job' \in Jobs /\ violation' \in BOOLEAN
  BY <1>1 DEF Same
<1>7. ASSUME NEW r \in Registers, NEW v \in Int, Put(r, v)
      PROVE  regs' \in [Registers -> 0 .. Word - 1]
  BY <1>1, <1>7, PutTypes
<1>8. ASSUME NEW op, NEW n \in Nat, Takes(op, n)
      PROVE  pc' \in 0 .. Word - 1
  BY <1>3, <1>8 DEF Takes
<1>9. CASE Nop
  BY <1>9, <1>1, <1>6, <1>8 DEF Nop, TypeOK
<1>10. CASE MovImm
  <2>1. Imm(2) \in Int
    BY <1>4, WordRange
  <2>2. regs' \in [Registers -> 0 .. Word - 1]
    BY <1>10, <2>1, <1>4, <1>7 DEF MovImm
  <2>3. pc' \in 0 .. Word - 1
    BY <1>10, <1>8 DEF MovImm
  <2> QED
    BY <1>10, <2>2, <2>3, <1>1, <1>6 DEF MovImm, TypeOK
<1>11. CASE MovReg
  <2>1. regs' \in [Registers -> 0 .. Word - 1]
    BY <1>11, <1>4, <1>5, <1>7 DEF MovReg
  <2>2. pc' \in 0 .. Word - 1
    BY <1>11, <1>8 DEF MovReg
  <2> QED
    BY <1>11, <2>1, <2>2, <1>1, <1>6 DEF MovReg, TypeOK
<1>12. CASE Arithmetic
  <2> DEFINE a == regs[High(1)]
             b == regs[Low(2)]
  <2>1. a \in 0 .. Word - 1 /\ b \in 0 .. Word - 1 /\ a \in Nat /\ b \in Nat
    BY <1>4, <1>5
  <2>2. /\ a + b \in Int /\ Minus(a, b) \in Int /\ Xor(a, b) \in Int /\ And(a, b) \in Int
        /\ Or(a, b) \in Int /\ ShiftLeft(a, b) \in Int /\ ShiftRight(a, b) \in Int
    <3> HIDE DEF a, b
    <3>1. Minus(a, b) \in Int
      BY <2>1, WordInt DEF Minus
    <3> QED
      BY <2>1, <3>1, WordWords, Shifts
  <2>3. PICK v \in Int : Put(Low(1), v)
    BY <1>12, <2>2 DEF Arithmetic
  <2>4. regs' \in [Registers -> 0 .. Word - 1]
    BY <2>3, <1>4, <1>7
  <2>5. pc' \in 0 .. Word - 1
    BY <1>12, <1>8 DEF Arithmetic
  <2> QED
    BY <1>12, <2>4, <2>5, <1>1, <1>6 DEF Arithmetic, TypeOK
<1>13. CASE Unary
  <2>1. Word - 1 - regs[High(1)] \in Int /\ Word - regs[High(1)] \in Int
    BY <1>4, <1>5, WordInt
  <2>2. PICK v \in Int : Put(Low(1), v)
    BY <1>13, <2>1 DEF Unary
  <2>3. regs' \in [Registers -> 0 .. Word - 1]
    BY <2>2, <1>4, <1>7
  <2>4. pc' \in 0 .. Word - 1
    BY <1>13, <1>8 DEF Unary
  <2> QED
    BY <1>13, <2>3, <2>4, <1>1, <1>6 DEF Unary, TypeOK
<1>14. CASE Compare
  <2>1. pc' \in 0 .. Word - 1
    BY <1>14, <1>8 DEF Compare
  <2>2. flags' \subseteq {"Z", "N"}
    BY <1>14 DEF Compare
  <2> QED
    BY <1>14, <2>1, <2>2, <1>1, <1>6 DEF Compare, TypeOK
<1>15. CASE Jump
  <2>1. Imm(1) \in Int /\ Signed(Imm(1)) \in Int
    BY <1>4, WordRange, WordInt DEF Signed
  <2>2. pc + 5 + Signed(Imm(1)) + Word \in Int
    BY <2>1, <1>2, WordInt
  <2>3. Target \in 0 .. Word - 1
    BY <2>2, Wraps DEF Target
  <2>4. pc' \in 0 .. Word - 1
    BY <1>15, <2>3, <1>3 DEF Jump
  <2> QED
    BY <1>15, <2>4, <1>1, <1>6 DEF Jump, TypeOK
<1>16. CASE Load
  <2> DEFINE a == Address(High(1))
  <2>1. a \in Int
    <3>1. Imm(2) \in Int /\ Signed(Imm(2)) \in Int
      BY <1>4, WordRange, WordInt DEF Signed
    <3>2. regs[High(1)] + Signed(Imm(2)) + Word \in Int
      BY <3>1, <1>4, <1>5, WordInt
    <3> QED
      BY <3>2, Wraps, WordRange DEF Address
  <2>2. pc' \in 0 .. Word - 1
    BY <1>16, <1>8 DEF Load
  <2>3. a \in Cells => memory[a] \in Int
    BY <1>1, ByteIs
  <2>4. a .. a + 3 \subseteq Cells => memory[a] + 256 * memory[a + 1] \in Int
    <3>1. a \in a .. a + 3 /\ a + 1 \in a .. a + 3
      BY <2>1
    <3> HIDE DEF a
    <3>2. a .. a + 3 \subseteq Cells => memory[a] \in Byte /\ memory[a + 1] \in Byte
      BY <3>1, <1>1
    <3>3. \A x, y \in Byte : x + 256 * y \in Int
      BY ByteIs
    <3> QED
      BY <3>2, <3>3
  <2>5. regs' \in [Registers -> 0 .. Word - 1]
    <3>1. regs' = regs \/ \E v \in Int : Put(Low(1), v)
      BY <1>16, <2>3, <2>4 DEF Load
    <3> QED
      BY <3>1, <1>1, <1>4, <1>7
  <2>6. state' \in {"fault", state}
    BY <1>16 DEF Load
  <2> QED
    BY <1>16, <2>2, <2>5, <2>6, <1>1, <1>6 DEF Load, TypeOK
<1>17. CASE StoreByte
  <2>1. pc' \in 0 .. Word - 1
    BY <1>17, <1>8 DEF StoreByte
  <2>2. regs[High(1)] % 256 \in Byte
    BY <1>4, <1>5, ByteIs
  <2>3. memory' \in [Cells -> Byte]
    BY <1>17, <1>1, <2>2 DEF StoreByte
  <2>4. state' \in {"fault", state}
    BY <1>17 DEF StoreByte
  <2> QED
    BY <1>17, <2>1, <2>3, <2>4, <1>1, <1>6 DEF StoreByte, TypeOK
<1>18. CASE CallExt
  <2>1. pc' \in 0 .. Word - 1
    BY <1>18, <1>8 DEF CallExt
  <2>2. regs[0] \in Nat /\ regs[1] \in Nat /\ regs[2] \in Nat
    BY <1>5 DEF Registers
  <2>3. StrLen(regs[0]) \subseteq Int
    BY <2>2, CellRange DEF StrLen
  <2>4. MemCmp(regs[0], regs[1], regs[2]) \subseteq Int
    <3>1. \A x, y \in Cells : Minus(memory[x], memory[y]) \in Int
      <4>1. \A x, y \in Byte : x - y + Word \in Int
        BY ByteIs, WordInt
      <4> QED
        BY <4>1, <1>1 DEF Minus
    <3> QED
      BY <3>1 DEF MemCmp
  <2>5. regs' \in [Registers -> 0 .. Word - 1]
    <3>1. regs' = regs \/ \E v \in Int : Put(0, v)
      BY <1>18, <2>3, <2>4 DEF CallExt
    <3> QED
      BY <3>1, <1>1, <1>7 DEF Registers
  <2>6. state' \in {"fault", "error", state}
    BY <1>18 DEF CallExt
  <2> QED
    BY <1>18, <2>1, <2>5, <2>6, <1>1, <1>6 DEF CallExt, TypeOK
<1>19. CASE Ret
  BY <1>19, <1>1, <1>6, <1>8 DEF Ret, TypeOK
<1>20. CASE Stop
  <2>1. CodeSize \in Int /\ CodeSize <= 65535
    BY <1>1, CodeTypes, WordRange
  <2>2. pc' \in 0 .. Word - 1
    <3>1. pc' = pc \/ (pc' = pc + 1 /\ ~AtEnd)
      BY <1>20 DEF Stop
    <3>2. ~AtEnd => pc + 1 <= 65535
      BY <2>1, <1>2 DEF AtEnd, InnerLimit
    <3> QED
      BY <3>1, <3>2, <1>1, <1>2, WordRange
  <2>3. state' \in {"returned", "error"}
    BY <1>20 DEF Stop
  <2> QED
    BY <1>20, <2>2, <2>3, <1>1, <1>6 DEF Stop, TypeOK
<1> QED
  BY <1>9, <1>10, <1>11, <1>12, <1>13, <1>14, <1>15, <1>16, <1>17, <1>18, <1>19, <1>20 DEF Step

-----------------------------------------------------------------------------
(***************************************************************************)
(* The two programs, disassembled.                                         *)
(***************************************************************************)
XorJob == job.program = "xor_decrypt"
VerifyJob == job.program = "verify_hash" /\ job.by # "ivm_run"

\* The instruction at pc: a register set to a number, two or three registers, a cell
\* that a register points to, and a jump.
MovRI(d, v) == Opcode = 1 /\ Low(1) = d /\ Imm(2) = v
OnTwo(op, a, b) == Opcode = op /\ Low(1) = a /\ High(1) = b
OnThree(op, d, a, b) == Opcode = op /\ Low(1) = d /\ High(1) = a /\ Low(2) = b
OnCell(op, a, b) == OnTwo(op, a, b) /\ Imm(2) = 0
JumpTo(op, to) == Opcode = op /\ pc + 5 + Signed(Imm(1)) = to

LEMMA DecodedBytes ==
  ASSUME job \in Jobs, job.by # "ivm_run", pc \in Nat
  PROVE  \A n \in Nat : pc + n < CodeSize => At(n) = 255 - Code(job.program)[pc + n + 1]
<1> DEFINE code == Code(job.program)
<1>1. code \in Seq(Byte) /\ CodeSize = Len(code)
  BY CodeTypes DEF CodeSize
<1> HIDE DEF code
<1> SUFFICES ASSUME NEW n \in Nat, pc + n < Len(code)
             PROVE  At(n) = 255 - code[pc + n + 1]
  BY <1>1 DEF code
<1>2. code[pc + n + 1] \in Byte
  BY <1>1, Len(code) \in Nat
<1> QED
  BY <1>1, <1>2, Decoding DEF At, Dec, code

LEMMA XorFetched ==
  ASSUME job \in Jobs, pc \in Nat, XorJob
  PROVE  /\ CodeSize = 110 /\ job.by # "ivm_run"
         /\ \A n \in Nat : pc + n < 110 => At(n) = 255 - VM_BC_xor_decrypt[pc + n + 1]
<1>1. job.by # "ivm_run"
  BY JobTypes DEF XorJob, Provided
<1>2. Code(job.program) = VM_BC_xor_decrypt
  BY DEF XorJob, Code
<1>3. CodeSize = 110
  BY <1>2, ProgramBytes DEF CodeSize
<1> QED
  BY <1>1, <1>2, <1>3, DecodedBytes

LEMMA VerifyFetched ==
  ASSUME job \in Jobs, pc \in Nat, VerifyJob
  PROVE  /\ CodeSize = 151 /\ job.by # "ivm_run"
         /\ \A n \in Nat : pc + n < 151 => At(n) = 255 - VM_BC_verify_hash[pc + n + 1]
<1>1. Code(job.program) = VM_BC_verify_hash
  BY DEF VerifyJob, Code
<1>2. CodeSize = 151
  BY <1>1, ProgramBytes DEF CodeSize
<1> QED
  BY <1>1, <1>2, DecodedBytes DEF VerifyJob

XorListing ==
  /\ pc = 0 => MovRI(15, 57005)
  /\ pc = 6 => OnTwo(2, 14, 15)
  /\ pc = 8 => OnThree(5, 14, 14, 15)
  /\ pc = 11 => MovRI(13, 0)
  /\ pc = 17 => OnTwo(10, 14, 13)
  /\ pc = 19 => JumpTo(12, 31)
  /\ pc = 24 => MovRI(0, 65535)
  /\ pc = 30 => Opcode = 18
  /\ pc = 31 => OnTwo(2, 11, 0)
  /\ pc = 33 => OnTwo(2, 10, 1)
  /\ pc = 35 => MovRI(4, 0)
  /\ pc = 41 => MovRI(8, 1)
  /\ pc = 47 => MovRI(9, 0)
  /\ pc = 53 => OnTwo(10, 2, 9)
  /\ pc = 55 => JumpTo(12, 107)
  /\ pc = 60 => OnCell(14, 5, 0)
  /\ pc = 64 => OnCell(14, 6, 10)
  /\ pc = 68 => OnThree(5, 7, 5, 6)
  /\ pc = 71 => OnCell(16, 0, 7)
  /\ pc = 75 => OnThree(3, 0, 0, 8)
  /\ pc = 78 => OnThree(3, 10, 10, 8)
  /\ pc = 81 => OnThree(3, 4, 4, 8)
  /\ pc = 84 => OnTwo(10, 4, 3)
  /\ pc = 86 => JumpTo(13, 99)
  /\ pc = 91 => OnTwo(2, 10, 1)
  /\ pc = 93 => MovRI(4, 0)
  /\ pc = 99 => OnThree(4, 2, 2, 8)
  /\ pc = 102 => JumpTo(11, 53)
  /\ pc = 107 => OnTwo(2, 0, 11)
  /\ pc = 109 => Opcode = 18

LEMMA XorDisassembled ==
  ASSUME job \in Jobs, pc \in Nat, XorJob
  PROVE  XorListing
<1>1. /\ CodeSize = 110
      /\ \A n \in Nat : pc + n < 110 => At(n) = 255 - VM_BC_xor_decrypt[pc + n + 1]
  BY XorFetched
<1>2. pc = 0 => MovRI(15, 57005)
  BY <1>1 DEF VM_BC_xor_decrypt, Opcode, Low, Imm, MovRI
<1>3. pc = 6 => OnTwo(2, 14, 15)
  BY <1>1 DEF VM_BC_xor_decrypt, Opcode, Low, High, OnTwo
<1>4. pc = 8 => OnThree(5, 14, 14, 15)
  BY <1>1 DEF VM_BC_xor_decrypt, Opcode, Low, High, OnThree
<1>5. pc = 11 => MovRI(13, 0)
  BY <1>1 DEF VM_BC_xor_decrypt, Opcode, Low, Imm, MovRI
<1>6. pc = 17 => OnTwo(10, 14, 13)
  BY <1>1 DEF VM_BC_xor_decrypt, Opcode, Low, High, OnTwo
<1>7. pc = 19 => JumpTo(12, 31)
  BY <1>1, WordIs DEF VM_BC_xor_decrypt, Opcode, Imm, Signed, JumpTo
<1>8. pc = 24 => MovRI(0, 65535)
  BY <1>1 DEF VM_BC_xor_decrypt, Opcode, Low, Imm, MovRI
<1>9. pc = 30 => Opcode = 18
  BY <1>1 DEF VM_BC_xor_decrypt, Opcode
<1>10. pc = 31 => OnTwo(2, 11, 0)
  BY <1>1 DEF VM_BC_xor_decrypt, Opcode, Low, High, OnTwo
<1>11. pc = 33 => OnTwo(2, 10, 1)
  BY <1>1 DEF VM_BC_xor_decrypt, Opcode, Low, High, OnTwo
<1>12. pc = 35 => MovRI(4, 0)
  BY <1>1 DEF VM_BC_xor_decrypt, Opcode, Low, Imm, MovRI
<1>13. pc = 41 => MovRI(8, 1)
  BY <1>1 DEF VM_BC_xor_decrypt, Opcode, Low, Imm, MovRI
<1>14. pc = 47 => MovRI(9, 0)
  BY <1>1 DEF VM_BC_xor_decrypt, Opcode, Low, Imm, MovRI
<1>15. pc = 53 => OnTwo(10, 2, 9)
  BY <1>1 DEF VM_BC_xor_decrypt, Opcode, Low, High, OnTwo
<1>16. pc = 55 => JumpTo(12, 107)
  BY <1>1, WordIs DEF VM_BC_xor_decrypt, Opcode, Imm, Signed, JumpTo
<1>17. pc = 60 => OnCell(14, 5, 0)
  BY <1>1 DEF VM_BC_xor_decrypt, Opcode, Low, High, Imm, OnTwo, OnCell
<1>18. pc = 64 => OnCell(14, 6, 10)
  BY <1>1 DEF VM_BC_xor_decrypt, Opcode, Low, High, Imm, OnTwo, OnCell
<1>19. pc = 68 => OnThree(5, 7, 5, 6)
  BY <1>1 DEF VM_BC_xor_decrypt, Opcode, Low, High, OnThree
<1>20. pc = 71 => OnCell(16, 0, 7)
  BY <1>1 DEF VM_BC_xor_decrypt, Opcode, Low, High, Imm, OnTwo, OnCell
<1>21. pc = 75 => OnThree(3, 0, 0, 8)
  BY <1>1 DEF VM_BC_xor_decrypt, Opcode, Low, High, OnThree
<1>22. pc = 78 => OnThree(3, 10, 10, 8)
  BY <1>1 DEF VM_BC_xor_decrypt, Opcode, Low, High, OnThree
<1>23. pc = 81 => OnThree(3, 4, 4, 8)
  BY <1>1 DEF VM_BC_xor_decrypt, Opcode, Low, High, OnThree
<1>24. pc = 84 => OnTwo(10, 4, 3)
  BY <1>1 DEF VM_BC_xor_decrypt, Opcode, Low, High, OnTwo
<1>25. pc = 86 => JumpTo(13, 99)
  BY <1>1, WordIs DEF VM_BC_xor_decrypt, Opcode, Imm, Signed, JumpTo
<1>26. pc = 91 => OnTwo(2, 10, 1)
  BY <1>1 DEF VM_BC_xor_decrypt, Opcode, Low, High, OnTwo
<1>27. pc = 93 => MovRI(4, 0)
  BY <1>1 DEF VM_BC_xor_decrypt, Opcode, Low, Imm, MovRI
<1>28. pc = 99 => OnThree(4, 2, 2, 8)
  BY <1>1 DEF VM_BC_xor_decrypt, Opcode, Low, High, OnThree
<1>29. pc = 102 => JumpTo(11, 53)
  BY <1>1, WordIs DEF VM_BC_xor_decrypt, Opcode, Imm, Signed, JumpTo
<1>30. pc = 107 => OnTwo(2, 0, 11)
  BY <1>1 DEF VM_BC_xor_decrypt, Opcode, Low, High, OnTwo
<1>31. pc = 109 => Opcode = 18
  BY <1>1 DEF VM_BC_xor_decrypt, Opcode
<1> QED
  BY <1>2, <1>3, <1>4, <1>5, <1>6, <1>7, <1>8, <1>9, <1>10, <1>11, <1>12, <1>13, <1>14, <1>15, <1>16, <1>17, <1>18, <1>19, <1>20, <1>21, <1>22, <1>23, <1>24, <1>25, <1>26, <1>27, <1>28, <1>29, <1>30, <1>31 DEF XorListing

VerifyListing ==
  /\ pc = 0 => MovRI(15, 57005)
  /\ pc = 6 => OnTwo(2, 14, 15)
  /\ pc = 8 => OnThree(5, 14, 14, 15)
  /\ pc = 11 => MovRI(13, 0)
  /\ pc = 17 => OnTwo(10, 14, 13)
  /\ pc = 19 => JumpTo(12, 31)
  /\ pc = 24 => MovRI(0, 65535)
  /\ pc = 30 => Opcode = 18
  /\ pc = 31 => MovRI(2, 0)
  /\ pc = 37 => MovRI(3, 64)
  /\ pc = 43 => MovRI(8, 1)
  /\ pc = 49 => MovRI(5, 0)
  /\ pc = 55 => OnTwo(10, 0, 5)
  /\ pc = 57 => JumpTo(12, 137)
  /\ pc = 62 => OnTwo(10, 1, 5)
  /\ pc = 64 => JumpTo(12, 137)
  /\ pc = 69 => OnTwo(10, 3, 5)
  /\ pc = 71 => JumpTo(12, 130)
  /\ pc = 76 => OnCell(14, 5, 0)
  /\ pc = 80 => OnTwo(10, 5, 5)
  /\ pc = 82 => MovRI(9, 0)
  /\ pc = 88 => OnCell(14, 5, 0)
  /\ pc = 92 => OnTwo(10, 5, 9)
  /\ pc = 94 => JumpTo(12, 130)
  /\ pc = 99 => OnCell(14, 6, 1)
  /\ pc = 103 => OnTwo(10, 6, 9)
  /\ pc = 105 => JumpTo(12, 130)
  /\ pc = 110 => OnThree(5, 7, 5, 6)
  /\ pc = 113 => OnThree(7, 2, 2, 7)
  /\ pc = 116 => OnThree(3, 0, 0, 8)
  /\ pc = 119 => OnThree(3, 1, 1, 8)
  /\ pc = 122 => OnThree(4, 3, 3, 8)
  /\ pc = 125 => JumpTo(11, 69)
  /\ pc = 130 => OnTwo(10, 2, 9)
  /\ pc = 132 => JumpTo(12, 144)
  /\ pc = 137 => MovRI(0, 1)
  /\ pc = 143 => Opcode = 18
  /\ pc = 144 => MovRI(0, 0)
  /\ pc = 150 => Opcode = 18

LEMMA VerifyDisassembled ==
  ASSUME job \in Jobs, pc \in Nat, VerifyJob
  PROVE  VerifyListing
<1>1. /\ CodeSize = 151
      /\ \A n \in Nat : pc + n < 151 => At(n) = 255 - VM_BC_verify_hash[pc + n + 1]
  BY VerifyFetched
<1>2. pc = 0 => MovRI(15, 57005)
  BY <1>1 DEF VM_BC_verify_hash, Opcode, Low, Imm, MovRI
<1>3. pc = 6 => OnTwo(2, 14, 15)
  BY <1>1 DEF VM_BC_verify_hash, Opcode, Low, High, OnTwo
<1>4. pc = 8 => OnThree(5, 14, 14, 15)
  BY <1>1 DEF VM_BC_verify_hash, Opcode, Low, High, OnThree
<1>5. pc = 11 => MovRI(13, 0)
  BY <1>1 DEF VM_BC_verify_hash, Opcode, Low, Imm, MovRI
<1>6. pc = 17 => OnTwo(10, 14, 13)
  BY <1>1 DEF VM_BC_verify_hash, Opcode, Low, High, OnTwo
<1>7. pc = 19 => JumpTo(12, 31)
  BY <1>1, WordIs DEF VM_BC_verify_hash, Opcode, Imm, Signed, JumpTo
<1>8. pc = 24 => MovRI(0, 65535)
  BY <1>1 DEF VM_BC_verify_hash, Opcode, Low, Imm, MovRI
<1>9. pc = 30 => Opcode = 18
  BY <1>1 DEF VM_BC_verify_hash, Opcode
<1>10. pc = 31 => MovRI(2, 0)
  BY <1>1 DEF VM_BC_verify_hash, Opcode, Low, Imm, MovRI
<1>11. pc = 37 => MovRI(3, 64)
  BY <1>1 DEF VM_BC_verify_hash, Opcode, Low, Imm, MovRI
<1>12. pc = 43 => MovRI(8, 1)
  BY <1>1 DEF VM_BC_verify_hash, Opcode, Low, Imm, MovRI
<1>13. pc = 49 => MovRI(5, 0)
  BY <1>1 DEF VM_BC_verify_hash, Opcode, Low, Imm, MovRI
<1>14. pc = 55 => OnTwo(10, 0, 5)
  BY <1>1 DEF VM_BC_verify_hash, Opcode, Low, High, OnTwo
<1>15. pc = 57 => JumpTo(12, 137)
  BY <1>1, WordIs DEF VM_BC_verify_hash, Opcode, Imm, Signed, JumpTo
<1>16. pc = 62 => OnTwo(10, 1, 5)
  BY <1>1 DEF VM_BC_verify_hash, Opcode, Low, High, OnTwo
<1>17. pc = 64 => JumpTo(12, 137)
  BY <1>1, WordIs DEF VM_BC_verify_hash, Opcode, Imm, Signed, JumpTo
<1>18. pc = 69 => OnTwo(10, 3, 5)
  BY <1>1 DEF VM_BC_verify_hash, Opcode, Low, High, OnTwo
<1>19. pc = 71 => JumpTo(12, 130)
  BY <1>1, WordIs DEF VM_BC_verify_hash, Opcode, Imm, Signed, JumpTo
<1>20. pc = 76 => OnCell(14, 5, 0)
  BY <1>1 DEF VM_BC_verify_hash, Opcode, Low, High, Imm, OnTwo, OnCell
<1>21. pc = 80 => OnTwo(10, 5, 5)
  BY <1>1 DEF VM_BC_verify_hash, Opcode, Low, High, OnTwo
<1>22. pc = 82 => MovRI(9, 0)
  BY <1>1 DEF VM_BC_verify_hash, Opcode, Low, Imm, MovRI
<1>23. pc = 88 => OnCell(14, 5, 0)
  BY <1>1 DEF VM_BC_verify_hash, Opcode, Low, High, Imm, OnTwo, OnCell
<1>24. pc = 92 => OnTwo(10, 5, 9)
  BY <1>1 DEF VM_BC_verify_hash, Opcode, Low, High, OnTwo
<1>25. pc = 94 => JumpTo(12, 130)
  BY <1>1, WordIs DEF VM_BC_verify_hash, Opcode, Imm, Signed, JumpTo
<1>26. pc = 99 => OnCell(14, 6, 1)
  BY <1>1 DEF VM_BC_verify_hash, Opcode, Low, High, Imm, OnTwo, OnCell
<1>27. pc = 103 => OnTwo(10, 6, 9)
  BY <1>1 DEF VM_BC_verify_hash, Opcode, Low, High, OnTwo
<1>28. pc = 105 => JumpTo(12, 130)
  BY <1>1, WordIs DEF VM_BC_verify_hash, Opcode, Imm, Signed, JumpTo
<1>29. pc = 110 => OnThree(5, 7, 5, 6)
  BY <1>1 DEF VM_BC_verify_hash, Opcode, Low, High, OnThree
<1>30. pc = 113 => OnThree(7, 2, 2, 7)
  BY <1>1 DEF VM_BC_verify_hash, Opcode, Low, High, OnThree
<1>31. pc = 116 => OnThree(3, 0, 0, 8)
  BY <1>1 DEF VM_BC_verify_hash, Opcode, Low, High, OnThree
<1>32. pc = 119 => OnThree(3, 1, 1, 8)
  BY <1>1 DEF VM_BC_verify_hash, Opcode, Low, High, OnThree
<1>33. pc = 122 => OnThree(4, 3, 3, 8)
  BY <1>1 DEF VM_BC_verify_hash, Opcode, Low, High, OnThree
<1>34. pc = 125 => JumpTo(11, 69)
  BY <1>1, WordIs DEF VM_BC_verify_hash, Opcode, Imm, Signed, JumpTo
<1>35. pc = 130 => OnTwo(10, 2, 9)
  BY <1>1 DEF VM_BC_verify_hash, Opcode, Low, High, OnTwo
<1>36. pc = 132 => JumpTo(12, 144)
  BY <1>1, WordIs DEF VM_BC_verify_hash, Opcode, Imm, Signed, JumpTo
<1>37. pc = 137 => MovRI(0, 1)
  BY <1>1 DEF VM_BC_verify_hash, Opcode, Low, Imm, MovRI
<1>38. pc = 143 => Opcode = 18
  BY <1>1 DEF VM_BC_verify_hash, Opcode
<1>39. pc = 144 => MovRI(0, 0)
  BY <1>1 DEF VM_BC_verify_hash, Opcode, Low, Imm, MovRI
<1>40. pc = 150 => Opcode = 18
  BY <1>1 DEF VM_BC_verify_hash, Opcode
<1> QED
  BY <1>2, <1>3, <1>4, <1>5, <1>6, <1>7, <1>8, <1>9, <1>10, <1>11, <1>12, <1>13, <1>14, <1>15, <1>16, <1>17, <1>18, <1>19, <1>20, <1>21, <1>22, <1>23, <1>24, <1>25, <1>26, <1>27, <1>28, <1>29, <1>30, <1>31, <1>32, <1>33, <1>34, <1>35, <1>36, <1>37, <1>38, <1>39, <1>40 DEF VerifyListing

-----------------------------------------------------------------------------
(***************************************************************************)
(* What holds at each instruction of the two programs.                     *)
(***************************************************************************)
\* An interpreter that was patched is found before its first step, and no other is.
Patched == job.by # "ivm_run" /\ job.expected = "differs" /\ job.section = "proper"
PatchInv ==
  /\ state \in {"asked", "new", "refused"} => pc = 0 /\ ~violation
  /\ state \notin {"asked", "new", "refused"} => (violation <=> Patched)
  /\ violation => pc = 0 /\ state = "error"

\* Both programs start with a comparison that always comes out the same way.
OpeningPoints == {0, 6, 8, 11, 17, 19}
Opening(at, v, zero) ==
  /\ at \in {6, 8} => v[15] = 57005
  /\ at = 8 => v[14] = 57005
  /\ at \in {11, 17} => v[14] = 0
  /\ at = 17 => v[13] = 0
  /\ at = 19 => zero

\* The buffer, the key and the key's length, the text in the buffer, and the
\* memory when the first i characters are decrypted.
Buffer == job.args[0]
Key == job.args[1]
KeyLength == job.args[3]
Made ==
  /\ job.by = "t3_assemble" =>
       /\ Index + 1 \in DOMAIN T3_DESCRIPTORS
       /\ \A i \in 1 .. Len(T3_DESCRIPTORS[Index + 1]) : Fits(T3_DESCRIPTORS[Index + 1], i)
  /\ job.by = "t4_get" => Index + 1 \in DOMAIN DATA
Turned(i) ==
  [c \in Cells |-> IF c - Buffer \in i .. Len(Input) - 1 THEN Input[c - Buffer + 1] ELSE Decrypted(c)]

XorStart(at, v, cells, zero) ==
  /\ at \in OpeningPoints \cup {31, 33, 35, 41, 47} /\ Opening(at, v, zero)
  /\ v[0] = Buffer /\ v[2] = Len(Input) /\ cells = Turned(0)
  /\ at > 31 => v[11] = Buffer
  /\ at > 33 => v[10] = Key
  /\ at > 35 => v[4] = 0
  /\ at > 41 => v[8] = 1

\* The key's character that the character i of the text is combined with.
Place(i) == i % KeyLength

XorTurn(at, v, cells, zero, i) ==
  /\ at \in {53, 55, 60, 64, 68, 71, 75, 78, 81, 84, 86, 91, 93, 99, 102}
  /\ at > 55 => i < Len(Input)
  /\ v[11] = Buffer /\ v[8] = 1 /\ v[9] = 0
  /\ v[2] = Len(Input) - i - (IF at = 102 THEN 1 ELSE 0)
  /\ v[0] = Buffer + i + (IF at > 75 THEN 1 ELSE 0)
  /\ cells = IF at > 71 THEN Turned(i + 1) ELSE Turned(i)
  /\ at = 55 => (zero <=> i = Len(Input))
  /\ at \in {64, 68} => v[5] = Input[i + 1]
  /\ at = 68 => v[6] = job.memory[Key + Place(i)]
  /\ at = 71 => v[7] = Decrypted(Buffer + i)
  /\ at <= 78 => v[10] = Key + Place(i)
  /\ at <= 81 => v[4] = Place(i)
  /\ at \in {81, 84, 86} => v[10] = Key + Place(i) + 1
  /\ at \in {84, 86} => v[4] = Place(i) + 1
  /\ at = 86 => (zero <=> Place(i) + 1 = KeyLength)
  /\ at \in {91, 93} => Place(i) + 1 = KeyLength
  /\ at = 93 => v[10] = Key
  /\ at \in {99, 102} => v[10] = Key + Place(i + 1) /\ v[4] = Place(i + 1)

XorEnd(at, v, cells, zero) ==
  /\ at \in {107, 109}
  /\ cells = Turned(Len(Input)) /\ v[11] = Buffer
  /\ at = 109 => v[0] = Buffer

XorAt(at, v, cells, zero) ==
  /\ v[1] = Key /\ v[3] = KeyLength
  /\ \/ XorStart(at, v, cells, zero)
     \/ \E i \in 0 .. Len(Input) : XorTurn(at, v, cells, zero, i)
     \/ XorEnd(at, v, cells, zero)

XorInv ==
  XorJob =>
    /\ state = "asked" =>
         memory = job.memory /\ regs[0] = Buffer /\ regs[1] = Key /\ regs[3] = KeyLength
    /\ state \notin {"asked", "refused"} => Made
    /\ state \in {"new", "running"} => XorAt(pc, regs, memory, "Z" \in flags)
    /\ state = "returned" => memory = Turned(Len(Input)) /\ regs[0] = Buffer
    /\ state # "fault" /\ (state = "error" => violation)

\* The comparison ends at the first NUL of either text, or at the first character of
\* the hash whose code is the number of those that were left to compare: the loop
\* compares its counter with V5, which holds 0 only before the first turn.
StopsAt(i) == HashAt(i) = 0 \/ ExpectedAt(i) = 0 \/ (i > 0 /\ HashAt(i - 1) = 64 - i)
\* The first i characters of the two texts do not end the comparison, and are equal.
Going(i) == \A j \in 0 .. i - 1 : ~StopsAt(j)
EqualUpTo(i) == \A j \in 0 .. i - 1 : HashAt(j) = ExpectedAt(j)
\* The counter in V3, and whether it is the last character's code.
Left(i) == Wrap(64 - i)
Counted(i) == i > 0 /\ HashAt(i - 1) = 64 - i

VerifyStart(at, v, zero) ==
  /\ at \in OpeningPoints \cup {31, 37, 43, 49, 55, 57, 62, 64} /\ Opening(at, v, zero)
  /\ v[0] = job.args[0] /\ v[1] = job.args[1]
  /\ at > 31 => v[2] = 0
  /\ at > 37 => v[3] = 64
  /\ at > 43 => v[8] = 1
  /\ at > 49 => v[5] = 0
  /\ at = 57 => (zero <=> job.args[0] = 0)
  /\ at > 57 => job.args[0] # 0
  /\ at = 64 => (zero <=> job.args[1] = 0)

VerifyTurn(at, v, zero, i) ==
  /\ at \in {69, 71, 76, 80, 82, 88, 92, 94, 99, 103, 105, 110, 113, 116, 119, 122, 125}
  /\ ~Null /\ Going(i)
  /\ v[0] = job.args[0] + i + (IF at > 116 THEN 1 ELSE 0)
  /\ v[1] = job.args[1] + i + (IF at > 119 THEN 1 ELSE 0)
  /\ v[3] = IF at = 125 THEN Left(i + 1) ELSE Left(i)
  /\ v[8] = 1 /\ (i > 0 \/ at > 82 => v[9] = 0)
  /\ at <= 71 => v[5] = IF i = 0 THEN 0 ELSE HashAt(i - 1)
  /\ at = 71 => (zero <=> Counted(i))
  /\ at > 71 => ~Counted(i)
  /\ at > 88 => v[5] = HashAt(i)
  /\ at = 94 => (zero <=> HashAt(i) = 0)
  /\ at > 94 => HashAt(i) # 0
  /\ at \in {103, 105, 110} => v[6] = ExpectedAt(i)
  /\ at = 105 => (zero <=> ExpectedAt(i) = 0)
  /\ at > 105 => ExpectedAt(i) # 0
  /\ at = 113 => v[7] = Xor(HashAt(i), ExpectedAt(i))
  /\ v[2] \in Byte /\ (v[2] = 0 <=> IF at > 113 THEN EqualUpTo(i + 1) ELSE EqualUpTo(i))

VerifyEnd(at, v, zero) ==
  \/ /\ at \in {130, 132} /\ ~Null /\ v[9] = 0
     /\ v[2] = 0 \/ Differ
     /\ at = 132 => (zero <=> v[2] = 0)
  \/ at \in {137, 143} /\ (Null \/ Differ) /\ (at = 143 => v[0] = 1)
  \/ at \in {144, 150} /\ ~Null /\ (at = 150 => v[0] = 0)

VerifyAt(at, v, zero) ==
  VerifyStart(at, v, zero) \/ (\E i \in 0 .. 255 : VerifyTurn(at, v, zero, i)) \/ VerifyEnd(at, v, zero)

Verdict(v) == (v = 0 /\ ~Null) \/ (v = 1 /\ (Null \/ Differ))
VerifyInv ==
  VerifyJob =>
    /\ state \in {"new", "running", "returned", "error"} /\ (state = "error" => violation)
    /\ memory = job.memory
    /\ state \in {"new", "running"} =>
         VerifyAt(pc, regs, "Z" \in flags)
    /\ state = "returned" => Verdict(regs[0])

EngineInv == EngineTypes /\ PatchInv /\ XorInv /\ VerifyInv

\* A buffer with room for some bytes is that many cells below the last address.
LEMMA Roomy ==
  ASSUME NEW a \in 0 .. Word - 1, NEW n \in Nat, Room(a, n)
  PROVE  n \in 0 .. Word - 1 /\ (n > 0 => a > 0) /\ (n > 0 => a + n <= 65535)
<1>1. a \in Int /\ 0 <= a /\ a <= 65535
  BY WordRange
<1>2. CASE n = 0
  BY <1>2, WordRange
<1>3. CASE n > 0
  <2>1. a \in a .. a + n - 1 /\ a + n - 1 \in a .. a + n - 1
    BY <1>1, <1>3
  <2>2. a \in Cells /\ a + n - 1 \in Cells
    BY <2>1 DEF Room
  <2>3. 1 <= a /\ a + n - 1 <= 65534
    BY <2>2, CellRange
  <2>4. n \in Int /\ 0 <= n /\ n <= 65535
    BY <2>3, <1>1
  <2> QED
    BY <2>3, <2>4, <1>1, WordRange
<1> QED
  BY <1>2, <1>3

\* What t3_assemble copies fits: the length of a whole string, and of the parts before
\* the first that does not.
LEMMA LengthFits ==
  ASSUME NEW i \in DOMAIN T3_DESCRIPTORS, \A m \in 1 .. Len(T3_DESCRIPTORS[i]) : Fits(T3_DESCRIPTORS[i], m)
  PROVE  Length(T3_DESCRIPTORS[i], Len(T3_DESCRIPTORS[i])) \in 0 .. T3_MAX_STR_LEN
<1> DEFINE parts == T3_DESCRIPTORS[i]
<1>1. parts \in Seq(Nat \X Nat) /\ Len(parts) \in Nat /\ Len(parts) \in 0 .. Len(parts)
  BY StringsAssumption
<1>2. Length(parts, Len(parts)) \in Nat
  BY <1>1, JoinedTypes
<1>3. CASE Len(parts) = 0
  <2>1. Length(parts, 0) = 0
    BY DEF Length
  <2> QED
    BY <2>1, <1>3, StringsAssumption
<1>4. CASE Len(parts) # 0
  <2>1. Fits(parts, Len(parts))
    BY <1>1, <1>4
  <2>2. Length(parts, Len(parts)) <= T3_MAX_STR_LEN
    BY <2>1 DEF Fits
  <2> QED
    BY <2>2, <1>2, StringsAssumption
<1> QED
  BY <1>3, <1>4

LEMMA CallerTypes == EngineTypes /\ (T3Assemble \/ T4Get \/ Execute) => EngineTypes'
<1> SUFFICES ASSUME EngineTypes, T3Assemble \/ T4Get \/ Execute
             PROVE  EngineTypes'
  OBVIOUS
<1>1. /\ regs \in [Registers -> 0 .. Word - 1] /\ flags \subseteq {"Z", "N"}
      /\ pc \in 0 .. Word - 1 /\ memory \in [Cells -> Byte] /\ violation \in BOOLEAN
      /\ state \in {"asked", "new", "running", "returned", "error", "refused", "fault"}
      /\ job \in Jobs
  BY DEF EngineTypes, TypeOK
<1>2. /\ job.args \in [0 .. 3 -> 0 .. Word - 1] /\ Provided(job)
      /\ Index \in Nat /\ job.args[0] \in 0 .. Word - 1
  <2>1. job.args \in [0 .. 3 -> 0 .. Word - 1] /\ Provided(job)
    BY <1>1, JobTypes
  <2>2. job.args[2] \in 0 .. Word - 1 /\ job.args[0] \in 0 .. Word - 1
    BY <2>1
  <2> QED
    BY <2>1, <2>2, WordRange DEF Index
<1>3. ASSUME NEW n \in 0 .. Word - 1, regs' = [regs EXCEPT ![2] = n]
      PROVE  regs' \in [Registers -> 0 .. Word - 1]
  BY <1>1, <1>3
<1>4. CASE T3Assemble
  <2> DEFINE parts == T3_DESCRIPTORS[Index + 1]
  <2>1. Index < Len(T3_DESCRIPTORS) => Index + 1 \in DOMAIN T3_DESCRIPTORS
    BY <1>2, StringsAssumption
  <2>2. job' = job /\ flags' = flags /\ pc' = pc /\ violation' = violation
    BY <1>4 DEF T3Assemble
  <2>3. CASE Refused
    BY <2>2, <2>3, <1>1 DEF Refused, EngineTypes, TypeOK
  <2>4. CASE /\ Index < Len(T3_DESCRIPTORS) /\ \A i \in 1 .. Len(parts) : Fits(parts, i)
             /\ Filled(Joined(parts, Len(parts)))
             /\ state' = "new" /\ regs' = [regs EXCEPT ![2] = Length(parts, Len(parts))]
    <3>1. Len(parts) \in 0 .. Len(parts)
      BY <2>1, <2>4, StringsAssumption
    <3>2. Joined(parts, Len(parts)) \in Seq(Byte)
      BY <2>1, <2>4, <3>1, JoinedTypes
    <3>3. memory' \in [Cells -> Byte]
      BY <2>4, <3>2, FilledTypes
    <3>4. T3_MAX_STR_LEN \in 0 .. Word - 1
      <4>1. Room(job.args[0], T3_MAX_STR_LEN)
        <5>1. job.by = "t3_assemble"
          BY <1>4 DEF T3Assemble
        <5>2. T3_MAX_STR_LEN \in Lengths(job) /\ job.program = "xor_decrypt"
          BY <5>1, <1>2 DEF Lengths, Provided
        <5> QED
          BY <5>2, <1>2 DEF Provided
      <4> QED
        BY <4>1, <1>2, StringsAssumption, Roomy
    <3>5. Length(parts, Len(parts)) \in 0 .. Word - 1
      <4>1. Length(parts, Len(parts)) \in 0 .. T3_MAX_STR_LEN
        BY <2>1, <2>4, LengthFits
      <4>2. \A x : x \in 0 .. T3_MAX_STR_LEN => x \in 0 .. Word - 1
        BY <3>4, WordRange
      <4> QED
        BY <4>1, <4>2
    <3>6. regs' \in [Registers -> 0 .. Word - 1]
      BY <2>4, <3>5, <1>3
    <3> QED
      BY <2>2, <2>4, <3>3, <3>6, <1>1 DEF EngineTypes, TypeOK
  <2>5. CASE /\ Index < Len(T3_DESCRIPTORS)
             /\ \E i \in 1 .. Len(parts) :
                  /\ ~Fits(parts, i) /\ \A j \in 1 .. i - 1 : Fits(parts, j)
                  /\ Filled(Joined(parts, i - 1))
             /\ state' = "refused" /\ UNCHANGED regs
    <3>1. PICK i \in 1 .. Len(parts) :
            (\A j \in 1 .. i - 1 : Fits(parts, j)) /\ Filled(Joined(parts, i - 1))
      BY <2>5
    <3>2. i - 1 \in 0 .. Len(parts)
      BY <2>1, <2>5, StringsAssumption
    <3>3. Joined(parts, i - 1) \in Seq(Byte)
      BY <2>1, <2>5, <3>1, <3>2, JoinedTypes
    <3>4. memory' \in [Cells -> Byte]
      BY <3>1, <3>3, FilledTypes
    <3> QED
      BY <2>2, <2>5, <3>4, <1>1 DEF EngineTypes, TypeOK
  <2> QED
    BY <1>4, <2>3, <2>4, <2>5 DEF T3Assemble
<1>5. CASE T4Get
  <2>1. job' = job /\ flags' = flags /\ pc' = pc /\ violation' = violation
    BY <1>5 DEF T4Get
  <2>2. CASE Refused
    BY <2>1, <2>2, <1>1 DEF Refused, EngineTypes, TypeOK
  <2>3. CASE ~Refused
    <3>1. /\ Index < Len(DATA) /\ Filled(DATA[Index + 1]) /\ state' = "new"
          /\ regs' = [regs EXCEPT ![2] = Len(DATA[Index + 1])] /\ job.by = "t4_get"
      BY <1>5, <2>3 DEF T4Get
    <3>2. Index + 1 \in DOMAIN DATA
      BY <3>1, <1>2, StringsAssumption
    <3>3. DATA[Index + 1] \in Seq(Byte) /\ Len(DATA[Index + 1]) \in Nat
      BY <3>2, StringsAssumption
    <3>4. memory' \in [Cells -> Byte]
      BY <3>1, <3>3, FilledTypes
    <3>5. Room(job.args[0], Len(DATA[Index + 1]))
      <4>1. Len(DATA[Index + 1]) \in Lengths(job) /\ job.program = "xor_decrypt"
        BY <3>1, <3>2, <1>2 DEF Lengths, Provided
      <4> QED
        BY <4>1, <1>2 DEF Provided
    <3>6. Len(DATA[Index + 1]) \in 0 .. Word - 1
      BY <3>3, <3>5, <1>2, Roomy
    <3>7. regs' \in [Registers -> 0 .. Word - 1]
      BY <3>1, <3>6, <1>3
    <3> QED
      BY <2>1, <3>1, <3>4, <3>7, <1>1 DEF EngineTypes, TypeOK
  <2> QED
    BY <2>2, <2>3
<1>6. CASE Execute
  BY <1>6, <1>1 DEF Execute, EngineTypes, TypeOK
<1> QED
  BY <1>4, <1>5, <1>6

LEMMA InitTypes == Init => EngineTypes
<1> SUFFICES ASSUME Init
             PROVE  EngineTypes
  OBVIOUS
<1>1. job \in Jobs /\ 0 \in 0 .. Word - 1
  BY WordRange DEF Init
<1>2. job.args \in [0 .. 3 -> 0 .. Word - 1] /\ job.memory \in [Cells -> Byte]
  BY <1>1, JobTypes
<1>3. \A r \in Registers : (IF r < 4 THEN job.args[r] ELSE 0) \in 0 .. Word - 1
  <2>1. \A r \in Registers : r < 4 => r \in 0 .. 3
    BY DEF Registers
  <2> QED
    BY <2>1, <1>1, <1>2
<1>4. regs \in [Registers -> 0 .. Word - 1]
  BY <1>3 DEF Init
<1> QED
  BY <1>1, <1>2, <1>4 DEF Init, EngineTypes, TypeOK

LEMMA StepTypes == EngineTypes /\ [Next]_vars => EngineTypes'
<1>1. EngineTypes /\ UNCHANGED vars => EngineTypes'
  BY DEF EngineTypes, TypeOK, vars
<1> QED
  BY <1>1, CallerTypes, InstructionTypes DEF Next

-----------------------------------------------------------------------------
(***************************************************************************)
(* The check before the first step.                                        *)
(***************************************************************************)
\* No step takes up another job.
LEMMA JobStays == [Next]_vars => job' = job
  BY DEF Next, vars, T3Assemble, T4Get, Execute, Step, Nop, MovImm, MovReg, Arithmetic, Unary,
     Compare, Jump, Load, StoreByte, CallExt, Ret, Stop, Same

LEMMA PatchInit == Init => PatchInv
  BY DEF Init, PatchInv

LEMMA PatchStep == EngineTypes /\ PatchInv /\ [Next]_vars => PatchInv'
<1> SUFFICES ASSUME EngineTypes, PatchInv, [Next]_vars
             PROVE  PatchInv'
  OBVIOUS
<1>1. CASE UNCHANGED vars
  BY <1>1 DEF PatchInv, Patched, vars
<1>2. CASE T3Assemble \/ T4Get
  <2>1. /\ state = "asked" /\ state' \in {"new", "refused"} /\ pc' = pc /\ violation' = violation
    BY <1>2 DEF T3Assemble, T4Get, Refused
  <2> QED
    BY <2>1 DEF PatchInv, Patched
<1>3. CASE Execute
  <2>1. SelfRefCheck <=> job.expected = "differs" /\ job.section = "proper"
    <3>1. job.expected \in {"zeros", "not_hex", "equal", "differs"}
      BY JobsAssumption DEF EngineTypes, Job
    <3>2. job.section \in {"proper", "disordered"}
      BY JobsAssumption DEF EngineTypes, Job
    <3> QED
      BY <3>1, <3>2 DEF SelfRefCheck, Parsed, ComputeCrc
  <2>2. job' = job /\ pc' = pc /\ pc = 0
    BY <1>3 DEF Execute, PatchInv
  <2>3. /\ (violation' <=> Patched) /\ (violation' <=> Patched')
        /\ state' \in {"error", "running"} /\ (violation' => state' = "error")
    BY <1>3, <2>1, <2>2 DEF Execute, Patched
  <2> QED
    BY <2>2, <2>3 DEF PatchInv
<1>4. CASE Step
  <2>1. Running /\ Same
    BY <1>4 DEF Step, Nop, MovImm, MovReg, Arithmetic, Unary, Compare, Jump, Load, StoreByte,
       CallExt, Ret, Stop, Takes
  <2>2. state = "running" /\ job' = job /\ violation' = violation /\ ~violation
    BY <2>1 DEF Running, Same, PatchInv
  <2>3. state' \in {"running", "fault", "error", "returned"}
    BY <1>4, <2>2 DEF Step, Nop, MovImm, MovReg, Arithmetic, Unary, Compare, Jump, Load, StoreByte,
       CallExt, Ret, Stop
  <2> QED
    BY <2>2, <2>3 DEF PatchInv, Patched
<1> QED
  BY <1>1, <1>2, <1>3, <1>4 DEF Next

-----------------------------------------------------------------------------
(***************************************************************************)
(* What an instruction of the two programs does.                           *)
(***************************************************************************)
\* A step at a place of the code that the program takes up.
Fetching == EngineTypes /\ Running /\ ~AtEnd /\ job.by # "ivm_run" /\ pc \in 0 .. 150 /\ Step

\* The step goes on at an address, having set a register and nothing else, or all left.
GoesOn(to) == pc' = to /\ job' = job /\ violation' = violation
Sets(d, v) ==
  LET now(r) == regs'[r] = IF r = d THEN v ELSE regs[r] IN
  /\ now(0) /\ now(1) /\ now(2) /\ now(3) /\ now(4) /\ now(5) /\ now(6) /\ now(7)
  /\ now(8) /\ now(9) /\ now(10) /\ now(11) /\ now(12) /\ now(13) /\ now(14) /\ now(15)
  /\ flags' = flags /\ memory' = memory /\ state' = state

LEMMA Opcodes ==
  /\ Nop => Opcode = 0
  /\ MovImm => Opcode \in {1, 19}
  /\ MovReg => Opcode = 2
  /\ Arithmetic => Opcode \in {3, 4, 5, 6, 7, 8, 9}
  /\ Unary => Opcode \in {20, 21}
  /\ Compare => Opcode = 10
  /\ Jump => Opcode \in {11, 12, 13}
  /\ Load => Opcode \in {14, 15}
  /\ StoreByte => Opcode = 16
  /\ CallExt => Opcode = 17
  /\ Ret => Opcode = 18
  /\ (Stop /\ ~AtEnd /\ job.by # "ivm_run") => Opcode \notin 0 .. 21
<1>1. /\ Nop => Opcode = 0
      /\ MovImm => Opcode \in {1, 19}
      /\ MovReg => Opcode = 2
      /\ Unary => Opcode \in {20, 21}
      /\ Compare => Opcode = 10
      /\ Jump => Opcode \in {11, 12, 13}
  BY DEF Takes, Nop, MovImm, MovReg, Unary, Compare, Jump
<1>2. /\ Load => Opcode \in {14, 15}
      /\ StoreByte => Opcode = 16
      /\ CallExt => Opcode = 17
      /\ Ret => Opcode = 18
  BY DEF Takes, Load, StoreByte, CallExt, Ret
<1>3. Arithmetic => Opcode \in {3, 4, 5, 6, 7, 8, 9}
  BY DEF Takes, Arithmetic
<1>4. (Stop /\ ~AtEnd /\ job.by # "ivm_run") => Opcode \notin 0 .. 21
  BY DEF Stop, Known
<1> QED
  BY <1>1, <1>2, <1>3, <1>4

LEMMA Dispatch ==
  ASSUME Fetching
  PROVE  /\ Opcode = 1 => MovImm
         /\ Opcode = 2 => MovReg
         /\ Opcode \in {3, 4, 5, 7} => Arithmetic
         /\ Opcode = 10 => Compare
         /\ Opcode \in {11, 12, 13} => Jump
         /\ Opcode = 14 => Load
         /\ Opcode = 16 => StoreByte
         /\ Opcode = 18 => Ret
  BY Opcodes DEF Fetching, Step

\* Of words, the remainders that an instruction leaves.
LEMMA SmallWraps == \A v : v \in 0 .. Word - 1 => Wrap(v) = v
<1> SUFFICES ASSUME NEW v \in Int, 0 <= v, v <= 65535
             PROVE  v % Word = v
  BY WordRange DEF Wrap
<1> QED
  BY WordIs

LEMMA Fetched ==
  ASSUME Fetching
  PROVE  /\ regs \in [Registers -> 0 .. Word - 1] /\ memory \in [Cells -> Byte]
         /\ pc \in Nat /\ pc <= 150 /\ job \in Jobs
         /\ \A n \in 0 .. 10 : Wrap(pc + n) = pc + n
         /\ \A r \in Registers : regs[r] \in Int /\ 0 <= regs[r] /\ regs[r] <= 65535
<1>1. /\ regs \in [Registers -> 0 .. Word - 1] /\ memory \in [Cells -> Byte]
      /\ pc \in Nat /\ pc <= 150 /\ job \in Jobs
  BY DEF Fetching, EngineTypes, TypeOK
<1>2. \A n \in 0 .. 10 : pc + n \in 0 .. Word - 1
  BY <1>1, WordRange
<1> QED
  BY <1>1, <1>2, SmallWraps, WordRange

LEMMA SomeRegisters ==
  /\ 0 \in Registers /\ 1 \in Registers /\ 2 \in Registers /\ 3 \in Registers
  /\ 4 \in Registers /\ 5 \in Registers /\ 6 \in Registers /\ 7 \in Registers
  /\ 8 \in Registers /\ 9 \in Registers /\ 10 \in Registers /\ 11 \in Registers
  /\ 12 \in Registers /\ 13 \in Registers /\ 14 \in Registers /\ 15 \in Registers
  BY DEF Registers

\* A number that is put in a register is wrapped; one between 0 and the largest word is not.
LEMMA PutSets ==
  ASSUME regs \in [Registers -> 0 .. Word - 1], NEW d \in Registers, NEW v, Put(d, v),
         flags' = flags, memory' = memory, state' = state
  PROVE  /\ Sets(d, Wrap(v))
         /\ v \in Int /\ 0 <= v /\ v <= 65535 => Sets(d, v)
<1>1. v \in Int /\ 0 <= v /\ v <= 65535 => Wrap(v) = v
  BY SmallWraps, WordRange
<1>2. \A r \in Registers : regs'[r] = IF r = d THEN Wrap(v) ELSE regs[r]
  BY DEF Put
<1>3. Sets(d, Wrap(v))
  BY <1>2, SomeRegisters DEF Sets
<1> QED
  BY <1>1, <1>3

LEMMA DoMovRI ==
  ASSUME Fetching, NEW d \in Registers, NEW v \in Int, 0 <= v, v <= 65535, MovRI(d, v)
  PROVE  GoesOn(pc + 6) /\ Sets(d, v)
<1>1. MovImm /\ Opcode = 1 /\ Low(1) = d /\ Imm(2) = v
  BY Dispatch DEF MovRI
<1>2. Put(d, v) /\ pc' = Wrap(pc + 6) /\ Same /\ UNCHANGED <<flags, memory, state>>
  BY <1>1 DEF MovImm, Takes
<1> QED
  BY <1>2, Fetched, PutSets DEF GoesOn, Same

LEMMA DoMovReg ==
  ASSUME Fetching, NEW a \in Registers, NEW b \in Registers, OnTwo(2, a, b)
  PROVE  GoesOn(pc + 2) /\ Sets(a, regs[b])
<1>1. MovReg /\ Low(1) = a /\ High(1) = b
  BY Dispatch DEF OnTwo
<1>2. Put(a, regs[b]) /\ pc' = Wrap(pc + 2) /\ Same /\ UNCHANGED <<flags, memory, state>>
  BY <1>1 DEF MovReg, Takes
<1> QED
  BY <1>2, Fetched, PutSets DEF GoesOn, Same

LEMMA DoArithmetic ==
  ASSUME Fetching, NEW op \in {3, 4, 5, 7}, NEW d \in Registers, NEW a \in Registers, NEW b \in Registers,
         OnThree(op, d, a, b)
  PROVE  /\ GoesOn(pc + 3) /\ flags' = flags /\ memory' = memory /\ state' = state
         /\ op = 3 => Put(d, regs[a] + regs[b])
         /\ op = 4 => Put(d, Minus(regs[a], regs[b]))
         /\ op = 5 => Put(d, Xor(regs[a], regs[b]))
         /\ op = 7 => Put(d, Or(regs[a], regs[b]))
<1>1. Arithmetic /\ Opcode = op /\ Low(1) = d /\ High(1) = a /\ Low(2) = b
  BY Dispatch DEF OnThree
<1>2. pc' = Wrap(pc + 3) /\ Same /\ UNCHANGED <<flags, memory, state>>
  BY <1>1 DEF Arithmetic, Takes
<1>3. /\ op = 3 => Put(d, regs[a] + regs[b])
      /\ op = 4 => Put(d, Minus(regs[a], regs[b]))
      /\ op = 5 => Put(d, Xor(regs[a], regs[b]))
      /\ op = 7 => Put(d, Or(regs[a], regs[b]))
  BY <1>1 DEF Arithmetic, Takes
<1> QED
  BY <1>2, <1>3, Fetched DEF GoesOn, Same

LEMMA DoAdd ==
  ASSUME Fetching, NEW d \in Registers, NEW a \in Registers, NEW b \in Registers, OnThree(3, d, a, b),
         regs[a] + regs[b] <= 65535
  PROVE  GoesOn(pc + 3) /\ Sets(d, regs[a] + regs[b])
<1>1. regs[a] + regs[b] \in Int /\ 0 <= regs[a] + regs[b]
  BY Fetched
<1> QED
  BY <1>1, DoArithmetic, Fetched, PutSets

\* Both programs count down by one, verify_hash below 0.
LEMMA DoSub ==
  ASSUME Fetching, NEW d \in Registers, NEW b \in Registers, OnThree(4, d, d, b), regs[b] = 1,
         NEW v \in Int, 0 - 65535 <= v, v <= 65535, regs[d] = Wrap(v)
  PROVE  GoesOn(pc + 3) /\ Sets(d, Wrap(v - 1))
<1>1. Put(d, Minus(regs[d], 1))
  BY DoArithmetic
<1>2. Wrap(Minus(Wrap(v), 1)) = Wrap(v - 1)
  BY WordIs DEF Wrap, Minus
<1>3. Sets(d, Wrap(Minus(regs[d], 1)))
  BY <1>1, DoArithmetic, PutSets, Fetched
<1> QED
  BY <1>2, <1>3, DoArithmetic

LEMMA DoXor ==
  ASSUME Fetching, NEW d \in Registers, NEW a \in Registers, NEW b \in Registers, OnThree(5, d, a, b),
         regs[a] \in Byte, regs[b] \in Byte
  PROVE  GoesOn(pc + 3) /\ Sets(d, Xor(regs[a], regs[b]))
<1>1. Xor(regs[a], regs[b]) \in Int /\ 0 <= Xor(regs[a], regs[b]) /\ Xor(regs[a], regs[b]) <= 65535
  BY ByteWords, ByteIs
<1> QED
  BY <1>1, DoArithmetic, Fetched, PutSets

LEMMA DoOr ==
  ASSUME Fetching, NEW d \in Registers, NEW a \in Registers, NEW b \in Registers, OnThree(7, d, a, b),
         regs[a] \in Byte, regs[b] \in Byte
  PROVE  GoesOn(pc + 3) /\ Sets(d, Or(regs[a], regs[b]))
<1>1. Or(regs[a], regs[b]) \in Int /\ 0 <= Or(regs[a], regs[b]) /\ Or(regs[a], regs[b]) <= 65535
  BY ByteWords, ByteIs
<1> QED
  BY <1>1, DoArithmetic, Fetched, PutSets

LEMMA ZeroDifference == \A x, y \in 0 .. Word - 1 : Wrap(Minus(x, y)) = 0 <=> x = y
<1> SUFFICES ASSUME NEW x \in Int, 0 <= x, x <= 65535, NEW y \in Int, 0 <= y, y <= 65535
             PROVE  Wrap(Minus(x, y)) = 0 <=> x = y
  BY WordRange
<1> QED
  BY WordIs DEF Wrap, Minus

LEMMA DoCompare ==
  ASSUME Fetching, NEW a \in Registers, NEW b \in Registers, OnTwo(10, a, b)
  PROVE  /\ GoesOn(pc + 2) /\ regs' = regs /\ memory' = memory /\ state' = state
         /\ "Z" \in flags' <=> regs[a] = regs[b]
<1>1. Compare /\ Low(1) = a /\ High(1) = b
  BY Dispatch DEF OnTwo
<1>2. pc' = Wrap(pc + 2) /\ Same /\ UNCHANGED <<regs, memory, state>>
  BY <1>1 DEF Compare, Takes
<1>3. "Z" \in flags' <=> Wrap(Minus(regs[a], regs[b])) = 0
  BY <1>1 DEF Compare
<1>4. Wrap(Minus(regs[a], regs[b])) = 0 <=> regs[a] = regs[b]
  <2>1. regs[a] \in 0 .. Word - 1 /\ regs[b] \in 0 .. Word - 1
    BY Fetched
  <2> QED
    BY <2>1, ZeroDifference
<1> QED
  BY <1>2, <1>3, <1>4, Fetched DEF GoesOn, Same

LEMMA DoJump ==
  ASSUME Fetching, NEW op \in {11, 12, 13}, NEW to \in 0 .. 150, JumpTo(op, to)
  PROVE  /\ GoesOn(IF op = 11 \/ (op = 12 /\ "Z" \in flags) \/ (op = 13 /\ "Z" \notin flags)
                   THEN to ELSE pc + 5)
         /\ regs' = regs /\ flags' = flags /\ memory' = memory /\ state' = state
<1>1. Jump /\ Opcode = op /\ pc + 5 + Signed(Imm(1)) = to
  BY Dispatch DEF JumpTo
<1>2. Target = to
  <2>1. Target = Wrap(to + Word)
    BY <1>1 DEF Target
  <2> QED
    BY <2>1, WordIs DEF Wrap
<1>3. /\ pc' = IF Jumps(op) THEN Target ELSE Wrap(pc + 5)
      /\ Same /\ UNCHANGED <<regs, flags, memory, state>>
  BY <1>1 DEF Jump
<1> QED
  BY <1>2, <1>3, Fetched DEF GoesOn, Same, Jumps

LEMMA DoLoad ==
  ASSUME Fetching, NEW a \in Registers, NEW b \in Registers, OnCell(14, a, b), regs[b] \in Cells
  PROVE  GoesOn(pc + 4) /\ Sets(a, memory[regs[b]])
<1>1. Load /\ Opcode = 14 /\ Low(1) = a /\ High(1) = b /\ Imm(2) = 0
  BY Dispatch DEF OnCell, OnTwo
<1>2. Address(b) = regs[b]
  <2>1. Signed(0) = 0
    BY WordIs DEF Signed
  <2>2. regs[b] \in Int /\ 0 <= regs[b] /\ regs[b] <= 65535
    BY Fetched
  <2> QED
    BY <1>1, <2>1, <2>2, WordIs DEF Address, Wrap
<1>3. /\ Put(a, memory[regs[b]]) /\ pc' = Wrap(pc + 4)
      /\ Same /\ UNCHANGED <<flags, memory, state>>
  BY <1>1, <1>2 DEF Load, Takes
<1>4. memory[regs[b]] \in Int /\ 0 <= memory[regs[b]] /\ memory[regs[b]] <= 65535
  <2>1. memory[regs[b]] \in Byte
    BY Fetched
  <2> QED
    BY <2>1, ByteIs
<1> QED
  BY <1>3, <1>4, Fetched, PutSets DEF GoesOn, Same

LEMMA DoStore ==
  ASSUME Fetching, NEW a \in Registers, NEW b \in Registers, OnCell(16, a, b), regs[a] \in Cells,
         regs[b] \in Byte
  PROVE  /\ GoesOn(pc + 4) /\ regs' = regs /\ flags' = flags /\ state' = state
         /\ memory' = [memory EXCEPT ![regs[a]] = regs[b]]
<1>1. StoreByte /\ Low(1) = a /\ High(1) = b /\ Imm(2) = 0
  BY Dispatch DEF OnCell, OnTwo
<1>2. Address(a) = regs[a]
  <2>1. Signed(0) = 0
    BY WordIs DEF Signed
  <2>2. regs[a] \in Int /\ 0 <= regs[a] /\ regs[a] <= 65535
    BY Fetched
  <2> QED
    BY <1>1, <2>1, <2>2, WordIs DEF Address, Wrap
<1>3. regs[b] % 256 = regs[b]
  BY ByteIs
<1>4. /\ memory' = [memory EXCEPT ![regs[a]] = regs[b]] /\ pc' = Wrap(pc + 4)
      /\ Same /\ UNCHANGED <<regs, flags, state>>
  BY <1>1, <1>2, <1>3 DEF StoreByte, Takes
<1> QED
  BY <1>4, Fetched DEF GoesOn, Same

LEMMA DoRet ==
  ASSUME Fetching, Opcode = 18
  PROVE  /\ state' = "returned" /\ job' = job /\ violation' = violation
         /\ regs' = regs /\ flags' = flags /\ memory' = memory
  BY Dispatch DEF Ret, Same

-----------------------------------------------------------------------------
(***************************************************************************)
(* xor_decrypt.                                                            *)
(***************************************************************************)
\* The text lies in memory, apart from the key, and is what the caller says.
LEMMA InputFits ==
  ASSUME job \in Jobs, XorJob, Made
  PROVE  /\ Input \in Seq(Byte) /\ Len(Input) \in Nat
         /\ Buffer \in Nat /\ Key \in Nat /\ KeyLength \in Nat \ {0}
         /\ Buffer + Len(Input) <= 65535 /\ Key + KeyLength <= 65535
         /\ Room(Buffer, Len(Input)) /\ Room(Key, KeyLength)
         /\ Buffer + Len(Input) <= Key \/ Key + KeyLength <= Buffer
         /\ job.by = "t3_assemble" =>
              Len(Input) = Length(T3_DESCRIPTORS[Index + 1], Len(T3_DESCRIPTORS[Index + 1]))
<1>1. /\ job.args \in [0 .. 3 -> 0 .. Word - 1] /\ job.memory \in [Cells -> Byte] /\ Provided(job)
      /\ job.by \in Callers
  BY JobTypes
<1>2. /\ Buffer \in 0 .. Word - 1 /\ Key \in 0 .. Word - 1 /\ KeyLength \in 0 .. Word - 1
      /\ job.args[2] \in 0 .. Word - 1
  BY <1>1 DEF Buffer, Key, KeyLength
<1>3. /\ Buffer \in Nat /\ Key \in Nat /\ KeyLength \in Nat /\ job.args[2] \in Nat
      /\ Buffer <= 65535 /\ Key <= 65535
  BY <1>2, WordRange
<1>4. /\ KeyLength > 0 /\ Room(Key, KeyLength)
      /\ \A n \in Lengths(job) :
           Room(Buffer, n) /\ (Buffer + n <= Key \/ Key + KeyLength <= Buffer)
  BY <1>1 DEF Provided, XorJob, Buffer, Key, KeyLength
<1>5. /\ Input \in Seq(Byte) /\ \E n \in Lengths(job) : n \in Nat /\ Len(Input) \in 0 .. n
      /\ job.by = "t3_assemble" =>
           Len(Input) = Length(T3_DESCRIPTORS[Index + 1], Len(T3_DESCRIPTORS[Index + 1]))
  <2>1. CASE job.by = "t3_assemble"
    <3> DEFINE parts == T3_DESCRIPTORS[Index + 1]
    <3>1. /\ Index + 1 \in DOMAIN T3_DESCRIPTORS /\ \A i \in 1 .. Len(parts) : Fits(parts, i)
      BY <2>1 DEF Made
    <3>2. Len(parts) \in 0 .. Len(parts)
      BY <3>1, StringsAssumption
    <3>3. Input = Joined(parts, Len(parts)) /\ Lengths(job) = {T3_MAX_STR_LEN}
      BY <2>1 DEF Input, Lengths
    <3>4. Input \in Seq(Byte) /\ Len(Input) = Length(parts, Len(parts))
      BY <3>1, <3>2, <3>3, JoinedTypes
    <3>5. Length(parts, Len(parts)) \in 0 .. T3_MAX_STR_LEN
      BY <3>1, LengthFits
    <3> QED
      BY <3>3, <3>4, <3>5, StringsAssumption
  <2>2. CASE job.by = "t4_get"
    <3>1. Index + 1 \in DOMAIN DATA /\ Input = DATA[Index + 1]
      BY <2>2 DEF Made, Input
    <3>2. Input \in Seq(Byte) /\ Len(Input) \in Lengths(job) /\ Len(Input) \in Nat
      BY <2>2, <3>1, StringsAssumption DEF Lengths
    <3> QED
      BY <2>2, <3>2
  <2>3. CASE job.by \notin {"t3_assemble", "t4_get"}
    <3> DEFINE size == job.args[2]
    <3>1. /\ Input = [i \in 1 .. size |-> job.memory[Buffer + i - 1]]
          /\ Lengths(job) = {size}
      BY <2>3 DEF Input, Lengths, Buffer
    <3>2. \A i \in 1 .. size : job.memory[Buffer + i - 1] \in Byte
      <4>1. Room(Buffer, size)
        BY <3>1, <1>4
      <4>2. \A i \in 1 .. size : Buffer + i - 1 \in Cells
        BY <4>1, <1>3 DEF Room
      <4> QED
        BY <4>2, <1>1
    <3>3. size \in Nat
      BY <1>3
    <3> HIDE DEF size
    <3>4. Input \in Seq(Byte) /\ Len(Input) = size
      BY <3>1, <3>2, <3>3
    <3> QED
      BY <2>3, <3>1, <3>3, <3>4
  <2> QED
    BY <2>1, <2>2, <2>3
<1>7. PICK n \in Lengths(job) : n \in Nat /\ Len(Input) \in 0 .. n
  BY <1>5
<1>8. Room(Buffer, n) /\ (Buffer + n <= Key \/ Key + KeyLength <= Buffer)
  BY <1>4, <1>7
<1>9. n > 0 => Buffer + n <= 65535
  BY <1>2, <1>7, <1>8, Roomy
<1>10. Room(Buffer, Len(Input))
  BY <1>3, <1>7, <1>8 DEF Room
<1>11. Key + KeyLength <= 65535
  BY <1>2, <1>3, <1>4, Roomy
<1>12. Buffer + Len(Input) <= 65535 /\ Len(Input) \in Nat
  BY <1>3, <1>7, <1>9
<1>13. Buffer + Len(Input) <= Key \/ Key + KeyLength <= Buffer
  BY <1>3, <1>7, <1>8
<1> QED
  BY <1>3, <1>4, <1>5, <1>10, <1>11, <1>12, <1>13

\* Decrypting one character after the other.
LEMMA Turning ==
  ASSUME job \in Jobs, XorJob, Made
  PROVE  /\ \A i \in 0 .. Len(Input) - 1 :
              /\ Buffer + i \in Cells /\ Input[i + 1] \in Byte
              /\ Key + (i % KeyLength) \in Cells /\ job.memory[Key + (i % KeyLength)] \in Byte
              /\ Turned(i)[Buffer + i] = Input[i + 1]
              /\ Turned(i)[Key + (i % KeyLength)] = job.memory[Key + (i % KeyLength)]
              /\ Decrypted(Buffer + i) = Xor(Input[i + 1], job.memory[Key + (i % KeyLength)])
              /\ Turned(i + 1) = [Turned(i) EXCEPT ![Buffer + i] = Decrypted(Buffer + i)]
         /\ Turned(Len(Input)) = [c \in Cells |-> Decrypted(c)]
         /\ Filled(Input) /\ memory = job.memory => memory' = Turned(0)
         /\ job.by \notin {"t3_assemble", "t4_get"} => job.memory = Turned(0)
<1>1. /\ Input \in Seq(Byte) /\ Len(Input) \in Nat
      /\ Buffer \in Nat /\ Key \in Nat /\ KeyLength \in Nat \ {0}
      /\ Room(Buffer, Len(Input)) /\ Room(Key, KeyLength)
      /\ Buffer + Len(Input) <= Key \/ Key + KeyLength <= Buffer
  BY InputFits
<1>2. job.memory \in [Cells -> Byte] /\ \A c \in Cells : c \in Int
  BY JobTypes, CellRange
<1>3. \A c : Decrypted(c) = IF c - Buffer \in 0 .. Len(Input) - 1
                           THEN Xor(Input[c - Buffer + 1], job.memory[Key + ((c - Buffer) % KeyLength)])
                           ELSE job.memory[c]
  BY DEF Decrypted, Buffer, Key, KeyLength
<1>4. ASSUME NEW i \in 0 .. Len(Input) - 1
      PROVE  /\ Buffer + i \in Cells /\ Input[i + 1] \in Byte
             /\ Key + (i % KeyLength) \in Cells /\ job.memory[Key + (i % KeyLength)] \in Byte
             /\ Turned(i)[Buffer + i] = Input[i + 1]
             /\ Turned(i)[Key + (i % KeyLength)] = job.memory[Key + (i % KeyLength)]
             /\ Decrypted(Buffer + i) = Xor(Input[i + 1], job.memory[Key + (i % KeyLength)])
             /\ Turned(i + 1) = [Turned(i) EXCEPT ![Buffer + i] = Decrypted(Buffer + i)]
  <2> DEFINE k == i % KeyLength
  <2>1. k \in 0 .. KeyLength - 1
    BY <1>1, i \in Nat
  <2> HIDE DEF k
  <2>2. Buffer + i \in Cells /\ Buffer + i - Buffer = i
    <3>1. Buffer + i \in Buffer .. Buffer + Len(Input) - 1
      BY <1>1
    <3> QED
      BY <3>1, <1>1 DEF Room
  <2>3. Key + k \in Cells
    <3>1. Key + k \in Key .. Key + KeyLength - 1
      BY <1>1, <2>1
    <3> QED
      BY <3>1, <1>1 DEF Room
  <2>4. Input[i + 1] \in Byte /\ job.memory[Key + k] \in Byte
    BY <1>1, <1>2, <2>3
  <2>5. Turned(i)[Buffer + i] = Input[i + 1]
    BY <2>2, <1>1 DEF Turned
  <2>6. Turned(i)[Key + k] = job.memory[Key + k]
    <3>1. (Key + k) - Buffer \notin 0 .. Len(Input) - 1
      BY <1>1, <2>1
    <3>2. Decrypted(Key + k) = job.memory[Key + k]
      BY <3>1, <1>3
    <3>3. (Key + k) - Buffer \notin i .. Len(Input) - 1
      BY <3>1
    <3> QED
      BY <2>3, <3>2, <3>3 DEF Turned
  <2>7. Decrypted(Buffer + i) = Xor(Input[i + 1], job.memory[Key + k])
    <3> DEFINE c == Buffer + i
    <3>1. c - Buffer = i /\ i \in 0 .. Len(Input) - 1
      BY <1>1
    <3> HIDE DEF c
    <3>2. Decrypted(c) = IF c - Buffer \in 0 .. Len(Input) - 1
                         THEN Xor(Input[c - Buffer + 1], job.memory[Key + ((c - Buffer) % KeyLength)])
                         ELSE job.memory[c]
      BY <1>3
    <3>3. Decrypted(c) = Xor(Input[i + 1], job.memory[Key + (i % KeyLength)])
      BY <3>1, <3>2
    <3> QED
      BY <3>3 DEF c, k
  <2>8. Turned(i + 1) = [Turned(i) EXCEPT ![Buffer + i] = Decrypted(Buffer + i)]
    <3>1. \A c \in Cells :
            (IF c - Buffer \in i + 1 .. Len(Input) - 1 THEN Input[c - Buffer + 1] ELSE Decrypted(c))
              = IF c = Buffer + i THEN Decrypted(Buffer + i)
                ELSE IF c - Buffer \in i .. Len(Input) - 1 THEN Input[c - Buffer + 1] ELSE Decrypted(c)
      <4>1. Buffer \in Int /\ i \in Int /\ Len(Input) \in Int
        BY <1>1
      <4>2. \A c \in Int :
              /\ c = Buffer + i => c - Buffer \notin i + 1 .. Len(Input) - 1
              /\ c # Buffer + i => (c - Buffer \in i + 1 .. Len(Input) - 1 <=> c - Buffer \in i .. Len(Input) - 1)
        BY <4>1
      <4>3. ASSUME NEW c \in Cells
            PROVE  (IF c - Buffer \in i + 1 .. Len(Input) - 1 THEN Input[c - Buffer + 1] ELSE Decrypted(c))
                     = IF c = Buffer + i THEN Decrypted(Buffer + i)
                       ELSE IF c - Buffer \in i .. Len(Input) - 1 THEN Input[c - Buffer + 1] ELSE Decrypted(c)
        <5>1. /\ c = Buffer + i => c - Buffer \notin i + 1 .. Len(Input) - 1
              /\ c # Buffer + i => (c - Buffer \in i + 1 .. Len(Input) - 1 <=> c - Buffer \in i .. Len(Input) - 1)
          BY <4>2, <1>2
        <5>2. CASE c = Buffer + i
          BY <5>1, <5>2, Zenon
        <5>3. CASE c # Buffer + i
          BY <5>1, <5>3, Zenon
        <5> QED
          BY <5>2, <5>3, Zenon
      <4> QED
        BY <4>3, Zenon
    <3> QED
      BY <3>1 DEF Turned
  <2> QED
    BY <2>2, <2>3, <2>4, <2>5, <2>6, <2>7, <2>8 DEF k
<1>5. Turned(Len(Input)) = [c \in Cells |-> Decrypted(c)]
  BY <1>1, <1>2 DEF Turned
<1>6. \A c \in Cells : (IF c - Buffer \in 0 .. Len(Input) - 1 THEN Input[c - Buffer + 1] ELSE Decrypted(c))
                     = IF c - Buffer \in 0 .. Len(Input) - 1 THEN Input[c - Buffer + 1] ELSE job.memory[c]
  BY <1>3
<1>7. ASSUME Filled(Input), memory = job.memory
      PROVE  memory' = Turned(0)
  <2>1. \A c \in Cells : c \in Buffer .. Buffer + Len(Input) - 1 <=> c - Buffer \in 0 .. Len(Input) - 1
    BY <1>1, <1>2
  <2>2. memory' = [c \in Cells |-> IF c \in Buffer .. Buffer + Len(Input) - 1
                                   THEN Input[c - Buffer + 1] ELSE job.memory[c]]
    BY <1>7 DEF Filled, Buffer
  <2> QED
    BY <2>1, <2>2, <1>6 DEF Turned
<1>8. ASSUME job.by \notin {"t3_assemble", "t4_get"}
      PROVE  job.memory = Turned(0)
  <2>1. Input = [i \in 1 .. job.args[2] |-> job.memory[Buffer + i - 1]] /\ job.args[2] \in Nat
    <3>1. job.args[2] \in 0 .. Word - 1
      BY JobTypes
    <3> QED
      BY <1>8, <3>1, WordRange DEF Input, Buffer
  <2>2. Len(Input) = job.args[2]
    BY <2>1
  <2>3. \A c \in Cells : c - Buffer \in 0 .. Len(Input) - 1 => Input[c - Buffer + 1] = job.memory[c]
    <3>1. ASSUME NEW c \in Cells, c - Buffer \in 0 .. Len(Input) - 1
          PROVE  Input[c - Buffer + 1] = job.memory[c]
      <4>1. c - Buffer + 1 \in 1 .. job.args[2] /\ Buffer + (c - Buffer + 1) - 1 = c
        <5>1. c \in Int /\ Buffer \in Int /\ job.args[2] \in Int
          BY <2>1, <1>1, <1>2
        <5>2. c - Buffer \in 0 .. job.args[2] - 1
          BY <2>2, <3>1, Zenon
        <5> QED
          BY <5>1, <5>2
      <4> QED
        BY <2>1, <4>1
    <3> QED
      BY <3>1, Zenon
  <2> QED
    BY <2>3, <1>2, <1>6 DEF Turned
<1> QED
  BY <1>4, <1>5, <1>7, <1>8

LEMMA XorItself == \A a : Xor(a, a) = 0
  BY DEF Xor, WordOf

\* The opening leads to 31 and leaves the memory and the arguments alone.
LEMMA OpeningStep ==
  ASSUME Fetching, XorJob \/ VerifyJob, pc \in OpeningPoints, Opening(pc, regs, "Z" \in flags)
  PROVE  /\ pc' \in OpeningPoints \cup {31} /\ Opening(pc', regs', "Z" \in flags')
         /\ job' = job /\ violation' = violation /\ memory' = memory /\ state' = state
         /\ regs'[0] = regs[0] /\ regs'[1] = regs[1] /\ regs'[2] = regs[2] /\ regs'[3] = regs[3]
<1>1. /\ pc = 0 => MovRI(15, 57005)
      /\ pc = 6 => OnTwo(2, 14, 15)
      /\ pc = 8 => OnThree(5, 14, 14, 15)
      /\ pc = 11 => MovRI(13, 0)
      /\ pc = 17 => OnTwo(10, 14, 13)
      /\ pc = 19 => JumpTo(12, 31)
  <2>1. CASE XorJob
    BY <2>1, Fetched, XorDisassembled DEF XorListing
  <2>2. CASE VerifyJob
    BY <2>2, Fetched, VerifyDisassembled DEF VerifyListing
  <2> QED
    BY <2>1, <2>2
<1>2. CASE pc = 0
  <2>1. GoesOn(pc + 6) /\ Sets(15, 57005)
    BY <1>1, <1>2, DoMovRI, SomeRegisters
  <2> QED
    BY <2>1, <1>2 DEF GoesOn, Sets, Opening, OpeningPoints
<1>3. CASE pc = 6
  <2>1. GoesOn(pc + 2) /\ Sets(14, regs[15])
    BY <1>1, <1>3, DoMovReg, SomeRegisters
  <2> QED
    BY <2>1, <1>3 DEF GoesOn, Sets, Opening, OpeningPoints
<1>4. CASE pc = 8
  <2>1. /\ GoesOn(pc + 3) /\ flags' = flags /\ memory' = memory /\ state' = state
        /\ Put(14, Xor(regs[14], regs[15]))
    BY <1>1, <1>4, DoArithmetic, SomeRegisters
  <2>2. Put(14, 0)
    BY <2>1, <1>4, XorItself DEF Opening
  <2>3. Sets(14, 0)
    BY <2>1, <2>2, PutSets, Fetched, SomeRegisters
  <2> QED
    BY <2>1, <2>3, <1>4 DEF GoesOn, Sets, Opening, OpeningPoints
<1>5. CASE pc = 11
  <2>1. GoesOn(pc + 6) /\ Sets(13, 0)
    BY <1>1, <1>5, DoMovRI, SomeRegisters
  <2> QED
    BY <2>1, <1>5 DEF GoesOn, Sets, Opening, OpeningPoints
<1>6. CASE pc = 17
  <2>1. /\ GoesOn(pc + 2) /\ regs' = regs /\ memory' = memory /\ state' = state
        /\ "Z" \in flags' <=> regs[14] = regs[13]
    BY <1>1, <1>6, DoCompare, SomeRegisters
  <2> QED
    BY <2>1, <1>6 DEF GoesOn, Opening, OpeningPoints
<1>7. CASE pc = 19
  <2>1. /\ GoesOn(IF "Z" \in flags THEN 31 ELSE pc + 5)
        /\ regs' = regs /\ flags' = flags /\ memory' = memory /\ state' = state
    BY <1>1, <1>7, DoJump
  <2> QED
    BY <2>1, <1>7 DEF GoesOn, Opening, OpeningPoints
<1> QED
  BY <1>2, <1>3, <1>4, <1>5, <1>6, <1>7 DEF OpeningPoints

\* What the numbers of a job are, and the invariant's parts that follow the job.
LEMMA SameJob ==
  ASSUME job' = job
  PROVE  /\ Buffer' = Buffer /\ Key' = Key /\ KeyLength' = KeyLength /\ Input' = Input
         /\ (XorJob' <=> XorJob) /\ (Made' <=> Made) /\ (VerifyJob' <=> VerifyJob)
         /\ \A i : Turned(i)' = Turned(i)
         /\ \A i : Place(i)' = Place(i)
         /\ \A c : Decrypted(c)' = Decrypted(c)
<1>1. Buffer' = Buffer /\ Key' = Key /\ KeyLength' = KeyLength /\ Input' = Input /\ Index' = Index
  BY DEF Buffer, Key, KeyLength, Input, Index
<1>2. (XorJob' <=> XorJob) /\ (Made' <=> Made) /\ (VerifyJob' <=> VerifyJob)
  BY <1>1 DEF XorJob, VerifyJob, Made
<1>3. \A c : Decrypted(c)' = Decrypted(c)
  BY <1>1 DEF Decrypted
<1>4. \A i : Turned(i)' = Turned(i) /\ Place(i)' = Place(i)
  BY <1>1, <1>3 DEF Turned, Place
<1> QED
  BY <1>1, <1>2, <1>3, <1>4

\* The numbers that the arithmetic of xor_decrypt is about.
LEMMA XorNumbers ==
  ASSUME job \in Jobs, XorJob, Made
  PROVE  /\ Buffer \in Nat /\ Key \in Nat /\ KeyLength \in Nat \ {0} /\ Len(Input) \in Nat
         /\ Buffer + Len(Input) <= 65535 /\ Key + KeyLength <= 65535
         /\ \A i \in Nat : /\ Place(i) \in Nat /\ Place(i) + 1 <= KeyLength
                           /\ Place(i + 1) = IF Place(i) + 1 = KeyLength THEN 0 ELSE Place(i) + 1
         /\ Place(0) = 0
<1>1. /\ Buffer \in Nat /\ Key \in Nat /\ KeyLength \in Nat \ {0} /\ Len(Input) \in Nat
      /\ Buffer + Len(Input) <= 65535 /\ Key + KeyLength <= 65535
  BY InputFits
<1>2. ASSUME NEW i \in Nat
      PROVE  /\ Place(i) \in Nat /\ Place(i) + 1 <= KeyLength
             /\ Place(i + 1) = IF Place(i) + 1 = KeyLength THEN 0 ELSE Place(i) + 1
  <2>1. /\ Place(i) \in 0 .. KeyLength - 1
        /\ Place(i + 1) = IF Place(i) + 1 = KeyLength THEN 0 ELSE Place(i) + 1
    <3>1. KeyLength \in Nat \ {0}
      BY <1>1
    <3>2. /\ i % KeyLength \in 0 .. KeyLength - 1
          /\ (i + 1) % KeyLength = IF (i % KeyLength) + 1 = KeyLength THEN 0 ELSE (i % KeyLength) + 1
      BY <3>1, NextRemainder, Zenon
    <3> QED
      BY <3>2 DEF Place
  <2> QED
    BY <1>1, <2>1
<1>3. Place(0) = 0
  BY <1>1 DEF Place
<1> QED
  BY <1>1, <1>2, <1>3

\* The predicates follow the variables while the job stays.
LEMMA XorAtNext ==
  ASSUME job' = job, XorAt(pc', regs', memory', "Z" \in flags')
  PROVE  XorAt(pc, regs, memory, "Z" \in flags)'
<1>1. /\ Buffer' = Buffer /\ Key' = Key /\ KeyLength' = KeyLength /\ Input' = Input
      /\ \A i : Turned(i)' = Turned(i)
      /\ \A i : Place(i)' = Place(i)
      /\ \A c : Decrypted(c)' = Decrypted(c)
  BY SameJob
<1>2. /\ regs'[1] = Key /\ regs'[3] = KeyLength
      /\ \/ XorStart(pc', regs', memory', "Z" \in flags')
         \/ \E i \in 0 .. Len(Input) : XorTurn(pc', regs', memory', "Z" \in flags', i)
         \/ XorEnd(pc', regs', memory', "Z" \in flags')
  BY DEF XorAt
<1>3. CASE XorStart(pc', regs', memory', "Z" \in flags')
  <2>1. XorStart(pc, regs, memory, "Z" \in flags)'
    BY <1>1, <1>3 DEF XorStart, Opening
  <2> QED
    BY <1>1, <1>2, <2>1 DEF XorAt
<1>4. CASE \E i \in 0 .. Len(Input) : XorTurn(pc', regs', memory', "Z" \in flags', i)
  <2>1. PICK i \in 0 .. Len(Input) : XorTurn(pc', regs', memory', "Z" \in flags', i)
    BY <1>4
  <2>2. XorTurn(pc, regs, memory, "Z" \in flags, i)'
    BY <1>1, <2>1 DEF XorTurn
  <2> QED
    BY <1>1, <1>2, <2>2 DEF XorAt
<1>5. CASE XorEnd(pc', regs', memory', "Z" \in flags')
  <2>1. XorEnd(pc, regs, memory, "Z" \in flags)'
    BY <1>1, <1>5 DEF XorEnd
  <2> QED
    BY <1>1, <1>2, <2>1 DEF XorAt
<1> QED
  BY <1>2, <1>3, <1>4, <1>5

LEMMA XorStartStep ==
  ASSUME Fetching, XorJob, Made, regs[1] = Key, regs[3] = KeyLength, XorStart(pc, regs, memory, "Z" \in flags)
  PROVE  XorAt(pc', regs', memory', "Z" \in flags') /\ job' = job /\ violation' = violation /\ state' = state
<1>2. job \in Jobs /\ Len(Input) \in Nat /\ Place(0) = 0 /\ Key \in Nat /\ Buffer \in Nat
  BY Fetched, XorNumbers
<1>3. XorListing
  BY Fetched, XorDisassembled
<1>4. CASE pc \in OpeningPoints
  <2>1. /\ pc' \in OpeningPoints \cup {31} /\ Opening(pc', regs', "Z" \in flags')
        /\ job' = job /\ violation' = violation /\ memory' = memory /\ state' = state
        /\ regs'[0] = regs[0] /\ regs'[1] = regs[1] /\ regs'[2] = regs[2] /\ regs'[3] = regs[3]
    BY <1>4, OpeningStep DEF XorStart
  <2>2. XorStart(pc', regs', memory', "Z" \in flags')
    BY <2>1 DEF XorStart, OpeningPoints
  <2> QED
    BY <2>1, <2>2 DEF XorAt
<1>5. CASE pc = 31
  <2>1. GoesOn(33) /\ Sets(11, regs[0])
    BY <1>5, <1>3, DoMovReg, SomeRegisters DEF XorListing
  <2>2. XorStart(31, regs, memory, "Z" \in flags)
    BY <1>5
  <2>3. XorStart(33, regs', memory', "Z" \in flags')
    BY <2>1, <2>2, <1>2, SMTT(30) DEF Sets, XorStart, Opening, OpeningPoints
  <2> QED
    BY <2>1, <2>3 DEF GoesOn, Sets, XorAt
<1>6. CASE pc = 33
  <2>1. GoesOn(35) /\ Sets(10, regs[1])
    BY <1>6, <1>3, DoMovReg, SomeRegisters DEF XorListing
  <2>2. XorStart(33, regs, memory, "Z" \in flags)
    BY <1>6
  <2>3. XorStart(35, regs', memory', "Z" \in flags')
    BY <2>1, <2>2, <1>2, SMTT(30) DEF Sets, XorStart, Opening, OpeningPoints
  <2> QED
    BY <2>1, <2>3 DEF GoesOn, Sets, XorAt
<1>7. CASE pc = 35
  <2>1. GoesOn(41) /\ Sets(4, 0)
    BY <1>7, <1>3, DoMovRI, SomeRegisters DEF XorListing
  <2>2. XorStart(35, regs, memory, "Z" \in flags)
    BY <1>7
  <2>3. XorStart(41, regs', memory', "Z" \in flags')
    BY <2>1, <2>2, <1>2, SMTT(30) DEF Sets, XorStart, Opening, OpeningPoints
  <2> QED
    BY <2>1, <2>3 DEF GoesOn, Sets, XorAt
<1>8. CASE pc = 41
  <2>1. GoesOn(47) /\ Sets(8, 1)
    BY <1>8, <1>3, DoMovRI, SomeRegisters DEF XorListing
  <2>2. XorStart(41, regs, memory, "Z" \in flags)
    BY <1>8
  <2>3. XorStart(47, regs', memory', "Z" \in flags')
    BY <2>1, <2>2, <1>2, SMTT(30) DEF Sets, XorStart, Opening, OpeningPoints
  <2> QED
    BY <2>1, <2>3 DEF GoesOn, Sets, XorAt
<1>9. CASE pc = 47
  <2>1. GoesOn(53) /\ Sets(9, 0)
    BY <1>9, <1>3, DoMovRI, SomeRegisters DEF XorListing
  <2>2. XorStart(47, regs, memory, "Z" \in flags)
    BY <1>9
  <2>3. XorTurn(53, regs', memory', "Z" \in flags', 0)
    BY <2>1, <2>2, <1>2, SMTT(30) DEF Sets, XorStart, XorTurn
  <2> QED
    BY <2>1, <2>3, <1>2 DEF GoesOn, Sets, XorAt
<1> QED
  BY <1>4, <1>5, <1>6, <1>7, <1>8, <1>9 DEF XorStart

LEMMA XorCells ==
  ASSUME job \in Jobs, XorJob, Made, NEW i \in Nat, i < Len(Input)
  PROVE  /\ Buffer + i \in Cells /\ Input[i + 1] \in Byte
         /\ Key + Place(i) \in Cells /\ job.memory[Key + Place(i)] \in Byte
         /\ Turned(i)[Buffer + i] = Input[i + 1]
         /\ Turned(i)[Key + Place(i)] = job.memory[Key + Place(i)]
         /\ Decrypted(Buffer + i) = Xor(Input[i + 1], job.memory[Key + Place(i)])
         /\ Decrypted(Buffer + i) \in Byte
         /\ Turned(i + 1) = [Turned(i) EXCEPT ![Buffer + i] = Decrypted(Buffer + i)]
<1>1. i \in 0 .. Len(Input) - 1
  BY XorNumbers
<1>2. /\ Buffer + i \in Cells /\ Input[i + 1] \in Byte
      /\ Key + (i % KeyLength) \in Cells /\ job.memory[Key + (i % KeyLength)] \in Byte
      /\ Turned(i)[Buffer + i] = Input[i + 1]
      /\ Turned(i)[Key + (i % KeyLength)] = job.memory[Key + (i % KeyLength)]
      /\ Decrypted(Buffer + i) = Xor(Input[i + 1], job.memory[Key + (i % KeyLength)])
      /\ Turned(i + 1) = [Turned(i) EXCEPT ![Buffer + i] = Decrypted(Buffer + i)]
  BY <1>1, Turning, Zenon
<1>3. Place(i) = i % KeyLength
  BY DEF Place
<1> QED
  BY <1>2, <1>3, ByteWords

LEMMA XorTurnStep ==
  ASSUME Fetching, XorJob, Made, regs[1] = Key, regs[3] = KeyLength,
         NEW i \in 0 .. Len(Input), XorTurn(pc, regs, memory, "Z" \in flags, i)
  PROVE  XorAt(pc', regs', memory', "Z" \in flags') /\ job' = job /\ violation' = violation /\ state' = state
<1> DEFINE Turn(j) == XorTurn(pc', regs', memory', "Z" \in flags', j)
           Frame == job' = job /\ violation' = violation /\ state' = state /\ regs'[1] = Key /\ regs'[3] = KeyLength
<1>1. Frame /\ Turn(i) => XorAt(pc', regs', memory', "Z" \in flags')
  BY DEF XorAt
<1>2. /\ Buffer \in Nat /\ Key \in Nat /\ KeyLength \in Nat \ {0} /\ Len(Input) \in Nat
      /\ Buffer + Len(Input) <= 65535 /\ Key + KeyLength <= 65535
      /\ i \in Nat /\ i <= Len(Input) /\ Place(i) \in Nat /\ Place(i) + 1 <= KeyLength
      /\ Place(i + 1) = IF Place(i) + 1 = KeyLength THEN 0 ELSE Place(i) + 1
  <2>1. job \in Jobs
    BY Fetched
  <2>2. /\ Buffer \in Nat /\ Key \in Nat /\ KeyLength \in Nat \ {0} /\ Len(Input) \in Nat
        /\ Buffer + Len(Input) <= 65535 /\ Key + KeyLength <= 65535
    BY <2>1, XorNumbers
  <2>3. i \in Nat /\ i <= Len(Input)
    BY <2>2
  <2>4. /\ Place(i) \in Nat /\ Place(i) + 1 <= KeyLength
        /\ Place(i + 1) = IF Place(i) + 1 = KeyLength THEN 0 ELSE Place(i) + 1
    BY <2>1, <2>3, XorNumbers
  <2> QED
    BY <2>2, <2>3, <2>4
<1>3. XorListing
  BY Fetched, XorDisassembled
<1>4. pc > 55 =>
        /\ i < Len(Input)
        /\ Buffer + i \in Cells /\ Input[i + 1] \in Byte
        /\ Key + Place(i) \in Cells /\ job.memory[Key + Place(i)] \in Byte
        /\ Turned(i)[Buffer + i] = Input[i + 1]
        /\ Turned(i)[Key + Place(i)] = job.memory[Key + Place(i)]
        /\ Decrypted(Buffer + i) = Xor(Input[i + 1], job.memory[Key + Place(i)])
        /\ Decrypted(Buffer + i) \in Byte
        /\ Turned(i + 1) = [Turned(i) EXCEPT ![Buffer + i] = Decrypted(Buffer + i)]
  <2>1. job \in Jobs
    BY Fetched
  <2>2. i \in Nat
    BY <1>2
  <2>3. CASE pc > 55
    <3>1. i < Len(Input)
      BY <2>3 DEF XorTurn
    <3> QED
      BY <2>1, <2>2, <3>1, XorCells
  <2> QED
    BY <2>3
<1> HIDE DEF Turn, Frame
<1>5. CASE pc = 53
  <2>1. XorTurn(53, regs, memory, "Z" \in flags, i)
    BY <1>5
  <2>2. /\ GoesOn(55) /\ regs' = regs /\ memory' = memory /\ state' = state
        /\ "Z" \in flags' <=> regs[2] = regs[9]
    BY <1>5, <1>3, DoCompare, SomeRegisters DEF XorListing
  <2>3. Frame
    BY <2>2 DEF GoesOn, Frame
  <2>4. XorTurn(55, regs', memory', "Z" \in flags', i)
    BY <2>1, <2>2, <1>2, SMTT(30) DEF XorTurn
  <2> QED
    BY <2>2, <2>3, <2>4, <1>1 DEF GoesOn, Turn, Frame
<1>6. CASE pc = 55
  <2>1. XorTurn(55, regs, memory, "Z" \in flags, i)
    BY <1>6
  <2>2. /\ GoesOn(IF "Z" \in flags THEN 107 ELSE 60) /\ regs' = regs /\ memory' = memory /\ state' = state
    BY <1>6, <1>3, DoJump DEF XorListing
  <2>3. Frame
    BY <2>2 DEF GoesOn, Frame
  <2>4. CASE "Z" \in flags
    <3>1. XorEnd(107, regs', memory', "Z" \in flags')
      BY <2>1, <2>2, <2>4, <1>2, SMTT(30) DEF XorTurn, XorEnd
    <3> QED
      BY <2>2, <2>3, <2>4, <3>1 DEF GoesOn, Frame, XorAt
  <2>5. CASE "Z" \notin flags
    <3>1. XorTurn(60, regs', memory', "Z" \in flags', i)
      BY <2>1, <2>2, <2>5, <1>2, SMTT(30) DEF XorTurn
    <3> QED
      BY <2>2, <2>3, <2>5, <3>1, <1>1 DEF GoesOn, Turn, Frame
  <2> QED
    BY <2>4, <2>5
<1>7. CASE pc = 60
  <2>1. XorTurn(60, regs, memory, "Z" \in flags, i)
    BY <1>7
  <2>2. regs[0] = Buffer + i /\ memory = Turned(i)
    BY <2>1, <1>2, SMTT(30) DEF XorTurn
  <2>3. regs[0] \in Cells /\ memory[regs[0]] = Input[i + 1]
    BY <2>2, <1>2, <1>4, <1>7
  <2>4. GoesOn(64) /\ Sets(5, memory[regs[0]])
    BY <2>3, <1>7, <1>3, DoLoad, SomeRegisters DEF XorListing
  <2>5. Frame
    BY <2>4 DEF GoesOn, Sets, Frame
  <2>6. XorTurn(64, regs', memory', "Z" \in flags', i)
    BY <2>1, <2>2, <2>3, <2>4, <1>2, SMTT(30) DEF Sets, XorTurn
  <2> QED
    BY <2>4, <2>5, <2>6, <1>1 DEF GoesOn, Turn, Frame
<1>8. CASE pc = 64
  <2>1. XorTurn(64, regs, memory, "Z" \in flags, i)
    BY <1>8
  <2>2. regs[10] = Key + Place(i) /\ memory = Turned(i)
    BY <2>1, <1>2, SMTT(30) DEF XorTurn
  <2>3. regs[10] \in Cells /\ memory[regs[10]] = job.memory[Key + Place(i)]
    BY <2>2, <1>2, <1>4, <1>8
  <2>4. GoesOn(68) /\ Sets(6, memory[regs[10]])
    BY <2>3, <1>8, <1>3, DoLoad, SomeRegisters DEF XorListing
  <2>5. Frame
    BY <2>4 DEF GoesOn, Sets, Frame
  <2>6. XorTurn(68, regs', memory', "Z" \in flags', i)
    BY <2>1, <2>2, <2>3, <2>4, <1>2, SMTT(30) DEF Sets, XorTurn
  <2> QED
    BY <2>4, <2>5, <2>6, <1>1 DEF GoesOn, Turn, Frame
<1>9. CASE pc = 68
  <2>1. XorTurn(68, regs, memory, "Z" \in flags, i)
    BY <1>9
  <2>2. regs[5] = Input[i + 1] /\ regs[6] = job.memory[Key + Place(i)]
    BY <2>1, <1>2, SMTT(30) DEF XorTurn
  <2>3. regs[5] \in Byte /\ regs[6] \in Byte /\ Xor(regs[5], regs[6]) = Decrypted(Buffer + i)
    BY <2>2, <1>2, <1>4, <1>9
  <2>4. GoesOn(71) /\ Sets(7, Xor(regs[5], regs[6]))
    BY <2>3, <1>9, <1>3, DoXor, SomeRegisters DEF XorListing
  <2>5. Frame
    BY <2>4 DEF GoesOn, Sets, Frame
  <2>6. XorTurn(71, regs', memory', "Z" \in flags', i)
    BY <2>1, <2>2, <2>3, <2>4, <1>2, SMTT(30) DEF Sets, XorTurn
  <2> QED
    BY <2>4, <2>5, <2>6, <1>1 DEF GoesOn, Turn, Frame
<1>10. CASE pc = 71
  <2>1. XorTurn(71, regs, memory, "Z" \in flags, i)
    BY <1>10
  <2>2. regs[0] = Buffer + i /\ memory = Turned(i) /\ regs[7] = Decrypted(Buffer + i)
    BY <2>1, <1>2, SMTT(30) DEF XorTurn
  <2>3. regs[0] \in Cells /\ regs[7] \in Byte /\ [memory EXCEPT ![regs[0]] = regs[7]] = Turned(i + 1)
    BY <2>2, <1>2, <1>4, <1>10, SMTT(30)
  <2>4. /\ GoesOn(75) /\ regs' = regs /\ state' = state
        /\ memory' = [memory EXCEPT ![regs[0]] = regs[7]]
    BY <2>3, <1>10, <1>3, DoStore, SomeRegisters DEF XorListing
  <2>5. regs' = regs /\ memory' = Turned(i + 1)
    BY <2>3, <2>4
  <2>6. Frame
    BY <2>4 DEF GoesOn, Frame
  <2>7. XorTurn(75, regs', memory', "Z" \in flags', i)
    BY <2>1, <2>5, <1>2, SMTT(30) DEF XorTurn
  <2> QED
    BY <2>4, <2>6, <2>7, <1>1 DEF GoesOn, Turn, Frame
<1>11. CASE pc = 75
  <2>1. XorTurn(75, regs, memory, "Z" \in flags, i)
    BY <1>11
  <2>2. regs[0] = Buffer + i /\ regs[8] = 1
    BY <2>1, <1>2, SMTT(30) DEF XorTurn
  <2>3. regs[0] + regs[8] <= 65535
    BY <2>2, <1>2, <1>4, <1>11
  <2>4. GoesOn(78) /\ Sets(0, regs[0] + regs[8])
    BY <2>3, <1>11, <1>3, DoAdd, SomeRegisters DEF XorListing
  <2>5. Frame
    BY <2>4 DEF GoesOn, Sets, Frame
  <2>6. XorTurn(78, regs', memory', "Z" \in flags', i)
    BY <2>1, <2>2, <2>3, <2>4, <1>2, SMTT(30) DEF Sets, XorTurn
  <2> QED
    BY <2>4, <2>5, <2>6, <1>1 DEF GoesOn, Turn, Frame
<1>12. CASE pc = 78
  <2>1. XorTurn(78, regs, memory, "Z" \in flags, i)
    BY <1>12
  <2>2. regs[10] = Key + Place(i) /\ regs[8] = 1
    BY <2>1, <1>2, SMTT(30) DEF XorTurn
  <2>3. regs[10] + regs[8] <= 65535
    BY <2>2, <1>2, <1>4, <1>12
  <2>4. GoesOn(81) /\ Sets(10, regs[10] + regs[8])
    BY <2>3, <1>12, <1>3, DoAdd, SomeRegisters DEF XorListing
  <2>5. Frame
    BY <2>4 DEF GoesOn, Sets, Frame
  <2>6. XorTurn(81, regs', memory', "Z" \in flags', i)
    BY <2>1, <2>2, <2>3, <2>4, <1>2, SMTT(30) DEF Sets, XorTurn
  <2> QED
    BY <2>4, <2>5, <2>6, <1>1 DEF GoesOn, Turn, Frame
<1>13. CASE pc = 81
  <2>1. XorTurn(81, regs, memory, "Z" \in flags, i)
    BY <1>13
  <2>2. regs[4] = Place(i) /\ regs[8] = 1
    BY <2>1, <1>2, SMTT(30) DEF XorTurn
  <2>3. regs[4] + regs[8] <= 65535
    BY <2>2, <1>2, <1>4, <1>13
  <2>4. GoesOn(84) /\ Sets(4, regs[4] + regs[8])
    BY <2>3, <1>13, <1>3, DoAdd, SomeRegisters DEF XorListing
  <2>5. Frame
    BY <2>4 DEF GoesOn, Sets, Frame
  <2>6. XorTurn(84, regs', memory', "Z" \in flags', i)
    BY <2>1, <2>2, <2>3, <2>4, <1>2, SMTT(30) DEF Sets, XorTurn
  <2> QED
    BY <2>4, <2>5, <2>6, <1>1 DEF GoesOn, Turn, Frame
<1>14. CASE pc = 84
  <2>1. XorTurn(84, regs, memory, "Z" \in flags, i)
    BY <1>14
  <2>2. /\ GoesOn(86) /\ regs' = regs /\ memory' = memory /\ state' = state
        /\ "Z" \in flags' <=> regs[4] = regs[3]
    BY <1>14, <1>3, DoCompare, SomeRegisters DEF XorListing
  <2>3. Frame
    BY <2>2 DEF GoesOn, Frame
  <2>4. XorTurn(86, regs', memory', "Z" \in flags', i)
    BY <2>1, <2>2, <1>2, SMTT(30) DEF XorTurn
  <2> QED
    BY <2>2, <2>3, <2>4, <1>1 DEF GoesOn, Turn, Frame
<1>15. CASE pc = 86
  <2>1. XorTurn(86, regs, memory, "Z" \in flags, i)
    BY <1>15
  <2>2. /\ GoesOn(IF "Z" \notin flags THEN 99 ELSE 91) /\ regs' = regs /\ memory' = memory /\ state' = state
    BY <1>15, <1>3, DoJump DEF XorListing
  <2>3. Frame
    BY <2>2 DEF GoesOn, Frame
  <2>4. CASE "Z" \in flags
    <3>1. XorTurn(91, regs', memory', "Z" \in flags', i)
      BY <2>1, <2>2, <2>4, <1>2, SMTT(30) DEF XorTurn
    <3> QED
      BY <2>2, <2>3, <2>4, <3>1, <1>1 DEF GoesOn, Turn, Frame
  <2>5. CASE "Z" \notin flags
    <3>1. XorTurn(99, regs', memory', "Z" \in flags', i)
      BY <2>1, <2>2, <2>5, <1>2, SMTT(30) DEF XorTurn
    <3> QED
      BY <2>2, <2>3, <2>5, <3>1, <1>1 DEF GoesOn, Turn, Frame
  <2> QED
    BY <2>4, <2>5
<1>16. CASE pc = 91
  <2>1. XorTurn(91, regs, memory, "Z" \in flags, i)
    BY <1>16
  <2>2. GoesOn(93) /\ Sets(10, regs[1])
    BY <1>16, <1>3, DoMovReg, SomeRegisters DEF XorListing
  <2>3. Frame
    BY <2>2 DEF GoesOn, Sets, Frame
  <2>4. XorTurn(93, regs', memory', "Z" \in flags', i)
    BY <2>1, <2>2, <1>2, SMTT(30) DEF Sets, XorTurn
  <2> QED
    BY <2>2, <2>3, <2>4, <1>1 DEF GoesOn, Turn, Frame
<1>17. CASE pc = 93
  <2>1. XorTurn(93, regs, memory, "Z" \in flags, i)
    BY <1>17
  <2>2. Place(i) + 1 = KeyLength
    BY <2>1, <1>2, SMTT(30) DEF XorTurn
  <2>3. Place(i + 1) = 0
    BY <2>2, <1>2, <1>4, <1>17
  <2>4. GoesOn(99) /\ Sets(4, 0)
    BY <2>3, <1>17, <1>3, DoMovRI, SomeRegisters DEF XorListing
  <2>5. Frame
    BY <2>4 DEF GoesOn, Sets, Frame
  <2>6. regs'[10] = Key + Place(i + 1) /\ regs'[4] = Place(i + 1)
    <3>1. regs[10] = Key
      BY <2>1, <1>2, SMTT(30) DEF XorTurn
    <3> QED
      BY <2>3, <2>4, <3>1, <1>2 DEF Sets
  <2>7. XorTurn(99, regs', memory', "Z" \in flags', i)
    BY <2>1, <2>4, <2>6, <1>2, SMTT(30) DEF Sets, XorTurn
  <2> QED
    BY <2>4, <2>5, <2>7, <1>1 DEF GoesOn, Turn, Frame
<1>18. CASE pc = 99
  <2>1. XorTurn(99, regs, memory, "Z" \in flags, i)
    BY <1>18
  <2>2. regs[8] = 1 /\ regs[2] = Len(Input) - i
    BY <2>1, <1>2, SMTT(30) DEF XorTurn
  <2>3. /\ Len(Input) - i \in Int /\ 0 - 65535 <= Len(Input) - i /\ Len(Input) - i <= 65535
        /\ regs[2] = Wrap(Len(Input) - i) /\ Wrap(Len(Input) - i - 1) = Len(Input) - i - 1
    <3>1. i < Len(Input)
      BY <1>4, <1>18
    <3>2. Len(Input) - i \in 0 .. Word - 1 /\ Len(Input) - i - 1 \in 0 .. Word - 1
      BY <3>1, <1>2, WordRange
    <3>3. Wrap(Len(Input) - i) = Len(Input) - i /\ Wrap(Len(Input) - i - 1) = Len(Input) - i - 1
      BY <3>2, SmallWraps
    <3> QED
      BY <2>2, <3>2, <3>3, WordRange
  <2>4. GoesOn(102) /\ Sets(2, Wrap(Len(Input) - i - 1))
    <3>1. OnThree(4, 2, 2, 8)
      BY <1>18, <1>3 DEF XorListing
    <3>2. GoesOn(pc + 3) /\ Sets(2, Wrap(Len(Input) - i - 1))
      <4> DEFINE v == Len(Input) - i
      <4>1. v \in Int /\ 0 - 65535 <= v /\ v <= 65535 /\ regs[2] = Wrap(v)
        BY <2>3
      <4> HIDE DEF v
      <4>2. GoesOn(pc + 3) /\ Sets(2, Wrap(v - 1))
        <5>1. regs[8] = 1 /\ 2 \in Registers /\ 8 \in Registers /\ Fetching
          BY <2>2, SomeRegisters
        <5> QED
          BY <3>1, <4>1, <5>1, DoSub, SMTT(30)
      <4> QED
        BY <4>2 DEF v
    <3> QED
      BY <3>2, <1>18
  <2>5. Frame
    BY <2>4 DEF GoesOn, Sets, Frame
  <2>6. XorTurn(102, regs', memory', "Z" \in flags', i)
    BY <2>1, <2>2, <2>3, <2>4, <1>2, SMTT(30) DEF Sets, XorTurn
  <2> QED
    BY <2>4, <2>5, <2>6, <1>1 DEF GoesOn, Turn, Frame
<1>19. CASE pc = 102
  <2>1. XorTurn(102, regs, memory, "Z" \in flags, i)
    BY <1>19
  <2>2. GoesOn(53) /\ regs' = regs /\ memory' = memory /\ state' = state /\ flags' = flags
    BY <1>19, <1>3, DoJump DEF XorListing
  <2>3. Frame
    BY <2>2 DEF GoesOn, Frame
  <2>4. i + 1 \in 0 .. Len(Input) /\ XorTurn(53, regs', memory', "Z" \in flags', i + 1)
    BY <2>1, <2>2, <1>2, <1>4, <1>19, SMTT(30) DEF XorTurn
  <2> QED
    BY <2>2, <2>3, <2>4 DEF GoesOn, Frame, XorAt
<1> QED
  BY <1>5, <1>6, <1>7, <1>8, <1>9, <1>10, <1>11, <1>12, <1>13, <1>14, <1>15, <1>16, <1>17, <1>18, <1>19 DEF XorTurn

\* A step of the program while it runs: it goes on, or it returns what it was to decrypt.
LEMMA XorRuns ==
  ASSUME EngineTypes, PatchInv, XorInv, XorJob, Step
  PROVE  XorInv'
<1>1. Running /\ Same
  BY DEF Step, Nop, MovImm, MovReg, Arithmetic, Unary, Compare, Jump, Load, StoreByte, CallExt, Ret,
     Stop, Takes
<1>2. state = "running" /\ job' = job /\ violation' = violation /\ ~violation
  BY <1>1 DEF Running, Same, PatchInv
<1>3. Made /\ XorAt(pc, regs, memory, "Z" \in flags)
  BY <1>2 DEF XorInv
<1>4. job \in Jobs /\ pc \in Nat
  BY WordRange DEF EngineTypes, TypeOK
<1>5. CodeSize = 110 /\ job.by # "ivm_run" /\ XorListing
  BY <1>4, XorFetched, XorDisassembled
<1>6. /\ regs[1] = Key /\ regs[3] = KeyLength
      /\ \/ XorStart(pc, regs, memory, "Z" \in flags)
         \/ \E i \in 0 .. Len(Input) : XorTurn(pc, regs, memory, "Z" \in flags, i)
         \/ XorEnd(pc, regs, memory, "Z" \in flags)
  BY <1>3 DEF XorAt
<1>7. pc \in 0 .. 109
  BY <1>6 DEF XorStart, XorTurn, XorEnd, OpeningPoints
<1>8. Fetching
  BY <1>1, <1>5, <1>7 DEF Fetching, AtEnd
<1>9. (XorJob' <=> XorJob) /\ (Made' <=> Made)
  BY <1>2, SameJob
<1>10. ASSUME XorAt(pc', regs', memory', "Z" \in flags'), state' = state
       PROVE  XorInv'
  <2>1. XorAt(pc, regs, memory, "Z" \in flags)'
    BY <1>2, <1>10, XorAtNext
  <2> QED
    BY <2>1, <1>2, <1>3, <1>9, <1>10 DEF XorInv
<1>11. CASE XorStart(pc, regs, memory, "Z" \in flags)
  BY <1>3, <1>6, <1>8, <1>10, <1>11, XorStartStep
<1>12. CASE \E i \in 0 .. Len(Input) : XorTurn(pc, regs, memory, "Z" \in flags, i)
  BY <1>3, <1>6, <1>8, <1>10, <1>12, XorTurnStep
<1>13. CASE XorEnd(pc, regs, memory, "Z" \in flags)
  <2>1. CASE pc = 107
    <3>1. GoesOn(109) /\ Sets(0, regs[11])
      BY <2>1, <1>5, <1>8, DoMovReg, SomeRegisters DEF XorListing
    <3>2. XorEnd(109, regs', memory', "Z" \in flags') /\ regs'[1] = Key /\ regs'[3] = KeyLength
      BY <3>1, <1>6, <1>13 DEF Sets, XorEnd
    <3>3. XorAt(pc', regs', memory', "Z" \in flags') /\ state' = state
      BY <3>1, <3>2 DEF GoesOn, Sets, XorAt
    <3> QED
      BY <3>3, <1>10
  <2>2. CASE pc = 109
    <3>1. state' = "returned" /\ regs' = regs /\ memory' = memory
      BY <2>2, <1>5, <1>8, DoRet DEF XorListing
    <3>2. memory' = Turned(Len(Input)) /\ regs'[0] = Buffer
      BY <2>2, <3>1, <1>13 DEF XorEnd
    <3>3. Turned(Len(Input))' = Turned(Len(Input)) /\ Buffer' = Buffer
      <4>1. Input' = Input /\ Buffer' = Buffer /\ \A i : Turned(i)' = Turned(i)
        BY <1>2, SameJob
      <4> QED
        BY <4>1
    <3> QED
      BY <3>1, <3>2, <3>3, <1>2, <1>3, <1>9 DEF XorInv
  <2> QED
    BY <2>1, <2>2, <1>13 DEF XorEnd
<1> QED
  BY <1>6, <1>11, <1>12, <1>13

\* At the start every condition about an address further on is empty.
LEMMA XorStarts ==
  ASSUME NEW v, NEW cells, NEW zero,
         v[0] = Buffer, v[1] = Key, v[2] = Len(Input), v[3] = KeyLength, cells = Turned(0)
  PROVE  XorAt(0, v, cells, zero)
<1>1. XorStart(0, v, cells, zero)
  BY DEF XorStart, Opening, OpeningPoints
<1> QED
  BY <1>1 DEF XorAt

LEMMA XorCalled ==
  ASSUME EngineTypes, PatchInv, XorInv, XorJob, T3Assemble \/ T4Get
  PROVE  XorInv'
<1>1. /\ state = "asked" /\ job' = job /\ pc' = 0 /\ violation' = violation /\ flags' = flags
      /\ state' \in {"new", "refused"}
  BY DEF T3Assemble, T4Get, Refused, PatchInv
<1>2. /\ memory = job.memory /\ regs[0] = Buffer /\ regs[1] = Key /\ regs[3] = KeyLength
      /\ regs \in [Registers -> 0 .. Word - 1] /\ job \in Jobs /\ Index \in Nat
  <2>1. job.args[2] \in 0 .. Word - 1
    BY JobTypes DEF EngineTypes
  <2> QED
    BY <1>1, <2>1, WordRange DEF XorInv, EngineTypes, TypeOK, Index
<1>3. (XorJob' <=> XorJob) /\ (Made' <=> Made)
  BY <1>1, SameJob
<1>4. CASE state' = "refused"
  BY <1>1, <1>3, <1>4 DEF XorInv
<1>5. CASE state' = "new"
  <2>1. Made /\ Filled(Input) /\ regs' = [regs EXCEPT ![2] = Len(Input)]
    <3>1. CASE T3Assemble
      <4> DEFINE parts == T3_DESCRIPTORS[Index + 1]
      <4>1. /\ job.by = "t3_assemble" /\ Index < Len(T3_DESCRIPTORS)
            /\ \A i \in 1 .. Len(parts) : Fits(parts, i)
            /\ Filled(Joined(parts, Len(parts)))
            /\ regs' = [regs EXCEPT ![2] = Length(parts, Len(parts))]
        BY <3>1, <1>5 DEF T3Assemble, Refused
      <4>2. Index + 1 \in DOMAIN T3_DESCRIPTORS
        BY <4>1, <1>2, StringsAssumption
      <4>3. Made /\ Input = Joined(parts, Len(parts))
        BY <4>1, <4>2 DEF Made, Input
      <4>4. Len(Input) = Length(parts, Len(parts))
        BY <4>1, <4>3, <1>2, InputFits
      <4> QED
        BY <4>1, <4>3, <4>4
    <3>2. CASE T4Get
      <4>1. /\ job.by = "t4_get" /\ Index < Len(DATA) /\ Filled(DATA[Index + 1])
            /\ regs' = [regs EXCEPT ![2] = Len(DATA[Index + 1])]
        BY <3>2, <1>5 DEF T4Get, Refused
      <4>2. Index + 1 \in DOMAIN DATA /\ Input = DATA[Index + 1]
        BY <4>1, <1>2, StringsAssumption DEF Input
      <4> QED
        BY <4>1, <4>2 DEF Made
    <3> QED
      BY <3>1, <3>2
  <2>2. memory' = Turned(0)
    BY <2>1, <1>2, Turning
  <2>3. regs'[0] = Buffer /\ regs'[1] = Key /\ regs'[2] = Len(Input) /\ regs'[3] = KeyLength
    BY <2>1, <1>2, SomeRegisters
  <2>4. XorAt(pc', regs', memory', "Z" \in flags')
    BY <2>2, <2>3, <1>1, XorStarts
  <2>5. XorAt(pc, regs, memory, "Z" \in flags)'
    BY <2>4, <1>1, XorAtNext
  <2> QED
    BY <2>1, <2>5, <1>1, <1>3, <1>5 DEF XorInv
<1> QED
  BY <1>1, <1>4, <1>5

LEMMA XorStep == EngineTypes /\ PatchInv /\ XorInv /\ [Next]_vars => XorInv'
<1> SUFFICES ASSUME EngineTypes, PatchInv, XorInv, [Next]_vars
             PROVE  XorInv'
  OBVIOUS
<1>1. job' = job
  BY JobStays
<1>2. (XorJob' <=> XorJob) /\ (Made' <=> Made) /\ Buffer' = Buffer /\ Key' = Key
      /\ KeyLength' = KeyLength /\ Turned(Len(Input))' = Turned(Len(Input))
  <2>1. Input' = Input /\ \A i : Turned(i)' = Turned(i)
    BY <1>1, SameJob
  <2> QED
    BY <2>1, <1>1, SameJob
<1>3. CASE ~XorJob
  BY <1>2, <1>3 DEF XorInv
<1>4. CASE XorJob /\ UNCHANGED vars
  <2>1. state \in {"new", "running"} => XorAt(pc, regs, memory, "Z" \in flags)'
    <3>1. /\ regs' = regs /\ pc' = pc /\ memory' = memory /\ flags' = flags
      BY <1>4 DEF vars
    <3> QED
      BY <3>1, <1>1, <1>4, XorAtNext DEF XorInv
  <2>2. /\ state' = state /\ memory' = memory /\ regs' = regs /\ violation' = violation
    BY <1>4 DEF vars
  <2> QED
    BY <2>1, <2>2, <1>1, <1>2, <1>4 DEF XorInv
<1>5. CASE XorJob /\ (T3Assemble \/ T4Get)
  BY <1>5, XorCalled
<1>6. CASE XorJob /\ Execute
  <2>1. /\ state = "new" /\ state' \in {"error", "running"} /\ (state' = "error" => violation')
        /\ regs' = regs /\ pc' = pc /\ memory' = memory /\ flags' = flags
    BY <1>6 DEF Execute
  <2>2. Made /\ XorAt(pc, regs, memory, "Z" \in flags)
    BY <2>1, <1>6 DEF XorInv
  <2>3. XorAt(pc, regs, memory, "Z" \in flags)'
    BY <2>1, <2>2, <1>1, XorAtNext
  <2> QED
    BY <2>1, <2>2, <2>3, <1>2 DEF XorInv
<1>7. CASE XorJob /\ Step
  BY <1>7, XorRuns
<1> QED
  BY <1>3, <1>4, <1>5, <1>6, <1>7 DEF Next

LEMMA XorInit == Init => XorInv
<1> SUFFICES ASSUME Init, XorJob
             PROVE  XorInv
  BY DEF XorInv
<1>1. /\ job \in Jobs /\ memory = job.memory /\ pc = 0
      /\ regs[0] = Buffer /\ regs[1] = Key /\ regs[2] = job.args[2] /\ regs[3] = KeyLength
  BY SomeRegisters DEF Init, Buffer, Key, KeyLength
<1>2. CASE job.by \in {"t3_assemble", "t4_get"}
  <2>1. state = "asked"
    BY <1>2 DEF Init
  <2> QED
    BY <1>1, <2>1 DEF XorInv
<1>3. CASE job.by \notin {"t3_assemble", "t4_get"}
  <2>1. state = "new"
    BY <1>3 DEF Init
  <2>2. Made
    BY <1>3 DEF Made
  <2>3. memory = Turned(0)
    BY <1>1, <1>3, <2>2, Turning
  <2>4. Len(Input) = job.args[2]
    <3>1. Input = [i \in 1 .. job.args[2] |-> job.memory[job.args[0] + i - 1]]
      BY <1>3 DEF Input
    <3>2. job.args[2] \in 0 .. Word - 1
      BY <1>1, JobTypes
    <3>3. job.args[2] \in Nat
      BY <3>2, WordRange
    <3> QED
      BY <3>1, <3>3
  <2>5. XorAt(pc, regs, memory, "Z" \in flags)
    BY <1>1, <2>3, <2>4, XorStarts
  <2> QED
    BY <2>1, <2>2, <2>5 DEF XorInv
<1> QED
  BY <1>2, <1>3

-----------------------------------------------------------------------------
(***************************************************************************)
(* verify_hash.                                                            *)
(***************************************************************************)
\* A character at which neither text ended before lies in both, within 255 of their starts.
LEMMA GoingFits ==
  ASSUME job \in Jobs, VerifyJob, ~Null, NEW i \in Nat, Going(i)
  PROVE  /\ i <= 255 /\ job.args[0] \in Nat /\ job.args[1] \in Nat
         /\ job.args[0] + i \in Cells /\ job.args[1] + i \in Cells
         /\ HashAt(i) \in Byte /\ ExpectedAt(i) \in Byte
         /\ i > 0 => HashAt(i - 1) \in Byte
<1>1. /\ job.args \in [0 .. 3 -> 0 .. Word - 1] /\ job.memory \in [Cells -> Byte] /\ Provided(job)
  BY JobTypes
<1>2. job.args[0] \in Nat /\ job.args[1] \in Nat
  <2>1. job.args[0] \in 0 .. Word - 1 /\ job.args[1] \in 0 .. Word - 1
    BY <1>1
  <2> QED
    BY <2>1, WordRange
<1>3. Terminated(job, job.args[0]) /\ Terminated(job, job.args[1])
  BY <1>1 DEF Provided, VerifyJob, Null
<1>4. PICK n \in 0 .. 255 : Room(job.args[0], n + 1) /\ HashAt(n) = 0
  BY <1>3 DEF Terminated, HashAt
<1>5. PICK m \in 0 .. 255 : Room(job.args[1], m + 1) /\ ExpectedAt(m) = 0
  BY <1>3 DEF Terminated, ExpectedAt
<1>6. i <= n /\ i <= m
  <2>1. StopsAt(n) /\ StopsAt(m)
    BY <1>4, <1>5 DEF StopsAt
  <2>2. n \notin 0 .. i - 1 /\ m \notin 0 .. i - 1
    BY <2>1 DEF Going
  <2> QED
    BY <2>2
<1>7. \A j \in 0 .. i : job.args[0] + j \in Cells /\ job.args[1] + j \in Cells
  <2> SUFFICES ASSUME NEW j \in 0 .. i
               PROVE  job.args[0] + j \in Cells /\ job.args[1] + j \in Cells
    OBVIOUS
  <2>1. /\ job.args[0] + j \in job.args[0] .. job.args[0] + (n + 1) - 1
        /\ job.args[1] + j \in job.args[1] .. job.args[1] + (m + 1) - 1
    BY <1>2, <1>6
  <2> QED
    BY <2>1, <1>4, <1>5 DEF Room
<1>8. \A j \in 0 .. i : HashAt(j) \in Byte /\ ExpectedAt(j) \in Byte
  BY <1>1, <1>7 DEF HashAt, ExpectedAt
<1>9. i \in 0 .. i /\ (i > 0 => i - 1 \in 0 .. i)
  OBVIOUS
<1> QED
  BY <1>2, <1>6, <1>7, <1>8, <1>9

\* One character further.
LEMMA OneFurther ==
  ASSUME NEW i \in Nat
  PROVE  /\ Going(i) /\ ~StopsAt(i) => Going(i + 1)
         /\ EqualUpTo(i + 1) <=> EqualUpTo(i) /\ HashAt(i) = ExpectedAt(i)
         /\ StopsAt(i) <=> HashAt(i) = 0 \/ ExpectedAt(i) = 0 \/ Counted(i)
<1>1. \A j : j \in 0 .. (i + 1) - 1 <=> j \in 0 .. i - 1 \/ j = i
  OBVIOUS
<1>2. Going(i) /\ ~StopsAt(i) => Going(i + 1)
  BY <1>1 DEF Going
<1>3. EqualUpTo(i + 1) <=> EqualUpTo(i) /\ HashAt(i) = ExpectedAt(i)
  BY <1>1 DEF EqualUpTo
<1> QED
  BY <1>2, <1>3 DEF StopsAt, Counted

LEMMA AtTheStart == Going(0) /\ EqualUpTo(0) /\ ~Counted(0)
  BY DEF Going, EqualUpTo, Counted

\* Texts that were not equal so far differ before either ends.
LEMMA UnequalDiffers ==
  ASSUME NEW i \in 0 .. 255, Going(i), ~EqualUpTo(i)
  PROVE  Differ
<1>1. PICK j \in 0 .. i - 1 : HashAt(j) # ExpectedAt(j)
  BY DEF EqualUpTo
<1>2. \A k \in 0 .. j : HashAt(k) # 0 /\ ExpectedAt(k) # 0
  <2>1. \A k \in 0 .. j : k \in 0 .. i - 1
    OBVIOUS
  <2> QED
    BY <2>1 DEF Going, StopsAt
<1>3. j \in 0 .. 255
  OBVIOUS
<1> QED
  BY <1>1, <1>2, <1>3 DEF Differ

\* V3 and V5 are equal exactly when the counter is the last character's code.
LEMMA CounterMeets ==
  ASSUME NEW i \in 0 .. 255, i > 0 => HashAt(i - 1) \in Byte
  PROVE  /\ Left(i) = (IF i = 0 THEN 0 ELSE HashAt(i - 1)) <=> Counted(i)
         /\ Left(i + 1) = Wrap((64 - i) - 1) /\ 64 - i \in Int
         /\ Left(0) = 64
<1>1. Left(0) = 64
  BY WordIs DEF Left, Wrap
<1>2. 64 - (i + 1) = (64 - i) - 1
  OBVIOUS
<1>3. CASE i = 0
  BY <1>1, <1>2, <1>3 DEF Left, Counted
<1>4. CASE i > 0
  <2>1. HashAt(i - 1) \in Int /\ 0 <= HashAt(i - 1) /\ HashAt(i - 1) <= 255
    BY <1>4, ByteIs
  <2>2. Left(i) = (64 - i) % 65536
    BY WordIs DEF Left, Wrap
  <2>3. (64 - i) % 65536 = HashAt(i - 1) <=> HashAt(i - 1) = 64 - i
    BY <1>4, <2>1
  <2> QED
    BY <1>1, <1>2, <1>4, <2>2, <2>3 DEF Left, Counted
<1> QED
  BY <1>3, <1>4

LEMMA SameTexts ==
  ASSUME job' = job
  PROVE  /\ \A i : HashAt(i)' = HashAt(i) /\ ExpectedAt(i)' = ExpectedAt(i)
         /\ Null' <=> Null
         /\ Differ' <=> Differ
         /\ \A i : (Going(i)' <=> Going(i)) /\ (EqualUpTo(i)' <=> EqualUpTo(i)) /\ (Counted(i)' <=> Counted(i))
<1>1. \A i : HashAt(i)' = HashAt(i) /\ ExpectedAt(i)' = ExpectedAt(i)
  BY DEF HashAt, ExpectedAt
<1>2. \A i : StopsAt(i)' <=> StopsAt(i)
  BY <1>1 DEF StopsAt
<1>3. Null' <=> Null
  BY DEF Null
<1>4. Differ' <=> Differ
  BY <1>1 DEF Differ
<1>5. \A i : (Going(i)' <=> Going(i)) /\ (EqualUpTo(i)' <=> EqualUpTo(i)) /\ (Counted(i)' <=> Counted(i))
  BY <1>1, <1>2 DEF Going, EqualUpTo, Counted
<1> QED
  BY <1>1, <1>3, <1>4, <1>5

LEMMA VerifyAtNext ==
  ASSUME job' = job, VerifyAt(pc', regs', "Z" \in flags')
  PROVE  VerifyAt(pc, regs, "Z" \in flags)'
<1>1. /\ \A i : HashAt(i)' = HashAt(i) /\ ExpectedAt(i)' = ExpectedAt(i)
      /\ Null' <=> Null
      /\ Differ' <=> Differ
      /\ \A i : (Going(i)' <=> Going(i)) /\ (EqualUpTo(i)' <=> EqualUpTo(i)) /\ (Counted(i)' <=> Counted(i))
  BY SameTexts
<1>2. CASE VerifyStart(pc', regs', "Z" \in flags')
  <2>1. VerifyStart(pc, regs, "Z" \in flags)'
    BY <1>1, <1>2 DEF VerifyStart, Opening
  <2> QED
    BY <2>1 DEF VerifyAt
<1>3. CASE \E i \in 0 .. 255 : VerifyTurn(pc', regs', "Z" \in flags', i)
  <2>1. PICK i \in 0 .. 255 : VerifyTurn(pc', regs', "Z" \in flags', i)
    BY <1>3
  <2>2. VerifyTurn(pc, regs, "Z" \in flags, i)'
    BY <1>1, <2>1 DEF VerifyTurn
  <2> QED
    BY <2>2 DEF VerifyAt
<1>4. CASE VerifyEnd(pc', regs', "Z" \in flags')
  <2>1. VerifyEnd(pc, regs, "Z" \in flags)'
    BY <1>1, <1>4 DEF VerifyEnd
  <2> QED
    BY <2>1 DEF VerifyAt
<1> QED
  BY <1>2, <1>3, <1>4 DEF VerifyAt

LEMMA VerifyStartStep ==
  ASSUME Fetching, VerifyJob, VerifyStart(pc, regs, "Z" \in flags)
  PROVE  VerifyAt(pc', regs', "Z" \in flags') /\ job' = job /\ violation' = violation /\ memory' = memory /\ state' = state
<1>1. Left(0) = 64
  BY WordIs DEF Left, Wrap
<1>2. Going(0) /\ EqualUpTo(0) /\ ~Counted(0)
  BY AtTheStart
<1>3. VerifyListing
  BY Fetched, VerifyDisassembled
<1>4. CASE pc \in OpeningPoints
  <2>1. /\ pc' \in OpeningPoints \cup {31} /\ Opening(pc', regs', "Z" \in flags')
        /\ job' = job /\ violation' = violation /\ memory' = memory /\ state' = state
        /\ regs'[0] = regs[0] /\ regs'[1] = regs[1] /\ regs'[2] = regs[2] /\ regs'[3] = regs[3]
    BY <1>4, OpeningStep DEF VerifyStart
  <2>2. VerifyStart(pc', regs', "Z" \in flags')
    BY <2>1 DEF VerifyStart, OpeningPoints
  <2> QED
    BY <2>1, <2>2 DEF VerifyAt
<1>5. CASE pc = 31
  <2>1. GoesOn(37) /\ Sets(2, 0)
    BY <1>5, <1>3, DoMovRI, SomeRegisters DEF VerifyListing
  <2>2. VerifyStart(31, regs, "Z" \in flags)
    BY <1>5
  <2>3. VerifyStart(37, regs', "Z" \in flags')
    BY <2>1, <2>2, SMTT(30) DEF Sets, VerifyStart, Opening, OpeningPoints
  <2> QED
    BY <2>1, <2>3 DEF GoesOn, Sets, VerifyAt
<1>6. CASE pc = 37
  <2>1. GoesOn(43) /\ Sets(3, 64)
    BY <1>6, <1>3, DoMovRI, SomeRegisters DEF VerifyListing
  <2>2. VerifyStart(37, regs, "Z" \in flags)
    BY <1>6
  <2>3. VerifyStart(43, regs', "Z" \in flags')
    BY <2>1, <2>2, SMTT(30) DEF Sets, VerifyStart, Opening, OpeningPoints
  <2> QED
    BY <2>1, <2>3 DEF GoesOn, Sets, VerifyAt
<1>7. CASE pc = 43
  <2>1. GoesOn(49) /\ Sets(8, 1)
    BY <1>7, <1>3, DoMovRI, SomeRegisters DEF VerifyListing
  <2>2. VerifyStart(43, regs, "Z" \in flags)
    BY <1>7
  <2>3. VerifyStart(49, regs', "Z" \in flags')
    BY <2>1, <2>2, SMTT(30) DEF Sets, VerifyStart, Opening, OpeningPoints
  <2> QED
    BY <2>1, <2>3 DEF GoesOn, Sets, VerifyAt
<1>8. CASE pc = 49
  <2>1. GoesOn(55) /\ Sets(5, 0)
    BY <1>8, <1>3, DoMovRI, SomeRegisters DEF VerifyListing
  <2>2. VerifyStart(49, regs, "Z" \in flags)
    BY <1>8
  <2>3. VerifyStart(55, regs', "Z" \in flags')
    BY <2>1, <2>2, SMTT(30) DEF Sets, VerifyStart, Opening, OpeningPoints
  <2> QED
    BY <2>1, <2>3 DEF GoesOn, Sets, VerifyAt
<1>9. CASE pc = 55
  <2>1. /\ GoesOn(57) /\ regs' = regs /\ memory' = memory /\ state' = state
        /\ "Z" \in flags' <=> regs[0] = regs[5]
    BY <1>9, <1>3, DoCompare, SomeRegisters DEF VerifyListing
  <2>2. VerifyStart(55, regs, "Z" \in flags)
    BY <1>9
  <2>3. VerifyStart(57, regs', "Z" \in flags')
    BY <2>1, <2>2, SMTT(30) DEF VerifyStart, Opening, OpeningPoints
  <2> QED
    BY <2>1, <2>3 DEF GoesOn, VerifyAt
<1>10. CASE pc = 62
  <2>1. /\ GoesOn(64) /\ regs' = regs /\ memory' = memory /\ state' = state
        /\ "Z" \in flags' <=> regs[1] = regs[5]
    BY <1>10, <1>3, DoCompare, SomeRegisters DEF VerifyListing
  <2>2. VerifyStart(62, regs, "Z" \in flags)
    BY <1>10
  <2>3. VerifyStart(64, regs', "Z" \in flags')
    BY <2>1, <2>2, SMTT(30) DEF VerifyStart, Opening, OpeningPoints
  <2> QED
    BY <2>1, <2>3 DEF GoesOn, VerifyAt
<1>11. CASE pc = 57
  <2>1. /\ GoesOn(IF "Z" \in flags THEN 137 ELSE 62) /\ regs' = regs /\ memory' = memory /\ state' = state
    BY <1>11, <1>3, DoJump DEF VerifyListing
  <2>2. VerifyStart(57, regs, "Z" \in flags)
    BY <1>11
  <2>3. CASE "Z" \in flags
    <3>1. VerifyEnd(137, regs', "Z" \in flags')
      BY <2>1, <2>2, <2>3, SMTT(30) DEF VerifyStart, VerifyEnd, Null
    <3> QED
      BY <2>1, <2>3, <3>1 DEF GoesOn, VerifyAt
  <2>4. CASE "Z" \notin flags
    <3>1. VerifyStart(62, regs', "Z" \in flags')
      BY <2>1, <2>2, <2>4, SMTT(30) DEF VerifyStart, Opening, OpeningPoints
    <3> QED
      BY <2>1, <2>4, <3>1 DEF GoesOn, VerifyAt
  <2> QED
    BY <2>3, <2>4
<1>12. CASE pc = 64
  <2>1. /\ GoesOn(IF "Z" \in flags THEN 137 ELSE 69) /\ regs' = regs /\ memory' = memory /\ state' = state
    BY <1>12, <1>3, DoJump DEF VerifyListing
  <2>2. VerifyStart(64, regs, "Z" \in flags)
    BY <1>12
  <2>3. CASE "Z" \in flags
    <3>1. VerifyEnd(137, regs', "Z" \in flags')
      BY <2>1, <2>2, <2>3, SMTT(30) DEF VerifyStart, VerifyEnd, Null
    <3> QED
      BY <2>1, <2>3, <3>1 DEF GoesOn, VerifyAt
  <2>4. CASE "Z" \notin flags
    <3>1. /\ regs'[0] = job.args[0] /\ regs'[1] = job.args[1] /\ regs'[2] = 0 /\ regs'[3] = Left(0)
          /\ regs'[5] = 0 /\ regs'[8] = 1 /\ job.args[0] # 0 /\ job.args[1] # 0
      BY <2>1, <2>2, <2>4, <1>1 DEF VerifyStart
    <3>2. /\ regs'[0] = job.args[0] + 0 /\ regs'[1] = job.args[1] + 0 /\ ~Null /\ 0 \in Byte
      <4>1. job.args \in [0 .. 3 -> 0 .. Word - 1]
        BY Fetched, JobTypes
      <4>2. job.args[0] \in 0 .. Word - 1 /\ job.args[1] \in 0 .. Word - 1
        BY <4>1
      <4>3. job.args[0] \in Int /\ job.args[1] \in Int
        BY <4>2, WordRange
      <4> QED
        BY <3>1, <4>3, ByteIs DEF Null
    <3>3. VerifyTurn(69, regs', "Z" \in flags', 0)
      BY <3>1, <3>2, <1>2, SMTT(30) DEF VerifyTurn
    <3> QED
      BY <2>1, <2>4, <3>3 DEF GoesOn, VerifyAt
  <2> QED
    BY <2>3, <2>4
<1> QED
  BY <1>4, <1>5, <1>6, <1>7, <1>8, <1>9, <1>10, <1>11, <1>12 DEF VerifyStart

LEMMA VerifyTurnStep ==
  ASSUME Fetching, VerifyJob, memory = job.memory, NEW i \in 0 .. 255, VerifyTurn(pc, regs, "Z" \in flags, i)
  PROVE  VerifyAt(pc', regs', "Z" \in flags') /\ job' = job /\ violation' = violation /\ memory' = memory /\ state' = state
<1> DEFINE Turn(j) == VerifyTurn(pc', regs', "Z" \in flags', j)
           Frame == job' = job /\ violation' = violation /\ memory' = memory /\ state' = state
<1>1. Turn(i) => VerifyAt(pc', regs', "Z" \in flags')
  BY DEF VerifyAt
<1>2. /\ i \in Nat /\ ~Null /\ Going(i)
      /\ job.args[0] \in Nat /\ job.args[1] \in Nat
      /\ job.args[0] + i \in Cells /\ job.args[0] + i <= 65534 /\ HashAt(i) \in Byte
      /\ job.args[1] + i \in Cells /\ job.args[1] + i <= 65534 /\ ExpectedAt(i) \in Byte
      /\ i > 0 => HashAt(i - 1) \in Byte
  <2>1. i \in Nat /\ ~Null /\ Going(i) /\ job \in Jobs
    BY Fetched DEF VerifyTurn
  <2> QED
    BY <2>1, GoingFits, CellRange
<1>3. VerifyListing
  BY Fetched, VerifyDisassembled
<1>4. /\ Left(i) = (IF i = 0 THEN 0 ELSE HashAt(i - 1)) <=> Counted(i)
      /\ Left(i + 1) = Wrap((64 - i) - 1) /\ 64 - i \in Int /\ Left(i) = Wrap(64 - i)
      /\ memory[job.args[0] + i] = HashAt(i) /\ memory[job.args[1] + i] = ExpectedAt(i)
  <2>1. /\ Left(i) = (IF i = 0 THEN 0 ELSE HashAt(i - 1)) <=> Counted(i)
        /\ Left(i + 1) = Wrap((64 - i) - 1) /\ 64 - i \in Int
    <3>1. i > 0 => HashAt(i - 1) \in Byte
      BY <1>2
    <3> QED
      BY <3>1, CounterMeets
  <2>2. Left(i) = Wrap(64 - i)
    BY DEF Left
  <2>3. memory[job.args[0] + i] = HashAt(i) /\ memory[job.args[1] + i] = ExpectedAt(i)
    BY DEF HashAt, ExpectedAt
  <2> QED
    BY <2>1, <2>2, <2>3
<1>5. /\ Going(i) /\ ~StopsAt(i) => Going(i + 1)
      /\ EqualUpTo(i + 1) <=> EqualUpTo(i) /\ HashAt(i) = ExpectedAt(i)
      /\ StopsAt(i) <=> HashAt(i) = 0 \/ ExpectedAt(i) = 0 \/ Counted(i)
      /\ Going(i) /\ ~EqualUpTo(i) => Differ
      /\ i = 0 => ~Counted(i)
  BY <1>2, OneFurther, UnequalDiffers, AtTheStart
<1> HIDE DEF Turn, Frame
<1>6. CASE pc = 69
  <2>1. VerifyTurn(69, regs, "Z" \in flags, i)
    BY <1>6
  <2>2. /\ GoesOn(71) /\ regs' = regs /\ memory' = memory /\ state' = state
        /\ "Z" \in flags' <=> regs[3] = regs[5]
    BY <1>6, <1>3, DoCompare, SomeRegisters DEF VerifyListing
  <2>3. Frame
    BY <2>2 DEF GoesOn, Frame
  <2>4. VerifyTurn(71, regs', "Z" \in flags', i)
    BY <2>1, <2>2, <1>4, <1>2, SMTT(30) DEF VerifyTurn
  <2> QED
    BY <2>2, <2>3, <2>4, <1>1 DEF GoesOn, Turn, Frame
<1>7. CASE pc = 71
  <2>1. VerifyTurn(71, regs, "Z" \in flags, i)
    BY <1>7
  <2>2. /\ GoesOn(IF "Z" \in flags THEN 130 ELSE 76) /\ regs' = regs /\ memory' = memory /\ state' = state
    BY <1>7, <1>3, DoJump DEF VerifyListing
  <2>3. Frame
    BY <2>2 DEF GoesOn, Frame
  <2>4. CASE "Z" \in flags
    <3>1. regs[9] = 0 /\ (regs[2] = 0 <=> EqualUpTo(i))
      BY <2>1, <2>4, <1>2, <1>5, SMTT(30) DEF VerifyTurn
    <3>2. VerifyEnd(130, regs', "Z" \in flags')
      BY <3>1, <2>2, <1>2, <1>5 DEF VerifyEnd
    <3> QED
      BY <2>2, <2>3, <2>4, <3>2 DEF GoesOn, Frame, VerifyAt
  <2>5. CASE "Z" \notin flags
    <3>1. VerifyTurn(76, regs', "Z" \in flags', i)
      BY <2>1, <2>2, <2>5, <1>2, SMTT(30) DEF VerifyTurn
    <3> QED
      BY <2>2, <2>3, <2>5, <3>1, <1>1 DEF GoesOn, Turn, Frame
  <2> QED
    BY <2>4, <2>5
<1>8. CASE pc = 76
  <2>1. VerifyTurn(76, regs, "Z" \in flags, i)
    BY <1>8
  <2>2. regs[0] = job.args[0] + i
    BY <2>1, <1>2, SMTT(30) DEF VerifyTurn
  <2>3. regs[0] \in Cells
    BY <2>2, <1>2, <1>4
  <2>4. GoesOn(80) /\ Sets(5, memory[regs[0]])
    BY <2>3, <1>8, <1>3, DoLoad, SomeRegisters DEF VerifyListing
  <2>5. Frame
    BY <2>4 DEF GoesOn, Sets, Frame
  <2>6. VerifyTurn(80, regs', "Z" \in flags', i)
    BY <2>1, <2>4, <1>2, SMTT(30) DEF Sets, VerifyTurn
  <2> QED
    BY <2>4, <2>5, <2>6, <1>1 DEF GoesOn, Turn, Frame
<1>9. CASE pc = 80
  <2>1. VerifyTurn(80, regs, "Z" \in flags, i)
    BY <1>9
  <2>2. /\ GoesOn(82) /\ regs' = regs /\ memory' = memory /\ state' = state
        /\ "Z" \in flags' <=> regs[5] = regs[5]
    BY <1>9, <1>3, DoCompare, SomeRegisters DEF VerifyListing
  <2>3. Frame
    BY <2>2 DEF GoesOn, Frame
  <2>4. VerifyTurn(82, regs', "Z" \in flags', i)
    BY <2>1, <2>2, <1>2, SMTT(30) DEF VerifyTurn
  <2> QED
    BY <2>2, <2>3, <2>4, <1>1 DEF GoesOn, Turn, Frame
<1>10. CASE pc = 82
  <2>1. VerifyTurn(82, regs, "Z" \in flags, i)
    BY <1>10
  <2>2. GoesOn(88) /\ Sets(9, 0)
    BY <1>10, <1>3, DoMovRI, SomeRegisters DEF VerifyListing
  <2>3. Frame
    BY <2>2 DEF GoesOn, Sets, Frame
  <2>4. VerifyTurn(88, regs', "Z" \in flags', i)
    BY <2>1, <2>2, <1>2, SMTT(30) DEF Sets, VerifyTurn
  <2> QED
    BY <2>2, <2>3, <2>4, <1>1 DEF GoesOn, Turn, Frame
<1>11. CASE pc = 88
  <2>1. VerifyTurn(88, regs, "Z" \in flags, i)
    BY <1>11
  <2>2. regs[0] = job.args[0] + i
    BY <2>1, <1>2, SMTT(30) DEF VerifyTurn
  <2>3. regs[0] \in Cells /\ memory[regs[0]] = HashAt(i)
    BY <2>2, <1>2, <1>4
  <2>4. GoesOn(92) /\ Sets(5, HashAt(i))
    BY <2>3, <1>11, <1>3, DoLoad, SomeRegisters DEF VerifyListing
  <2>5. Frame
    BY <2>4 DEF GoesOn, Sets, Frame
  <2>6. VerifyTurn(92, regs', "Z" \in flags', i)
    BY <2>1, <2>4, <1>2, SMTT(30) DEF Sets, VerifyTurn
  <2> QED
    BY <2>4, <2>5, <2>6, <1>1 DEF GoesOn, Turn, Frame
<1>12. CASE pc = 92
  <2>1. VerifyTurn(92, regs, "Z" \in flags, i)
    BY <1>12
  <2>2. /\ GoesOn(94) /\ regs' = regs /\ memory' = memory /\ state' = state
        /\ "Z" \in flags' <=> regs[5] = regs[9]
    BY <1>12, <1>3, DoCompare, SomeRegisters DEF VerifyListing
  <2>3. Frame
    BY <2>2 DEF GoesOn, Frame
  <2>4. VerifyTurn(94, regs', "Z" \in flags', i)
    BY <2>1, <2>2, <1>2, SMTT(30) DEF VerifyTurn
  <2> QED
    BY <2>2, <2>3, <2>4, <1>1 DEF GoesOn, Turn, Frame
<1>13. CASE pc = 94
  <2>1. VerifyTurn(94, regs, "Z" \in flags, i)
    BY <1>13
  <2>2. /\ GoesOn(IF "Z" \in flags THEN 130 ELSE 99) /\ regs' = regs /\ memory' = memory /\ state' = state
    BY <1>13, <1>3, DoJump DEF VerifyListing
  <2>3. Frame
    BY <2>2 DEF GoesOn, Frame
  <2>4. CASE "Z" \in flags
    <3>1. regs[9] = 0 /\ (regs[2] = 0 <=> EqualUpTo(i))
      BY <2>1, <2>4, <1>2, <1>5, SMTT(30) DEF VerifyTurn
    <3>2. VerifyEnd(130, regs', "Z" \in flags')
      BY <3>1, <2>2, <1>2, <1>5 DEF VerifyEnd
    <3> QED
      BY <2>2, <2>3, <2>4, <3>2 DEF GoesOn, Frame, VerifyAt
  <2>5. CASE "Z" \notin flags
    <3>1. VerifyTurn(99, regs', "Z" \in flags', i)
      BY <2>1, <2>2, <2>5, <1>2, SMTT(30) DEF VerifyTurn
    <3> QED
      BY <2>2, <2>3, <2>5, <3>1, <1>1 DEF GoesOn, Turn, Frame
  <2> QED
    BY <2>4, <2>5
<1>14. CASE pc = 99
  <2>1. VerifyTurn(99, regs, "Z" \in flags, i)
    BY <1>14
  <2>2. regs[1] = job.args[1] + i
    BY <2>1, <1>2, SMTT(30) DEF VerifyTurn
  <2>3. regs[1] \in Cells /\ memory[regs[1]] = ExpectedAt(i)
    BY <2>2, <1>2, <1>4
  <2>4. GoesOn(103) /\ Sets(6, ExpectedAt(i))
    BY <2>3, <1>14, <1>3, DoLoad, SomeRegisters DEF VerifyListing
  <2>5. Frame
    BY <2>4 DEF GoesOn, Sets, Frame
  <2>6. VerifyTurn(103, regs', "Z" \in flags', i)
    BY <2>1, <2>4, <1>2, SMTT(30) DEF Sets, VerifyTurn
  <2> QED
    BY <2>4, <2>5, <2>6, <1>1 DEF GoesOn, Turn, Frame
<1>15. CASE pc = 103
  <2>1. VerifyTurn(103, regs, "Z" \in flags, i)
    BY <1>15
  <2>2. /\ GoesOn(105) /\ regs' = regs /\ memory' = memory /\ state' = state
        /\ "Z" \in flags' <=> regs[6] = regs[9]
    BY <1>15, <1>3, DoCompare, SomeRegisters DEF VerifyListing
  <2>3. Frame
    BY <2>2 DEF GoesOn, Frame
  <2>4. VerifyTurn(105, regs', "Z" \in flags', i)
    BY <2>1, <2>2, <1>2, SMTT(30) DEF VerifyTurn
  <2> QED
    BY <2>2, <2>3, <2>4, <1>1 DEF GoesOn, Turn, Frame
<1>16. CASE pc = 105
  <2>1. VerifyTurn(105, regs, "Z" \in flags, i)
    BY <1>16
  <2>2. /\ GoesOn(IF "Z" \in flags THEN 130 ELSE 110) /\ regs' = regs /\ memory' = memory /\ state' = state
    BY <1>16, <1>3, DoJump DEF VerifyListing
  <2>3. Frame
    BY <2>2 DEF GoesOn, Frame
  <2>4. CASE "Z" \in flags
    <3>1. regs[9] = 0 /\ (regs[2] = 0 <=> EqualUpTo(i))
      BY <2>1, <2>4, <1>2, <1>5, SMTT(30) DEF VerifyTurn
    <3>2. VerifyEnd(130, regs', "Z" \in flags')
      BY <3>1, <2>2, <1>2, <1>5 DEF VerifyEnd
    <3> QED
      BY <2>2, <2>3, <2>4, <3>2 DEF GoesOn, Frame, VerifyAt
  <2>5. CASE "Z" \notin flags
    <3>1. VerifyTurn(110, regs', "Z" \in flags', i)
      BY <2>1, <2>2, <2>5, <1>2, SMTT(30) DEF VerifyTurn
    <3> QED
      BY <2>2, <2>3, <2>5, <3>1, <1>1 DEF GoesOn, Turn, Frame
  <2> QED
    BY <2>4, <2>5
<1>17. CASE pc = 110
  <2>1. VerifyTurn(110, regs, "Z" \in flags, i)
    BY <1>17
  <2>2. regs[5] = HashAt(i) /\ regs[6] = ExpectedAt(i)
    BY <2>1, <1>2, SMTT(30) DEF VerifyTurn
  <2>3. regs[5] = HashAt(i) /\ regs[6] = ExpectedAt(i) /\ regs[5] \in Byte /\ regs[6] \in Byte
    BY <2>2, <1>2, <1>4
  <2>4. GoesOn(113) /\ Sets(7, Xor(HashAt(i), ExpectedAt(i)))
    BY <2>3, <1>17, <1>3, DoXor, SomeRegisters DEF VerifyListing
  <2>5. Frame
    BY <2>4 DEF GoesOn, Sets, Frame
  <2>6. VerifyTurn(113, regs', "Z" \in flags', i)
    BY <2>1, <2>4, <1>2, SMTT(30) DEF Sets, VerifyTurn
  <2> QED
    BY <2>4, <2>5, <2>6, <1>1 DEF GoesOn, Turn, Frame
<1>18. CASE pc = 113
  <2>1. VerifyTurn(113, regs, "Z" \in flags, i)
    BY <1>18
  <2>2. regs[2] \in Byte /\ regs[7] = Xor(HashAt(i), ExpectedAt(i)) /\ (regs[2] = 0 <=> EqualUpTo(i))
    BY <2>1, <1>2, SMTT(30) DEF VerifyTurn
  <2>3. regs[7] \in Byte /\ (regs[7] = 0 <=> HashAt(i) = ExpectedAt(i))
    BY <2>2, <1>2, ByteWords
  <2>4. Or(regs[2], regs[7]) \in Byte /\ (Or(regs[2], regs[7]) = 0 <=> EqualUpTo(i + 1))
    BY <2>2, <2>3, <1>5, ByteWords
  <2>5. GoesOn(116) /\ Sets(2, Or(regs[2], regs[7]))
    BY <2>2, <2>3, <1>18, <1>3, DoOr, SomeRegisters DEF VerifyListing
  <2>6. Frame
    BY <2>5 DEF GoesOn, Sets, Frame
  <2>7. VerifyTurn(116, regs', "Z" \in flags', i)
    BY <2>1, <2>5, <2>4, <1>2, SMTT(30) DEF Sets, VerifyTurn
  <2> QED
    BY <2>5, <2>6, <2>7, <1>1 DEF GoesOn, Turn, Frame
<1>19. CASE pc = 116
  <2>1. VerifyTurn(116, regs, "Z" \in flags, i)
    BY <1>19
  <2>2. regs[0] = job.args[0] + i /\ regs[8] = 1
    BY <2>1, <1>2, SMTT(30) DEF VerifyTurn
  <2>3. regs[0] + regs[8] <= 65535
    BY <2>2, <1>2, <1>4
  <2>4. GoesOn(119) /\ Sets(0, regs[0] + regs[8])
    BY <2>3, <1>19, <1>3, DoAdd, SomeRegisters DEF VerifyListing
  <2>5. Frame
    BY <2>4 DEF GoesOn, Sets, Frame
  <2>6. VerifyTurn(119, regs', "Z" \in flags', i)
    BY <2>1, <2>4, <1>2, SMTT(30) DEF Sets, VerifyTurn
  <2> QED
    BY <2>4, <2>5, <2>6, <1>1 DEF GoesOn, Turn, Frame
<1>20. CASE pc = 119
  <2>1. VerifyTurn(119, regs, "Z" \in flags, i)
    BY <1>20
  <2>2. regs[1] = job.args[1] + i /\ regs[8] = 1
    BY <2>1, <1>2, SMTT(30) DEF VerifyTurn
  <2>3. regs[1] + regs[8] <= 65535
    BY <2>2, <1>2, <1>4
  <2>4. GoesOn(122) /\ Sets(1, regs[1] + regs[8])
    BY <2>3, <1>20, <1>3, DoAdd, SomeRegisters DEF VerifyListing
  <2>5. Frame
    BY <2>4 DEF GoesOn, Sets, Frame
  <2>6. VerifyTurn(122, regs', "Z" \in flags', i)
    BY <2>1, <2>4, <1>2, SMTT(30) DEF Sets, VerifyTurn
  <2> QED
    BY <2>4, <2>5, <2>6, <1>1 DEF GoesOn, Turn, Frame
<1>21. CASE pc = 122
  <2>1. VerifyTurn(122, regs, "Z" \in flags, i)
    BY <1>21
  <2>2. regs[8] = 1 /\ regs[3] = Wrap(64 - i)
    BY <2>1, <1>4, SMTT(30) DEF VerifyTurn
  <2>3. 64 - i \in Int /\ 0 - 65535 <= 64 - i /\ 64 - i <= 65535
    OBVIOUS
  <2>4. GoesOn(125) /\ Sets(3, Left(i + 1))
    BY <2>2, <2>3, <1>4, <1>21, <1>3, DoSub, SomeRegisters DEF VerifyListing
  <2>5. Frame
    BY <2>4 DEF GoesOn, Sets, Frame
  <2>6. VerifyTurn(125, regs', "Z" \in flags', i)
    BY <2>1, <2>4, <1>2, SMTT(30) DEF Sets, VerifyTurn
  <2> QED
    BY <2>4, <2>5, <2>6, <1>1 DEF GoesOn, Turn, Frame
<1>22. CASE pc = 125
  <2>1. VerifyTurn(125, regs, "Z" \in flags, i)
    BY <1>22
  <2>2. GoesOn(69) /\ regs' = regs /\ memory' = memory /\ state' = state /\ flags' = flags
    BY <1>22, <1>3, DoJump DEF VerifyListing
  <2>3. Frame
    BY <2>2 DEF GoesOn, Frame
  <2>4. ~StopsAt(i) /\ Going(i + 1) /\ i + 1 \in 0 .. 255
    <3>1. HashAt(i) # 0 /\ ExpectedAt(i) # 0 /\ ~Counted(i)
      BY <2>1, <1>2, SMTT(30) DEF VerifyTurn
    <3>2. ~StopsAt(i) /\ Going(i + 1)
      BY <3>1, <1>2, <1>5
    <3>3. i + 1 \in Nat /\ i + 1 <= 255
      BY <3>2, <1>2, Fetched, GoingFits, i + 1 \in Nat
    <3> QED
      BY <3>2, <3>3
  <2>5. VerifyTurn(69, regs', "Z" \in flags', i + 1)
    BY <2>1, <2>2, <2>4, <1>2, SMTT(30) DEF VerifyTurn
  <2> QED
    BY <2>2, <2>3, <2>4, <2>5 DEF GoesOn, Frame, VerifyAt
<1> QED
  BY <1>6, <1>7, <1>8, <1>9, <1>10, <1>11, <1>12, <1>13, <1>14, <1>15, <1>16, <1>17, <1>18, <1>19, <1>20, <1>21, <1>22 DEF VerifyTurn


\* A step of verify_hash while it runs: it goes on, or it returns the verdict.
LEMMA VerifyRuns ==
  ASSUME EngineTypes, PatchInv, VerifyInv, VerifyJob, Step
  PROVE  VerifyInv'
<1>1. Running /\ Same
  BY DEF Step, Nop, MovImm, MovReg, Arithmetic, Unary, Compare, Jump, Load, StoreByte, CallExt, Ret,
     Stop, Takes
<1>2. state = "running" /\ job' = job /\ violation' = violation /\ ~violation
  BY <1>1 DEF Running, Same, PatchInv
<1>3. memory = job.memory /\ VerifyAt(pc, regs, "Z" \in flags)
  BY <1>2 DEF VerifyInv
<1>4. job \in Jobs /\ pc \in Nat
  BY WordRange DEF EngineTypes, TypeOK
<1>5. CodeSize = 151 /\ job.by # "ivm_run" /\ VerifyListing
  BY <1>4, VerifyFetched, VerifyDisassembled
<1>6. \/ VerifyStart(pc, regs, "Z" \in flags)
      \/ \E i \in 0 .. 255 : VerifyTurn(pc, regs, "Z" \in flags, i)
      \/ VerifyEnd(pc, regs, "Z" \in flags)
  BY <1>3 DEF VerifyAt
<1>7. pc \in 0 .. 150
  <2>1. CASE VerifyStart(pc, regs, "Z" \in flags)
    BY <2>1, SMTT(30) DEF VerifyStart, OpeningPoints
  <2>2. ASSUME NEW i \in 0 .. 255, VerifyTurn(pc, regs, "Z" \in flags, i)
        PROVE  pc \in 0 .. 150
    BY <2>2, SMTT(30) DEF VerifyTurn
  <2>3. CASE VerifyEnd(pc, regs, "Z" \in flags)
    BY <2>3, SMTT(30) DEF VerifyEnd
  <2> QED
    BY <1>6, <2>1, <2>2, <2>3
<1>8. Fetching
  BY <1>1, <1>5, <1>7 DEF Fetching, AtEnd
<1>9. (VerifyJob' <=> VerifyJob) /\ (Null' <=> Null) /\ (Differ' <=> Differ)
  BY <1>2, SameTexts DEF VerifyJob
<1>10. ASSUME VerifyAt(pc', regs', "Z" \in flags'), memory' = memory, state' = state
       PROVE  VerifyInv'
  <2>1. VerifyAt(pc, regs, "Z" \in flags)'
    BY <1>2, <1>10, VerifyAtNext
  <2> QED
    BY <2>1, <1>2, <1>3, <1>9, <1>10 DEF VerifyInv
<1>11. CASE VerifyStart(pc, regs, "Z" \in flags)
  BY <1>8, <1>10, <1>11, VerifyStartStep
<1>12. CASE \E i \in 0 .. 255 : VerifyTurn(pc, regs, "Z" \in flags, i)
  BY <1>3, <1>8, <1>10, <1>12, VerifyTurnStep
<1>13. CASE VerifyEnd(pc, regs, "Z" \in flags)
  <2>1. CASE pc = 130
    <3>1. /\ GoesOn(132) /\ regs' = regs /\ memory' = memory /\ state' = state
          /\ "Z" \in flags' <=> regs[2] = regs[9]
      BY <2>1, <1>5, <1>8, DoCompare, SomeRegisters DEF VerifyListing
    <3>2. VerifyEnd(132, regs', "Z" \in flags')
      BY <2>1, <3>1, <1>13 DEF VerifyEnd
    <3> QED
      BY <3>1, <3>2, <1>10 DEF GoesOn, VerifyAt
  <2>2. CASE pc = 132
    <3>1. /\ GoesOn(IF "Z" \in flags THEN 144 ELSE 137)
          /\ regs' = regs /\ memory' = memory /\ state' = state
      BY <2>2, <1>5, <1>8, DoJump DEF VerifyListing
    <3>2. VerifyEnd(IF "Z" \in flags THEN 144 ELSE 137, regs', "Z" \in flags')
      BY <2>2, <3>1, <1>13 DEF VerifyEnd
    <3> QED
      BY <3>1, <3>2, <1>10 DEF GoesOn, VerifyAt
  <2>3. CASE pc = 137
    <3>1. GoesOn(143) /\ Sets(0, 1)
      BY <2>3, <1>5, <1>8, DoMovRI, SomeRegisters DEF VerifyListing
    <3>2. VerifyEnd(143, regs', "Z" \in flags')
      BY <2>3, <3>1, <1>13 DEF Sets, VerifyEnd
    <3> QED
      BY <3>1, <3>2, <1>10 DEF GoesOn, Sets, VerifyAt
  <2>4. CASE pc = 144
    <3>1. GoesOn(150) /\ Sets(0, 0)
      BY <2>4, <1>5, <1>8, DoMovRI, SomeRegisters DEF VerifyListing
    <3>2. VerifyEnd(150, regs', "Z" \in flags')
      BY <2>4, <3>1, <1>13 DEF Sets, VerifyEnd
    <3> QED
      BY <3>1, <3>2, <1>10 DEF GoesOn, Sets, VerifyAt
  <2>5. CASE pc \in {143, 150}
    <3>1. state' = "returned" /\ regs' = regs /\ memory' = memory
      BY <2>5, <1>5, <1>8, DoRet DEF VerifyListing
    <3>2. Verdict(regs[0])
      BY <2>5, <1>13 DEF VerifyEnd, Verdict
    <3> QED
      BY <3>1, <3>2, <1>2, <1>3, <1>9 DEF VerifyInv, Verdict
  <2> QED
    BY <2>1, <2>2, <2>3, <2>4, <2>5, <1>13 DEF VerifyEnd
<1> QED
  BY <1>6, <1>11, <1>12, <1>13

LEMMA VerifyStep == EngineTypes /\ PatchInv /\ VerifyInv /\ [Next]_vars => VerifyInv'
<1> SUFFICES ASSUME EngineTypes, PatchInv, VerifyInv, [Next]_vars
             PROVE  VerifyInv'
  OBVIOUS
<1>1. job' = job
  BY JobStays
<1>2. (VerifyJob' <=> VerifyJob) /\ (Null' <=> Null) /\ (Differ' <=> Differ)
  BY <1>1, SameTexts DEF VerifyJob
<1>3. CASE ~VerifyJob
  BY <1>2, <1>3 DEF VerifyInv
<1>4. CASE VerifyJob /\ UNCHANGED vars
  <2>1. /\ regs' = regs /\ pc' = pc /\ memory' = memory /\ flags' = flags
        /\ state' = state /\ violation' = violation
    BY <1>4 DEF vars
  <2>2. state \in {"new", "running"} => VerifyAt(pc, regs, "Z" \in flags)'
    BY <2>1, <1>1, <1>4, VerifyAtNext DEF VerifyInv
  <2> QED
    BY <2>1, <2>2, <1>1, <1>2, <1>4 DEF VerifyInv, Verdict
<1>5. VerifyJob => ~T3Assemble /\ ~T4Get
  <2>1. VerifyJob => state # "asked"
    BY DEF VerifyInv
  <2> QED
    BY <2>1 DEF T3Assemble, T4Get
<1>6. CASE VerifyJob /\ Execute
  <2>1. /\ state = "new" /\ state' \in {"error", "running"} /\ (state' = "error" => violation')
        /\ regs' = regs /\ pc' = pc /\ memory' = memory /\ flags' = flags
    BY <1>6 DEF Execute
  <2>2. memory = job.memory /\ VerifyAt(pc, regs, "Z" \in flags)
    BY <2>1, <1>6 DEF VerifyInv
  <2>3. VerifyAt(pc, regs, "Z" \in flags)'
    BY <2>1, <2>2, <1>1, VerifyAtNext
  <2> QED
    BY <2>1, <2>2, <2>3, <1>1, <1>2 DEF VerifyInv
<1>7. CASE VerifyJob /\ Step
  BY <1>7, VerifyRuns
<1> QED
  BY <1>3, <1>4, <1>5, <1>6, <1>7 DEF Next

LEMMA VerifyInit == Init => VerifyInv
<1> SUFFICES ASSUME Init, VerifyJob
             PROVE  VerifyInv
  BY DEF VerifyInv
<1>1. /\ job \in Jobs /\ memory = job.memory /\ pc = 0
      /\ regs[0] = job.args[0] /\ regs[1] = job.args[1]
  BY SomeRegisters DEF Init
<1>2. state = "new"
  <2>1. job.by \notin {"t3_assemble", "t4_get"}
    BY <1>1, JobTypes DEF Provided, VerifyJob
  <2> QED
    BY <2>1 DEF Init
<1>3. VerifyStart(0, regs, "Z" \in flags)
  BY <1>1 DEF VerifyStart, Opening, OpeningPoints
<1> QED
  BY <1>1, <1>2, <1>3 DEF VerifyInv, VerifyAt

-----------------------------------------------------------------------------
\* Every job keeps what holds at each instruction.
THEOREM EngineKeeps == Spec => []EngineInv
<1>1. Init => EngineInv
  BY InitTypes, PatchInit, XorInit, VerifyInit DEF EngineInv
<1>2. EngineInv /\ [Next]_vars => EngineInv'
  BY StepTypes, PatchStep, XorStep, VerifyStep DEF EngineInv
<1> QED
  BY <1>1, <1>2, PTL DEF Spec

-----------------------------------------------------------------------------
(***************************************************************************)
(* The theorems.                                                           *)
(***************************************************************************)
LEMMA Sizes ==
  /\ Size(1) = 6 /\ Size(2) = 2 /\ Size(3) = 3 /\ Size(4) = 3 /\ Size(5) = 3 /\ Size(7) = 3
  /\ Size(10) = 2 /\ Size(11) = 5 /\ Size(12) = 5 /\ Size(13) = 5 /\ Size(14) = 4 /\ Size(16) = 4
  /\ Size(18) = 1
  BY DEF Size

\* At every address that xor_decrypt reaches an instruction lies within the code.
LEMMA XorLiesWithin ==
  ASSUME job \in Jobs, pc \in Nat, XorJob, XorAt(pc, regs, memory, "Z" \in flags)
  PROVE  Opcode \in 0 .. 21 /\ pc + Size(Opcode) <= CodeSize
<1>1. XorListing /\ CodeSize = 110
  BY XorFetched, XorDisassembled
<1>2. pc \in {0, 6, 8, 11, 17, 19, 31, 33, 35, 41, 47, 53, 55, 60, 64, 68, 71, 75, 78, 81, 84, 86, 91,
              93, 99, 102, 107, 109}
  BY DEF XorAt, XorStart, XorTurn, XorEnd, OpeningPoints
<1>3. \/ Opcode = 1 /\ pc <= 93
      \/ Opcode \in {2, 10} /\ pc <= 107
      \/ Opcode \in {3, 4, 5} /\ pc <= 99
      \/ Opcode \in {11, 12, 13} /\ pc <= 102
      \/ Opcode \in {14, 16} /\ pc <= 71
      \/ Opcode = 18 /\ pc = 109
  BY <1>1, <1>2, SMTT(30) DEF XorListing, MovRI, OnTwo, OnThree, OnCell, JumpTo
<1> QED
  BY <1>1, <1>3, Sizes

LEMMA VerifyLiesWithin ==
  ASSUME job \in Jobs, pc \in Nat, VerifyJob, VerifyAt(pc, regs, "Z" \in flags)
  PROVE  Opcode \in 0 .. 21 /\ pc + Size(Opcode) <= CodeSize
<1>1. VerifyListing /\ CodeSize = 151
  BY VerifyFetched, VerifyDisassembled
<1>2. pc \in {0, 6, 8, 11, 17, 19, 31, 37, 43, 49, 55, 57, 62, 64, 69, 71, 76, 80, 82, 88, 92, 94, 99,
              103, 105, 110, 113, 116, 119, 122, 125, 130, 132, 137, 143, 144, 150}
  BY DEF VerifyAt, VerifyStart, VerifyTurn, VerifyEnd, OpeningPoints
<1>3. \/ Opcode = 1 /\ pc <= 144
      \/ Opcode \in {2, 10} /\ pc <= 130
      \/ Opcode \in {3, 4, 5, 7} /\ pc <= 122
      \/ Opcode \in {11, 12, 13} /\ pc <= 132
      \/ Opcode = 14 /\ pc <= 99
      \/ Opcode = 18 /\ pc <= 150
  BY <1>1, <1>2, SMTT(30) DEF VerifyListing, MovRI, OnTwo, OnThree, OnCell, JumpTo
<1> QED
  BY <1>1, <1>3, Sizes

\* The two checked-in programs read instructions at the starts that the assembler gave
\* them, never past their ends, and no memory that is not there, for any buffers, keys
\* and texts that end.
THEOREM ProgramsStayWithin == Spec => []StaysWithin
<1>1. EngineInv => StaysWithin
  <2> SUFFICES ASSUME EngineInv, Checked, ~violation
               PROVE  /\ state \notin {"error", "fault"}
                      /\ Running => Opcode \in 0 .. 21 /\ pc + Size(Opcode) <= CodeSize
    BY Zenon DEF StaysWithin
  <2>1. EngineTypes /\ XorInv /\ VerifyInv
    BY DEF EngineInv
  <2>2. job \in Jobs /\ pc \in Nat
    BY <2>1, WordRange DEF EngineTypes, TypeOK
  <2>3. XorJob \/ VerifyJob
    BY DEF Checked, XorJob, VerifyJob
  <2>4. CASE XorJob
    <3>1. state # "fault" /\ state # "error" /\ (state = "running" => XorAt(pc, regs, memory, "Z" \in flags))
      BY <2>1, <2>4 DEF XorInv
    <3> QED
      BY <2>2, <2>4, <3>1, XorLiesWithin DEF Running
  <2>5. CASE VerifyJob
    <3>1. state # "fault" /\ state # "error" /\ (state = "running" => VerifyAt(pc, regs, "Z" \in flags))
      BY <2>1, <2>5 DEF VerifyInv
    <3> QED
      BY <2>2, <2>5, <3>1, VerifyLiesWithin DEF Running
  <2> QED
    BY <2>3, <2>4, <2>5
<1> QED
  BY <1>1, EngineKeeps, PTL

\* An interpreter whose section is not what the build measured runs no program, and
\* every other does.
THEOREM PatchedNeverRuns == Spec => []PatchedRunsNothing
<1>1. EngineInv => PatchedRunsNothing
  BY DEF EngineInv, PatchInv, Patched, PatchedRunsNothing
<1> QED
  BY <1>1, EngineKeeps, PTL

\* What the programs leave, for any buffers, keys and texts that end: the decrypted
\* text, and 1 for two texts only if they differ before either ends.
THEOREM ProgramsEndRight == Spec => []ProgramsCompute
<1>1. EngineInv => TypeOK
  BY DEF EngineInv, EngineTypes
<1>2. EngineInv => DecryptsInTurn
  <2>1. ASSUME EngineInv, XorJob, state = "returned"
        PROVE  memory = [c \in Cells |-> Decrypted(c)] /\ Answer = job.args[0]
    <3>1. Made /\ memory = Turned(Len(Input)) /\ regs[0] = Buffer /\ job \in Jobs
      BY <2>1 DEF EngineInv, EngineTypes, XorInv
    <3>2. Turned(Len(Input)) = [c \in Cells |-> Decrypted(c)]
      BY <2>1, <3>1, Turning
    <3> QED
      BY <2>1, <3>1, <3>2 DEF Answer, Buffer
  <2>2. ASSUME EngineInv, state = "returned", job.by = "t3_assemble"
        PROVE  Len(Input) = Length(T3_DESCRIPTORS[Index + 1], Len(T3_DESCRIPTORS[Index + 1]))
    <3>1. XorJob /\ job \in Jobs
      BY <2>2, JobTypes DEF EngineInv, EngineTypes, Provided, XorJob
    <3>2. Made
      BY <2>2, <3>1 DEF EngineInv, XorInv
    <3> QED
      BY <2>2, <3>1, <3>2, InputFits
  <2> QED
    BY <2>1, <2>2 DEF DecryptsInTurn, XorJob
<1>3. EngineInv => DifferenceIsReal
  BY DEF EngineInv, VerifyInv, Verdict, DifferenceIsReal, Verified, Checked, VerifyJob, Answer
<1> QED
  BY <1>1, <1>2, <1>3, EngineKeeps, PTL DEF ProgramsCompute
=============================================================================
