------------------------------ MODULE VmEngine ------------------------------
(***************************************************************************)
(* The byte code interpreter of libxcj_defender (vm_engine.c) and its      *)
(* reduced copy in the inner library (inner_defender.c), instruction by    *)
(* instruction, running the programs of vm_bytecode.h and a few small ones *)
(* on a memory of bytes, and the two callers that decrypt strings with it, *)
(* t3_assemble and t4_get.                                                 *)
(*                                                                         *)
(* A register keeps the low 16 of its 64 bits: every address, length and   *)
(* character of the programs' inputs is below 2^16, and the arithmetic     *)
(* wraps there as it does at 2^64.                                         *)
(***************************************************************************)
EXTENDS Integers, Sequences, VmBytecode

CONSTANTS
  Tests,        \* programs of the test's kind, by name
  Jobs,         \* what is run: see Job
  T3_SEG_POOL, T3_DESCRIPTORS,  \* bytes, and for each string its <<offset, length>> parts
  T3_MAX_STR_LEN,
  DATA,         \* the strings of XcjEncStringTable; <<>> is an empty or a null one
  Cells         \* the addresses the caller has memory at

Word == 65536
T3_MAX_SEGMENTS == 4
Registers == 0 .. 15
Byte == 0 .. 255
Callers == {"vm_execute", "ivm_run", "t3_assemble", "t4_get"}

\* A job: the caller, the program, V0 to V3 (for t3_assemble and t4_get V0 is the
\* buffer, V1 and V3 the key and its length, V2 the index), the memory at the start,
\* what the build patched in for the CRC of the section vmself_code, and the section.
Job ==
  [by : Callers, program : {"verify_hash", "xor_decrypt"} \cup DOMAIN Tests,
   args : [0 .. 3 -> 0 .. Word - 1], memory : [Cells -> Byte],
   expected : {"zeros", "not_hex", "equal", "differs"}, section : {"proper", "disordered"}]

Code(program) ==
  CASE program = "verify_hash" -> VM_BC_verify_hash
    [] program = "xor_decrypt" -> VM_BC_xor_decrypt
    [] OTHER -> Tests[program]

\* What a caller passes: the inner library runs verify_hash; a buffer is as long as
\* what is decrypted in it, and apart from the key; the texts of two hashes end.
Room(a, n) == a .. a + n - 1 \subseteq Cells
Lengths(j) ==
  CASE j.by = "t3_assemble" -> {T3_MAX_STR_LEN}
    [] j.by = "t4_get" -> {Len(DATA[i]) : i \in DOMAIN DATA}
    [] OTHER -> {j.args[2]}
Terminated(j, a) == \E n \in 0 .. 255 : Room(a, n + 1) /\ j.memory[a + n] = 0
Provided(j) ==
  /\ j.by = "ivm_run" => j.program = "verify_hash"
  /\ j.by \in {"t3_assemble", "t4_get"} => j.program = "xor_decrypt"
  /\ j.program = "xor_decrypt" =>
       /\ j.args[3] > 0 /\ Room(j.args[1], j.args[3])
       /\ \A n \in Lengths(j) :
            Room(j.args[0], n) /\ (j.args[0] + n <= j.args[1] \/ j.args[1] + j.args[3] <= j.args[0])
  /\ j.program = "verify_hash" /\ j.args[0] # 0 /\ j.args[1] # 0 =>
       Terminated(j, j.args[0]) /\ Terminated(j, j.args[1])

\* There is an address behind the last cell.
ASSUME CellsAssumption == Cells \subseteq 1 .. Word - 2
ASSUME JobsAssumption == Jobs \subseteq Job /\ \A j \in Jobs : Provided(j)
ASSUME TestsAssumption == \A t \in DOMAIN Tests : Tests[t] \in Seq(Byte) /\ Len(Tests[t]) < Word
ASSUME StringsAssumption ==
  /\ T3_SEG_POOL \in Seq(Byte) /\ T3_MAX_STR_LEN \in Nat
  /\ DATA \in Seq(Seq(Byte)) /\ T3_DESCRIPTORS \in Seq(Seq(Nat \X Nat))
  /\ \A i \in DOMAIN T3_DESCRIPTORS : Len(T3_DESCRIPTORS[i]) <= T3_MAX_SEGMENTS

VARIABLES
  job,          \* the job under way
  regs, flags, pc, memory,      \* vm_context_t
  state,        \* "asked" before t3_assemble or t4_get fills the buffer, "new" before the
                \* CRC check, "running", "returned", "error" (-2), "refused" without a run,
                \* or "fault" when memory is touched that is not there
  violation     \* g_vm_self_ref_violation

vars == <<job, regs, flags, pc, memory, state, violation>>

Init ==
  /\ job \in Jobs
  /\ regs = [r \in Registers |-> IF r < 4 THEN job.args[r] ELSE 0]
  /\ flags = {}
  /\ pc = 0
  /\ memory = job.memory
  /\ state = IF job.by \in {"t3_assemble", "t4_get"} THEN "asked" ELSE "new"
  /\ violation = FALSE

-----------------------------------------------------------------------------
(***************************************************************************)
(* Fetching and decoding.                                                  *)
(***************************************************************************)
\* The word whose bits, each named by its weight, are those that has.
WordOf(has(_)) ==
  LET bit(w) == IF has(w) THEN w ELSE 0
  IN  bit(1) + bit(2) + bit(4) + bit(8) + bit(16) + bit(32) + bit(64) + bit(128) + bit(256)
      + bit(512) + bit(1024) + bit(2048) + bit(4096) + bit(8192) + bit(16384) + bit(32768)
Odd(n) == n % 2 = 1
And(a, b) == WordOf(LAMBDA w : Odd(a \div w) /\ Odd(b \div w))
Or(a, b) == WordOf(LAMBDA w : Odd(a \div w) \/ Odd(b \div w))
Xor(a, b) == WordOf(LAMBDA w : ~(Odd(a \div w) <=> Odd(b \div w)))

\* The inner library takes the bytes as they are.
VM_DEC == [b \in Byte |-> Xor(b, VM_OPCODE_XOR_KEY)]
Dec(b) == IF job.by = "ivm_run" THEN b ELSE VM_DEC[b]

CodeSize == Len(Code(job.program))
At(n) == IF pc + n < CodeSize THEN Dec(Code(job.program)[pc + n + 1]) ELSE 0
Opcode == At(0)
Low(n) == At(n) % 16
High(n) == At(n) \div 16

\* imm16 and imm32, as far as a register keeps them, and as the signed offset of a jump.
Imm(n) == At(n) + 256 * At(n + 1)
Signed(v) == IF v < Word \div 2 THEN v ELSE v - Word

Wrap(v) == v % Word

\* The inner interpreter stops at 120 whatever the size of its program is.
InnerLimit == 120
Running == state = "running"
AtEnd == pc >= IF job.by = "ivm_run" THEN InnerLimit ELSE CodeSize

Known(op) ==
  op \in IF job.by = "ivm_run" THEN {1, 2, 3, 4, 5, 7, 10, 11, 12, 13, 14, 18} ELSE 0 .. 21

\* An instruction of n bytes whose opcode is op, before the end.
Takes(op, n) ==
  /\ Running /\ ~AtEnd
  /\ Opcode = op /\ Known(op)
  /\ pc' = Wrap(pc + n)

Put(r, v) == regs' = [regs EXCEPT ![r] = Wrap(v)]
Same == UNCHANGED <<job, violation>>

-----------------------------------------------------------------------------
(***************************************************************************)
(* The instructions of vm_step and ivm_run.                                *)
(***************************************************************************)
Nop == Takes(0, 1) /\ Same /\ UNCHANGED <<regs, flags, memory, state>>

MovImm ==
  /\ Takes(1, 6) \/ Takes(19, 10)
  /\ Put(Low(1), Imm(2))
  /\ Same /\ UNCHANGED <<flags, memory, state>>

MovReg == Takes(2, 2) /\ Put(Low(1), regs[High(1)]) /\ Same /\ UNCHANGED <<flags, memory, state>>

\* Two's complement of -b, and the bits of a moved by the low six of b: none are
\* left of 16 when b is 16 or more.
Minus(a, b) == a - b + Word
Power == <<1, 2, 4, 8, 16, 32, 64, 128, 256, 512, 1024, 2048, 4096, 8192, 16384, 32768, Word>>
ShiftLeft(a, b) == IF b % 64 < 16 THEN (a % Power[17 - (b % 64)]) * Power[1 + (b % 64)] ELSE 0
ShiftRight(a, b) == IF b % 64 < 16 THEN a \div Power[1 + (b % 64)] ELSE 0

Arithmetic ==
  \E a \in {regs[High(1)]}, b \in {regs[Low(2)]} :
  /\ \/ Takes(3, 3) /\ Put(Low(1), a + b)
     \/ Takes(4, 3) /\ Put(Low(1), Minus(a, b))
     \/ Takes(5, 3) /\ Put(Low(1), Xor(a, b))
     \/ Takes(6, 3) /\ Put(Low(1), And(a, b))
     \/ Takes(7, 3) /\ Put(Low(1), Or(a, b))
     \/ Takes(8, 3) /\ Put(Low(1), ShiftLeft(a, b))
     \/ Takes(9, 3) /\ Put(Low(1), ShiftRight(a, b))
  /\ Same /\ UNCHANGED <<flags, memory, state>>

Unary ==
  LET a == regs[High(1)] IN
  /\ \/ Takes(20, 2) /\ Put(Low(1), Word - 1 - a)
     \/ Takes(21, 2) /\ Put(Low(1), Word - a)
  /\ Same /\ UNCHANGED <<flags, memory, state>>

MutCompare ==
  LET result == Wrap(Minus(regs[Low(1)], regs[High(1)])) IN
  /\ Takes(10, 2)
  /\ flags' = flags \cup (IF result = 0 THEN {"Z"} ELSE {})
  /\ Same /\ UNCHANGED <<regs, memory, state>>
Compare ==
  LET result == Wrap(Minus(regs[Low(1)], regs[High(1)])) IN
  /\ Takes(10, 2)
  /\ flags' = (IF result = 0 THEN {"Z"} ELSE {})
               \cup (IF result >= Word \div 2 /\ job.by # "ivm_run" THEN {"N"} ELSE {})
  /\ Same /\ UNCHANGED <<regs, memory, state>>

\* The offset counts from the end of the instruction.
Jumps(op) == op = 11 \/ (op = 12 /\ "Z" \in flags) \/ (op = 13 /\ "Z" \notin flags)
MutTarget == Wrap(pc + Signed(Imm(1)) + Word)
Target == Wrap(pc + 5 + Signed(Imm(1)) + Word)
Jump ==
  /\ Running /\ ~AtEnd
  /\ Opcode \in {11, 12, 13} /\ Known(Opcode)
  /\ pc' = IF Jumps(Opcode) THEN Target ELSE Wrap(pc + 5)
  /\ Same /\ UNCHANGED <<regs, flags, memory, state>>

\* Loads and stores go through the host's pointers.
Address(r) == Wrap(regs[r] + Signed(Imm(2)) + Word)
Load ==
  LET a == Address(High(1)) IN
  /\ \/ /\ Takes(14, 4)
        /\ IF a \in Cells THEN Put(Low(1), memory[a]) /\ UNCHANGED state
           ELSE state' = "fault" /\ UNCHANGED regs
     \/ /\ Takes(15, 4)
        /\ IF a .. a + 3 \subseteq Cells
           THEN Put(Low(1), memory[a] + 256 * memory[a + 1]) /\ UNCHANGED state
           ELSE state' = "fault" /\ UNCHANGED regs
  /\ Same /\ UNCHANGED <<flags, memory>>

StoreByte ==
  LET a == Address(Low(1)) IN
  /\ Takes(16, 4)
  /\ IF a \in Cells
     THEN memory' = [memory EXCEPT ![a] = regs[High(1)] % 256] /\ UNCHANGED state
     ELSE state' = "fault" /\ UNCHANGED memory
  /\ Same /\ UNCHANGED <<regs, flags>>

\* What ext_strlen and ext_memcmp return: nothing when they leave the memory first.
StrLen(s) ==
  {c - s : c \in {c \in Cells : s <= c /\ memory[c] = 0
                     /\ \A x \in s .. c - 1 : x \in Cells /\ memory[x] # 0}}
Alike(a, b, n) == \A i \in 0 .. n - 1 : {a + i, b + i} \subseteq Cells /\ memory[a + i] = memory[b + i]
MemCmp(a, b, n) ==
  {Minus(memory[a + k], memory[b + k]) :
     k \in {k \in 0 .. n - 1 : Alike(a, b, k) /\ {a + k, b + k} \subseteq Cells /\ memory[a + k] # memory[b + k]}}
  \cup {d \in {0} : Alike(a, b, n)}
CallExt ==
  LET results == IF At(1) = 0 THEN StrLen(regs[0]) ELSE MemCmp(regs[0], regs[1], regs[2]) IN
  /\ Takes(17, 2)
  /\ \/ At(1) \in {0, 1} /\ (\E r \in results : Put(0, r)) /\ UNCHANGED state
     \/ At(1) \in {0, 1} /\ results = {} /\ state' = "fault" /\ UNCHANGED regs
     \/ At(1) > 1 /\ state' = "error" /\ UNCHANGED regs
  /\ Same /\ UNCHANGED <<flags, memory>>

Ret == Takes(18, 1) /\ state' = "returned" /\ Same /\ UNCHANGED <<regs, flags, memory>>

\* The end of the code returns V0; the inner interpreter also does at an unknown opcode.
MutStop ==
  /\ Running
  /\ ~AtEnd /\ ~Known(Opcode)
  /\ pc' = pc + 1
  /\ state' = IF job.by = "ivm_run" THEN "returned" ELSE "error"
  /\ Same /\ UNCHANGED <<regs, flags, memory>>
Stop ==
  /\ Running
  /\ \/ AtEnd /\ state' = "returned" /\ UNCHANGED pc
     \/ /\ ~AtEnd /\ ~Known(Opcode)
        /\ pc' = pc + 1
        /\ state' = IF job.by = "ivm_run" THEN "returned" ELSE "error"
  /\ Same /\ UNCHANGED <<regs, flags, memory>>

-----------------------------------------------------------------------------
(***************************************************************************)
(* The callers, and what vm_execute does before its first step.            *)
(***************************************************************************)
\* Of the parts of a string t3_assemble copies all, or those before the first that
\* leaves the pool or makes the text too long.
Joined(parts, n) ==
  LET part(i) == IF i <= n THEN SubSeq(T3_SEG_POOL, parts[i][1] + 1, parts[i][1] + parts[i][2]) ELSE <<>>
  IN  part(1) \o part(2) \o part(3) \o part(4)
Length(parts, n) ==
  LET size(i) == IF i <= n THEN parts[i][2] ELSE 0
  IN  size(1) + size(2) + size(3) + size(4)
MutFits(parts, i) == Length(parts, i) <= T3_MAX_STR_LEN
Fits(parts, i) ==
  parts[i][1] + parts[i][2] <= Len(T3_SEG_POOL) /\ Length(parts, i) <= T3_MAX_STR_LEN

Index == job.args[2]
Refused == state' = "refused" /\ UNCHANGED <<regs, memory>>
Filled(text) ==
  memory' = [c \in Cells |->
               IF c \in job.args[0] .. job.args[0] + Len(text) - 1 THEN text[c - job.args[0] + 1] ELSE memory[c]]

T3Assemble ==
  LET parts == T3_DESCRIPTORS[Index + 1] IN
  /\ state = "asked" /\ job.by = "t3_assemble"
  /\ \/ Index >= Len(T3_DESCRIPTORS) /\ Refused
     \/ /\ Index < Len(T3_DESCRIPTORS)
        /\ \A i \in 1 .. Len(parts) : Fits(parts, i)
        /\ Filled(Joined(parts, Len(parts)))
        /\ state' = "new" /\ regs' = [regs EXCEPT ![2] = Length(parts, Len(parts))]
     \/ /\ Index < Len(T3_DESCRIPTORS)
        /\ \E i \in 1 .. Len(parts) :
             /\ ~Fits(parts, i) /\ \A j \in 1 .. i - 1 : Fits(parts, j)
             /\ Filled(Joined(parts, i - 1))
        /\ state' = "refused" /\ UNCHANGED regs
  /\ UNCHANGED <<job, flags, pc, violation>>

T4Get ==
  /\ state = "asked" /\ job.by = "t4_get"
  /\ IF (IF Index < Len(DATA) THEN DATA[Index + 1] ELSE <<>>) = <<>> THEN Refused
     ELSE /\ Filled(DATA[Index + 1])
          /\ regs' = [regs EXCEPT ![2] = Len(DATA[Index + 1])]
          /\ state' = "new"
  /\ UNCHANGED <<job, flags, pc, violation>>

\* All zeros or another character than a lower case digit is a build that was not
\* patched; a section whose end is not behind its start has the CRC 0.
Parsed == job.expected \notin {"zeros", "not_hex"}
ComputeCrc == IF job.section = "proper" THEN "equal" ELSE "zeros"
MutSelfRefCheck == Parsed /\ ComputeCrc # job.expected
SelfRefCheck == Parsed /\ ComputeCrc # "zeros" /\ ComputeCrc # job.expected

Execute ==
  /\ state = "new"
  /\ violation' = (job.by # "ivm_run" /\ SelfRefCheck)
  /\ state' = IF violation' THEN "error" ELSE "running"
  /\ UNCHANGED <<job, regs, flags, pc, memory>>

Step ==
  \/ Nop \/ MovImm \/ MovReg \/ Arithmetic \/ Unary \/ Compare \/ Jump \/ Load \/ StoreByte
  \/ CallExt \/ Ret \/ Stop
Next == T3Assemble \/ T4Get \/ Execute \/ Step
Spec == Init /\ [][Next]_vars /\ WF_vars(Next)

Over == state \in {"returned", "error", "refused", "fault"}
\* What vm_execute or ivm_run returns.
Answer == IF state = "returned" THEN regs[0] ELSE 0

-----------------------------------------------------------------------------
(***************************************************************************)
(* Properties.                                                             *)
(***************************************************************************)
TypeOK ==
  /\ regs \in [Registers -> 0 .. Word - 1]
  /\ flags \subseteq {"Z", "N"}
  /\ pc \in 0 .. Word - 1
  /\ memory \in [Cells -> Byte]
  /\ state \in {"asked", "new", "running", "returned", "error", "refused", "fault"}
  /\ violation \in BOOLEAN

\* The checked-in programs, wherever their jumps lead, are read at the start of an
\* instruction that ends within the code, and touch no memory but their arguments':
\* neither vm_step nor ivm_run checks an operand or an address.
Size(op) ==
  CASE op \in {0, 18} -> 1 [] op \in {2, 10, 17, 20, 21} -> 2 [] op \in 3 .. 9 -> 3
    [] op \in {14, 15, 16} -> 4 [] op \in {11, 12, 13} -> 5 [] op = 1 -> 6 [] op = 19 -> 10
Checked == job.by # "ivm_run" /\ job.program \in {"verify_hash", "xor_decrypt"}
StaysWithin ==
  Checked /\ ~violation =>
    /\ state \notin {"error", "fault"}
    /\ Running => Opcode \in 0 .. 21 /\ pc + Size(Opcode) <= CodeSize

\* xor_decrypt leaves every byte of the buffer XOR the key's byte of the same turn,
\* changes no other cell, and returns the buffer, whatever the two lengths. The buffer
\* held the parts of the string in their order; what does not fit was never decrypted.
Input ==
  CASE job.by = "t3_assemble" -> Joined(T3_DESCRIPTORS[Index + 1], Len(T3_DESCRIPTORS[Index + 1]))
    [] job.by = "t4_get" -> DATA[Index + 1]
    [] OTHER -> [i \in 1 .. job.args[2] |-> job.memory[job.args[0] + i - 1]]
Decrypted(cell) ==
  LET i == cell - job.args[0] IN
  IF i \in 0 .. Len(Input) - 1
  THEN Xor(Input[i + 1], job.memory[job.args[1] + (i % job.args[3])])
  ELSE job.memory[cell]
DecryptsInTurn ==
  /\ job.program = "xor_decrypt" /\ state = "returned" =>
       memory = [cell \in Cells |-> Decrypted(cell)] /\ Answer = job.args[0]
  /\ state = "returned" /\ job.by = "t3_assemble" =>
       Len(Input) = Length(T3_DESCRIPTORS[Index + 1], Len(T3_DESCRIPTORS[Index + 1]))

\* verify_hash says that two texts differ only of texts that do: before either text
\* ends there is a character in which they differ, or one of the texts is missing.
HashAt(i) == job.memory[job.args[0] + i]
ExpectedAt(i) == job.memory[job.args[1] + i]
Null == job.args[0] = 0 \/ job.args[1] = 0
Differ ==
  \E i \in 0 .. 255 :
    /\ \A j \in 0 .. i : HashAt(j) # 0 /\ ExpectedAt(j) # 0
    /\ HashAt(i) # ExpectedAt(i)
Verified == Checked /\ job.program = "verify_hash" /\ state = "returned"
DifferenceIsReal ==
  Verified => \/ Answer = 0 /\ ~Null
              \/ Answer = 1 /\ (Null \/ Differ)

\* Complement, carry, borrow, and shifts agree with one another for the words of
\* the job: the program "laws" collects what differs.
LawsHold == job.program = "laws" /\ state = "returned" => Answer = 0

\* An interpreter that was patched runs nothing, and the evidence is set in no other
\* case: not by a build without the CRC, nor by a section that cannot be measured.
PatchedRunsNothing ==
  state \notin {"asked", "new", "refused"} =>
    /\ violation <=> job.by # "ivm_run" /\ job.expected = "differs" /\ job.section = "proper"
    /\ violation => pc = 0 /\ state = "error"

\* The two programs of vm_bytecode.h, run by vm_execute, leave what their callers rely
\* on: the decrypted text, and no equal hashes that are said to differ.
ProgramsCompute ==
  TypeOK /\ DecryptsInTurn /\ DifferenceIsReal

\* Every job ends: the counters of the loops reach their ends or a NUL does; and the
\* arithmetic laws have not differed when theirs does.
Ends == <>(Over /\ LawsHold)

(***************************************************************************)
(* What the comments say and the code does not keep: no run lists them.    *)
(***************************************************************************)
\* "return diff != 0 ? 1 : 0" over 64 characters (build_vm_bytecode.py:170-174): 0
\* exactly for two texts that agree there, up to the end of the shorter one.  The loop
\* compares its counter with V5, which holds 0 before the first turn only.
VerifyIsEquality ==
  Verified /\ ~Null =>
    (Answer = 0 <=>
       \A i \in 0 .. 63 :
         (\A j \in 0 .. i : HashAt(j) # 0 /\ ExpectedAt(j) # 0) => HashAt(i) = ExpectedAt(i))

\* "Equal hashes shall return 0" (validator_core.c:172-179) of the inner interpreter,
\* which takes the encoded bytes for instructions and stops at the first.
SelfTestPasses ==
  job.by = "ivm_run" /\ Over /\ ~Null /\ ~Differ => Answer = 0
=============================================================================
