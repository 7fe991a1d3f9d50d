----------------------------- MODULE MCVmEngine -----------------------------
EXTENDS VmEngine, TLC

Encoded(bytes) == [i \in 1 .. Len(bytes) |-> Xor(bytes[i], VM_OPCODE_XOR_KEY)]
R2(op, a, b) == <<op, a + 16 * b>>
R3(op, d, a, b) == <<op, d + 16 * a, b>>
Or6(r) == R3(7, 6, 6, r)

\* V6 collects the differences of a - b and a + (-b), of ~b + 1 and -b, of
\* (a & b) + (a | b) and a + b, of 2a and a << 1, and of a and what is left of it.
Laws ==
  R3(4, 2, 0, 1) \o R2(20, 3, 1) \o <<1, 4, 1, 0, 0, 0>> \o R3(3, 3, 3, 4) \o R2(21, 5, 1)
  \o R3(5, 7, 3, 5) \o Or6(7)
  \o R3(3, 7, 0, 3) \o R3(5, 7, 7, 2) \o Or6(7)
  \o R3(6, 8, 0, 1) \o R3(7, 9, 0, 1) \o R3(3, 8, 8, 9) \o R3(3, 9, 0, 1) \o R3(5, 8, 8, 9) \o Or6(8)
  \o R3(8, 9, 0, 4) \o R3(3, 8, 0, 0) \o R3(5, 8, 8, 9) \o Or6(8)
  \o R3(9, 9, 0, 4) \o R3(8, 9, 9, 4) \o R3(6, 8, 0, 4) \o R3(3, 9, 9, 8) \o R3(5, 9, 9, 0) \o Or6(9)
  \o R2(2, 0, 6) \o <<0, 18>>

\* strlen of V0, and memcmp of the V2 bytes at V0 and V1; an index that is not there,
\* an opcode that is not there, a word that is not there, and code without VM_RET.
AllTests ==
  [name \in {"laws", "strlen", "memcmp", "no_function", "no_opcode", "load32"} |->
     Encoded(CASE name = "laws" -> Laws
               [] name = "strlen" -> <<17, 0, 18>>
               [] name = "memcmp" -> <<17, 1, 18>>
               [] name = "no_function" -> <<17, 2, 18>>
               [] name = "no_opcode" -> <<32>>
               [] name = "load32" -> <<19, 1, 3, 0, 0, 0, 0, 0, 0, 0, 15, 0, 0, 0, 10, 16>>)]

\* Two texts of up to 64 characters, each with its NUL.
A == 256
B == 384
AllCells == A .. A + 64 \cup B .. B + 64
Zeros == [c \in AllCells |-> 0]
Texts(a, b) ==
  [c \in AllCells |-> IF c < B THEN IF c - A < Len(a) THEN a[c - A + 1] ELSE 0
                      ELSE IF c - B < Len(b) THEN b[c - B + 1] ELSE 0]

Plain == [i \in 1 .. 64 |-> 97]
Short == [i \in 1 .. 16 |-> 97]
\* At its index 11 a 5: when it was compared, 53 characters are left, which is its code.
Five == [Short EXCEPT ![11] = 53]
With(text, i) == [text EXCEPT ![i] = 102]
Pairs ==
  {<<Plain, Plain>>, <<With(Plain, 64), Plain>>, <<Short, With(Short, 1)>>, <<Five, Five>>,
   <<Five, With(Five, 11)>>, <<Five, With(Five, 12)>>, <<With(Five, 10), Five>>,
   <<SubSeq(Short, 1, 3), Short>>, <<Short, <<>>>>}

Args(a, b, c, d) == [i \in 0 .. 3 |-> <<a, b, c, d>>[i + 1]]
NewJob(by, program, args, cells, crc) ==
  [by |-> by, program |-> program, args |-> args, memory |-> cells,
   expected |-> crc, section |-> "proper"]

VerifyJobs ==
  {NewJob("vm_execute", "verify_hash", Args(A, B, 0, 0), Texts(p[1], p[2]), "equal") : p \in Pairs}
  \cup {NewJob("vm_execute", "verify_hash", Args(0, B, 0, 0), Texts(Plain, Plain), "zeros"),
        NewJob("vm_execute", "verify_hash", Args(A, 0, 0, 0), Texts(Plain, Plain), "equal"),
        NewJob("vm_execute", "verify_hash", Args(A, B, 0, 0), Texts(Plain, Plain), "differs"),
        NewJob("ivm_run", "verify_hash", Args(A, B, 0, 0), Texts(Plain, Plain), "zeros")}

DecryptJobs ==
  {NewJob("vm_execute", "xor_decrypt", Args(A, B, n, k), Texts(text, key), "zeros") :
     n \in 0 .. 3, k \in 1 .. 3, text \in [1 .. 3 -> {90, 255}], key \in {<<90, 7, 165>>}}

TestJobs ==
  {NewJob("vm_execute", "laws", Args(a, b, 0, 0), Zeros, "equal") :
     a \in {0, 1, 32767, 32768, 65535}, b \in {0, 3, 32768, 65535}}
  \cup {NewJob("vm_execute", program, Args(A, B, 3, 0), Texts(<<1, 2, 3>>, <<1, 2, b>>), "equal") :
          program \in DOMAIN AllTests \ {"laws"}, b \in {3, 4}}
  \cup {NewJob("vm_execute", "load32", Args(B + 62, B, 3, 0), Zeros, "equal")}

\* Strings of two parts each; the third leaves the pool, the fourth is too long.
Pool == <<11, 22, 33, 44>>
Descriptors == <<<<<<2, 2>>, <<0, 1>>>>, <<<<1, 0>>, <<3, 1>>>>, <<<<0, 1>>, <<3, 2>>>>, <<<<0, 4>>, <<1, 1>>>>>>
Strings == <<<<1, 2, 3>>, <<>>, <<9>>>>
CallerJobs ==
  {[NewJob(by, "xor_decrypt", Args(A, B, index, 2), Texts(<<5, 5, 5, 5>>, <<90, 7>>), "equal")
      EXCEPT !.expected = expected, !.section = section] :
     by \in {"t3_assemble", "t4_get"}, index \in 0 .. 4,
     expected \in {"zeros", "not_hex", "equal", "differs"}, section \in {"proper", "disordered"}}

AllJobs == VerifyJobs \cup DecryptJobs \cup TestJobs \cup CallerJobs
=============================================================================
