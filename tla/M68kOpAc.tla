------------------------------- MODULE M68kOpAc -------------------------------
(***************************************************************************)
(* The handlers of m68kopac.c: one definition for the variants of a handler *)
(* that differ in the addressing mode m only.  x and y are the two register *)
(* fields of the opcode; s is the state after the opcode has been fetched.  *)
(***************************************************************************)
EXTENDS M68kForms

-----------------------------------------------------------------------------
(* Line A and line F opcodes, addition and conjunction.                     *)

op_1010(s) == Instead(s, LineA)
op_1111(s) == Instead(s, LineF)
abcd_8_rr(s, x, y) == Alter(s, Byte, "d", x, s.dar[y], Abcd, MarkChain)
abcd_8_mm(s, x, y) == Mm(s, Byte, x, y, Abcd, MarkChain)

add_8_er(s, m, x, y) == Er(s, Byte, m, x, y, Added, MarkXNZVC)
add_16_er(s, m, x, y) == Er(s, Word, m, x, y, Added, MarkXNZVC)
add_32_er(s, m, x, y) == Er(s, Long, m, x, y, Added, MarkXNZVC)
add_8_re(s, m, x, y) == Re(s, Byte, m, x, y, Added, MarkXNZVC)
add_16_re(s, m, x, y) == Re(s, Word, m, x, y, Added, MarkXNZVC)
add_32_re(s, m, x, y) == Re(s, Long, m, x, y, Added, MarkXNZVC)
adda_16(s, m, x, y) == AddTo(s, Word, m, x, y, 1)
adda_32(s, m, x, y) == AddTo(s, Long, m, x, y, 1)
addi_8(s, m, y) == Im(s, Byte, m, y, Added, MarkXNZVC)
addi_16(s, m, y) == Im(s, Word, m, y, Added, MarkXNZVC)
addi_32(s, m, y) == Im(s, Long, m, y, Added, MarkXNZVC)
addq_8(s, m, x, y) == Alter(s, Byte, m, y, Quick(x), Added, MarkXNZVC)
addq_16(s, m, x, y) == Alter(s, Word, m, y, Quick(x), Added, MarkXNZVC)
addq_32(s, m, x, y) == Alter(s, Long, m, y, Quick(x), Added, MarkXNZVC)
addq_16_a(s, x, y) == Set(s, A(y), s.dar[A(y)] + Quick(x))
addq_32_a(s, x, y) == Set(s, A(y), s.dar[A(y)] + Quick(x))

addx_8_rr(s, x, y) == Alter(s, Byte, "d", x, Low(Byte, s.dar[y]), Addx, MarkChain)
addx_16_rr(s, x, y) == Alter(s, Word, "d", x, Low(Word, s.dar[y]), Addx, MarkChain)
addx_32_rr(s, x, y) == Alter(s, Long, "d", x, Low(Long, s.dar[y]), Addx, MarkChain)
addx_8_mm(s, x, y) == Mm(s, Byte, x, y, Addx, MarkChain)
addx_16_mm(s, x, y) == Mm(s, Word, x, y, Addx, MarkChain)
addx_32_mm(s, x, y) == Mm(s, Long, x, y, Addx, MarkChain)

and_8_er(s, m, x, y) == Er(s, Byte, m, x, y, Anded, MarkNZVC)
and_16_er(s, m, x, y) == Er(s, Word, m, x, y, Anded, MarkNZVC)
and_32_er(s, m, x, y) == Er(s, Long, m, x, y, Anded, MarkNZVC)
and_8_re(s, m, x, y) == Re(s, Byte, m, x, y, Anded, MarkNZVC)
and_16_re(s, m, x, y) == Re(s, Word, m, x, y, Anded, MarkNZVC)
and_32_re(s, m, x, y) == Re(s, Long, m, x, y, Anded, MarkNZVC)
andi_8(s, m, y) == Im(s, Byte, m, y, Anded, MarkNZVC)
andi_16(s, m, y) == Im(s, Word, m, y, Anded, MarkNZVC)
andi_32(s, m, y) == Im(s, Long, m, y, Anded, MarkNZVC)
andi_16_toc(s) == ToCcr(s, And)
andi_16_tos_in_any_mode(s) ==
    Then(Imm16(s), LAMBDA v, t : SetSr(t, And(Word, Sr(s), v)))
andi_16_tos(s) == ToSr(s, And)

-----------------------------------------------------------------------------
(* Arithmetic shifts, branches and single bits.  d is the displacement in   *)
(* the opcode.                                                              *)

asr_8_s(s, x, y) == Alter(s, Byte, "d", y, Count(x), Asr, MarkXNZVC)
asr_16_s(s, x, y) == Alter(s, Word, "d", y, Count(x), Asr, MarkXNZVC)
asr_32_s(s, x, y) == Alter(s, Long, "d", y, Count(x), Asr, MarkXNZVC)
asr_8_r(s, x, y) == ByRegister(s, Byte, x, y, Asr, MarkXNZVC)
asr_16_r(s, x, y) == ByRegister(s, Word, x, y, Asr, MarkXNZVC)
asr_32_r(s, x, y) == ByRegister(s, Long, x, y, Asr, MarkXNZVC)
asr_16(s, m, y) == Alter(s, Word, m, y, 1, Asr, MarkXNZVC)
asl_8_s(s, x, y) == Alter(s, Byte, "d", y, Count(x), Asl, MarkXNZVC)
asl_16_s(s, x, y) == Alter(s, Word, "d", y, Count(x), Asl, MarkXNZVC)
asl_32_s(s, x, y) == Alter(s, Long, "d", y, Count(x), Asl, MarkXNZVC)
asl_8_r(s, x, y) == ByRegister(s, Byte, x, y, Asl, MarkXNZVC)
asl_16_r(s, x, y) == ByRegister(s, Word, x, y, Asl, MarkXNZVC)
asl_32_r(s, x, y) == ByRegister(s, Long, x, y, Asl, MarkXNZVC)
asl_16(s, m, y) == Alter(s, Word, m, y, 1, Asl, MarkXNZVC)

bcc_8(s, cond, d) == IF Holds(cond, s) THEN Branch8(s, d) ELSE s
bcc_16(s, cond) == IF Holds(cond, s) THEN Branch16(s) ELSE SkipWord(s)
bcc_32(s) == Illegal(s)
bchg_32_r(s, x, y) == AlterBit(s, Long, "d", y, s.dar[x], Flip)
bchg_8_r(s, m, x, y) == AlterBit(s, Byte, m, y, s.dar[x], Flip)
bchg_32_s(s, y) == Then(Imm16(s), LAMBDA n, t : AlterBit(t, Long, "d", y, n, Flip))
bchg_8_s(s, m, y) == Then(Imm16(s), LAMBDA n, t : AlterBit(t, Byte, m, y, n, Flip))
bclr_32_r(s, x, y) == AlterBit(s, Long, "d", y, s.dar[x], ClearBit)
bclr_8_r(s, m, x, y) == AlterBit(s, Byte, m, y, s.dar[x], ClearBit)
bclr_32_s(s, y) == Then(Imm16(s), LAMBDA n, t : AlterBit(t, Long, "d", y, n, ClearBit))
bclr_8_s(s, m, y) == Then(Imm16(s), LAMBDA n, t : AlterBit(t, Byte, m, y, n, ClearBit))
bkpt(s) == Illegal(s)
bra_8(s, d) == Idle(Branch8(s, d))
bra_16(s) == Idle(Branch16(s))
bra_32(s) == Illegal(s)
bset_32_r(s, x, y) == AlterBit(s, Long, "d", y, s.dar[x], SetBit)
bset_8_r(s, m, x, y) == AlterBit(s, Byte, m, y, s.dar[x], SetBit)
bset_32_s(s, y) == Then(Imm16(s), LAMBDA n, t : AlterBit(t, Long, "d", y, n, SetBit))
bset_8_s(s, m, y) == Then(Imm16(s), LAMBDA n, t : AlterBit(t, Byte, m, y, n, SetBit))
bsr_8(s, d) == Branch8(Push32(s, s.pc), d)
bsr_16_too_early(s) ==
    Then(Imm16(s), LAMBDA d, t : Jump(Push32(t, s.pc), s.pc + Signed(Word, d)))
bsr_16(s) == Then(Imm16(s), LAMBDA d, t : Jump(Push32(t, t.pc), s.pc + Signed(Word, d)))
bsr_32(s) == Illegal(s)
btst_32_r(s, x, y) == TestBit(s, Long, "d", y, s.dar[x])
btst_8_r(s, m, x, y) == TestBit(s, Byte, m, y, s.dar[x])
btst_32_s(s, y) == Then(Imm16(s), LAMBDA n, t : TestBit(t, Long, "d", y, n))
btst_8_s(s, m, y) == Then(Imm16(s), LAMBDA n, t : TestBit(t, Byte, m, y, n))

-----------------------------------------------------------------------------
(* Bounds, clearing and comparison.                                        *)

chk_16(s, m, x, y) ==
    Then(Operand(s, Word, m, y), LAMBDA v, t :
         CheckBound(t, Signed(Word, s.dar[x]), Signed(Word, v)))
chk_32(s) == Illegal(s)
clr_8(s, m, y) == Alter(s, Byte, m, y, 0, Zeroed, MarkNZVC)
clr_16(s, m, y) == Alter(s, Word, m, y, 0, Zeroed, MarkNZVC)
clr_32(s, m, y) == Alter(s, Long, m, y, 0, Zeroed, MarkNZVC)
cmp_8(s, m, x, y) == Compare(s, Byte, m, y, x)
cmp_16(s, m, x, y) == Compare(s, Word, m, y, x)
cmp_32(s, m, x, y) == Compare(s, Long, m, y, x)
cmpa_16(s, m, x, y) == CompareAddress(s, Word, m, y, A(x))
cmpa_32(s, m, x, y) == CompareAddress(s, Long, m, y, A(x))
cmpi_8(s, m, y) ==
    Then(Immediate(s, Byte), LAMBDA v, t :
         Look(t, Byte, m, y, v, Subtracted, MarkNZVC))
cmpi_8_pc(s) == Illegal(s)
cmpi_16(s, m, y) ==
    Then(Immediate(s, Word), LAMBDA v, t :
         Look(t, Word, m, y, v, Subtracted, MarkNZVC))
cmpi_16_pc(s) == Illegal(s)
cmpi_32(s, m, y) ==
    Then(Immediate(s, Long), LAMBDA v, t :
         Look(t, Long, m, y, v, Subtracted, MarkNZVC))
cmpi_32_pc(s) == Illegal(s)
cmpm_8(s, x, y) == CompareMemory(s, Byte, x, y)
cmpm_16(s, x, y) == CompareMemory(s, Word, x, y)
cmpm_32(s, x, y) == CompareMemory(s, Long, x, y)
=============================================================================
