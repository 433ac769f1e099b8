------------------------------- MODULE M68kOpDm -------------------------------
(***************************************************************************)
(* The handlers of m68kopdm.c, written as in M68kOpAc.                      *)
(***************************************************************************)
EXTENDS M68kForms

-----------------------------------------------------------------------------
(* Counted branches: the count is only taken if the condition is false.    *)

dbt_16(s, y) == CountDown(s, "t", y)
dbf_16(s, y) == CountDown(s, "f", y)
dbhi_16(s, y) == CountDown(s, "hi", y)
dbls_16(s, y) == CountDown(s, "ls", y)
dbcc_16(s, y) == CountDown(s, "cc", y)
dbcs_16(s, y) == CountDown(s, "cs", y)
dbne_16(s, y) == CountDown(s, "ne", y)
dbeq_16(s, y) == CountDown(s, "eq", y)
dbvc_16(s, y) == CountDown(s, "vc", y)
dbvs_16(s, y) == CountDown(s, "vs", y)
dbpl_16(s, y) == CountDown(s, "pl", y)
dbmi_16(s, y) == CountDown(s, "mi", y)
dbge_16(s, y) == CountDown(s, "ge", y)
dblt_16(s, y) == CountDown(s, "lt", y)
dbgt_16(s, y) == CountDown(s, "gt", y)
dble_16(s, y) == CountDown(s, "le", y)

-----------------------------------------------------------------------------
(* Division, exclusive or, exchange, extension and control transfer.       *)

divs_16(s, m, x, y) ==
    Then(Operand(s, Word, m, y), LAMBDA v, t :
        IF v = 0 THEN Trap(t, ZeroDivide)
        \* the one quotient C cannot compute gives 0
        ELSE IF s.dar[x] = Span(Long) \div 2 /\ v = Span(Word) - 1
        THEN MarkNZVC(Set(t, x, 0), Plain(Word, 0))
        ELSE DividedSigned(t, x, DivideSigned(s.dar[x], v)))
divu_16(s, m, x, y) ==
    Then(Operand(s, Word, m, y), LAMBDA v, t :
        IF v = 0 THEN Trap(t, ZeroDivide)
        ELSE DividedUnsigned(t, x, DivideUnsigned(s.dar[x], v)))
eor_8(s, m, x, y) == Re(s, Byte, m, x, y, Eored, MarkNZVC)
eor_16(s, m, x, y) == Re(s, Word, m, x, y, Eored, MarkNZVC)
eor_32(s, m, x, y) == Re(s, Long, m, x, y, Eored, MarkNZVC)
eori_8(s, m, y) == Im(s, Byte, m, y, Eored, MarkNZVC)
eori_16(s, m, y) == Im(s, Word, m, y, Eored, MarkNZVC)
eori_32(s, m, y) == Im(s, Long, m, y, Eored, MarkNZVC)
eori_16_toc(s) == ToCcr(s, Xor)
eori_16_tos(s) == ToSr(s, Xor)
exg_32_dd(s, x, y) == Exchange(s, x, y)
exg_32_aa(s, x, y) == Exchange(s, A(x), A(y))
exg_32_da(s, x, y) == Exchange(s, x, A(y))
ext_16(s, y) == Alter(s, Word, "d", y, Byte, Extended, MarkNZVC)
ext_32(s, y) == Alter(s, Long, "d", y, Word, Extended, MarkNZVC)
illegal(s) == Illegal(s)
jmp_32(s, m, y) == Then(Ea(s, Long, m, y), LAMBDA a, t : Idle(Jump(t, a)))
jsr_32(s, m, y) == Then(Ea(s, Long, m, y), LAMBDA a, t : Jump(Push32(t, t.pc), a))
lea_32(s, m, x, y) == Then(Ea(s, Long, m, y), LAMBDA a, t : Set(t, A(x), a))
link_16_a7(s) == Frame(Push32(s, Low(Long, s.dar[SP] - 4)))
link_16(s, y) == Frame(Set(Push32(s, s.dar[A(y)]), A(y), s.dar[SP] - 4))

-----------------------------------------------------------------------------
(* Logical shifts.                                                          *)

lsr_8_s(s, x, y) == Alter(s, Byte, "d", y, Count(x), Lsr, MarkXNZVC)
lsr_16_s(s, x, y) == Alter(s, Word, "d", y, Count(x), Lsr, MarkXNZVC)
lsr_32_s(s, x, y) == Alter(s, Long, "d", y, Count(x), Lsr, MarkXNZVC)
lsr_8_r(s, x, y) == ByRegister(s, Byte, x, y, Lsr, MarkXNZVC)
lsr_16_r(s, x, y) == ByRegister(s, Word, x, y, Lsr, MarkXNZVC)
lsr_32_r(s, x, y) == ByRegister(s, Long, x, y, Lsr, MarkXNZVC)
lsr_16(s, m, y) == Alter(s, Word, m, y, 1, Lsr, MarkXNZVC)
lsl_8_s(s, x, y) == Alter(s, Byte, "d", y, Count(x), Lsl, MarkXNZVC)
lsl_16_s(s, x, y) == Alter(s, Word, "d", y, Count(x), Lsl, MarkXNZVC)
lsl_32_s(s, x, y) == Alter(s, Long, "d", y, Count(x), Lsl, MarkXNZVC)
lsl_8_r(s, x, y) == ByRegister(s, Byte, x, y, Lsl, MarkXNZVC)
lsl_16_r(s, x, y) == ByRegister(s, Word, x, y, Lsl, MarkXNZVC)
lsl_32_r(s, x, y) == ByRegister(s, Long, x, y, Lsl, MarkXNZVC)
lsl_16(s, m, y) == Alter(s, Word, m, y, 1, Lsl, MarkXNZVC)

-----------------------------------------------------------------------------
(* Moves: the source operand first, then the address of the destination.   *)

move_8_d(s, m, x, y) == Move(s, Byte, "d", m, x, y)
move_8_ai(s, m, x, y) == Move(s, Byte, "ai", m, x, y)
move_8_pi(s, m, x, y) == Move(s, Byte, "pi", m, x, y)
move_8_pi7(s, m, y) == Move(s, Byte, "pi", m, 7, y)
move_8_pd(s, m, x, y) == Move(s, Byte, "pd", m, x, y)
move_8_pd7(s, m, y) == Move(s, Byte, "pd", m, 7, y)
move_8_di(s, m, x, y) == Move(s, Byte, "di", m, x, y)
move_8_ix(s, m, x, y) == Move(s, Byte, "ix", m, x, y)
move_8_aw(s, m, x, y) == Move(s, Byte, "aw", m, x, y)
move_8_al(s, m, x, y) == Move(s, Byte, "al", m, x, y)
move_16_d(s, m, x, y) == Move(s, Word, "d", m, x, y)
move_16_ai(s, m, x, y) == Move(s, Word, "ai", m, x, y)
move_16_pi(s, m, x, y) == Move(s, Word, "pi", m, x, y)
move_16_pd(s, m, x, y) == Move(s, Word, "pd", m, x, y)
move_16_di(s, m, x, y) == Move(s, Word, "di", m, x, y)
move_16_ix(s, m, x, y) == Move(s, Word, "ix", m, x, y)
move_16_aw(s, m, x, y) == Move(s, Word, "aw", m, x, y)
move_16_al(s, m, x, y) == Move(s, Word, "al", m, x, y)
move_32_d(s, m, x, y) == Move(s, Long, "d", m, x, y)
move_32_ai(s, m, x, y) == Move(s, Long, "ai", m, x, y)
move_32_pi(s, m, x, y) == Move(s, Long, "pi", m, x, y)
move_32_pd(s, m, x, y) == Move(s, Long, "pd", m, x, y)
move_32_di(s, m, x, y) == Move(s, Long, "di", m, x, y)
move_32_ix(s, m, x, y) == Move(s, Long, "ix", m, x, y)
move_32_aw(s, m, x, y) == Move(s, Long, "aw", m, x, y)
move_32_al(s, m, x, y) == Move(s, Long, "al", m, x, y)
movea_16(s, m, x, y) ==
    Then(Operand(s, Word, m, y), LAMBDA v, t : Set(t, A(x), Extend(Word, v)))
movea_32(s, m, x, y) == Then(Operand(s, Long, m, y), LAMBDA v, t : Set(t, A(x), v))
move_16_toc(s, m, y) == Then(Operand(s, Word, m, y), LAMBDA v, t : SetCcr(t, v))
move_16_frs(s, m, y) == Alter(s, Word, m, y, Sr(s), Source, Unmarked)
move_16_tos(s, m, y) ==
    IF s.s THEN Then(Operand(s, Word, m, y), LAMBDA v, t : SetSr(t, v))
           ELSE PrivilegeViolation(s)
move_32_fru(s, y) == IF s.s THEN Set(s, A(y), s.sp[FALSE]) ELSE PrivilegeViolation(s)
move_32_tou(s, y) ==
    IF s.s THEN [s EXCEPT !.sp[FALSE] = s.dar[A(y)]] ELSE PrivilegeViolation(s)

-----------------------------------------------------------------------------
(* Several registers, every second byte, constants and products.           *)

movem_16_re_pd(s, y) == StoreDown(s, Word, y)
movem_16_re(s, m, y) == StoreUp(s, Word, m, y)
movem_32_re_pd(s, y) == StoreDown(s, Long, y)
movem_32_re(s, m, y) == StoreUp(s, Long, m, y)
movem_16_er_pi(s, y) == LoadUp(s, Word, y)
movem_16_er_pc(s, m, y) == LoadFrom(s, Word, m, y)
movem_16_er(s, m, y) == LoadFrom(s, Word, m, y)
movem_32_er_pi(s, y) == LoadUp(s, Long, y)
movem_32_er_pc(s, m, y) == LoadFrom(s, Long, m, y)
movem_32_er(s, m, y) == LoadFrom(s, Long, m, y)
movep_16_re(s, x, y) == SpreadOut(s, Word, x, y)
movep_32_re(s, x, y) == SpreadOut(s, Long, x, y)
movep_16_er(s, x, y) == GatherIn(s, Word, x, y)
movep_32_er(s, x, y) == GatherIn(s, Long, x, y)
moveq_32(s, d, x) == Alter(s, Long, "d", x, Extend(Byte, d), Source, MarkNZVC)
muls_16(s, m, x, y) == Multiply(s, m, x, y, Signed)
mulu_16(s, m, x, y) == Multiply(s, m, x, y, Low)
=============================================================================
