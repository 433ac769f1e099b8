------------------------------- MODULE M68kOpNz -------------------------------
(***************************************************************************)
(* The handlers of m68kopnz.c, written as in M68kOpAc.                      *)
(***************************************************************************)
EXTENDS M68kForms

-----------------------------------------------------------------------------
(* Negation, complement, disjunction.                                      *)

nbcd_8(s, m, y) ==
    Then(Place(s, Byte, m, y), LAMBDA p, t :
         Undone(t, p, BcdNegation(Contents(t, Byte, p), Flag(s.x))))
neg_8(s, m, y) == Alter(s, Byte, m, y, 0, Negated, MarkXNZVC)
neg_16(s, m, y) == Alter(s, Word, m, y, 0, Negated, MarkXNZVC)
neg_32(s, m, y) == Alter(s, Long, m, y, 0, Negated, MarkXNZVC)
negx_8(s, m, y) == Alter(s, Byte, m, y, 0, Negx, MarkChain)
negx_16(s, m, y) == Alter(s, Word, m, y, 0, Negx, MarkChain)
negx_32(s, m, y) == Alter(s, Long, m, y, 0, Negx, MarkChain)
nop(s) == s
not_8(s, m, y) == Alter(s, Byte, m, y, 0, Inverted, MarkNZVC)
not_16(s, m, y) == Alter(s, Word, m, y, 0, Inverted, MarkNZVC)
not_32(s, m, y) == Alter(s, Long, m, y, 0, Inverted, MarkNZVC)
or_8_er(s, m, x, y) == Er(s, Byte, m, x, y, Ored, MarkNZVC)
or_16_er(s, m, x, y) == Er(s, Word, m, x, y, Ored, MarkNZVC)
or_32_er(s, m, x, y) == Er(s, Long, m, x, y, Ored, MarkNZVC)
or_8_re(s, m, x, y) == Re(s, Byte, m, x, y, Ored, MarkNZVC)
or_16_re(s, m, x, y) == Re(s, Word, m, x, y, Ored, MarkNZVC)
or_32_re(s, m, x, y) == Re(s, Long, m, x, y, Ored, MarkNZVC)
ori_8(s, m, y) == Im(s, Byte, m, y, Ored, MarkNZVC)
ori_16(s, m, y) == Im(s, Word, m, y, Ored, MarkNZVC)
ori_32(s, m, y) == Im(s, Long, m, y, Ored, MarkNZVC)
ori_16_toc(s) == ToCcr(s, Or)
ori_16_tos(s) == ToSr(s, Or)
pea_32(s, m, y) == Then(Ea(s, Long, m, y), LAMBDA a, t : Push32(t, a))
reset(s) == IF s.s THEN PulseReset(s) ELSE PrivilegeViolation(s)

-----------------------------------------------------------------------------
(* Rotations and returns.                                                   *)

ror_8_s(s, x, y) == Alter(s, Byte, "d", y, Count(x), Ror, MarkNZVC)
ror_16_s(s, x, y) == Alter(s, Word, "d", y, Count(x), Ror, MarkNZVC)
ror_32_s(s, x, y) == Alter(s, Long, "d", y, Count(x), Ror, MarkNZVC)
ror_8_r(s, x, y) == ByRegister(s, Byte, x, y, Ror, MarkNZVC)
ror_16_r(s, x, y) == ByRegister(s, Word, x, y, Ror, MarkNZVC)
ror_32_r(s, x, y) == ByRegister(s, Long, x, y, Ror, MarkNZVC)
ror_16(s, m, y) == Alter(s, Word, m, y, 1, Ror, MarkNZVC)
rol_8_s(s, x, y) == Alter(s, Byte, "d", y, Count(x), Rol, MarkNZVC)
rol_16_s(s, x, y) == Alter(s, Word, "d", y, Count(x), Rol, MarkNZVC)
rol_32_s(s, x, y) == Alter(s, Long, "d", y, Count(x), Rol, MarkNZVC)
rol_8_r(s, x, y) == ByRegister(s, Byte, x, y, Rol, MarkNZVC)
rol_16_r(s, x, y) == ByRegister(s, Word, x, y, Rol, MarkNZVC)
rol_32_r(s, x, y) == ByRegister(s, Long, x, y, Rol, MarkNZVC)
rol_16(s, m, y) == Alter(s, Word, m, y, 1, Rol, MarkNZVC)
roxr_8_s(s, x, y) == Alter(s, Byte, "d", y, Count(x), Roxr, MarkXNZVC)
roxr_16_s(s, x, y) == Alter(s, Word, "d", y, Count(x), Roxr, MarkXNZVC)
roxr_32_s(s, x, y) == Alter(s, Long, "d", y, Count(x), Roxr, MarkXNZVC)
roxr_8_r(s, x, y) == ExtendedByRegister(s, Byte, x, y, Roxr, MarkXNZVC)
roxr_16_r(s, x, y) == ExtendedByRegister(s, Word, x, y, Roxr, MarkXNZVC)
roxr_32_r(s, x, y) == ExtendedByRegister(s, Long, x, y, Roxr, MarkXNZVC)
roxr_16(s, m, y) == Alter(s, Word, m, y, 1, Roxr, MarkXNZVC)
roxl_8_s(s, x, y) == Alter(s, Byte, "d", y, Count(x), Roxl, MarkXNZVC)
roxl_16_s(s, x, y) == Alter(s, Word, "d", y, Count(x), Roxl, MarkXNZVC)
roxl_32_s(s, x, y) == Alter(s, Long, "d", y, Count(x), Roxl, MarkXNZVC)
roxl_8_r(s, x, y) == ExtendedByRegister(s, Byte, x, y, Roxl, MarkXNZVC)
roxl_16_r(s, x, y) == ExtendedByRegister(s, Word, x, y, Roxl, MarkXNZVC)
roxl_32_r(s, x, y) == ExtendedByRegister(s, Long, x, y, Roxl, MarkXNZVC)
roxl_16(s, m, y) == Alter(s, Word, m, y, 1, Roxl, MarkXNZVC)
rte_32(s) ==
    IF s.s THEN Then(Pull16(s), LAMBDA sr, t : SetSr(Return(t), sr))
           ELSE PrivilegeViolation(s)
rtr_32(s) == Then(Pull16(s), LAMBDA ccr, t : Return(SetCcr(t, ccr)))
rts_32(s) == Return(s)
sbcd_8_rr(s, x, y) == Alter(s, Byte, "d", x, s.dar[y], Sbcd, MarkChain)
sbcd_8_mm(s, x, y) == Mm(s, Byte, x, y, Sbcd, MarkChain)

-----------------------------------------------------------------------------
(* Set by condition, stop, subtraction and the rest.                        *)

st_8(s, m, y) == SetIf(s, "t", m, y)
sf_8(s, m, y) == SetIf(s, "f", m, y)
shi_8(s, m, y) == SetIf(s, "hi", m, y)
sls_8(s, m, y) == SetIf(s, "ls", m, y)
scc_8(s, m, y) == SetIf(s, "cc", m, y)
scs_8(s, m, y) == SetIf(s, "cs", m, y)
sne_8(s, m, y) == SetIf(s, "ne", m, y)
seq_8(s, m, y) == SetIf(s, "eq", m, y)
svc_8(s, m, y) == SetIf(s, "vc", m, y)
svs_8(s, m, y) == SetIf(s, "vs", m, y)
spl_8(s, m, y) == SetIf(s, "pl", m, y)
smi_8(s, m, y) == SetIf(s, "mi", m, y)
sge_8(s, m, y) == SetIf(s, "ge", m, y)
slt_8(s, m, y) == SetIf(s, "lt", m, y)
sgt_8(s, m, y) == SetIf(s, "gt", m, y)
sle_8(s, m, y) == SetIf(s, "le", m, y)
stop(s) ==
    IF s.s THEN Then(Imm16(s), LAMBDA v, t :
         [SetSr([t EXCEPT !.stopped = @ \cup {"STOP"}], v) EXCEPT !.left = 0])
           ELSE PrivilegeViolation(s)
sub_8_er(s, m, x, y) == Er(s, Byte, m, x, y, Subtracted, MarkXNZVC)
sub_16_er(s, m, x, y) == Er(s, Word, m, x, y, Subtracted, MarkXNZVC)
sub_32_er(s, m, x, y) == Er(s, Long, m, x, y, Subtracted, MarkXNZVC)
sub_8_re(s, m, x, y) == Re(s, Byte, m, x, y, Subtracted, MarkXNZVC)
sub_16_re(s, m, x, y) == Re(s, Word, m, x, y, Subtracted, MarkXNZVC)
sub_32_re(s, m, x, y) == Re(s, Long, m, x, y, Subtracted, MarkXNZVC)
suba_16(s, m, x, y) == AddTo(s, Word, m, x, y, -1)
suba_32(s, m, x, y) == AddTo(s, Long, m, x, y, -1)
subi_8(s, m, y) == Im(s, Byte, m, y, Subtracted, MarkXNZVC)
subi_16(s, m, y) == Im(s, Word, m, y, Subtracted, MarkXNZVC)
subi_32(s, m, y) == Im(s, Long, m, y, Subtracted, MarkXNZVC)
subq_8(s, m, x, y) == Alter(s, Byte, m, y, Quick(x), Subtracted, MarkXNZVC)
subq_16(s, m, x, y) == Alter(s, Word, m, y, Quick(x), Subtracted, MarkXNZVC)
subq_32(s, m, x, y) == Alter(s, Long, m, y, Quick(x), Subtracted, MarkXNZVC)
subq_16_a(s, x, y) == Set(s, A(y), s.dar[A(y)] - Quick(x))
subq_32_a(s, x, y) == Set(s, A(y), s.dar[A(y)] - Quick(x))
subx_8_rr(s, x, y) == Alter(s, Byte, "d", x, Low(Byte, s.dar[y]), Subx, MarkChain)
subx_16_rr(s, x, y) == Alter(s, Word, "d", x, Low(Word, s.dar[y]), Subx, MarkChain)
subx_32_rr(s, x, y) == Alter(s, Long, "d", x, Low(Long, s.dar[y]), Subx, MarkChain)
subx_8_mm(s, x, y) == Mm(s, Byte, x, y, Subx, MarkChain)
subx_16_mm(s, x, y) == Mm(s, Word, x, y, Subx, MarkChain)
subx_32_mm(s, x, y) == Mm(s, Long, x, y, Subx, MarkChain)
swap_32(s, y) == Alter(s, Long, "d", y, 0, Swapped, MarkNZVC)
tas_8(s, m, y) == Alter(s, Byte, m, y, 0, TestAndSet, MarkNZVC)
trap(s, n) == Trap(s, TrapBase + n)
trapv(s) == IF s.v THEN Trap(s, Trapv) ELSE s
tst_8(s, m, y) == Look(s, Byte, m, y, 0, Kept, MarkNZVC)
tst_16(s, m, y) == Look(s, Word, m, y, 0, Kept, MarkNZVC)
tst_32(s, m, y) == Look(s, Long, m, y, 0, Kept, MarkNZVC)
unlk_32_a7(s) == Set(s, SP, Read32(s, s.dar[SP]))
unlk_32(s, y) == Then(Pull32(Set(s, SP, s.dar[A(y)])), LAMBDA v, t : Set(t, A(y), v))
=============================================================================
