--------------------------------- MODULE M68k ---------------------------------
(***************************************************************************)
(* The sound processor between the calls the SCSP makes of it: a slice of  *)
(* instructions (m68k_execute of musashi/m68kcpu.c, with every handler of  *)
(* m68kopac.c, m68kopdm.c and m68kopnz.c), a request (m68k_set_irq) and a  *)
(* reset (m68k_pulse_reset).  The program is unknown: any instruction may  *)
(* come next, and its extension words are whatever the memory holds.       *)
(***************************************************************************)
EXTENDS M68kOpAc, M68kOpDm, M68kOpNz

CONSTANTS Samples,      \* states to execute an instruction from
          Xs, Ys,       \* values of the two register fields of an opcode
          Displacements,\* displacements held in the opcode
          Traps,        \* operands of TRAP
          Slices,       \* lengths of slices, in instructions
          Levels,       \* levels that requests are made at
          Budgets,      \* bounds on the calls of each kind
          Lists         \* register lists of MOVEM to and from the stack

Call == {"execute", "set_irq", "reset"}

ASSUME ProgramAssumption ==
    /\ \A s \in Samples : s \in States /\ s.level <= s.mask /\ s.stopped = {}
    /\ Slices \subseteq Nat \ {0} /\ Levels \subseteq 0 .. 7
    /\ Budgets \subseteq [Call -> Nat]
    /\ Xs \subseteq Reg /\ Ys \subseteq Reg
    /\ Displacements \subseteq Values(Byte)
    /\ Traps \subseteq 0 .. 15
    /\ Lists \subseteq Values(Word)

VARIABLES cpu,          \* m68ki_cpu and the memory
          calls         \* the calls that may still be made

vars == <<cpu, calls>>

\* REG_PPC = REG_PC, then the opcode is read
Fetch(s) == [SetPc(s, s.pc + 2) EXCEPT !.ppc = s.pc, !.left = @ - 1]

-----------------------------------------------------------------------------
(* The handlers, by the operands their opcodes have.                        *)

\* opcodes without a handler, of line A or F, or of later processors
Refused(s) ==
    cpu' \in {op_1010(s), op_1111(s), bcc_32(s), bkpt(s), bra_32(s), bsr_32(s), chk_32(s),
              cmpi_8_pc(s), cmpi_16_pc(s), cmpi_32_pc(s), illegal(s)}
Simple(s) ==
    cpu' \in {andi_16_toc(s), bra_16(s), bsr_16(s), eori_16_toc(s), link_16_a7(s), nop(s),
              ori_16_toc(s), rtr_32(s), rts_32(s), trapv(s), unlk_32_a7(s)}
\* the processor refuses these in user mode
System(s) ==
    cpu' \in {andi_16_tos(s), eori_16_tos(s), ori_16_tos(s), reset(s), rte_32(s), stop(s)}
SystemRegisters(s) ==
    \E y \in Ys :
        cpu' \in {move_32_fru(s, y), move_32_tou(s, y)}
StatusFrom(s) ==
    \E m \in DataModes, y \in Ys :
        cpu' \in {move_16_toc(s, m, y), move_16_tos(s, m, y)}
StatusTo(s) ==
    \E m \in DataAlterable, y \in Ys :
        cpu' \in {move_16_frs(s, m, y)}
AnyToRegister(s) ==
    \E m \in AllModes, x \in Xs, y \in Ys :
        cpu' \in {add_16_er(s, m, x, y), add_32_er(s, m, x, y), adda_16(s, m, x, y),
                  adda_32(s, m, x, y), cmp_16(s, m, x, y), cmp_32(s, m, x, y),
                  cmpa_16(s, m, x, y), cmpa_32(s, m, x, y), movea_16(s, m, x, y),
                  movea_32(s, m, x, y), sub_16_er(s, m, x, y), sub_32_er(s, m, x, y),
                  suba_16(s, m, x, y), suba_32(s, m, x, y)}
MoveWide(s) ==
    \E m \in AllModes, x \in Xs, y \in Ys :
        cpu' \in {move_16_d(s, m, x, y), move_16_ai(s, m, x, y), move_16_pi(s, m, x, y),
                  move_16_pd(s, m, x, y), move_16_di(s, m, x, y), move_16_ix(s, m, x, y),
                  move_16_aw(s, m, x, y), move_16_al(s, m, x, y), move_32_d(s, m, x, y),
                  move_32_ai(s, m, x, y), move_32_pi(s, m, x, y), move_32_pd(s, m, x, y),
                  move_32_di(s, m, x, y), move_32_ix(s, m, x, y), move_32_aw(s, m, x, y),
                  move_32_al(s, m, x, y)}
MoveByte(s) ==
    \E m \in DataModes, x \in Xs, y \in Ys :
        cpu' \in {move_8_d(s, m, x, y), move_8_ai(s, m, x, y), move_8_pi(s, m, x, y),
                  move_8_pd(s, m, x, y), move_8_di(s, m, x, y), move_8_ix(s, m, x, y),
                  move_8_aw(s, m, x, y), move_8_al(s, m, x, y)}
MoveByteByStack(s) ==
    \E m \in DataModes, y \in Ys :
        cpu' \in {move_8_pi7(s, m, y), move_8_pd7(s, m, y)}
DataToRegister(s) ==
    \E m \in DataModes, x \in Xs, y \in Ys :
        cpu' \in {add_8_er(s, m, x, y), and_8_er(s, m, x, y), and_16_er(s, m, x, y),
                  and_32_er(s, m, x, y), chk_16(s, m, x, y), cmp_8(s, m, x, y),
                  divs_16(s, m, x, y), divu_16(s, m, x, y), muls_16(s, m, x, y),
                  mulu_16(s, m, x, y), or_8_er(s, m, x, y), or_16_er(s, m, x, y),
                  or_32_er(s, m, x, y), sub_8_er(s, m, x, y)}
RegisterToMemory(s) ==
    \E m \in Alterable, x \in Xs, y \in Ys :
        cpu' \in {add_8_re(s, m, x, y), add_16_re(s, m, x, y), add_32_re(s, m, x, y),
                  and_8_re(s, m, x, y), and_16_re(s, m, x, y), and_32_re(s, m, x, y),
                  bchg_8_r(s, m, x, y), bclr_8_r(s, m, x, y), bset_8_r(s, m, x, y),
                  or_8_re(s, m, x, y), or_16_re(s, m, x, y), or_32_re(s, m, x, y),
                  sub_8_re(s, m, x, y), sub_16_re(s, m, x, y), sub_32_re(s, m, x, y)}
RegisterToData(s) ==
    \E m \in DataAlterable, x \in Xs, y \in Ys :
        cpu' \in {addq_8(s, m, x, y), addq_16(s, m, x, y), addq_32(s, m, x, y),
                  eor_8(s, m, x, y), eor_16(s, m, x, y), eor_32(s, m, x, y),
                  subq_8(s, m, x, y), subq_16(s, m, x, y), subq_32(s, m, x, y)}
ImmediateToData(s) ==
    \E m \in DataAlterable, y \in Ys :
        cpu' \in {addi_8(s, m, y), addi_16(s, m, y), addi_32(s, m, y), andi_8(s, m, y),
                  andi_16(s, m, y), andi_32(s, m, y), cmpi_8(s, m, y), cmpi_16(s, m, y),
                  cmpi_32(s, m, y), eori_8(s, m, y), eori_16(s, m, y), eori_32(s, m, y),
                  ori_8(s, m, y), ori_16(s, m, y), ori_32(s, m, y), subi_8(s, m, y),
                  subi_16(s, m, y), subi_32(s, m, y)}
OneOperand(s) ==
    \E m \in DataAlterable, y \in Ys :
        cpu' \in {clr_8(s, m, y), clr_16(s, m, y), clr_32(s, m, y), nbcd_8(s, m, y),
                  neg_8(s, m, y), neg_16(s, m, y), neg_32(s, m, y), negx_8(s, m, y),
                  negx_16(s, m, y), negx_32(s, m, y), not_8(s, m, y), not_16(s, m, y),
                  not_32(s, m, y), tas_8(s, m, y), tst_8(s, m, y), tst_16(s, m, y),
                  tst_32(s, m, y)}
SetOnCondition(s) ==
    \E m \in DataAlterable, y \in Ys :
        cpu' \in {st_8(s, m, y), sf_8(s, m, y), shi_8(s, m, y), sls_8(s, m, y),
                  scc_8(s, m, y), scs_8(s, m, y), sne_8(s, m, y), seq_8(s, m, y),
                  svc_8(s, m, y), svs_8(s, m, y), spl_8(s, m, y), smi_8(s, m, y),
                  sge_8(s, m, y), slt_8(s, m, y), sgt_8(s, m, y), sle_8(s, m, y)}
TestBitOfRegister(s) ==
    \E m \in DataModes \ {"d"}, x \in Xs, y \in Ys :
        cpu' \in {btst_8_r(s, m, x, y)}
TestBitOfImmediate(s) ==
    \E m \in Memory, y \in Ys :
        cpu' \in {btst_8_s(s, m, y)}
ShiftMemory(s) ==
    \E m \in Alterable, y \in Ys :
        cpu' \in {asr_16(s, m, y), asl_16(s, m, y), bchg_8_s(s, m, y), bclr_8_s(s, m, y),
                  bset_8_s(s, m, y), lsr_16(s, m, y), lsl_16(s, m, y), ror_16(s, m, y),
                  rol_16(s, m, y), roxr_16(s, m, y), roxl_16(s, m, y)}
ShiftRegister(s) ==
    \E x \in Xs, y \in Ys :
        cpu' \in {asr_8_s(s, x, y), asr_16_s(s, x, y), asr_32_s(s, x, y), asl_8_s(s, x, y),
                  asl_16_s(s, x, y), asl_32_s(s, x, y), lsr_8_s(s, x, y), lsr_16_s(s, x, y),
                  lsr_32_s(s, x, y), lsl_8_s(s, x, y), lsl_16_s(s, x, y), lsl_32_s(s, x, y),
                  ror_8_s(s, x, y), ror_16_s(s, x, y), ror_32_s(s, x, y), rol_8_s(s, x, y),
                  rol_16_s(s, x, y), rol_32_s(s, x, y), roxr_8_s(s, x, y), roxr_16_s(s, x, y),
                  roxr_32_s(s, x, y), roxl_8_s(s, x, y), roxl_16_s(s, x, y),
                  roxl_32_s(s, x, y), asr_8_r(s, x, y), asr_16_r(s, x, y), asr_32_r(s, x, y),
                  asl_8_r(s, x, y), asl_16_r(s, x, y), asl_32_r(s, x, y), lsr_8_r(s, x, y),
                  lsr_16_r(s, x, y), lsr_32_r(s, x, y), lsl_8_r(s, x, y), lsl_16_r(s, x, y),
                  lsl_32_r(s, x, y), ror_8_r(s, x, y), ror_16_r(s, x, y), ror_32_r(s, x, y),
                  rol_8_r(s, x, y), rol_16_r(s, x, y), rol_32_r(s, x, y), roxr_8_r(s, x, y),
                  roxr_16_r(s, x, y), roxr_32_r(s, x, y), roxl_8_r(s, x, y),
                  roxl_16_r(s, x, y), roxl_32_r(s, x, y)}
TwoRegisters(s) ==
    \E x \in Xs, y \in Ys :
        cpu' \in {abcd_8_rr(s, x, y), abcd_8_mm(s, x, y), addx_8_rr(s, x, y),
                  addx_16_rr(s, x, y), addx_32_rr(s, x, y), addx_8_mm(s, x, y),
                  addx_16_mm(s, x, y), addx_32_mm(s, x, y), cmpm_8(s, x, y), cmpm_16(s, x, y),
                  cmpm_32(s, x, y), sbcd_8_rr(s, x, y), sbcd_8_mm(s, x, y),
                  subx_8_rr(s, x, y), subx_16_rr(s, x, y), subx_32_rr(s, x, y),
                  subx_8_mm(s, x, y), subx_16_mm(s, x, y), subx_32_mm(s, x, y),
                  addq_16_a(s, x, y), addq_32_a(s, x, y), bchg_32_r(s, x, y),
                  bclr_32_r(s, x, y), bset_32_r(s, x, y), btst_32_r(s, x, y),
                  exg_32_dd(s, x, y), exg_32_aa(s, x, y), exg_32_da(s, x, y),
                  movep_16_re(s, x, y), movep_32_re(s, x, y), movep_16_er(s, x, y),
                  movep_32_er(s, x, y), subq_16_a(s, x, y), subq_32_a(s, x, y)}
OneRegister(s) ==
    \E y \in Ys :
        cpu' \in {bchg_32_s(s, y), bclr_32_s(s, y), bset_32_s(s, y), btst_32_s(s, y),
                  ext_16(s, y), ext_32(s, y), swap_32(s, y), dbt_16(s, y), dbf_16(s, y),
                  dbhi_16(s, y), dbls_16(s, y), dbcc_16(s, y), dbcs_16(s, y), dbne_16(s, y),
                  dbeq_16(s, y), dbvc_16(s, y), dbvs_16(s, y), dbpl_16(s, y), dbmi_16(s, y),
                  dbge_16(s, y), dblt_16(s, y), dbgt_16(s, y), dble_16(s, y),
                  movem_16_re_pd(s, y), movem_32_re_pd(s, y), movem_16_er_pi(s, y),
                  movem_32_er_pi(s, y)}
Address(s) ==
    \E m \in Control, y \in Ys :
        cpu' \in {jmp_32(s, m, y), jsr_32(s, m, y), pea_32(s, m, y)}
LoadAddress(s) ==
    \E m \in Control, x \in Xs, y \in Ys :
        cpu' \in {lea_32(s, m, x, y)}
StackFrame(s) ==
    \E y \in Ys \ {7} :
        cpu' \in {link_16(s, y), unlk_32(s, y)}
MoveMultiple(s) ==
    \E m \in {"ai", "di", "ix", "aw", "al"}, y \in Ys :
        cpu' \in {movem_16_re(s, m, y), movem_32_re(s, m, y), movem_16_er(s, m, y),
                  movem_32_er(s, m, y)}
MoveMultiplePc(s) ==
    \E m \in {"pcdi", "pcix"}, y \in Ys :
        cpu' \in {movem_16_er_pc(s, m, y), movem_32_er_pc(s, m, y)}
InOpcode(s) ==
    \/ \E cond \in Conditions \ {"t", "f"} :
          cpu' \in {bcc_8(s, cond, d) : d \in Displacements} \cup {bcc_16(s, cond)}
    \/ \E d \in Displacements, x \in Xs : cpu' \in {bra_8(s, d), bsr_8(s, d), moveq_32(s, d, x)}
    \/ \E n \in Traps : cpu' = trap(s, n)

Instruction(s) ==
    \/ Refused(s) \/ Simple(s) \/ System(s) \/ SystemRegisters(s)
    \/ StatusFrom(s) \/ StatusTo(s) \/ AnyToRegister(s) \/ MoveWide(s)
    \/ MoveByte(s) \/ MoveByteByStack(s) \/ DataToRegister(s)
    \/ RegisterToMemory(s) \/ RegisterToData(s) \/ ImmediateToData(s)
    \/ OneOperand(s) \/ SetOnCondition(s) \/ TestBitOfRegister(s)
    \/ TestBitOfImmediate(s) \/ ShiftMemory(s) \/ ShiftRegister(s)
    \/ TwoRegisters(s) \/ OneRegister(s) \/ Address(s) \/ LoadAddress(s)
    \/ StackFrame(s) \/ MoveMultiple(s) \/ MoveMultiplePc(s) \/ InOpcode(s)

Init == cpu \in Samples /\ calls \in Budgets
Execute == cpu.left > 0 /\ Instruction(Fetch(cpu)) /\ UNCHANGED calls

\* the slice is used up, or the processor has stopped
Between == cpu.left = 0

Called(which) ==
    Between /\ calls[which] > 0 /\ calls' = [calls EXCEPT ![which] = @ - 1]

\* A stopped processor lets the slice pass.
m68k_execute ==
    /\ Called("execute")
    /\ \E n \in Slices : cpu' = [cpu EXCEPT !.left = IF cpu.stopped = {} THEN n ELSE 0]

\* A request replaces the one that waits.  Level 7 interrupts by its edge, the
\* others if they are above the mask.
Requested(s, l) ==
    LET t == [s EXCEPT !.level = l]
    IN  IF s.level # 7 /\ l = 7 THEN Interrupt(t, 7) ELSE CheckInterrupts(t)

\* musashi_SetIRQ keeps level 0 to itself.
m68k_set_irq ==
    Called("set_irq") /\ \E l \in Levels \ {0} : cpu' = Requested(cpu, l)

m68k_pulse_reset == Called("reset") /\ cpu' = PulseReset(cpu)

\* The SCSP calls no more.
AtRest == Between /\ UNCHANGED vars

Next == Execute \/ m68k_execute \/ m68k_set_irq \/ m68k_pulse_reset \/ AtRest
Spec == Init /\ [][Next]_vars

-----------------------------------------------------------------------------
(* Properties.                                                             *)

\* What an exception must give back: the registers, the program counter, the
\* status and the stack pointer of the other mode.
Context(s) == <<s.dar, s.sp[~s.s], s.pc, Sr(s)>>

\* Every register, flag and byte of memory stays within its width, whatever
\* the instruction.
TypeOk == cpu \in States

\* An instruction that lowers the mask takes a waiting request at once, and a
\* request above the mask is taken when it is made: none that could be taken is
\* left behind by any change of the status register, by a STOP or by a request
\* that takes another's place.
NoTakeableWaiting == cpu.level <= cpu.mask

\* RTE undoes the entry to an exception: after a trap and after an interrupt, one
\* that ends a STOP included, the processor goes on exactly where it was, and
\* after an opcode without a handler at that opcode, in the mode, with the mask
\* and on the stacks it had.
ExceptionReturns ==
    LET Back(t) == Context(rte_32(t)) IN
    /\ \A n \in Traps : Back(trap(cpu, n)) = Context(cpu)
    /\ Back(illegal(cpu)) = Context(SetPc(cpu, cpu.ppc))
    /\ \A l \in 1 .. 7 : Back(Interrupt(cpu, l)) = Context(cpu)

\* In user mode no instruction and no request reaches the interrupt mask or the
\* supervisor's stack pointer except by an exception, which leaves the user's
\* mode and mask on top of the supervisor's stack.  A reset forgets the user.
PrivilegeKept ==
    [][~cpu.s /\ calls'["reset"] = calls["reset"] =>
         IF cpu'.s
         THEN /\ cpu'.dar[SP] = Low(Long, cpu.sp[TRUE] - 6)
              /\ Read16(cpu', cpu'.dar[SP]) \div 32 = Sr(cpu) \div 32
         ELSE /\ cpu'.sp[TRUE] = cpu.sp[TRUE]
              /\ cpu'.mask = cpu.mask /\ cpu'.t = cpu.t]_cpu

\* Registers stored by MOVEM to -(A7) come back with MOVEM from (A7)+, which
\* counts its list from the other end: longs as they were, words extended.
Named(list) == {k \in 0 .. 15 : BitOf(list, k) = 1}
SavedRegistersComeBack ==
    LET From(s, list) == Write16(SetPc(s, 0), 0, list)
        Lost(s, L) == [s EXCEPT !.dar = [k \in 0 .. 15 |-> IF k \in L THEN 0 ELSE @[k]]]
        s0 == Set(cpu, SP, MemSize)
    IN  \A down, up \in Lists :
          LET L == Named(up) IN
          SP \notin L /\ Named(down) = {15 - k : k \in L} =>
            /\ movem_32_er_pi(From(Lost(movem_32_re_pd(From(s0, down), 7), L), up), 7).dar
                 = s0.dar
            /\ movem_16_er_pi(From(Lost(movem_16_re_pd(From(s0, down), 7), L), up), 7).dar
                 = [k \in 0 .. 15 |-> IF k \in L THEN Extend(Word, s0.dar[k])
                                      ELSE s0.dar[k]]

\* A subroutine returns behind the call, past all its extension words, with the
\* stack as it was; UNLK undoes LINK for every frame register.
CallsReturn ==
    /\ \A m \in Control, y \in Ys :
          LET r == rts_32(jsr_32(cpu, m, y))
          IN  r.pc = Ea(cpu, Long, m, y).s.pc /\ r.dar = cpu.dar
    /\ LET r == rts_32(bsr_16(cpu)) IN r.pc = SkipWord(cpu).pc /\ r.dar = cpu.dar
    /\ \A y \in Reg \ {7} : unlk_32(link_16(cpu, y), y).dar = cpu.dar
=============================================================================
