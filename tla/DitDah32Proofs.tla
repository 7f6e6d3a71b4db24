--------------------------- MODULE DitDah32Proofs ---------------------------
(***************************************************************************)
(* Proofs about the core of DitDah32, for every program, address-space     *)
(* size, number of registers, encoding, set of pins and slave depth.       *)
(***************************************************************************)
EXTENDS DitDah32, TLAPS, SequenceTheorems

(***************************************************************************)
(* What the EX-stage functions of DitDah32Exec return.                     *)
(***************************************************************************)
\* Address arithmetic wraps and stays in the address space.
LEMMA PlusType ==
  ASSUME NEW a \in Nat, NEW b \in Nat
  PROVE  Plus(a, b) \in Word
BY AddrSpaceAssumption DEF Plus, Word

\* An address is a number, and zero is one.
LEMMA WordNat == Word \subseteq Nat /\ 0 \in Word
BY AddrSpaceAssumption DEF Word

\* The word holding an address is aligned and inside the address space.
LEMMA WordAddrType ==
  ASSUME NEW a \in Word
  PROVE  WordAddr(a) \in Word /\ WordAddr(a) % 2 = 0
BY AddrSpaceAssumption DEF WordAddr, Word

\* An even address is its own word.
LEMMA EvenWord ==
  ASSUME NEW a \in Word, a % 2 # 1
  PROVE  WordAddr(a) = a
BY AddrSpaceAssumption DEF WordAddr, Word

\* The second parcel of the word holding an odd address is that address.
LEMMA HighParcel ==
  ASSUME NEW a \in Word, a % 2 = 1
  PROVE  Plus(WordAddr(a), 1) = a
<1>1. WordAddr(a) + 1 = a
  BY AddrSpaceAssumption DEF WordAddr, Word
<1>2. a % AddrSpace = a
  BY AddrSpaceAssumption DEF Word
<1> QED BY <1>1, <1>2 DEF Plus

\* The word after the one holding an odd address is aligned.
LEMMA NextWordAligned ==
  ASSUME NEW a \in Word, a % 2 = 1
  PROVE  Plus(a, 1) \in Word /\ Plus(a, 1) % 2 = 0
<1>1. CASE a + 1 < AddrSpace
  <2>1. (a + 1) % AddrSpace = a + 1
    BY <1>1, AddrSpaceAssumption DEF Word
  <2> QED BY <2>1, <1>1, AddrSpaceAssumption DEF Plus, Word
<1>2. CASE a + 1 = AddrSpace
  <2>1. (a + 1) % AddrSpace = 0
    BY <1>2, AddrSpaceAssumption DEF Word
  <2> QED BY <2>1, AddrSpaceAssumption DEF Plus, Word
<1> QED BY <1>1, <1>2, AddrSpaceAssumption DEF Word

\* Decoding is total on what the fetch stage hands over.
LEMMA DecodedType ==
  ASSUME NEW n \in Insn, n.len = 1 => n.lo \in Compressed
  PROVE  DecodedInstr(n) \in Instr
BY DecodeAssumption, ParcelAssumption DEF DecodedInstr, Insn

\* Register reads and writes keep to the register file.
LEMMA RegisterType ==
  ASSUME NEW g \in [Reg -> Word], NEW r \in RegField, NEW v \in Word
  PROVE  /\ ReadReg(g, r) \in Word
         /\ WriteReg(g, r, v) \in [Reg -> Word]
BY AddrSpaceAssumption DEF ReadReg, WriteReg, Word

\* The address of a load or store is in the address space.
LEMMA MemAddrType ==
  ASSUME NEW g \in [Reg -> Word], NEW i \in Instr
  PROVE  MemAddr(i, g) \in Word
<1>1. i.rs1 \in RegField /\ i.imm \in Word
  BY DEF Instr, InstrFields
<1>2. ReadReg(g, i.rs1) \in Word
  BY <1>1, AddrSpaceAssumption DEF ReadReg, Word
<1> QED BY <1>1, <1>2, PlusType, WordNat DEF MemAddr

\* The value a trap reports is an address or two parcels.
LEMMA TrapValueType ==
  ASSUME NEW g \in [Reg -> Word], NEW i \in Instr, NEW n \in Insn
  PROVE  TrapValue(i, n, g) \in Value
<1>1. MemAddr(i, g) \in Word /\ 0 \in Word
  BY MemAddrType, WordNat
<1>2. n.lo \in Halfword /\ n.hi \in Halfword
  BY DEF Insn
<1> QED BY <1>1, <1>2 DEF TrapValue, Value, AddrTval, InsnTval

\* The cause a trap reports is a number.
LEMMA TrapCauseType ==
  ASSUME NEW g, NEW i
  PROVE  TrapCause(i, g) \in Nat
<1>1. /\ Breakpoint \in Nat /\ EcallM \in Nat /\ IllegalInstruction \in Nat
      /\ LoadMisaligned \in Nat /\ StoreMisaligned \in Nat
  BY DEF Breakpoint, EcallM, LoadMisaligned, StoreMisaligned, IllegalInstruction
<1> QED BY <1>1, Zenon DEF TrapCause

\* The next pc is an address, whatever the instruction.
LEMMA ExecNextPcType ==
  ASSUME NEW g \in [Reg -> Word], NEW i \in Instr, NEW len \in {1, 2},
         NEW p \in Word, NEW mepc \in Word
  PROVE  ExecNextPc(i, len, p, g, mepc) \in Word
<1>1. i.rs1 \in RegField /\ i.imm \in Word
  BY DEF Instr, InstrFields
<1>2. ReadReg(g, i.rs1) \in Word
  BY <1>1, AddrSpaceAssumption DEF ReadReg, Word
<1>3. len \in Nat
  OBVIOUS
<1>4. /\ Plus(p, i.imm) \in Word /\ Plus(p, len) \in Word
      /\ Plus(ReadReg(g, i.rs1), i.imm) \in Word
  BY <1>1, <1>2, <1>3, PlusType, WordNat
<1> QED BY <1>4, Zenon DEF ExecNextPc

\* An instruction that retires at once leaves a register file of words.
LEMMA ExecGprType ==
  ASSUME NEW g \in [Reg -> Word], NEW i \in Instr, NEW len \in {1, 2}, NEW p \in Word
  PROVE  ExecGpr(i, len, p, g) \in [Reg -> Word]
<1>1. i.rd \in RegField /\ i.rs1 \in RegField /\ i.rs2 \in RegField /\ i.imm \in Word
  BY DEF Instr, InstrFields
<1>2. ReadReg(g, i.rs1) \in Word /\ ReadReg(g, i.rs2) \in Word
  BY <1>1, AddrSpaceAssumption DEF ReadReg, Word
<1>3. len \in Nat
  OBVIOUS
<1>4. /\ Plus(p, i.imm) \in Word /\ Plus(p, len) \in Word
      /\ Plus(ReadReg(g, i.rs1), i.imm) \in Word
      /\ Plus(ReadReg(g, i.rs1), ReadReg(g, i.rs2)) \in Word
  BY <1>1, <1>2, <1>3, PlusType, WordNat
<1>5. ExecWdata(i, len, p, g) \in Word
  BY <1>1, <1>4, WordNat, Zenon DEF ExecWdata
<1> QED BY <1>1, <1>5, RegisterType DEF ExecGpr

\* Trap and interrupt entry keep the CSRs legal.
LEMMA TrapEntryType ==
  ASSUME NEW c \in CsrState, NEW epc \in Word, NEW cause \in Nat, NEW tval \in Value
  PROVE  TrapEntry(c, epc, cause, tval) \in CsrState
<1>1. TrapMstatus(c.mstatus) \in SUBSET MstatusBit
  BY DEF TrapMstatus, MstatusBit
<1> QED BY <1>1 DEF TrapEntry, CsrState

LEMMA AddrTvalType ==
  ASSUME NEW a \in Word
  PROVE  AddrTval(a) \in Value
BY DEF AddrTval, Value

\* The same, with the cause of the pin that won.
LEMMA InterruptEntryType ==
  ASSUME NEW c \in CsrState, NEW epc \in Word, NEW lines
  PROVE  InterruptEntry(c, epc, lines) \in CsrState
<1>1. IrqCause(IrqEnabled(c, lines)) \in Nat
  BY DEF IrqCause, InterruptBit
<1>2. AddrTval(0) \in Value
  BY AddrTvalType, WordNat
<1> QED BY <1>1, <1>2, TrapEntryType DEF InterruptEntry

\* A CSR write or MRET keeps the CSRs legal.
LEMMA PostCommitCsrType ==
  ASSUME NEW c \in CsrState, NEW i \in Instr
  PROVE  PostCommitCsr(c, i) \in CsrState
<1>1. i.imm \in Word /\ i.bits \in SUBSET (MstatusBit \cup IrqSource)
      /\ i.csrop \in {"rw", "rs", "rc"}
  BY DEF Instr, InstrFields
<1>2. WritableMstatus(CsrOperate(i, c.mstatus)) \in SUBSET MstatusBit
  BY DEF WritableMstatus, MstatusBit
<1>3. MretMstatus(c.mstatus) \in SUBSET MstatusBit
  BY DEF MretMstatus, MstatusBit
<1>4. CsrOperate(i, c.mie) \cap IrqSource \in SUBSET IrqSource
  OBVIOUS
<1>5. WordAddr(i.imm) \in Word /\ AddrTval(i.imm) \in Value /\ i.imm \in Nat
  BY <1>1, WordAddrType, AddrTvalType DEF Word
<1>6. /\ [c EXCEPT !.mstatus = WritableMstatus(CsrOperate(i, c.mstatus))] \in CsrState
      /\ [c EXCEPT !.mie = CsrOperate(i, c.mie) \cap IrqSource] \in CsrState
      /\ [c EXCEPT !.mstatus = MretMstatus(c.mstatus)] \in CsrState
  BY <1>2, <1>3, <1>4 DEF CsrState
<1>7. /\ [c EXCEPT !.mtvec = WordAddr(i.imm)] \in CsrState
      /\ [c EXCEPT !.mscratch = i.imm] \in CsrState
      /\ [c EXCEPT !.mepc = i.imm] \in CsrState
      /\ [c EXCEPT !.mcause = i.imm] \in CsrState
      /\ [c EXCEPT !.mtval = AddrTval(i.imm)] \in CsrState
  BY <1>1, <1>5 DEF CsrState
<1>8. WriteCsr(c, i) \in CsrState
  BY <1>6, <1>7, Zenon DEF WriteCsr
<1> QED BY <1>6, <1>8, Zenon DEF PostCommitCsr

\* Trap entry turns interrupts off.
LEMMA TrapEntryMasks ==
  ASSUME NEW c, NEW epc, NEW cause, NEW tval
  PROVE  /\ "MIE" \notin TrapEntry(c, epc, cause, tval).mstatus
         /\ TrapEntry(c, epc, cause, tval).mtvec = c.mtvec
BY DEF TrapEntry, TrapMstatus

\* An instruction that turns interrupts on is MRET or writes mstatus.
LEMMA CommitUnmasks ==
  ASSUME NEW c \in CsrState, NEW i \in Instr,
         "MIE" \notin c.mstatus, "MIE" \in PostCommitCsr(c, i).mstatus
  PROVE  i.op = "mret" \/ (i.op = "csr" /\ i.csr = "mstatus")
<1>1. ASSUME NEW v
      PROVE  /\ [c EXCEPT !.mie = v].mstatus = c.mstatus
             /\ [c EXCEPT !.mtvec = v].mstatus = c.mstatus
             /\ [c EXCEPT !.mscratch = v].mstatus = c.mstatus
             /\ [c EXCEPT !.mepc = v].mstatus = c.mstatus
             /\ [c EXCEPT !.mcause = v].mstatus = c.mstatus
             /\ [c EXCEPT !.mtval = v].mstatus = c.mstatus
  BY DEF CsrState
<1>2. i.csr # "mstatus" => WriteCsr(c, i).mstatus = c.mstatus
  BY <1>1, Zenon DEF WriteCsr
<1> QED BY <1>2, Zenon DEF PostCommitCsr, CsrWriteEnable

(***************************************************************************)
(* The bus                                                                 *)
(***************************************************************************)

\* A queue that was empty and takes one request holds that request alone.
LEMMA OneRequest ==
  ASSUME NEW x
  PROVE  /\ Append(<<>>, x) = <<x>>
         /\ <<x>> # <<>> /\ Head(<<x>>) = x /\ Tail(<<x>>) = <<>> /\ Len(<<x>>) = 1
OBVIOUS

\* In every cycle the slave's read queue, with what it accepts, holds the one
\* request the core is waiting for, or nothing.
LEMMA ReadQueue ==
  ASSUME ResponsesExpected, NEW arFire \in BOOLEAN, arFire => ArValid
  PROVE  ReadsWith(arFire) = IF fetchOutstanding \/ memOutstanding \/ arFire
                             THEN <<ArBits>> ELSE <<>>
<1>1. CASE arFire
  <2>1. reads = <<>>
    BY <1>1 DEF ResponsesExpected, ArValid, FetchArValid, LoadArValid, Fetching
  <2> QED BY <1>1, <2>1, OneRequest DEF ReadsWith
<1>2. CASE ~arFire
  BY <1>2 DEF ReadsWith, ResponsesExpected
<1> QED BY <1>1, <1>2

\* The same for the write address and write data queues.
LEMMA WriteQueues ==
  ASSUME ResponsesExpected, NEW awFire \in BOOLEAN, awFire => AwValid,
         NEW wFire \in BOOLEAN, wFire => WValid, state = "STORE"
  PROVE  /\ AwritesWith(awFire) = IF storeAwDone \/ awFire THEN <<AwBits>> ELSE <<>>
         /\ WwritesWith(wFire) = IF storeWDone \/ wFire THEN <<mem.data>> ELSE <<>>
<1>1. awFire => awrites = <<>>
  BY DEF ResponsesExpected, AwValid
<1>2. wFire => wwrites = <<>>
  BY DEF ResponsesExpected, WValid
<1> QED BY <1>1, <1>2, OneRequest DEF AwritesWith, WwritesWith, ResponsesExpected

\* Addresses on the bus are aligned words of the address space.
LEMMA ArBitsType ==
  ASSUME TypeOK, StraddleHoldsFirstHalf
  PROVE  ArBits \in ReadRequest /\ AwBits \in DataAddr
<1>1. FetchAddr \in Word /\ FetchAddr % 2 = 0
  BY WordAddrType, NextWordAligned DEF FetchAddr, TypeOK, StraddleHoldsFirstHalf, PcInHighHalf
<1>2. WordAddr(mem.addr) \in Word /\ WordAddr(mem.addr) % 2 = 0
  BY WordAddrType DEF TypeOK, MemRegs
<1> QED BY <1>1, <1>2 DEF ArBits, AwBits, ReadRequest, DataAddr

(***************************************************************************)
(* The architecture uses the functions of DitDah32Exec.  In an instance    *)
(* they have names of their own; these lemmas identify them.               *)
(***************************************************************************)

\* Address arithmetic, registers and trap records.
LEMMA ArchBasics ==
  ASSUME NEW a, NEW b, NEW c, NEW d, NEW e
  PROVE  /\ Arch!Word = Word /\ Arch!Reg = Reg /\ Arch!ResetCsr = ResetCsr
         /\ Arch!Plus(a, b) = Plus(a, b)
         /\ Arch!ReadReg(a, b) = ReadReg(a, b)
         /\ Arch!WriteReg(a, b, c) = WriteReg(a, b, c)
         /\ Arch!AddrTval(a) = AddrTval(a) /\ Arch!InsnTval(a, b) = InsnTval(a, b)
         /\ Arch!TrapEntry(a, b, c, d) = TrapEntry(a, b, c, d)
BY Zenon DEF Arch!Word, Word, Arch!Reg, Reg, Arch!Plus, Plus, Arch!ReadReg, ReadReg,
  Arch!WriteReg, WriteReg, Arch!AddrTval, AddrTval, Arch!InsnTval, InsnTval,
  Arch!TrapEntry, TrapEntry, Arch!TrapMstatus, TrapMstatus, Arch!ResetCsr, ResetCsr

\* Interrupts.
LEMMA ArchInterrupts ==
  ASSUME NEW c, NEW a, NEW pins
  PROVE  /\ Arch!IrqEnabled(c, pins) = IrqEnabled(c, pins)
         /\ Arch!IrqTrapPending(c, pins) <=> IrqTrapPending(c, pins)
         /\ Arch!InterruptEntry(c, a, pins) = InterruptEntry(c, a, pins)
<1>1. /\ Arch!IrqEnabled(c, pins) = IrqEnabled(c, pins)
      /\ Arch!IrqTrapPending(c, pins) <=> IrqTrapPending(c, pins)
  BY Zenon DEF Arch!IrqEnabled, IrqEnabled, Arch!IrqTrapPending, IrqTrapPending
<1>2. Arch!IrqCause(IrqEnabled(c, pins)) = IrqCause(IrqEnabled(c, pins))
  BY Zenon DEF Arch!IrqCause, IrqCause, Arch!InterruptBit, InterruptBit
<1> QED BY <1>1, <1>2, ArchBasics, Zenon DEF Arch!InterruptEntry, InterruptEntry

\* Decoding and trap detection.
LEMMA ArchTraps ==
  ASSUME NEW i, NEW n, NEW g
  PROVE  /\ Arch!DecodedInstr(n) = DecodedInstr(n)
         /\ Arch!MemOp(i) <=> MemOp(i)
         /\ Arch!MemAddr(i, g) = MemAddr(i, g)
         /\ Arch!ExecTrap(i, g) <=> ExecTrap(i, g)
         /\ Arch!TrapCause(i, g) = TrapCause(i, g)
         /\ Arch!TrapValue(i, n, g) = TrapValue(i, n, g)
<1>1. Arch!DecodedInstr(n) = DecodedInstr(n) /\ (Arch!MemOp(i) <=> MemOp(i))
  BY Zenon DEF Arch!DecodedInstr, DecodedInstr, Arch!MemOp, MemOp
<1>2. Arch!MemAddr(i, g) = MemAddr(i, g)
  BY ArchBasics, Zenon DEF Arch!MemAddr, MemAddr
<1>3. Arch!Misaligned(i, g) <=> Misaligned(i, g)
  BY <1>1, <1>2, Zenon DEF Arch!Misaligned, Misaligned
<1>4. Arch!CsrIllegal(i) <=> CsrIllegal(i)
  BY Zenon DEF Arch!CsrIllegal, CsrIllegal, Arch!CsrWriteEnable, CsrWriteEnable,
    Arch!CsrReadOnly, CsrReadOnly
<1>5. Arch!RegAccessIllegal(i) <=> RegAccessIllegal(i)
  BY Zenon DEF Arch!RegAccessIllegal, RegAccessIllegal, Arch!ExecUsesRd, ExecUsesRd,
    Arch!ExecUsesRs1, ExecUsesRs1, Arch!ExecUsesRs2, ExecUsesRs2, Arch!Reg, Reg
<1>6. Arch!ExecTrap(i, g) <=> ExecTrap(i, g)
  BY <1>3, <1>4, <1>5, Zenon DEF Arch!ExecTrap, ExecTrap
<1>7. Arch!TrapValue(i, n, g) = TrapValue(i, n, g)
  BY <1>2, <1>3, <1>4, ArchBasics DEF Arch!TrapValue, TrapValue
<1>8. Arch!TrapCause(i, g) = TrapCause(i, g)
  BY Zenon DEF Arch!TrapCause, TrapCause, Arch!Misaligned, Misaligned, Arch!MemOp, MemOp,
    Arch!MemAddr, MemAddr, Arch!Plus, Plus, Arch!ReadReg, ReadReg, Arch!Reg, Reg,
    Arch!Breakpoint, Breakpoint, Arch!EcallM, EcallM, Arch!IllegalInstruction,
    IllegalInstruction, Arch!LoadMisaligned, LoadMisaligned,
    Arch!StoreMisaligned, StoreMisaligned
<1> QED BY <1>1, <1>2, <1>6, <1>7, <1>8

\* Results.
LEMMA ArchResults ==
  ASSUME NEW i, NEW len, NEW a, NEW g, NEW c
  PROVE  /\ Arch!ExecGpr(i, len, a, g) = ExecGpr(i, len, a, g)
         /\ Arch!ExecNextPc(i, len, a, g, c) = ExecNextPc(i, len, a, g, c)
         /\ Arch!PostCommitCsr(c, i) = PostCommitCsr(c, i)
<1>1. Arch!ExecNextPc(i, len, a, g, c) = ExecNextPc(i, len, a, g, c)
  BY Zenon DEF Arch!ExecNextPc, ExecNextPc, Arch!Plus, Plus, Arch!ReadReg, ReadReg,
    Arch!Reg, Reg
<1>2. Arch!ExecGpr(i, len, a, g) = ExecGpr(i, len, a, g)
  BY Zenon DEF Arch!ExecGpr, ExecGpr, Arch!ExecUsesRd, ExecUsesRd, Arch!WriteReg,
    WriteReg, Arch!ExecWdata, ExecWdata, Arch!Plus, Plus, Arch!ReadReg, ReadReg,
    Arch!Reg, Reg
<1>3. Arch!PostCommitCsr(c, i) = PostCommitCsr(c, i)
  BY Zenon DEF Arch!PostCommitCsr, PostCommitCsr, Arch!CsrWriteEnable, CsrWriteEnable,
    Arch!WriteCsr, WriteCsr, Arch!WritableMstatus, WritableMstatus,
    Arch!MretMstatus, MretMstatus, Arch!CsrOperate, CsrOperate,
    Arch!WordAddr, WordAddr, Arch!AddrTval, AddrTval, Arch!IrqSource, IrqSource
<1> QED BY <1>1, <1>2, <1>3

(***************************************************************************)
(* The instruction stream                                                  *)
(***************************************************************************)

\* The inductive invariant: types, and what the registers that survive a cycle
\* mean for the bus and for the program.
IInv ==
  /\ TypeOK
  /\ StraddleHoldsFirstHalf
  /\ RequestsStable
  /\ ResponsesExpected
  /\ MemoryPhaseMatchesProgram

\* A fetch response is for the address the fetch state shows.
LEMMA FetchedWord ==
  ASSUME IInv, NEW arFire \in BOOLEAN, FetchResponse(arFire)
  PROVE  /\ ReadsWith(arFire) = <<ArBits>> /\ reads' = <<>>
         /\ FetchedAddr(arFire) = FetchAddr
<1>1. arFire => ArValid
  BY DEF FetchResponse, Outside
<1>2. ReadsWith(arFire) = <<ArBits>>
  BY <1>1, ReadQueue DEF IInv, FetchResponse
<1>3. ArBits.addr = FetchAddr
  BY DEF FetchResponse, Fetching, ArBits
<1> QED BY <1>2, <1>3, OneRequest DEF FetchResponse, FetchedAddr

\* The parcels in the fetched word, seen from pc.
LEMMA FetchedParcels ==
  ASSUME IInv, NEW arFire \in BOOLEAN, FetchResponse(arFire)
  PROVE  /\ state = "STRADDLE" => FetchedLo(arFire) = imem[Plus(pc, 1)]
         /\ state = "RUN" /\ PcInHighHalf => FetchedHi(arFire) = imem[pc]
         /\ state = "RUN" /\ ~PcInHighHalf => /\ FetchedLo(arFire) = imem[pc]
                                              /\ FetchedHi(arFire) = imem[Plus(pc, 1)]
<1>1. pc \in Word
  BY DEF IInv, TypeOK
<1>2. CASE state = "STRADDLE"
  BY <1>2, FetchedWord DEF FetchedLo, FetchAddr
<1>3. CASE state = "RUN" /\ PcInHighHalf
  <2>1. Plus(WordAddr(pc), 1) = pc
    BY <1>1, <1>3, HighParcel DEF PcInHighHalf
  <2> QED BY <1>3, <2>1, FetchedWord DEF FetchedHi, FetchAddr
<1>4. CASE state = "RUN" /\ ~PcInHighHalf
  <2>1. WordAddr(pc) = pc
    BY <1>1, <1>4, EvenWord DEF PcInHighHalf
  <2> QED BY <1>4, <2>1, FetchedWord DEF FetchedHi, FetchedLo, FetchAddr
<1> QED BY <1>2, <1>3, <1>4

\* What the fetch stage hands to EX is the instruction at pc of the program,
\* wherever it lies and however many words it took to fetch.
LEMMA CommitsInsnAtPc ==
  ASSUME IInv, NEW arFire \in BOOLEAN, CommitNow(arFire)
  PROVE  /\ CommitInsn(arFire) = Arch!InsnAtPc
         /\ DecodedInstr(CommitInsn(arFire)) = Arch!InstrAtPc
<1>1. FetchResponse(arFire) /\ state \in {"RUN", "STRADDLE"}
  BY DEF CommitNow, FetchResponse, Fetching
<1>2. CASE state = "STRADDLE"
  <2>1. straddleLow = imem[pc] /\ straddleLow \notin Compressed
    BY <1>2 DEF IInv, StraddleHoldsFirstHalf
  <2>2. CommitInsn(arFire) = Arch!InsnAtPc
    BY <1>1, <1>2, <2>1, FetchedParcels, ArchBasics DEF CommitInsn, Arch!InsnAtPc
  <2> QED BY <2>2, ArchTraps DEF Arch!InstrAtPc
<1>3. CASE state = "RUN" /\ PcInHighHalf
  <2>1. FetchedHi(arFire) = imem[pc] /\ imem[pc] \in Compressed
    BY <1>1, <1>3, FetchedParcels DEF CommitNow, Straddled32
  <2>2. CommitInsn(arFire) = Arch!InsnAtPc
    BY <1>3, <2>1 DEF CommitInsn, SelectedParcel, Arch!InsnAtPc
  <2> QED BY <2>2, ArchTraps DEF Arch!InstrAtPc
<1>4. CASE state = "RUN" /\ ~PcInHighHalf
  <2>1. CommitInsn(arFire) = Arch!InsnAtPc
    BY <1>1, <1>4, FetchedParcels, ArchBasics DEF CommitInsn, SelectedParcel, Arch!InsnAtPc
  <2> QED BY <2>1, ArchTraps DEF Arch!InstrAtPc
<1> QED BY <1>1, <1>2, <1>3, <1>4

(***************************************************************************)
(* Types                                                                   *)
(***************************************************************************)

\* What the slave, the pins and the record of stalled requests may become.
LEMMA OutsideType ==
  ASSUME IInv, NEW arFire \in BOOLEAN, NEW awFire \in BOOLEAN, NEW wFire \in BOOLEAN,
         Outside(arFire, awFire, wFire)
  PROVE  /\ irq' \in SUBSET Pins /\ imem' \in [Word -> Halfword]
         /\ stalled' \in [ar : SUBSET ReadRequest, aw : SUBSET DataAddr, w : SUBSET Word]
<1>1. ArBits \in ReadRequest /\ AwBits \in DataAddr
  BY ArBitsType DEF IInv
<1>2. mem.data \in Word
  BY DEF IInv, TypeOK, MemRegs
<1>3. /\ Requests.ar \in SUBSET ReadRequest /\ Requests.aw \in SUBSET DataAddr
      /\ Requests.w \in SUBSET Word
  BY <1>1, <1>2 DEF Requests
<1> QED BY <1>3 DEF Outside, IInv, TypeOK

\* The slave's queues hold well-formed requests.
LEMMA QueueTypes ==
  ASSUME IInv, NEW arFire \in BOOLEAN, NEW awFire \in BOOLEAN, NEW wFire \in BOOLEAN
  PROVE  /\ ReadsWith(arFire) \in Seq(ReadRequest)
         /\ AwritesWith(awFire) \in Seq(DataAddr) /\ WwritesWith(wFire) \in Seq(Word)
<1>1. ArBits \in ReadRequest /\ AwBits \in DataAddr /\ mem.data \in Word
  BY ArBitsType DEF IInv, TypeOK, MemRegs
<1> QED BY <1>1, AppendProperties DEF ReadsWith, AwritesWith, WwritesWith, IInv, TypeOK

\* A decoded instruction is a member of Instr, with a length of one or two
\* parcels.
LEMMA CommitType ==
  ASSUME IInv, NEW arFire \in BOOLEAN, CommitNow(arFire)
  PROVE  /\ CommitInsn(arFire) \in Insn
         /\ DecodedInstr(CommitInsn(arFire)) \in Instr
         /\ Plus(pc, CommitInsn(arFire).len) \in Word
<1>1. pc \in Word /\ Plus(pc, 1) \in Word
  BY PlusType, WordNat DEF IInv, TypeOK
<1>2. state # "IRQ"
  BY DEF CommitNow, FetchResponse, Fetching
<1>3. imem[pc] \in Halfword /\ imem[Plus(pc, 1)] \in Halfword /\ ZeroHalf \in Halfword
  BY <1>1, ParcelAssumption DEF IInv, TypeOK
<1>4. Arch!InsnAtPc \in Insn /\ (Arch!InsnAtPc.len = 1 => Arch!InsnAtPc.lo \in Compressed)
  BY <1>2, <1>3, ArchBasics DEF Arch!InsnAtPc, Insn
<1>5. CommitInsn(arFire).len \in Nat
  BY <1>4, CommitsInsnAtPc DEF Insn
<1> QED BY <1>1, <1>4, <1>5, CommitsInsnAtPc, DecodedType, PlusType, WordNat

\* At a boundary the control state and the CSRs stay legal.
LEMMA BoundaryType ==
  ASSUME NEW c \in CsrState, NEW next \in Word, NEW s \in CoreState, Boundary(c, next, s)
  PROVE  state' \in CoreState /\ csr' \in CsrState
BY InterruptEntryType DEF Boundary, CoreState

\* A fault leaves legal CSRs.
LEMMA FaultType ==
  ASSUME TypeOK, NEW epc \in Word, NEW cause \in Nat, NEW a \in Word,
         Fault(epc, cause, AddrTval(a))
  PROVE  /\ state' \in CoreState /\ csr' \in CsrState /\ trapEvent' \in BOOLEAN
         /\ pc' \in Word /\ gpr' \in [Reg -> Word] /\ dmem' \in [DataAddr -> Word]
BY TrapEntryType, AddrTvalType DEF Fault, CoreState, TypeOK

\* Every step keeps the types.
LEMMA TypeStep ==
  ASSUME IInv, [Next]_vars
  PROVE  TypeOK'
<1> USE DEF TypeOK, arch, storeFlags, writes
<1>0. TypeOK
  BY DEF IInv
<1>1. CASE ResetCycle
  BY <1>0, <1>1, OutsideType DEF ResetCycle, CoreState
<1>2. CASE IrqCycle
  BY <1>0, <1>2, OutsideType DEF IrqCycle, CoreState, CsrState
<1>3. CASE SleepCycle
  <2>1. state' \in CoreState /\ csr' \in CsrState
    BY <1>0, <1>3, BoundaryType DEF SleepCycle, CoreState
  <2> QED BY <1>0, <1>3, <2>1, OutsideType DEF SleepCycle
<1>4. ASSUME NEW arFire \in BOOLEAN, FetchCycle(arFire)
      PROVE  TypeOK'
  BY <1>0, <1>4, OutsideType, QueueTypes DEF FetchCycle
<1>5. ASSUME NEW arFire \in BOOLEAN, FetchResponse(arFire)
      PROVE  /\ reads' \in Seq(ReadRequest) /\ fetchOutstanding' \in BOOLEAN
             /\ irq' \in SUBSET Pins /\ imem' \in [Word -> Halfword]
             /\ stalled' \in [ar : SUBSET ReadRequest, aw : SUBSET DataAddr, w : SUBSET Word]
             /\ FetchedHi(arFire) \in Halfword
  <2>1. reads' = <<>> /\ FetchedAddr(arFire) = FetchAddr
    BY <1>5, FetchedWord
  <2>2. FetchAddr \in Word
    BY <1>0, WordAddrType, PlusType, WordNat DEF FetchAddr
  <2>3. FetchedHi(arFire) \in Halfword
    BY <1>0, <2>1, <2>2, PlusType, WordNat DEF FetchedHi
  <2>4. reads' \in Seq(ReadRequest)
    BY <2>1, EmptySeq
  <2>5. FALSE \in BOOLEAN /\ Outside(arFire, FALSE, FALSE)
    BY <1>5 DEF FetchResponse
  <2> QED BY <1>5, <2>3, <2>4, <2>5, OutsideType DEF FetchResponse
<1>6. ASSUME NEW arFire \in BOOLEAN, FetchFault(arFire)
      PROVE  TypeOK'
  <2>1. FetchResponse(arFire) /\ Fault(pc, FetchAccessFault, AddrTval(pc))
    BY <1>6 DEF FetchFault
  <2>2. FetchAccessFault \in Nat
    BY DEF FetchAccessFault
  <2> QED BY <1>0, <1>5, <1>6, <2>1, <2>2, FaultType DEF FetchFault
<1>7. ASSUME NEW arFire \in BOOLEAN, FetchStraddle(arFire)
      PROVE  TypeOK'
  BY <1>0, <1>5, <1>7 DEF FetchStraddle, KeptParcel, CoreState
<1>8. ASSUME NEW arFire \in BOOLEAN, CommitTrap(arFire)
      PROVE  TypeOK'
  <2> DEFINE n == CommitInsn(arFire)
             i == DecodedInstr(n)
  <2>1. FetchResponse(arFire) /\ CommitNow(arFire)
    BY <1>8 DEF CommitTrap, CommitNow
  <2>2. n \in Insn /\ i \in Instr
    BY <2>1, CommitType
  <2>3. TrapCause(i, gpr) \in Nat /\ TrapValue(i, n, gpr) \in Value
    BY <1>0, <2>2, TrapCauseType, TrapValueType
  <2>4. TrapEntry(csr, pc, TrapCause(i, gpr), TrapValue(i, n, gpr)) \in CsrState
    BY <1>0, <2>3, TrapEntryType
  <2>5. csr.mtvec \in Word
    BY <1>0 DEF CsrState
  <2> QED BY <1>0, <1>5, <1>8, <2>1, <2>4, <2>5 DEF CommitTrap, CoreState
<1>9. ASSUME NEW arFire \in BOOLEAN, CommitRetire(arFire)
      PROVE  TypeOK'
  <2> DEFINE n == CommitInsn(arFire)
             i == DecodedInstr(n)
             next == ExecNextPc(i, n.len, pc, gpr, csr.mepc)
             after == IF i.op = "wfi" THEN "SLEEP" ELSE "RUN"
  <2>1. FetchResponse(arFire) /\ CommitNow(arFire)
    BY <1>9 DEF CommitRetire, CommitNow
  <2>2. n.len \in {1, 2} /\ i \in Instr
    BY <2>1, CommitType DEF Insn
  <2>3. next \in Word /\ ExecGpr(i, n.len, pc, gpr) \in [Reg -> Word]
    <3>1. csr.mepc \in Word
      BY <1>0 DEF CsrState
    <3> HIDE DEF n, i
    <3> QED BY <1>0, <2>2, <3>1, ExecNextPcType, ExecGprType
  <2>4. PostCommitCsr(csr, i) \in CsrState
    BY <1>0, <2>2, PostCommitCsrType
  <2>5. after \in CoreState
    BY DEF CoreState
  <2>6. Boundary(PostCommitCsr(csr, i), next, after)
    BY <1>9 DEF CommitRetire
  <2>7. state' \in CoreState /\ csr' \in CsrState
    <3> HIDE DEF n, i, next, after
    <3> QED BY <2>3, <2>4, <2>5, <2>6, BoundaryType
  <2> QED BY <1>0, <1>5, <1>9, <2>1, <2>3, <2>7 DEF CommitRetire
<1>10. ASSUME NEW arFire \in BOOLEAN, CommitMem(arFire)
       PROVE  TypeOK'
  <2> DEFINE n == CommitInsn(arFire)
             i == DecodedInstr(n)
  <2>1. FetchResponse(arFire) /\ CommitNow(arFire)
    BY <1>10 DEF CommitMem, CommitNow
  <2>2. Plus(pc, n.len) \in Word /\ i \in Instr
    BY <2>1, CommitType
  <2>3. MemAddr(i, gpr) \in Word /\ i.rd \in RegField /\ ReadReg(gpr, i.rs2) \in Word
    <3>1. i.rs2 \in RegField /\ i.rd \in RegField
      BY <2>2 DEF Instr, InstrFields
    <3> QED BY <1>0, <2>2, <3>1, MemAddrType, RegisterType, WordNat
  <2>4. mem' \in MemRegs
    BY <1>0, <1>10, <2>2, <2>3 DEF CommitMem, MemPhase, MemRegs
  <2> QED BY <1>0, <1>5, <1>10, <2>1, <2>4 DEF CommitMem, CoreState
<1>11. ASSUME NEW arFire \in BOOLEAN, LoadCycle(arFire)
       PROVE  TypeOK'
  BY <1>0, <1>11, OutsideType, QueueTypes DEF LoadCycle
<1>12. ASSUME NEW arFire \in BOOLEAN, LoadResponse(arFire)
       PROVE  /\ reads' \in Seq(ReadRequest) /\ memOutstanding' \in BOOLEAN
              /\ irq' \in SUBSET Pins /\ imem' \in [Word -> Halfword]
              /\ stalled' \in [ar : SUBSET ReadRequest, aw : SUBSET DataAddr, w : SUBSET Word]
              /\ Head(ReadsWith(arFire)).addr \in DataAddr
  <2>1. ReadsWith(arFire) \in Seq(ReadRequest) /\ ReadsWith(arFire) # <<>>
    BY <1>12, QueueTypes DEF LoadResponse
  <2>2. Head(ReadsWith(arFire)) \in ReadRequest /\ Tail(ReadsWith(arFire)) \in Seq(ReadRequest)
    BY <2>1, HeadTailProperties
  <2> QED BY <1>12, <2>2, OutsideType DEF LoadResponse, ReadRequest
<1>13. mem.addr \in Word /\ mem.epc \in Word /\ mem.nextPc \in Word /\ mem.rd \in RegField
  BY <1>0 DEF MemRegs
<1>14. ASSUME NEW arFire \in BOOLEAN, LoadFault(arFire)
       PROVE  TypeOK'
  <2>1. LoadResponse(arFire) /\ Fault(mem.epc, LoadAccessFault, AddrTval(mem.addr))
    BY <1>14 DEF LoadFault
  <2>2. LoadAccessFault \in Nat
    BY DEF LoadAccessFault
  <2> QED BY <1>0, <1>12, <1>13, <2>1, <2>2, FaultType DEF LoadResponse
<1>15. ASSUME NEW arFire \in BOOLEAN, LoadDone(arFire)
       PROVE  TypeOK'
  <2>1. LoadResponse(arFire)
    BY <1>15 DEF LoadDone
  <2>2. state' \in CoreState /\ csr' \in CsrState
    BY <1>0, <1>13, <1>15, BoundaryType DEF LoadDone, CoreState
  <2>3. gpr' \in [Reg -> Word]
    BY <1>0, <1>12, <1>13, <1>15, <2>1, RegisterType DEF LoadDone
  <2> QED BY <1>0, <1>12, <1>13, <1>15, <2>1, <2>2, <2>3 DEF LoadDone, LoadResponse
<1>16. ASSUME NEW awFire \in BOOLEAN, NEW wFire \in BOOLEAN, StoreCycle(awFire, wFire)
       PROVE  TypeOK'
  BY <1>0, <1>16, OutsideType, QueueTypes DEF StoreCycle
<1>17. ASSUME NEW awFire \in BOOLEAN, NEW wFire \in BOOLEAN, StoreResponse(awFire, wFire)
       PROVE  /\ awrites' \in Seq(DataAddr) /\ wwrites' \in Seq(Word)
              /\ storeAwDone' \in BOOLEAN /\ storeWDone' \in BOOLEAN
              /\ irq' \in SUBSET Pins /\ imem' \in [Word -> Halfword]
              /\ stalled' \in [ar : SUBSET ReadRequest, aw : SUBSET DataAddr, w : SUBSET Word]
              /\ Head(AwritesWith(awFire)) \in DataAddr /\ Head(WwritesWith(wFire)) \in Word
  <2>1. /\ AwritesWith(awFire) \in Seq(DataAddr) /\ AwritesWith(awFire) # <<>>
        /\ WwritesWith(wFire) \in Seq(Word) /\ WwritesWith(wFire) # <<>>
    BY <1>17, QueueTypes DEF StoreResponse
  <2>2. /\ Head(AwritesWith(awFire)) \in DataAddr /\ Tail(AwritesWith(awFire)) \in Seq(DataAddr)
        /\ Head(WwritesWith(wFire)) \in Word /\ Tail(WwritesWith(wFire)) \in Seq(Word)
    BY <2>1, HeadTailProperties
  <2> QED BY <1>17, <2>2, OutsideType DEF StoreResponse
<1>18. ASSUME NEW awFire \in BOOLEAN, NEW wFire \in BOOLEAN, StoreFault(awFire, wFire)
       PROVE  TypeOK'
  <2>1. StoreResponse(awFire, wFire) /\ Fault(mem.epc, StoreAccessFault, AddrTval(mem.addr))
    BY <1>18 DEF StoreFault
  <2>2. StoreAccessFault \in Nat
    BY DEF StoreAccessFault
  <2> QED BY <1>0, <1>13, <1>17, <2>1, <2>2, FaultType DEF StoreResponse
<1>19. ASSUME NEW awFire \in BOOLEAN, NEW wFire \in BOOLEAN, StoreDone(awFire, wFire)
       PROVE  TypeOK'
  <2>1. StoreResponse(awFire, wFire)
    BY <1>19 DEF StoreDone
  <2>2. state' \in CoreState /\ csr' \in CsrState
    BY <1>0, <1>13, <1>19, BoundaryType DEF StoreDone, CoreState
  <2> QED BY <1>0, <1>13, <1>17, <1>19, <2>1, <2>2 DEF StoreDone, StoreResponse
<1>20. CASE UNCHANGED vars
  BY <1>0, <1>20 DEF vars
<1> QED
  BY <1>1, <1>2, <1>3, <1>4, <1>6, <1>7, <1>8, <1>9, <1>10, <1>11, <1>14, <1>15, <1>16,
     <1>18, <1>19, <1>20 DEF Next, ReadCycle, WriteCycle

(***************************************************************************)
(* The bus invariants                                                      *)
(***************************************************************************)

\* Nothing stays stalled when everything shown is accepted.
LEMMA NothingStalled ==
  ASSUME NEW arFire \in BOOLEAN, NEW awFire \in BOOLEAN, NEW wFire \in BOOLEAN,
         Outside(arFire, awFire, wFire),
         ArValid => arFire, AwValid => awFire, WValid => wFire
  PROVE  RequestsStable'
<1>1. stalled' = [ar |-> {}, aw |-> {}, w |-> {}]
  BY DEF Outside, Requests
<1> QED BY <1>1 DEF RequestsStable

\* A step keeps every stalled request on the bus.
LEMMA StableStep ==
  ASSUME IInv, [Next]_vars
  PROVE  RequestsStable'
<1> USE DEF ArValid, FetchArValid, LoadArValid, AwValid, WValid, Fetching
<1>1. CASE ResetCycle
  BY <1>1, NothingStalled DEF ResetCycle
<1>2. CASE IrqCycle
  BY <1>2, NothingStalled DEF IrqCycle
<1>3. CASE SleepCycle
  BY <1>3, NothingStalled DEF SleepCycle
<1>4. ASSUME NEW arFire \in BOOLEAN, FetchCycle(arFire)
      PROVE  RequestsStable'
  <2>1. ArBits' = ArBits
    BY <1>4 DEF FetchCycle, ArBits, FetchAddr, arch
  <2>2. /\ stalled'.aw = {} /\ stalled'.w = {}
        /\ stalled'.ar = IF arFire THEN {} ELSE Requests.ar
    BY <1>4 DEF FetchCycle, Outside, Requests
  <2>3. ~arFire => Requests'.ar = Requests.ar
    BY <1>4, <2>1 DEF FetchCycle, Requests, IInv, TypeOK
  <2> QED BY <2>2, <2>3 DEF RequestsStable
<1>5. ASSUME NEW arFire \in BOOLEAN, FetchResponse(arFire)
      PROVE  RequestsStable'
  <2>1. ArValid => arFire
    BY <1>5 DEF FetchResponse
  <2>2. ~AwValid /\ ~WValid /\ Outside(arFire, FALSE, FALSE)
    BY <1>5 DEF FetchResponse
  <2> QED BY <2>1, <2>2, NothingStalled
<1>6. ASSUME NEW arFire \in BOOLEAN, LoadCycle(arFire)
      PROVE  RequestsStable'
  <2>1. ArBits' = ArBits
    BY <1>6 DEF LoadCycle, ArBits, FetchAddr, arch
  <2>2. /\ stalled'.aw = {} /\ stalled'.w = {}
        /\ stalled'.ar = IF arFire THEN {} ELSE Requests.ar
    BY <1>6 DEF LoadCycle, Outside, Requests
  <2>3. ~arFire => Requests'.ar = Requests.ar
    BY <1>6, <2>1 DEF LoadCycle, Requests, IInv, TypeOK
  <2> QED BY <2>2, <2>3 DEF RequestsStable
<1>7. ASSUME NEW arFire \in BOOLEAN, LoadResponse(arFire)
      PROVE  RequestsStable'
  <2>1. ArValid => arFire
    BY <1>7 DEF LoadResponse
  <2>2. ~AwValid /\ ~WValid /\ Outside(arFire, FALSE, FALSE)
    BY <1>7 DEF LoadResponse
  <2> QED BY <2>1, <2>2, NothingStalled
<1>8. ASSUME NEW awFire \in BOOLEAN, NEW wFire \in BOOLEAN, StoreCycle(awFire, wFire)
      PROVE  RequestsStable'
  <2>1. /\ stalled'.ar = {}
        /\ stalled'.aw = IF awFire THEN {} ELSE Requests.aw
        /\ stalled'.w = IF wFire THEN {} ELSE Requests.w
    BY <1>8 DEF StoreCycle, Outside, Requests
  <2>2. ~awFire => Requests'.aw = Requests.aw
    BY <1>8 DEF StoreCycle, Requests, AwBits, IInv, TypeOK
  <2>3. ~wFire => Requests'.w = Requests.w
    BY <1>8 DEF StoreCycle, Requests, IInv, TypeOK
  <2> QED BY <2>1, <2>2, <2>3 DEF RequestsStable
<1>9. ASSUME NEW awFire \in BOOLEAN, NEW wFire \in BOOLEAN, StoreResponse(awFire, wFire)
      PROVE  RequestsStable'
  BY <1>9, NothingStalled DEF StoreResponse, StoreBothDone
<1>10. CASE UNCHANGED vars
  BY <1>10 DEF IInv, RequestsStable, Requests, ArBits, FetchAddr, AwBits, vars, arch,
    storeFlags
<1> HIDE DEF ArValid, FetchArValid, LoadArValid, AwValid, WValid, Fetching
<1> QED
  BY <1>1, <1>2, <1>3, <1>4, <1>5, <1>6, <1>7, <1>8, <1>9, <1>10
  DEF Next, ReadCycle, WriteCycle, FetchFault, FetchStraddle, CommitTrap, CommitRetire,
      CommitMem, CommitNow, LoadFault, LoadDone, StoreFault, StoreDone

\* A step leaves on the slave exactly what the phase it leads to is waiting for.
LEMMA ResponsesStep ==
  ASSUME IInv, [Next]_vars
  PROVE  ResponsesExpected'
<1> USE DEF Fetching, writes, storeFlags, arch
<1>0. ResponsesExpected /\ TypeOK
  BY DEF IInv
<1>1. CASE ResetCycle
  BY <1>0, <1>1 DEF ResetCycle, ResponsesExpected
<1>2. CASE IrqCycle
  BY <1>0, <1>2 DEF IrqCycle, ResponsesExpected
<1>3. CASE SleepCycle
  BY <1>0, <1>3 DEF SleepCycle, Boundary, ResponsesExpected
<1>4. ASSUME NEW arFire \in BOOLEAN, FetchCycle(arFire) \/ LoadCycle(arFire)
      PROVE  ResponsesExpected'
  <2>1. ArBits' = ArBits /\ state' = state
    BY <1>4 DEF FetchCycle, LoadCycle, ArBits, FetchAddr
  <2>2. arFire => ArValid
    BY <1>4 DEF FetchCycle, LoadCycle, Outside
  <2>3. reads' = IF fetchOutstanding \/ memOutstanding \/ arFire THEN <<ArBits>> ELSE <<>>
    BY <1>0, <1>4, <2>2, ReadQueue DEF FetchCycle, LoadCycle
  <2>4. fetchOutstanding \in BOOLEAN /\ memOutstanding \in BOOLEAN
    BY <1>0 DEF TypeOK
  <2>5. (fetchOutstanding' \/ memOutstanding') <=> (fetchOutstanding \/ memOutstanding \/ arFire)
    <3>1. CASE FetchCycle(arFire) /\ arFire
      BY <3>1, <2>4 DEF FetchCycle
    <3>2. CASE FetchCycle(arFire) /\ ~arFire
      BY <3>2, <2>4 DEF FetchCycle
    <3>3. CASE LoadCycle(arFire) /\ arFire
      BY <3>3, <2>4 DEF LoadCycle
    <3>4. CASE LoadCycle(arFire) /\ ~arFire
      BY <3>4, <2>4 DEF LoadCycle
    <3> QED BY <1>4, <3>1, <3>2, <3>3, <3>4, Zenon
  <2>6. reads' = IF fetchOutstanding' \/ memOutstanding' THEN <<ArBits'>> ELSE <<>>
    BY <2>1, <2>3, <2>5
  <2>7. /\ fetchOutstanding' => state' \in {"RUN", "STRADDLE"}
        /\ memOutstanding' => state' = "LOAD"
        /\ state' # "STORE" /\ awrites' = <<>> /\ wwrites' = <<>>
    <3>1. CASE FetchCycle(arFire)
      BY <1>0, <3>1 DEF FetchCycle, ResponsesExpected
    <3>2. CASE LoadCycle(arFire)
      BY <1>0, <3>2 DEF LoadCycle, ResponsesExpected
    <3> QED BY <1>4, <3>1, <3>2
  <2> QED BY <2>6, <2>7 DEF ResponsesExpected
<1>5. ASSUME NEW arFire \in BOOLEAN, FetchResponse(arFire)
      PROVE  reads' = <<>> /\ ~fetchOutstanding' /\ ~memOutstanding
             /\ awrites = <<>> /\ wwrites = <<>> /\ state # "STORE"
  BY <1>0, <1>5, FetchedWord DEF FetchResponse, ResponsesExpected
<1>6. ASSUME NEW arFire \in BOOLEAN,
             FetchFault(arFire) \/ FetchStraddle(arFire) \/ CommitTrap(arFire)
               \/ CommitRetire(arFire) \/ CommitMem(arFire)
      PROVE  ResponsesExpected'
  <2>1. FetchResponse(arFire)
    BY <1>6 DEF FetchFault, FetchStraddle, CommitTrap, CommitRetire, CommitMem, CommitNow
  <2>2. ~memOutstanding' /\ awrites' = <<>> /\ wwrites' = <<>>
    BY <1>5, <1>6, <2>1
    DEF FetchFault, FetchStraddle, CommitTrap, CommitRetire, CommitMem
  <2>3. state' = "STORE" => ~storeAwDone' /\ ~storeWDone'
    BY <1>5, <1>6, <2>1
    DEF FetchFault, Fault, FetchStraddle, CommitTrap, CommitRetire, Boundary, CommitMem
  <2> QED BY <1>5, <2>1, <2>2, <2>3 DEF ResponsesExpected
<1>7. ASSUME NEW arFire \in BOOLEAN, LoadFault(arFire) \/ LoadDone(arFire)
      PROVE  ResponsesExpected'
  <2>1. LoadResponse(arFire)
    BY <1>7 DEF LoadFault, LoadDone
  <2>2. arFire => ArValid
    BY <2>1 DEF LoadResponse, Outside
  <2>3. reads' = <<>>
    BY <1>0, <2>1, <2>2, ReadQueue, OneRequest DEF LoadResponse
  <2>4. state' \in {"IRQ", "RUN"}
    BY <1>7 DEF LoadFault, LoadDone, Fault, Boundary
  <2> QED BY <1>0, <2>1, <2>3, <2>4 DEF LoadResponse, ResponsesExpected
<1>8. ASSUME NEW awFire \in BOOLEAN, NEW wFire \in BOOLEAN, StoreCycle(awFire, wFire)
      PROVE  ResponsesExpected'
  <2>1. (awFire => AwValid) /\ (wFire => WValid) /\ state = "STORE"
    BY <1>8 DEF StoreCycle, Outside
  <2>2. /\ awrites' = IF storeAwDone \/ awFire THEN <<AwBits>> ELSE <<>>
        /\ wwrites' = IF storeWDone \/ wFire THEN <<mem.data>> ELSE <<>>
    BY <1>0, <1>8, <2>1, WriteQueues DEF StoreCycle
  <2> QED BY <1>0, <1>8, <2>1, <2>2 DEF StoreCycle, ResponsesExpected, AwBits, TypeOK
<1>9. ASSUME NEW awFire \in BOOLEAN, NEW wFire \in BOOLEAN,
             StoreFault(awFire, wFire) \/ StoreDone(awFire, wFire)
      PROVE  ResponsesExpected'
  <2>1. StoreResponse(awFire, wFire)
    BY <1>9 DEF StoreFault, StoreDone
  <2>2. (awFire => AwValid) /\ (wFire => WValid) /\ state = "STORE"
    BY <2>1 DEF StoreResponse, Outside
  <2>3. awrites' = <<>> /\ wwrites' = <<>>
    BY <1>0, <2>1, <2>2, WriteQueues, OneRequest DEF StoreResponse, StoreBothDone
  <2>4. state' \in {"IRQ", "RUN"}
    BY <1>9 DEF StoreFault, StoreDone, Fault, Boundary
  <2> QED BY <1>0, <2>1, <2>2, <2>3, <2>4 DEF StoreResponse, ResponsesExpected
<1>10. CASE UNCHANGED vars
  BY <1>0, <1>10 DEF ResponsesExpected, ArBits, FetchAddr, AwBits, vars
<1> QED
  BY <1>1, <1>2, <1>3, <1>4, <1>6, <1>7, <1>8, <1>9, <1>10 DEF Next, ReadCycle, WriteCycle

(***************************************************************************)
(* The program invariants                                                  *)
(***************************************************************************)

\* Only FetchStraddle enters STRADDLE, with the right parcel; nothing moves pc
\* or the parcel while the core is there.
LEMMA StraddleStep ==
  ASSUME IInv, [Next]_vars
  PROVE  StraddleHoldsFirstHalf'
<1> USE DEF arch, storeFlags, writes, PcInHighHalf
<1>0. StraddleHoldsFirstHalf
  BY DEF IInv
<1>1. CASE ResetCycle \/ IrqCycle \/ SleepCycle
  BY <1>1 DEF ResetCycle, IrqCycle, SleepCycle, Boundary, StraddleHoldsFirstHalf
<1>2. ASSUME NEW arFire \in BOOLEAN, FetchCycle(arFire)
      PROVE  StraddleHoldsFirstHalf'
  BY <1>0, <1>2 DEF FetchCycle, Outside, StraddleHoldsFirstHalf
<1>3. ASSUME NEW arFire \in BOOLEAN, FetchStraddle(arFire)
      PROVE  StraddleHoldsFirstHalf'
  <2>1. FetchResponse(arFire) /\ state = "RUN" /\ Straddled32(arFire)
    BY <1>3 DEF FetchStraddle
  <2>2. FetchedHi(arFire) = imem[pc]
    BY <2>1, FetchedParcels DEF Straddled32
  <2>3. imem' = imem
    BY <2>1 DEF FetchResponse, Outside
  <2> QED BY <1>3, <2>1, <2>2, <2>3
      DEF FetchStraddle, KeptParcel, Straddled32, StraddleHoldsFirstHalf
<1>4. ASSUME NEW arFire \in BOOLEAN,
             \/ FetchFault(arFire) \/ CommitTrap(arFire) \/ CommitRetire(arFire)
             \/ CommitMem(arFire) \/ LoadFault(arFire) \/ LoadDone(arFire)
      PROVE  StraddleHoldsFirstHalf'
  <2>1. state' # "STRADDLE"
    BY <1>4 DEF FetchFault, Fault, CommitTrap, CommitRetire, CommitMem, LoadFault,
      LoadDone, Boundary
  <2> QED BY <2>1 DEF StraddleHoldsFirstHalf
<1>5. ASSUME NEW arFire \in BOOLEAN, LoadCycle(arFire)
      PROVE  StraddleHoldsFirstHalf'
  BY <1>5 DEF LoadCycle, StraddleHoldsFirstHalf
<1>6. ASSUME NEW awFire \in BOOLEAN, NEW wFire \in BOOLEAN, WriteCycle(awFire, wFire)
      PROVE  StraddleHoldsFirstHalf'
  BY <1>6 DEF WriteCycle, StoreCycle, StoreFault, StoreDone, StoreResponse, Fault,
    Boundary, StraddleHoldsFirstHalf
<1>7. CASE UNCHANGED vars
  BY <1>0, <1>7 DEF vars, StraddleHoldsFirstHalf
<1> QED
  BY <1>1, <1>2, <1>3, <1>4, <1>5, <1>6, <1>7 DEF Next, ReadCycle

\* The instruction at pc stays what it is while pc and the program stay.
LEMMA SameInstr ==
  ASSUME UNCHANGED <<pc, imem>>, state # "IRQ", state' # "IRQ"
  PROVE  /\ Arch!InsnAtPc' = Arch!InsnAtPc
         /\ Arch!InstrAtPc' = Arch!InstrAtPc
BY DEF Arch!InsnAtPc, Arch!InstrAtPc, Arch!DecodedInstr, Arch!Plus

\* Only CommitMem enters a memory phase, with what the instruction says, and
\* the phase keeps it until it ends.
LEMMA MemPhaseStep ==
  ASSUME IInv, [Next]_vars
  PROVE  MemoryPhaseMatchesProgram'
<1> USE DEF arch, storeFlags, writes
<1>0. MemoryPhaseMatchesProgram
  BY DEF IInv
<1>1. CASE ResetCycle \/ IrqCycle \/ SleepCycle
  BY <1>1 DEF ResetCycle, IrqCycle, SleepCycle, Boundary, MemoryPhaseMatchesProgram
<1>2. ASSUME NEW arFire \in BOOLEAN,
             \/ FetchCycle(arFire) \/ FetchFault(arFire) \/ FetchStraddle(arFire)
             \/ CommitTrap(arFire) \/ CommitRetire(arFire)
             \/ LoadFault(arFire) \/ LoadDone(arFire)
      PROVE  MemoryPhaseMatchesProgram'
  <2>1. state' \notin {"LOAD", "STORE"}
    BY <1>2 DEF FetchCycle, Fetching, FetchFault, FetchStraddle, Fault, CommitTrap,
      CommitRetire, LoadFault, LoadDone, Boundary
  <2> QED BY <2>1 DEF MemoryPhaseMatchesProgram
<1>3. ASSUME NEW arFire \in BOOLEAN, CommitMem(arFire)
      PROVE  MemoryPhaseMatchesProgram'
  <2> DEFINE n == Arch!InsnAtPc
             i == Arch!InstrAtPc
  <2>1. CommitNow(arFire)
    BY <1>3 DEF CommitMem
  <2>2. CommitInsn(arFire) = n /\ DecodedInstr(CommitInsn(arFire)) = i
    BY <2>1, CommitsInsnAtPc
  <2>3. /\ ~ExecTrap(i, gpr) /\ i.op \in {"load", "store"}
        /\ mem' = MemPhase(i, n)
        /\ state' = IF i.op = "load" THEN "LOAD" ELSE "STORE"
        /\ pc' = pc /\ gpr' = gpr
    BY <1>3, <2>2 DEF CommitMem, MemOp
  <2>4. Arch!InsnAtPc' = n /\ Arch!InstrAtPc' = i
    <3>1. imem' = imem /\ state # "IRQ"
      BY <2>1 DEF CommitNow, FetchResponse, Fetching, Outside
    <3> QED BY <2>3, <3>1, SameInstr
  <2>5. ExecTrap(i, gpr)' <=> ExecTrap(i, gpr)
    BY <2>3, <2>4 DEF ExecTrap, CsrIllegal, RegAccessIllegal, Misaligned, MemAddr, MemOp,
      ReadReg
  <2> HIDE DEF n, i
  <2> QED BY <2>3, <2>4, <2>5 DEF MemoryPhaseMatchesProgram, MemPhase
<1>4. ASSUME NEW arFire \in BOOLEAN, LoadCycle(arFire)
      PROVE  MemoryPhaseMatchesProgram'
  <2>1. UNCHANGED <<state, pc, gpr, mem, imem>> /\ state = "LOAD"
    BY <1>4 DEF LoadCycle, Outside
  <2> QED BY <1>0, <2>1, SameInstr DEF MemoryPhaseMatchesProgram
<1>5. ASSUME NEW awFire \in BOOLEAN, NEW wFire \in BOOLEAN, StoreCycle(awFire, wFire)
      PROVE  MemoryPhaseMatchesProgram'
  <2>1. UNCHANGED <<state, pc, gpr, mem, imem>> /\ state = "STORE"
    BY <1>5 DEF StoreCycle, Outside
  <2> QED BY <1>0, <2>1, SameInstr DEF MemoryPhaseMatchesProgram
<1>6. ASSUME NEW awFire \in BOOLEAN, NEW wFire \in BOOLEAN,
             StoreFault(awFire, wFire) \/ StoreDone(awFire, wFire)
      PROVE  MemoryPhaseMatchesProgram'
  <2>1. state' \notin {"LOAD", "STORE"}
    BY <1>6 DEF StoreFault, StoreDone, Fault, Boundary
  <2> QED BY <2>1 DEF MemoryPhaseMatchesProgram
<1>7. CASE UNCHANGED vars
  <2>1. UNCHANGED <<state, pc, gpr, mem, imem>>
    BY <1>7 DEF vars
  <2>2. CASE state \in {"LOAD", "STORE"}
    BY <1>0, <2>1, <2>2, SameInstr DEF MemoryPhaseMatchesProgram
  <2> QED BY <2>1, <2>2 DEF MemoryPhaseMatchesProgram
<1> QED
  BY <1>1, <1>2, <1>3, <1>4, <1>5, <1>6, <1>7 DEF Next, ReadCycle, WriteCycle

(***************************************************************************)
(* Invariants                                                              *)
(***************************************************************************)

\* Reset leaves registers of the right types and nothing on the bus.
LEMMA InitIInv ==
  ASSUME Init
  PROVE  IInv
<1> USE DEF Init
<1>1. /\ state \in CoreState /\ pc \in Word /\ straddleLow \in Halfword
      /\ irq \in SUBSET Pins /\ imem \in [Word -> Halfword] /\ dmem \in [DataAddr -> Word]
  BY ResetVectorAssumption, ImagesAssumption, ParcelAssumption, WordNat DEF CoreState
<1>2. gpr \in [Reg -> Word] /\ csr \in CsrState
  BY WordNat, AddrTvalType DEF CsrState, ResetCsr
<1>3. mem \in MemRegs
  BY WordNat, RegCountAssumption DEF MemRegs, RegField
<1>4. reads \in Seq(ReadRequest) /\ awrites \in Seq(DataAddr) /\ wwrites \in Seq(Word)
  BY EmptySeq
<1>5. stalled \in [ar : SUBSET ReadRequest, aw : SUBSET DataAddr, w : SUBSET Word]
  OBVIOUS
<1>6. TypeOK
  BY <1>1, <1>2, <1>3, <1>4, <1>5 DEF TypeOK
<1>7. RequestsStable /\ ResponsesExpected
  BY DEF RequestsStable, ResponsesExpected
<1> QED
  BY <1>6, <1>7 DEF IInv, StraddleHoldsFirstHalf, MemoryPhaseMatchesProgram

\* The inductive invariant holds in every reachable state.
THEOREM Inductive == Spec => []IInv
<1>1. Init => IInv
  BY InitIInv
<1>2. IInv /\ [Next]_vars => IInv'
  BY TypeStep, StraddleStep, StableStep, ResponsesStep, MemPhaseStep DEF IInv
<1> QED BY <1>1, <1>2, PTL DEF Spec

\* Types: every register, CSR and bus queue stays in its range.
THEOREM TypeCorrect == Spec => []TypeOK
BY Inductive, PTL DEF IInv

\* AXI: a request that was not accepted stays on the bus unchanged.
THEOREM StableRequests == Spec => []RequestsStable
BY Inductive, PTL DEF IInv

\* Every response is consumed by the phase whose request it answers.
THEOREM ExpectedResponses == Spec => []ResponsesExpected
BY Inductive, PTL DEF IInv

\* The memory phase always works for the instruction at pc.
THEOREM MatchingMemoryPhase == Spec => []MemoryPhaseMatchesProgram
BY Inductive, PTL DEF IInv

\* The second half of a straddled instruction is joined to its own first half.
THEOREM StraddleTheorem == Spec => []StraddleHoldsFirstHalf
BY Inductive, PTL DEF IInv

\* AXI: one read or one write is in flight, and never both.
THEOREM OneOutstanding == Spec => []SingleOutstanding
<1>1. IInv => SingleOutstanding
  <2> SUFFICES ASSUME IInv PROVE SingleOutstanding
    OBVIOUS
  <2>1. Len(reads) <= 1 /\ Len(awrites) <= 1 /\ Len(wwrites) <= 1
    <3>1. ASSUME NEW q, NEW x, q = <<>> \/ q = <<x>>
          PROVE  Len(q) <= 1
      <4>1. <<>> \in Seq({}) /\ Len(<<>>) = 0
        BY EmptySeq, Zenon
      <4>2. Len(<<x>>) = 1
        BY OneRequest
      <4>3. Len(q) = 0 \/ Len(q) = 1
        BY <3>1, <4>1, <4>2, Zenon
      <4>4. \A k : k = 0 \/ k = 1 => k <= 1
        OBVIOUS
      <4> QED BY <4>3, <4>4, Zenon
    <3>2. /\ reads = <<>> \/ reads = <<ArBits>>
          /\ awrites = <<>> \/ awrites = <<AwBits>>
          /\ wwrites = <<>> \/ wwrites = <<mem.data>>
      BY DEF IInv, ResponsesExpected
    <3> QED BY <3>1, <3>2
  <2>2. reads # <<>> => ~ArValid /\ awrites = <<>> /\ wwrites = <<>>
    BY OneRequest DEF IInv, ResponsesExpected, ArValid, FetchArValid, LoadArValid, Fetching
  <2>3. (awrites # <<>> => ~AwValid) /\ (wwrites # <<>> => ~WValid)
    BY OneRequest DEF IInv, ResponsesExpected, AwValid, WValid
  <2> QED BY <2>1, <2>2, <2>3 DEF SingleOutstanding
<1> QED BY <1>1, Inductive, PTL

(***************************************************************************)
(* Exceptions                                                              *)
(***************************************************************************)

\* A bus error changes no register and no memory, and mepc names the
\* instruction that made the access.
THEOREM PreciseFaults == Spec => FaultIsPrecise
<1>1. IInv /\ [Next]_vars
      => [state # "IRQ" /\ state' = "IRQ" /\ csr'.mcause \in
            {FetchAccessFault, LoadAccessFault, StoreAccessFault}
          => gpr' = gpr /\ dmem' = dmem /\ csr'.mepc = pc]_vars
  <2> SUFFICES ASSUME IInv, Next, state # "IRQ", state' = "IRQ",
                      csr'.mcause \in {FetchAccessFault, LoadAccessFault, StoreAccessFault}
               PROVE  gpr' = gpr /\ dmem' = dmem /\ csr'.mepc = pc
    OBVIOUS
  <2>1. ASSUME NEW epc, NEW cause, NEW tval, Fault(epc, cause, tval), epc = pc
        PROVE  gpr' = gpr /\ dmem' = dmem /\ csr'.mepc = pc
    BY <2>1 DEF Fault, TrapEntry
  <2>2. ASSUME NEW c, NEW next, NEW s, s # "IRQ", Boundary(c, next, s)
        PROVE  FALSE
    <3>1. csr' = InterruptEntry(c, next, irq)
      BY <2>2 DEF Boundary
    <3>2. csr'.mcause = IrqCause(IrqEnabled(c, irq))
      BY <3>1 DEF InterruptEntry, TrapEntry
    <3> QED BY <3>2 DEF IrqCause, InterruptBit, FetchAccessFault, LoadAccessFault,
              StoreAccessFault
  <2>3. CASE ResetCycle \/ IrqCycle
    BY <2>3 DEF ResetCycle, IrqCycle
  <2>4. CASE SleepCycle
    BY <2>2, <2>4 DEF SleepCycle
  <2>5. ASSUME NEW arFire \in BOOLEAN, FetchFault(arFire)
        PROVE  gpr' = gpr /\ dmem' = dmem /\ csr'.mepc = pc
    BY <2>1, <2>5 DEF FetchFault
  <2>6. ASSUME NEW arFire \in BOOLEAN, CommitRetire(arFire)
        PROVE  FALSE
    <3>1. PICK c, next, s : s # "IRQ" /\ Boundary(c, next, s)
      BY <2>6 DEF CommitRetire
    <3> QED BY <2>2, <3>1
  <2>7. ASSUME NEW arFire \in BOOLEAN, FetchCycle(arFire) \/ FetchStraddle(arFire)
                  \/ CommitTrap(arFire) \/ CommitMem(arFire) \/ LoadCycle(arFire)
        PROVE  FALSE
    BY <2>7 DEF FetchCycle, FetchStraddle, CommitTrap, CommitMem, LoadCycle
  <2>8. ASSUME NEW arFire \in BOOLEAN, LoadFault(arFire) \/ LoadDone(arFire)
        PROVE  gpr' = gpr /\ dmem' = dmem /\ csr'.mepc = pc
    <3>1. mem.epc = pc
      BY <2>8 DEF LoadFault, LoadDone, LoadResponse, IInv, MemoryPhaseMatchesProgram
    <3> QED BY <2>1, <2>2, <2>8, <3>1 DEF LoadFault, LoadDone
  <2>9. ASSUME NEW awFire \in BOOLEAN, NEW wFire \in BOOLEAN, WriteCycle(awFire, wFire)
        PROVE  gpr' = gpr /\ dmem' = dmem /\ csr'.mepc = pc
    <3>1. mem.epc = pc
      BY <2>9 DEF WriteCycle, StoreCycle, StoreFault, StoreDone, StoreResponse, IInv,
        MemoryPhaseMatchesProgram
    <3>2. CASE StoreCycle(awFire, wFire)
      BY <3>2 DEF StoreCycle
    <3> QED BY <2>1, <2>2, <2>9, <3>1, <3>2 DEF WriteCycle, StoreFault, StoreDone
  <2> QED BY <2>3, <2>4, <2>5, <2>6, <2>7, <2>8, <2>9 DEF Next, ReadCycle
<1> QED BY <1>1, Inductive, PTL DEF Spec, FaultIsPrecise

\* An interrupt is entered for the first enabled pin in the documented order,
\* with interrupts off and what they were kept in MPIE.
THEOREM DueInterrupts == Spec => InterruptIsDue
<1> DEFINE Due == /\ csr'.mstatus = {"MPP", "MPIE"}
                  /\ \E p \in csr'.mie \cap irq :
                       /\ csr'.mcause = InterruptBit + IrqCode[p]
                       /\ \A q \in csr'.mie \cap irq : IrqRank[p] <= IrqRank[q]
<1>1. IInv /\ [Next]_vars
      => [(state # "IRQ" /\ state' = "IRQ" /\ csr'.mcause >= InterruptBit) => Due]_vars
  <2> SUFFICES ASSUME IInv, Next, state # "IRQ", state' = "IRQ", csr'.mcause >= InterruptBit
               PROVE  Due
    OBVIOUS
  <2>1. ASSUME NEW c, NEW next, NEW s, s # "IRQ", Boundary(c, next, s)
        PROVE  Due
    <3>1. csr' = InterruptEntry(c, next, irq) /\ IrqTrapPending(c, irq)
      BY <2>1 DEF Boundary
    <3>2. /\ csr'.mstatus = TrapMstatus(c.mstatus) /\ csr'.mie = c.mie
          /\ csr'.mcause = IrqCause(c.mie \cap irq)
      BY <3>1 DEF InterruptEntry, TrapEntry, IrqEnabled
    <3>3. csr'.mstatus = {"MPP", "MPIE"}
      BY <3>1, <3>2 DEF TrapMstatus, IrqTrapPending
    <3>4. c.mie \cap irq # {} /\ c.mie \cap irq \subseteq IrqSource
      BY <3>1, PinsAssumption DEF IrqTrapPending, IrqEnabled, IInv, TypeOK
    <3>5. /\ IrqRank["external"] = 0 /\ IrqRank["software"] = 1 /\ IrqRank["timer"] = 2
          /\ IrqCode["external"] = 11 /\ IrqCode["software"] = 3 /\ IrqCode["timer"] = 7
      BY DEF IrqRank, IrqCode, IrqSource
    <3>6. \E p \in c.mie \cap irq :
             /\ IrqCause(c.mie \cap irq) = InterruptBit + IrqCode[p]
             /\ \A q \in c.mie \cap irq : IrqRank[p] <= IrqRank[q]
      <4> DEFINE pins == c.mie \cap irq
      <4>1. pins # {} /\ \A q \in pins : q \in {"external", "software", "timer"}
        BY <3>4 DEF IrqSource
      <4>2. CASE "external" \in pins
        BY <4>1, <4>2, <3>5 DEF IrqCause
      <4>3. CASE "external" \notin pins /\ "software" \in pins
        <5>1. \A q \in pins : q \in {"software", "timer"}
          BY <4>1, <4>3
        <5> QED BY <5>1, <4>3, <3>5 DEF IrqCause
      <4>4. CASE "external" \notin pins /\ "software" \notin pins
        <5>1. "timer" \in pins /\ \A q \in pins : q = "timer"
          BY <4>1, <4>4
        <5> QED BY <5>1, <4>4, <3>5 DEF IrqCause
      <4> QED BY <4>2, <4>3, <4>4
    <3> QED BY <3>2, <3>3, <3>6
  <2>2. ASSUME NEW epc, NEW cause \in {FetchAccessFault, LoadAccessFault, StoreAccessFault},
               NEW tval, Fault(epc, cause, tval)
        PROVE  FALSE
    BY <2>2 DEF Fault, TrapEntry, FetchAccessFault, LoadAccessFault, StoreAccessFault,
      InterruptBit
  <2>3. CASE ResetCycle \/ IrqCycle
    BY <2>3 DEF ResetCycle, IrqCycle
  <2>4. CASE SleepCycle
    BY <2>1, <2>4 DEF SleepCycle
  <2>5. ASSUME NEW arFire \in BOOLEAN, ReadCycle(arFire)
        PROVE  Due
    <3>1. CASE FetchFault(arFire) \/ LoadFault(arFire)
      BY <2>2, <3>1 DEF FetchFault, LoadFault
    <3>2. CASE CommitRetire(arFire) \/ LoadDone(arFire)
      <4>1. PICK c, next, s : s # "IRQ" /\ Boundary(c, next, s)
        BY <3>2 DEF CommitRetire, LoadDone
      <4> QED BY <2>1, <4>1
    <3> QED BY <2>5, <3>1, <3>2
        DEF ReadCycle, FetchCycle, FetchStraddle, CommitTrap, CommitMem, LoadCycle
  <2>6. ASSUME NEW awFire \in BOOLEAN, NEW wFire \in BOOLEAN, WriteCycle(awFire, wFire)
        PROVE  Due
    BY <2>1, <2>2, <2>6 DEF WriteCycle, StoreCycle, StoreFault, StoreDone
  <2> QED BY <2>3, <2>4, <2>5, <2>6 DEF Next
<1> QED BY <1>1, Inductive, PTL DEF Spec, InterruptIsDue

\* Interrupts are turned on by MRET or a write of mstatus, and by nothing else.
THEOREM MaskedInterrupts == Spec => InterruptsStayMasked
<1> DEFINE Deliberate ==
      /\ Fetching /\ state' \in {"RUN", "SLEEP"}
      /\ \/ Arch!InstrAtPc.op = "mret"
         \/ Arch!InstrAtPc.op = "csr" /\ Arch!InstrAtPc.csr = "mstatus"
<1>1. IInv /\ [Next]_vars
      => [("MIE" \notin csr.mstatus /\ "MIE" \in csr'.mstatus) => Deliberate]_vars
  <2> SUFFICES ASSUME IInv, Next, "MIE" \notin csr.mstatus, "MIE" \in csr'.mstatus
               PROVE  Deliberate
    OBVIOUS
  <2> USE DEF arch
  <2>1. ASSUME NEW epc, NEW cause, NEW tval, Fault(epc, cause, tval)
        PROVE  FALSE
    BY <2>1, TrapEntryMasks DEF Fault
  <2>2. ASSUME NEW next, NEW s, Boundary(csr, next, s)
        PROVE  FALSE
    BY <2>2, TrapEntryMasks DEF Boundary, InterruptEntry
  <2>3. CASE ResetCycle \/ IrqCycle \/ SleepCycle
    BY <2>2, <2>3 DEF ResetCycle, IrqCycle, SleepCycle
  <2>4. ASSUME NEW arFire \in BOOLEAN, CommitRetire(arFire)
        PROVE  Deliberate
    <3> DEFINE i == Arch!InstrAtPc
               after == IF i.op = "wfi" THEN "SLEEP" ELSE "RUN"
    <3>1. CommitNow(arFire)
      BY <2>4 DEF CommitRetire
    <3>2. DecodedInstr(CommitInsn(arFire)) = i /\ i \in Instr
      BY <3>1, CommitsInsnAtPc, CommitType
    <3>3. PICK next : Boundary(PostCommitCsr(csr, i), next, after)
      BY <2>4, <3>2 DEF CommitRetire
    <3>4. state' = after /\ csr' = PostCommitCsr(csr, i)
      BY <3>3, TrapEntryMasks DEF Boundary, InterruptEntry
    <3>5. csr \in CsrState
      BY DEF IInv, TypeOK
    <3>6. i.op = "mret" \/ (i.op = "csr" /\ i.csr = "mstatus")
      BY <3>2, <3>4, <3>5, CommitUnmasks
    <3>7. Fetching
      BY <3>1 DEF CommitNow, FetchResponse
    <3> QED BY <3>4, <3>6, <3>7
  <2>5. ASSUME NEW arFire \in BOOLEAN, ReadCycle(arFire), ~CommitRetire(arFire)
        PROVE  FALSE
    <3>1. CASE CommitTrap(arFire)
      BY <3>1, TrapEntryMasks DEF CommitTrap
    <3>2. CASE FetchFault(arFire) \/ LoadFault(arFire)
      BY <2>1, <3>2 DEF FetchFault, LoadFault
    <3>3. CASE LoadDone(arFire)
      BY <2>2, <3>3 DEF LoadDone
    <3>4. CASE FetchCycle(arFire) \/ FetchStraddle(arFire) \/ CommitMem(arFire)
                 \/ LoadCycle(arFire)
      BY <3>4 DEF FetchCycle, FetchStraddle, CommitMem, LoadCycle
    <3> QED BY <2>5, <3>1, <3>2, <3>3, <3>4 DEF ReadCycle
  <2>6. ASSUME NEW awFire \in BOOLEAN, NEW wFire \in BOOLEAN, WriteCycle(awFire, wFire)
        PROVE  FALSE
    BY <2>1, <2>2, <2>6 DEF WriteCycle, StoreCycle, StoreFault, StoreDone
  <2> QED BY <2>3, <2>4, <2>5, <2>6 DEF Next
<1> QED BY <1>1, Inductive, PTL DEF Spec, InterruptsStayMasked

\* WFI leaves the port silent: every access was over when the core fell asleep.
THEOREM QuietSleep == Spec => []SleepIsQuiet
<1> DEFINE NoPulse == state = "SLEEP" => ~trapEvent
<1>1. Init => NoPulse
  BY DEF Init
<1>2. NoPulse /\ [Next]_vars => NoPulse'
  <2> SUFFICES ASSUME NoPulse, [Next]_vars PROVE NoPulse'
    OBVIOUS
  <2>1. CASE ResetCycle \/ IrqCycle \/ SleepCycle
    BY <2>1 DEF ResetCycle, IrqCycle, SleepCycle
  <2>2. ASSUME NEW arFire \in BOOLEAN, ReadCycle(arFire)
        PROVE  NoPulse'
    BY <2>2 DEF ReadCycle, FetchCycle, FetchFault, Fault, FetchStraddle, CommitTrap,
      CommitRetire, CommitMem, LoadCycle, LoadFault, LoadDone
  <2>3. ASSUME NEW awFire \in BOOLEAN, NEW wFire \in BOOLEAN, WriteCycle(awFire, wFire)
        PROVE  NoPulse'
    BY <2>3 DEF WriteCycle, StoreCycle, StoreFault, StoreDone, Fault
  <2>4. CASE UNCHANGED vars
    BY <2>4 DEF vars
  <2> QED BY <2>1, <2>2, <2>3, <2>4 DEF Next
<1>3. IInv /\ NoPulse => SleepIsQuiet
  <2> SUFFICES ASSUME IInv, NoPulse, state = "SLEEP" PROVE SleepIsQuiet
    BY DEF SleepIsQuiet
  <2>1. reads = <<>> /\ awrites = <<>> /\ wwrites = <<>>
    BY DEF IInv, ResponsesExpected, Fetching
  <2>2. stalled.ar = {} /\ stalled.aw = {} /\ stalled.w = {}
    BY DEF IInv, RequestsStable, Requests, ArValid, FetchArValid, LoadArValid, Fetching,
      AwValid, WValid
  <2>3. stalled = [ar |-> {}, aw |-> {}, w |-> {}]
    BY <2>2 DEF IInv, TypeOK
  <2> QED BY <2>1, <2>3 DEF SleepIsQuiet
<1> HIDE DEF NoPulse
<1> QED BY <1>1, <1>2, <1>3, Inductive, PTL DEF Spec

(***************************************************************************)
(* Refinement: the core implements the atomic architecture                 *)
(***************************************************************************)

\* Reset states are reset states of the architecture.
LEMMA ArchInit ==
  ASSUME Init
  PROVE  Arch!Init
BY ImagesAssumption, ArchBasics DEF Init, Arch!Init, DataAddr

\* A step that changes nothing software can see is a wait of the architecture.
LEMMA ArchWait ==
  ASSUME irq' \in SUBSET Pins, UNCHANGED <<gpr, csr, dmem, imem>>,
         (state' = "SLEEP") <=> (state = "SLEEP"),
         (IF state' = "IRQ" THEN csr'.mtvec ELSE pc')
           = (IF state = "IRQ" THEN csr.mtvec ELSE pc)
  PROVE  Arch!Next
BY DEF Arch!Next, Arch!Wait, Arch!PinsMove

\* A boundary of the core is a boundary of the architecture.
LEMMA ArchBoundary ==
  ASSUME NEW c, NEW next, NEW sleep \in BOOLEAN, NEW s,
         s = (IF sleep THEN "SLEEP" ELSE "RUN"),
         Boundary(c, next, s), pc' = next
  PROVE  Arch!Boundary(c, next, sleep)
<1>1. CASE IrqTrapPending(c, irq)
  <2>1. state' = "IRQ" /\ csr' = InterruptEntry(c, next, irq)
    BY <1>1 DEF Boundary
  <2>2. csr'.mtvec = c.mtvec
    BY <2>1, TrapEntryMasks DEF InterruptEntry
  <2> QED BY <1>1, <2>1, <2>2, ArchInterrupts DEF Arch!Boundary
<1>2. CASE ~IrqTrapPending(c, irq)
  BY <1>2, ArchInterrupts DEF Boundary, Arch!Boundary
<1> QED BY <1>1, <1>2

\* A refused access is an access fault of the architecture.
LEMMA ArchFault ==
  ASSUME state \notin {"IRQ", "SLEEP"}, NEW cause, NEW tval, Fault(pc, cause, tval)
  PROVE  Arch!Trap(cause, tval)
<1>1. csr'.mtvec = csr.mtvec
  BY TrapEntryMasks DEF Fault
<1> QED BY <1>1, ArchBasics DEF Fault, Arch!Trap

\* In a memory phase the bus shows the address the instruction computes.
LEMMA MemoryPhaseFacts ==
  ASSUME IInv, state \in {"LOAD", "STORE"}
  PROVE  LET i == Arch!InstrAtPc IN
           /\ i.op = IF state = "LOAD" THEN "load" ELSE "store"
           /\ ~Arch!ExecTrap(i, gpr)
           /\ mem.epc = pc /\ mem.nextPc = Plus(pc, Arch!InsnAtPc.len)
           /\ mem.addr = MemAddr(i, gpr) /\ mem.rd = i.rd /\ mem.data = ReadReg(gpr, i.rs2)
           /\ WordAddr(mem.addr) = MemAddr(i, gpr)
<1> DEFINE i == Arch!InstrAtPc
<1>1. /\ i.op = IF state = "LOAD" THEN "load" ELSE "store"
      /\ ~ExecTrap(i, gpr)
      /\ mem.epc = pc /\ mem.nextPc = Plus(pc, Arch!InsnAtPc.len)
      /\ mem.addr = MemAddr(i, gpr) /\ mem.rd = i.rd /\ mem.data = ReadReg(gpr, i.rs2)
  BY DEF IInv, MemoryPhaseMatchesProgram
<1>2. mem.addr \in Word
  BY DEF IInv, TypeOK, MemRegs
<1> HIDE DEF i
<1>3. mem.addr % 2 = 0
  BY <1>1 DEF ExecTrap, Misaligned, MemOp
<1>4. WordAddr(mem.addr) = mem.addr
  BY <1>2, <1>3, EvenWord
<1> QED BY <1>1, <1>4, ArchTraps DEF i

\* Every step of the core is a step of the architecture or changes nothing it
\* can see.
LEMMA ArchStep ==
  ASSUME IInv, [Next]_vars
  PROVE  [Arch!Next]_(Arch!vars)
<1> USE DEF arch, writes
<1> DEFINE n == Arch!InsnAtPc
           i == Arch!InstrAtPc
<1>1. CASE ResetCycle
  BY <1>1, ArchWait DEF ResetCycle, Outside
<1>2. CASE IrqCycle
  BY <1>2, ArchWait DEF IrqCycle, Outside
<1>3. CASE SleepCycle
  <2>1. irq' \in SUBSET Pins /\ imem' = imem
    BY <1>3 DEF SleepCycle, Outside
  <2>2. CASE WakeRequest
    <3>1. Boundary(csr, pc, "RUN") /\ state = "SLEEP" /\ pc' = pc
      BY <1>3, <2>2 DEF SleepCycle
    <3>2. Arch!Boundary(csr, pc, FALSE)
      BY <3>1, ArchBoundary
    <3>3. Arch!IrqEnabled(csr, irq) # {}
      BY <2>2, ArchInterrupts DEF WakeRequest
    <3>4. Arch!Wake
      BY <1>3, <2>1, <3>1, <3>2, <3>3 DEF Arch!Wake, Arch!PinsMove, SleepCycle
    <3> QED BY <3>4 DEF Arch!Next
  <2>3. CASE ~WakeRequest
    BY <1>3, <2>1, <2>3, ArchWait DEF SleepCycle
  <2> QED BY <2>2, <2>3
<1>4. ASSUME NEW arFire \in BOOLEAN,
             \/ FetchCycle(arFire) \/ FetchStraddle(arFire) \/ CommitMem(arFire)
             \/ LoadCycle(arFire)
      PROVE  Arch!Next
  <2>1. irq' \in SUBSET Pins /\ imem' = imem
    BY <1>4 DEF FetchCycle, FetchStraddle, CommitMem, CommitNow, FetchResponse, LoadCycle,
      Outside
  <2>2. state \in {"RUN", "STRADDLE", "LOAD"} /\ state' \in {"RUN", "STRADDLE", "LOAD", "STORE"}
    BY <1>4 DEF FetchCycle, FetchStraddle, CommitMem, CommitNow, FetchResponse, LoadCycle,
      Fetching
  <2>3. UNCHANGED <<pc, gpr, csr, dmem>>
    BY <1>4 DEF FetchCycle, FetchStraddle, CommitMem, LoadCycle
  <2> QED BY <2>1, <2>2, <2>3, ArchWait
<1>5. ASSUME NEW arFire \in BOOLEAN, FetchFault(arFire)
      PROVE  Arch!Next
  <2>1. state \notin {"IRQ", "SLEEP"} /\ irq' \in SUBSET Pins /\ imem' = imem
    BY <1>5 DEF FetchFault, FetchResponse, Fetching, Outside
  <2>2. Arch!Trap(FetchAccessFault, AddrTval(pc))
    BY <1>5, <2>1, ArchFault DEF FetchFault
  <2>3. Arch!AccessFault
    BY <2>1, <2>2, ArchBasics
    DEF Arch!AccessFault, Arch!PinsMove, Arch!FetchAccessFault, FetchAccessFault
  <2> QED BY <2>3 DEF Arch!Next
<1>6. ASSUME NEW arFire \in BOOLEAN, CommitNow(arFire)
      PROVE  /\ state \notin {"IRQ", "SLEEP"} /\ Arch!PinsMove
             /\ CommitInsn(arFire) = n /\ DecodedInstr(CommitInsn(arFire)) = i
  BY <1>6, CommitsInsnAtPc DEF CommitNow, FetchResponse, Fetching, Outside, Arch!PinsMove
<1>7. ASSUME NEW arFire \in BOOLEAN, CommitTrap(arFire)
      PROVE  Arch!Next
  <2> HIDE DEF n, i
  <2>1. /\ ExecTrap(i, gpr) /\ pc' = csr.mtvec
        /\ csr' = TrapEntry(csr, pc, TrapCause(i, gpr), TrapValue(i, n, gpr))
        /\ state \notin {"IRQ", "SLEEP"} /\ state' = "RUN" /\ UNCHANGED <<gpr, dmem>>
        /\ Arch!PinsMove
    BY <1>6, <1>7 DEF CommitTrap
  <2>2. Arch!Trap(Arch!TrapCause(i, gpr), Arch!TrapValue(i, n, gpr))
    BY <2>1, ArchTraps, ArchBasics DEF Arch!Trap
  <2>3. Arch!Execute
    BY <2>1, <2>2, ArchTraps DEF Arch!Execute, n, i
  <2> QED BY <2>3 DEF Arch!Next
<1>8. ASSUME NEW arFire \in BOOLEAN, CommitRetire(arFire)
      PROVE  Arch!Next
  <2> DEFINE next == ExecNextPc(i, n.len, pc, gpr, csr.mepc)
             c == PostCommitCsr(csr, i)
  <2> HIDE DEF n, i
  <2>1. /\ ~ExecTrap(i, gpr) /\ ~MemOp(i) /\ gpr' = ExecGpr(i, n.len, pc, gpr)
        /\ pc' = next /\ Boundary(c, next, IF i.op = "wfi" THEN "SLEEP" ELSE "RUN")
        /\ state \notin {"IRQ", "SLEEP"} /\ UNCHANGED dmem /\ Arch!PinsMove
    BY <1>6, <1>8 DEF CommitRetire
  <2>2. Arch!Boundary(c, next, i.op = "wfi")
    <3> HIDE DEF c, next
    <3> QED BY <2>1, ArchBoundary
  <2>3. Arch!Retire(i, n)
    BY <2>1, <2>2, ArchTraps, ArchResults DEF Arch!Retire
  <2>4. Arch!Execute
    BY <2>1, <2>3, ArchTraps DEF Arch!Execute, n, i
  <2> QED BY <2>4 DEF Arch!Next
<1>9. ASSUME NEW arFire \in BOOLEAN, LoadResponse(arFire)
      PROVE  /\ state = "LOAD" /\ Arch!PinsMove
             /\ i.op = "load" /\ ~Arch!ExecTrap(i, gpr)
             /\ mem.epc = pc /\ mem.nextPc = Plus(pc, n.len)
             /\ mem.addr = MemAddr(i, gpr) /\ mem.rd = i.rd
             /\ Head(ReadsWith(arFire)).addr = MemAddr(i, gpr)
  <2>1. state = "LOAD" /\ Arch!PinsMove /\ (arFire => ArValid)
    BY <1>9 DEF LoadResponse, Outside, Arch!PinsMove
  <2>2. /\ i.op = "load" /\ ~Arch!ExecTrap(i, gpr)
        /\ mem.epc = pc /\ mem.nextPc = Plus(pc, n.len)
        /\ mem.addr = MemAddr(i, gpr) /\ mem.rd = i.rd
        /\ WordAddr(mem.addr) = MemAddr(i, gpr)
    BY <2>1, MemoryPhaseFacts
  <2>3. ReadsWith(arFire) = <<ArBits>>
    BY <1>9, <2>1, ReadQueue DEF LoadResponse, IInv
  <2>4. Head(ReadsWith(arFire)).addr = MemAddr(i, gpr)
    BY <2>1, <2>2, <2>3, OneRequest DEF ArBits
  <2> QED BY <2>1, <2>2, <2>4
<1>10. ASSUME NEW arFire \in BOOLEAN, LoadFault(arFire)
       PROVE  Arch!Next
  <2> HIDE DEF n, i
  <2>1. LoadResponse(arFire) /\ Fault(mem.epc, LoadAccessFault, AddrTval(mem.addr))
    BY <1>10 DEF LoadFault
  <2>2. Arch!Trap(LoadAccessFault, AddrTval(MemAddr(i, gpr)))
    BY <1>9, <2>1, ArchFault
  <2>3. Arch!Trap(Arch!LoadAccessFault, Arch!AddrTval(Arch!MemAddr(i, gpr)))
    BY <2>2, ArchBasics, ArchTraps DEF Arch!LoadAccessFault, LoadAccessFault
  <2>4. Arch!AccessFault
    BY <1>9, <2>1, <2>3 DEF Arch!AccessFault, i
  <2> QED BY <2>4 DEF Arch!Next
<1>11. ASSUME NEW arFire \in BOOLEAN, LoadDone(arFire)
       PROVE  Arch!Next
  <2> HIDE DEF n, i
  <2>1. LoadResponse(arFire) /\ pc' = mem.nextPc /\ Boundary(csr, mem.nextPc, "RUN")
        /\ UNCHANGED dmem /\ gpr' = WriteReg(gpr, mem.rd, dmem[Head(ReadsWith(arFire)).addr])
    BY <1>11 DEF LoadDone
  <2>2. Arch!Boundary(csr, Arch!Plus(pc, n.len), FALSE)
    BY <1>9, <2>1, ArchBoundary, ArchBasics
  <2>3. gpr' = Arch!WriteReg(gpr, i.rd, dmem[Arch!MemAddr(i, gpr)])
    BY <1>9, <2>1, ArchBasics, ArchTraps
  <2>4. Arch!Load
    BY <1>9, <2>1, <2>2, <2>3 DEF Arch!Load, i, n
  <2> QED BY <2>4 DEF Arch!Next
<1>12. ASSUME NEW awFire \in BOOLEAN, NEW wFire \in BOOLEAN, StoreCycle(awFire, wFire)
       PROVE  Arch!Next
  BY <1>12, ArchWait DEF StoreCycle, Outside
<1>13. ASSUME NEW awFire \in BOOLEAN, NEW wFire \in BOOLEAN, StoreResponse(awFire, wFire)
       PROVE  /\ state = "STORE" /\ Arch!PinsMove
              /\ i.op = "store" /\ ~Arch!ExecTrap(i, gpr)
              /\ mem.epc = pc /\ mem.nextPc = Plus(pc, n.len)
              /\ mem.addr = MemAddr(i, gpr)
              /\ Head(AwritesWith(awFire)) = MemAddr(i, gpr)
              /\ Head(WwritesWith(wFire)) = ReadReg(gpr, i.rs2)
  <2>1. state = "STORE" /\ Arch!PinsMove /\ (awFire => AwValid) /\ (wFire => WValid)
    BY <1>13 DEF StoreResponse, Outside, Arch!PinsMove
  <2>2. /\ i.op = "store" /\ ~Arch!ExecTrap(i, gpr)
        /\ mem.epc = pc /\ mem.nextPc = Plus(pc, n.len)
        /\ mem.addr = MemAddr(i, gpr) /\ mem.data = ReadReg(gpr, i.rs2)
        /\ WordAddr(mem.addr) = MemAddr(i, gpr)
    BY <2>1, MemoryPhaseFacts
  <2>3. AwritesWith(awFire) = <<AwBits>> /\ WwritesWith(wFire) = <<mem.data>>
    BY <1>13, <2>1, WriteQueues DEF StoreResponse, StoreBothDone, IInv
  <2> QED BY <2>1, <2>2, <2>3, OneRequest DEF AwBits
<1>14. ASSUME NEW awFire \in BOOLEAN, NEW wFire \in BOOLEAN, StoreFault(awFire, wFire)
       PROVE  Arch!Next
  <2> HIDE DEF n, i
  <2>1. StoreResponse(awFire, wFire) /\ Fault(mem.epc, StoreAccessFault, AddrTval(mem.addr))
    BY <1>14 DEF StoreFault
  <2>2. Arch!Trap(StoreAccessFault, AddrTval(MemAddr(i, gpr)))
    BY <1>13, <2>1, ArchFault
  <2>3. Arch!Trap(Arch!StoreAccessFault, Arch!AddrTval(Arch!MemAddr(i, gpr)))
    BY <2>2, ArchBasics, ArchTraps DEF Arch!StoreAccessFault, StoreAccessFault
  <2>4. Arch!AccessFault
    BY <1>13, <2>1, <2>3 DEF Arch!AccessFault, i
  <2> QED BY <2>4 DEF Arch!Next
<1>15. ASSUME NEW awFire \in BOOLEAN, NEW wFire \in BOOLEAN, StoreDone(awFire, wFire)
       PROVE  Arch!Next
  <2> HIDE DEF n, i
  <2>1. /\ StoreResponse(awFire, wFire) /\ pc' = mem.nextPc
        /\ Boundary(csr, mem.nextPc, "RUN") /\ UNCHANGED gpr
        /\ dmem' = [dmem EXCEPT ![Head(AwritesWith(awFire))] = Head(WwritesWith(wFire))]
    BY <1>15 DEF StoreDone
  <2>2. Arch!Boundary(csr, Arch!Plus(pc, n.len), FALSE)
    BY <1>13, <2>1, ArchBoundary, ArchBasics
  <2>3. dmem' = [dmem EXCEPT ![Arch!MemAddr(i, gpr)] = Arch!ReadReg(gpr, i.rs2)]
    BY <1>13, <2>1, ArchBasics, ArchTraps
  <2>4. Arch!Store
    BY <1>13, <2>1, <2>2, <2>3 DEF Arch!Store, i, n
  <2> QED BY <2>4 DEF Arch!Next
<1>16. CASE UNCHANGED vars
  BY <1>16 DEF vars, Arch!vars
<1> HIDE DEF n, i
<1> QED
  BY <1>1, <1>2, <1>3, <1>4, <1>5, <1>7, <1>8, <1>10, <1>11, <1>12, <1>14, <1>15, <1>16
  DEF Next, ReadCycle, WriteCycle

\* The core implements RV32E: what software and memory see of any run is a run
\* of the machine that executes one instruction per step.
THEOREM Refinement == Spec => ImplementsRV32E
<1>1. Init => Arch!Init
  BY ArchInit
<1>2. IInv /\ [Next]_vars => [Arch!Next]_(Arch!vars)
  BY ArchStep
<1> QED BY <1>1, <1>2, Inductive, PTL DEF Spec, ImplementsRV32E, Arch!Spec

\* The port of the core speaks AXI-Lite (the four parts together).
THEOREM PortTheorem == Spec => []PortProtocol
<1>1. RequestsStable /\ SingleOutstanding /\ ResponsesExpected /\ SleepIsQuiet => PortProtocol
  BY DEF PortProtocol
<1> QED BY <1>1, StableRequests, OneOutstanding, ExpectedResponses, QuietSleep, PTL

\* What was latched in earlier cycles is what program and registers say.
THEOREM LatchTheorem == Spec => []LatchesMatchProgram
<1>1. StraddleHoldsFirstHalf /\ MemoryPhaseMatchesProgram => LatchesMatchProgram
  BY DEF LatchesMatchProgram
<1> QED BY <1>1, StraddleTheorem, MatchingMemoryPhase, PTL

\* Interrupts enter when they are due and stay off until software turns them on.
THEOREM PreciseInterrupts == Spec => InterruptsPrecise
BY DueInterrupts, MaskedInterrupts DEF InterruptsPrecise
=============================================================================
