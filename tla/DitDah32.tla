------------------------------ MODULE DitDah32 ------------------------------
(***************************************************************************)
(* The production core of DitDah32 (enableJtag = false), clock edge by     *)
(* clock edge: the fetch, load and store handshakes on its AXI-Lite port,  *)
(* straddled instructions, commit, traps, interrupts and WFI.              *)
(*                                                                         *)
(* Every step is one rising edge.  The slave answers a request it has      *)
(* accepted, in the order it accepted them, after any number of cycles or  *)
(* in the very cycle of acceptance, with OKAY or an error; the flags an    *)
(* action takes (arFire, awFire, wFire) say which of the requests shown in *)
(* that cycle it accepts.  Interrupt pins move freely.                     *)
(***************************************************************************)
EXTENDS DitDah32Exec, Sequences

CONSTANTS
  ResetVector,   \* pc after reset
  Images,        \* instruction memories the hart may be started on
  Pins,          \* interrupt pins the environment drives
  SlaveDepth     \* requests per channel the slave will queue

ASSUME ResetVectorAssumption == ResetVector \in Word /\ ResetVector % 2 = 0
ASSUME ImagesAssumption == Images \subseteq [Word -> Halfword]
ASSUME PinsAssumption == Pins \subseteq IrqSource
ASSUME SlaveDepthAssumption == SlaveDepth \in Nat \ {0}

VARIABLES
  state,             \* control state (CoreState)
  pc, gpr, csr,      \* architectural registers
  fetchOutstanding,  \* a fetch address was accepted, its word is awaited
  memOutstanding,    \* the same for a load
  storeAwDone,       \* the store's address was accepted
  storeWDone,        \* the store's data was accepted
  straddleLow,       \* first parcel of a straddled instruction
  mem,               \* registers of the load or store in progress
  trapEvent,         \* registered trap pulse (status.trap)
  irq,               \* interrupt pins that are high
  reads,             \* slave: read requests accepted and not answered
  awrites, wwrites,  \* slave: write addresses and data accepted, not answered
  imem, dmem,        \* slave: instruction parcels and data words
  stalled            \* requests shown in the last cycle and not accepted

arch == <<pc, gpr, csr>>
storeFlags == <<storeAwDone, storeWDone>>
writes == <<awrites, wwrites, dmem>>
vars == <<state, arch, fetchOutstanding, memOutstanding, storeFlags,
          straddleLow, mem, trapEvent, irq, reads, writes, imem, stalled>>

CoreState == {"RESET", "RUN", "STRADDLE", "LOAD", "STORE", "SLEEP", "IRQ"}
DataAddr == {a \in Word : a % 2 = 0}
ReadRequest == [addr : DataAddr, prot : {"insn", "data"}]
MemRegs == [nextPc : Word, addr : Word, rd : RegField, data : Word, epc : Word]

(***************************************************************************)
(* AXI outputs of the cycle.                                               *)
(***************************************************************************)
Fetching == state \in {"RUN", "STRADDLE"}
FetchArValid == Fetching /\ ~fetchOutstanding
\* Mutant: the address is shown again while the word is awaited.
LoadArValidAlways == state = "LOAD"
LoadArValid == state = "LOAD" /\ ~memOutstanding
ArValid == FetchArValid \/ LoadArValid
\* Mutant: a straddled instruction reads its first word twice.
FetchAddrSameWord == WordAddr(pc)
FetchAddr == IF state = "STRADDLE" THEN Plus(pc, 1) ELSE WordAddr(pc)
ArBits == IF state = "LOAD" THEN [addr |-> WordAddr(mem.addr), prot |-> "data"]
          ELSE [addr |-> FetchAddr, prot |-> "insn"]
AwValid == state = "STORE" /\ ~storeAwDone
WValid == state = "STORE" /\ ~storeWDone
AwBits == WordAddr(mem.addr)

\* The requests on the three channels, as sets with at most one element.
Requests == [ar |-> {b \in {ArBits} : ArValid},
             aw |-> {b \in {AwBits} : AwValid},
             w  |-> {b \in {mem.data} : WValid}]

\* The slave's queues once it has taken what is offered to it in this cycle.
ReadsWith(arFire) == IF arFire THEN Append(reads, ArBits) ELSE reads
AwritesWith(awFire) == IF awFire THEN Append(awrites, AwBits) ELSE awrites
WwritesWith(wFire) == IF wFire THEN Append(wwrites, mem.data) ELSE wwrites

(***************************************************************************)
(* What happens outside the core in every cycle: the slave takes what it   *)
(* has room for, the pins move, the program stays.                         *)
(***************************************************************************)
Outside(arFire, awFire, wFire) ==
  /\ arFire => ArValid
  /\ awFire => AwValid
  /\ wFire => WValid
  /\ Len(ReadsWith(arFire)) <= SlaveDepth
  /\ Len(AwritesWith(awFire)) <= SlaveDepth /\ Len(WwritesWith(wFire)) <= SlaveDepth
  /\ stalled' = [ar |-> IF arFire THEN {} ELSE Requests.ar,
                 aw |-> IF awFire THEN {} ELSE Requests.aw,
                 w  |-> IF wFire THEN {} ELSE Requests.w]
  /\ irq' \in SUBSET Pins
  /\ UNCHANGED imem

(***************************************************************************)
(* Reset and initial state                                                 *)
(***************************************************************************)
Init ==
  /\ state = "RESET"
  /\ pc = ResetVector /\ gpr = [r \in Reg |-> 0] /\ csr = ResetCsr
  /\ fetchOutstanding = FALSE /\ memOutstanding = FALSE
  /\ storeAwDone = FALSE /\ storeWDone = FALSE
  /\ straddleLow = ZeroHalf
  /\ mem = [nextPc |-> 0, addr |-> 0, rd |-> 0, data |-> 0, epc |-> 0]
  /\ trapEvent = FALSE
  /\ irq \in SUBSET Pins
  /\ reads = <<>> /\ awrites = <<>> /\ wwrites = <<>>
  /\ imem \in Images
  /\ dmem = [a \in DataAddr |-> 0]
  /\ stalled = [ar |-> {}, aw |-> {}, w |-> {}]

ResetCycle ==
  /\ state = "RESET" /\ state' = "RUN"
  /\ fetchOutstanding' = FALSE /\ memOutstanding' = FALSE
  /\ storeAwDone' = FALSE /\ storeWDone' = FALSE
  /\ Outside(FALSE, FALSE, FALSE)
  /\ UNCHANGED <<arch, straddleLow, mem, trapEvent, reads, writes>>

(***************************************************************************)
(* Traps and interrupts                                                    *)
(***************************************************************************)

\* Mutant: mepc points past the instruction that was refused.
FaultSkips(epc, cause, tval) ==
  /\ state' = "IRQ"
  /\ csr' = TrapEntry(csr, Plus(epc, 1), cause, tval)
  /\ trapEvent' = TRUE
  /\ UNCHANGED <<pc, gpr, dmem>>

\* A response error: the trap CSRs are written now, pc follows in state IRQ.
Fault(epc, cause, tval) ==
  /\ state' = "IRQ"
  /\ csr' = TrapEntry(csr, epc, cause, tval)
  /\ trapEvent' = TRUE
  /\ UNCHANGED <<pc, gpr, dmem>>

\* Mutant: no interrupt while MPIE is set.
BoundaryUnlessMpie(c, next, s) ==
  IF IrqTrapPending(c, irq) /\ "MPIE" \notin c.mstatus
  THEN state' = "IRQ" /\ csr' = InterruptEntry(c, next, irq)
  ELSE state' = s /\ csr' = c

\* Between two instructions: with CSRs c, about to run next, in state s unless
\* an interrupt is due.
Boundary(c, next, s) ==
  IF IrqTrapPending(c, irq) THEN state' = "IRQ" /\ csr' = InterruptEntry(c, next, irq)
  ELSE state' = s /\ csr' = c

\* Second cycle of an interrupt or an access fault: go to the handler.
IrqCycle ==
  /\ state = "IRQ" /\ state' = "RUN"
  /\ pc' = csr.mtvec
  /\ trapEvent' = TRUE
  /\ Outside(FALSE, FALSE, FALSE)
  /\ UNCHANGED <<gpr, csr, fetchOutstanding, memOutstanding, storeFlags,
                 straddleLow, mem, reads, writes>>

\* Mutant: only an interrupt that may be taken ends WFI.
WakeRequestNeedsMie == IrqTrapPending(csr, irq)
WakeRequest == IrqEnabled(csr, irq) # {}

\* WFI holds the core until an enabled pin is high, then resumes or interrupts.
SleepCycle ==
  /\ state = "SLEEP"
  /\ IF WakeRequest THEN Boundary(csr, pc, "RUN")
     ELSE UNCHANGED <<state, csr>>
  /\ trapEvent' = FALSE
  /\ Outside(FALSE, FALSE, FALSE)
  /\ UNCHANGED <<pc, gpr, fetchOutstanding, memOutstanding, storeFlags,
                 straddleLow, mem, reads, writes>>

(***************************************************************************)
(* Fetch                                                                   *)
(***************************************************************************)

\* No response in this cycle; the address may be accepted.
FetchCycle(arFire) ==
  /\ Fetching
  /\ fetchOutstanding' = (fetchOutstanding \/ arFire)
  /\ reads' = ReadsWith(arFire)
  /\ trapEvent' = FALSE
  /\ Outside(arFire, FALSE, FALSE)
  /\ UNCHANGED <<state, arch, memOutstanding, storeFlags, straddleLow, mem, writes>>

\* A response, to an earlier request or to the one accepted in this cycle.
FetchResponse(arFire) ==
  /\ Fetching
  /\ fetchOutstanding \/ arFire
  /\ ReadsWith(arFire) # <<>>
  /\ reads' = Tail(ReadsWith(arFire))
  /\ fetchOutstanding' = FALSE
  /\ Outside(arFire, FALSE, FALSE)

\* The two parcels of the word the slave returns.
FetchedAddr(arFire) == Head(ReadsWith(arFire)).addr
FetchedLo(arFire) == imem[FetchedAddr(arFire)]
FetchedHi(arFire) == imem[Plus(FetchedAddr(arFire), 1)]

PcInHighHalf == pc % 2 = 1
SelectedParcel(arFire) ==
  IF PcInHighHalf THEN FetchedHi(arFire) ELSE FetchedLo(arFire)
Straddled32(arFire) == PcInHighHalf /\ FetchedHi(arFire) \notin Compressed

CommitInsn(arFire) ==
  IF state = "STRADDLE"
  THEN [len |-> 2, lo |-> straddleLow, hi |-> FetchedLo(arFire)]
  ELSE IF SelectedParcel(arFire) \in Compressed
  THEN [len |-> 1, lo |-> SelectedParcel(arFire), hi |-> ZeroHalf]
  ELSE [len |-> 2, lo |-> FetchedLo(arFire), hi |-> FetchedHi(arFire)]

CommitNow(arFire) ==
  FetchResponse(arFire) /\ (state = "STRADDLE" \/ ~Straddled32(arFire))

FetchFault(arFire) ==
  /\ FetchResponse(arFire)
  /\ Fault(pc, FetchAccessFault, AddrTval(pc))
  /\ UNCHANGED <<memOutstanding, storeFlags, straddleLow, mem, awrites, wwrites>>

\* Mutant: the wrong half of the first word is kept.
KeptParcelLow(arFire) == FetchedLo(arFire)
KeptParcel(arFire) == FetchedHi(arFire)

\* The word holds only the first half of the instruction at pc.
FetchStraddle(arFire) ==
  /\ FetchResponse(arFire)
  /\ state = "RUN" /\ Straddled32(arFire)
  /\ straddleLow' = KeptParcel(arFire)
  /\ state' = "STRADDLE"
  /\ trapEvent' = FALSE
  /\ UNCHANGED <<arch, memOutstanding, storeFlags, mem, writes>>

(***************************************************************************)
(* Commit                                                                  *)
(***************************************************************************)

\* The instruction traps: everything is done in the commit cycle.
CommitTrap(arFire) ==
  LET n == CommitInsn(arFire)  i == DecodedInstr(n) IN
  /\ CommitNow(arFire)
  /\ ExecTrap(i, gpr)
  /\ csr' = TrapEntry(csr, pc, TrapCause(i, gpr), TrapValue(i, n, gpr))
  /\ pc' = csr.mtvec
  /\ state' = "RUN"
  /\ trapEvent' = TRUE
  /\ UNCHANGED <<gpr, memOutstanding, storeFlags, straddleLow, mem, writes>>

\* The instruction retires at once.
CommitRetire(arFire) ==
  LET n == CommitInsn(arFire)
      i == DecodedInstr(n)
      next == ExecNextPc(i, n.len, pc, gpr, csr.mepc) IN
  /\ CommitNow(arFire)
  /\ ~ExecTrap(i, gpr) /\ ~MemOp(i)
  /\ gpr' = ExecGpr(i, n.len, pc, gpr)
  /\ pc' = next
  /\ Boundary(PostCommitCsr(csr, i), next, IF i.op = "wfi" THEN "SLEEP" ELSE "RUN")
  /\ trapEvent' = FALSE
  /\ UNCHANGED <<memOutstanding, storeFlags, straddleLow, mem, writes>>

\* What the memory phase keeps of instruction i.
MemPhase(i, n) ==
  [epc |-> pc, nextPc |-> Plus(pc, n.len), addr |-> MemAddr(i, gpr),
   rd |-> i.rd, data |-> ReadReg(gpr, i.rs2)]

\* A load or store: its operands are kept and the memory phase begins.
CommitMem(arFire) ==
  LET n == CommitInsn(arFire)  i == DecodedInstr(n) IN
  /\ CommitNow(arFire)
  /\ ~ExecTrap(i, gpr) /\ MemOp(i)
  /\ mem' = MemPhase(i, n)
  /\ state' = IF i.op = "load" THEN "LOAD" ELSE "STORE"
  /\ memOutstanding' = FALSE
  /\ storeAwDone' = FALSE /\ storeWDone' = FALSE
  /\ trapEvent' = FALSE
  /\ UNCHANGED <<arch, straddleLow, writes>>

(***************************************************************************)
(* Load                                                                    *)
(***************************************************************************)
LoadCycle(arFire) ==
  /\ state = "LOAD"
  /\ memOutstanding' = (memOutstanding \/ arFire)
  /\ reads' = ReadsWith(arFire)
  /\ trapEvent' = FALSE
  /\ Outside(arFire, FALSE, FALSE)
  /\ UNCHANGED <<state, arch, fetchOutstanding, storeFlags, straddleLow, mem, writes>>

LoadResponse(arFire) ==
  /\ state = "LOAD"
  /\ memOutstanding \/ arFire
  /\ ReadsWith(arFire) # <<>>
  /\ reads' = Tail(ReadsWith(arFire))
  /\ memOutstanding' = FALSE
  /\ Outside(arFire, FALSE, FALSE)
  /\ UNCHANGED <<fetchOutstanding, storeFlags, straddleLow, mem, awrites, wwrites>>

LoadFault(arFire) ==
  /\ LoadResponse(arFire)
  /\ Fault(mem.epc, LoadAccessFault, AddrTval(mem.addr))

LoadDone(arFire) ==
  /\ LoadResponse(arFire)
  /\ gpr' = WriteReg(gpr, mem.rd, dmem[Head(ReadsWith(arFire)).addr])
  /\ pc' = mem.nextPc
  /\ Boundary(csr, mem.nextPc, "RUN")
  /\ trapEvent' = FALSE
  /\ UNCHANGED dmem

(***************************************************************************)
(* Store: address and data are accepted independently, in any order.       *)
(***************************************************************************)
StoreCycle(awFire, wFire) ==
  /\ state = "STORE"
  /\ storeAwDone' = (storeAwDone \/ awFire) /\ storeWDone' = (storeWDone \/ wFire)
  /\ awrites' = AwritesWith(awFire) /\ wwrites' = WwritesWith(wFire)
  /\ trapEvent' = FALSE
  /\ Outside(FALSE, awFire, wFire)
  /\ UNCHANGED <<state, arch, fetchOutstanding, memOutstanding, straddleLow,
                 mem, reads, dmem>>

\* Mutant: address and data must be accepted in the same cycle.
StoreTogether(awFire, wFire) == awFire /\ wFire
StoreBothDone(awFire, wFire) == (storeAwDone \/ awFire) /\ (storeWDone \/ wFire)

StoreResponse(awFire, wFire) ==
  /\ state = "STORE"
  /\ StoreBothDone(awFire, wFire)
  /\ AwritesWith(awFire) # <<>> /\ WwritesWith(wFire) # <<>>
  /\ awrites' = Tail(AwritesWith(awFire)) /\ wwrites' = Tail(WwritesWith(wFire))
  /\ storeAwDone' = FALSE /\ storeWDone' = FALSE
  /\ Outside(FALSE, awFire, wFire)
  /\ UNCHANGED <<fetchOutstanding, memOutstanding, straddleLow, mem, reads>>

StoreFault(awFire, wFire) ==
  /\ StoreResponse(awFire, wFire)
  /\ Fault(mem.epc, StoreAccessFault, AddrTval(mem.addr))

StoreDone(awFire, wFire) ==
  /\ StoreResponse(awFire, wFire)
  /\ dmem' = [dmem EXCEPT ![Head(AwritesWith(awFire))] = Head(WwritesWith(wFire))]
  /\ pc' = mem.nextPc
  /\ Boundary(csr, mem.nextPc, "RUN")
  /\ trapEvent' = FALSE
  /\ UNCHANGED gpr

(***************************************************************************)
(* Specification                                                           *)
(***************************************************************************)
ReadCycle(arFire) ==
  \/ FetchCycle(arFire) \/ FetchFault(arFire) \/ FetchStraddle(arFire)
  \/ CommitTrap(arFire) \/ CommitRetire(arFire) \/ CommitMem(arFire)
  \/ LoadCycle(arFire) \/ LoadFault(arFire) \/ LoadDone(arFire)

WriteCycle(awFire, wFire) ==
  \/ StoreCycle(awFire, wFire)
  \/ StoreFault(awFire, wFire) \/ StoreDone(awFire, wFire)

Next ==
  \/ ResetCycle \/ IrqCycle \/ SleepCycle
  \/ \E arFire \in BOOLEAN : ReadCycle(arFire)
  \/ \E awFire, wFire \in BOOLEAN : WriteCycle(awFire, wFire)

Spec == Init /\ [][Next]_vars

(***************************************************************************)
(* The architecture this core implements: pc is already the handler's in   *)
(* state IRQ, and WFI is the control state SLEEP.                          *)
(***************************************************************************)
Arch == INSTANCE RV32E WITH
          pc <- (IF state = "IRQ" THEN csr.mtvec ELSE pc),
          sleeping <- (state = "SLEEP")

\* Seen by software and by the data memory, a run of the core is a run of the
\* atomic machine: however the bus stalls, splits or fails an access, however
\* an instruction straddles two words and whenever a pin moves, no instruction
\* is lost, repeated, merged with its neighbour or half done, every fault and
\* interrupt is precise, and MIE, MPIE, mepc, mcause and mtval follow from the
\* instruction stream and the pins alone.
ImplementsRV32E == Arch!Spec

(***************************************************************************)
(* Invariants                                                              *)
(***************************************************************************)
TypeOK ==
  /\ state \in CoreState
  /\ pc \in Word /\ gpr \in [Reg -> Word] /\ csr \in CsrState
  /\ fetchOutstanding \in BOOLEAN /\ memOutstanding \in BOOLEAN
  /\ storeAwDone \in BOOLEAN /\ storeWDone \in BOOLEAN
  /\ straddleLow \in Halfword
  /\ mem \in MemRegs
  /\ trapEvent \in BOOLEAN
  /\ irq \in SUBSET Pins
  /\ reads \in Seq(ReadRequest) /\ awrites \in Seq(DataAddr) /\ wwrites \in Seq(Word)
  /\ imem \in [Word -> Halfword] /\ dmem \in [DataAddr -> Word]
  /\ stalled \in [ar : SUBSET ReadRequest, aw : SUBSET DataAddr, w : SUBSET Word]

\* A request that was not accepted is shown unchanged in the next cycle, on
\* each of AR, AW and W, whatever the other channels and the pins do.
RequestsStable ==
  /\ stalled.ar \subseteq Requests.ar
  /\ stalled.aw \subseteq Requests.aw
  /\ stalled.w \subseteq Requests.w

\* At most one read and one write are in flight, never both kinds at once, and
\* no new address is shown while one is awaited.
SingleOutstanding ==
  /\ Len(reads) <= 1 /\ Len(awrites) <= 1 /\ Len(wwrites) <= 1
  /\ reads # <<>> => ~ArValid
  /\ awrites # <<>> => ~AwValid
  /\ wwrites # <<>> => ~WValid
  /\ reads # <<>> => awrites = <<>> /\ wwrites = <<>>

\* The handshake flags say what the slave owes: it owes a read exactly when
\* the phase that asked for it is still waiting, and the address it holds is
\* the one that phase needs, so every response is taken by its own request.
ResponsesExpected ==
  /\ reads = IF fetchOutstanding \/ memOutstanding THEN <<ArBits>> ELSE <<>>
  /\ fetchOutstanding => Fetching
  /\ memOutstanding => state = "LOAD"
  /\ awrites = IF state = "STORE" /\ storeAwDone THEN <<AwBits>> ELSE <<>>
  /\ wwrites = IF state = "STORE" /\ storeWDone THEN <<mem.data>> ELSE <<>>

\* While the second word of a straddled instruction is fetched, the parcel kept
\* from the first is the one at pc, and pc cannot be anywhere but in a high half.
StraddleHoldsFirstHalf ==
  state = "STRADDLE" => /\ PcInHighHalf
                        /\ straddleLow = imem[pc]
                        /\ straddleLow \notin Compressed

\* The memory phase still works for the instruction at pc: its latched
\* address, data, destination and successor are what the unchanged registers
\* and program say, and the access was checked for alignment and registers.
MemoryPhaseMatchesProgram ==
  state \in {"LOAD", "STORE"} =>
    LET n == Arch!InsnAtPc  i == Arch!InstrAtPc IN
      /\ i.op = IF state = "LOAD" THEN "load" ELSE "store"
      /\ ~ExecTrap(i, gpr)
      /\ mem.epc = pc /\ mem.nextPc = Plus(pc, n.len)
      /\ mem.addr = MemAddr(i, gpr)
      /\ mem.rd = i.rd /\ mem.data = ReadReg(gpr, i.rs2)

\* In SLEEP the port is silent and no trap is signalled, and the core only got
\* there with nothing left to do: no response is owed.
SleepIsQuiet ==
  state = "SLEEP" => /\ ~trapEvent
                     /\ reads = <<>> /\ awrites = <<>> /\ wwrites = <<>>
                     /\ stalled = [ar |-> {}, aw |-> {}, w |-> {}]

\* The port speaks AXI-Lite at all times: what is not accepted stays, one access is in
\* flight, every response meets the phase that waits for it, and a sleeping core owes none.
PortProtocol == RequestsStable /\ SingleOutstanding /\ ResponsesExpected /\ SleepIsQuiet

\* What the core has latched in earlier cycles - half an instruction, or the operands of an
\* access - is what the program and the registers say now.
LatchesMatchProgram == StraddleHoldsFirstHalf /\ MemoryPhaseMatchesProgram

(***************************************************************************)
(* Action properties                                                       *)
(***************************************************************************)

\* doc/requirements.md: external before software before timer.
IrqRank == [p \in IrqSource |-> IF p = "external" THEN 0 ELSE IF p = "software" THEN 1 ELSE 2]
IrqCode == [p \in IrqSource |-> IF p = "external" THEN 11 ELSE IF p = "software" THEN 3 ELSE 7]

\* An interrupt is only entered for a pin that is high in that cycle and enabled
\* by the mie the retiring instruction leaves behind, with MIE set by then, and
\* the reported cause is the first of those pins in the documented order.
InterruptIsDue ==
  [][(state # "IRQ" /\ state' = "IRQ" /\ csr'.mcause >= InterruptBit)
     => /\ csr'.mstatus = {"MPP", "MPIE"}
        /\ \E p \in csr'.mie \cap irq :
             /\ csr'.mcause = InterruptBit + IrqCode[p]
             /\ \A q \in csr'.mie \cap irq : IrqRank[p] <= IrqRank[q]]_vars

\* A refused access leaves no trace: when a response error sends the core to
\* the handler, registers and memory are untouched and mepc points at the
\* instruction that made the access, so MRET can retry it.
FaultIsPrecise ==
  [][state # "IRQ" /\ state' = "IRQ" /\ csr'.mcause \in
       {FetchAccessFault, LoadAccessFault, StoreAccessFault}
     => gpr' = gpr /\ dmem' = dmem /\ csr'.mepc = pc]_vars

\* The handler runs with interrupts off until software turns them on: MIE only
\* becomes set by MRET or a write of mstatus, never by a trap or by waking.
InterruptsStayMasked ==
  [][("MIE" \notin csr.mstatus /\ "MIE" \in csr'.mstatus)
     => /\ Fetching /\ state' \in {"RUN", "SLEEP"}
        /\ \/ Arch!InstrAtPc.op = "mret"
           \/ Arch!InstrAtPc.op = "csr" /\ Arch!InstrAtPc.csr = "mstatus"]_vars

\* Interrupts are precise: they enter when they are due, for the first pin in order, and
\* stay off until software turns them on.
InterruptsPrecise == InterruptIsDue /\ InterruptsStayMasked

(***************************************************************************)
(* Liveness.  The clock ticks; the slave accepts a request that stays, and *)
(* answers a request it has accepted.                                      *)
(***************************************************************************)
AcceptRead == ReadCycle(TRUE)
AnswerRead ==
  \E arFire \in BOOLEAN :
    /\ ReadCycle(arFire)
    /\ FetchResponse(arFire) \/ LoadResponse(arFire)
AcceptAddress == \E wFire \in BOOLEAN : WriteCycle(TRUE, wFire)
AcceptData == \E awFire \in BOOLEAN : WriteCycle(awFire, TRUE)
AnswerWrite ==
  \E awFire, wFire \in BOOLEAN :
    WriteCycle(awFire, wFire) /\ StoreResponse(awFire, wFire)

Fairness ==
  /\ WF_vars(Next)
  /\ WF_vars(AcceptRead) /\ WF_vars(AnswerRead)
  /\ WF_vars(AcceptAddress) /\ WF_vars(AcceptData) /\ WF_vars(AnswerWrite)

FairSpec == Spec /\ Fairness

\* The core never hangs on the bus: every access in progress comes to its end,
\* whichever order its handshakes happen in.
AccessesComplete ==
  /\ (state = "LOAD") ~> (state # "LOAD")
  /\ (state = "STORE") ~> (state # "STORE")
  /\ (state = "STRADDLE") ~> (state # "STRADDLE")
  /\ fetchOutstanding ~> ~fetchOutstanding
  /\ (stalled.ar # {}) ~> (stalled.ar = {})

\* WFI ends once an enabled pin is high, even with interrupts globally off.
SleepWakes == (state = "SLEEP" /\ IrqEnabled(csr, irq) # {}) ~> (state # "SLEEP")

\* An interrupt that stays due is taken: no instruction stream can keep it out.
InterruptTaken == []<>~IrqTrapPending(csr, irq)
=============================================================================
