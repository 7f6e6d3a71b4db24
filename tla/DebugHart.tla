----------------------------- MODULE DebugHart -----------------------------
(***************************************************************************)
(* The hart of DitDah32 built with enableJtag = true: the control of the   *)
(* core (DitDah32.scala) under the debug logic of DitDah32DebugHart.scala. *)
(* In the source the debug logic assigns last and so overrides what the    *)
(* core assigned in the same cycle: here the registers c a core cycle      *)
(* leaves are passed through Debugged(c, ends, at).                        *)
(*                                                                         *)
(* The program is the kind of the instruction at each address, one address *)
(* each; "wide" stands for one that straddles two words.  Data is left to  *)
(* DitDah32 and TraceCompare: reading memory returns the address read, the *)
(* program loads and stores at 0, mepc stands for the writable CSRs and    *)
(* registers, mie and mpie for the bits of mstatus.                        *)
(***************************************************************************)
EXTENDS DebugModule, Sequences

CONSTANTS
  Programs,     \* programs the hart may run
  Handler,      \* mtvec
  FetchErrors,  \* the bus may answer a fetch with an error
  DataErrors,   \* the same for every other access
  Interrupts,   \* an enabled interrupt pin may rise
  SlaveDepth    \* requests per channel the slave will queue

Kind == {"plain", "wide", "load", "store", "wfi", "ebreak", "trap", "mret", "setmie"}
ASSUME ProgramsAssumption == Programs \subseteq [Datum -> Kind] /\ Handler \in Datum
ASSUME BusAssumption == {FetchErrors, DataErrors, Interrupts} \subseteq BOOLEAN

VARIABLES
  hart,      \* registers of the hart
  program,   \* kind of the instruction at each address
  pin,       \* an interrupt that mie enables is pending
  reads,     \* slave: reads accepted and not answered
  awrites, wwrites,  \* slave: write addresses and data accepted, not answered
  stalled    \* requests shown in the last cycle and not accepted

writes == <<awrites, wwrites>>
hartVars == <<hart, program, pin, reads, writes, stalled>>

State == {"RESET", "RUN", "STRADDLE", "LOAD", "STORE", "SLEEP", "IRQ", "DEBUG"}
Access == [channel : {"ar", "aw", "w"}, by : {"first", "second", "data", "debug"}, at : Datum]

HartRegisters ==
  [state : State, pc : Datum, mie : BOOLEAN, mpie : BOOLEAN, mepc : Datum,
   fetchOutstanding : BOOLEAN, memOutstanding : BOOLEAN,
   awDone : BOOLEAN, wDone : BOOLEAN,
   dpc : Datum, cause : {"none", "ebreak", "halt", "step", "reset"},
   step : BOOLEAN, ebreakm : BOOLEAN, stepActive : BOOLEAN, resetActive : BOOLEAN,
   resumeAck : BOOLEAN, resetAck : BOOLEAN,
   abstractDone : BOOLEAN, abstractError : SUBSET (0 .. 2), abstractRdata : Datum,
   memBusy : BOOLEAN, memory : Latch, debugOutstanding : BOOLEAN,
   debugAwDone : BOOLEAN, debugWDone : BOOLEAN]

PowerOn ==
  [state |-> "RESET", pc |-> 0, mie |-> FALSE, mpie |-> FALSE, mepc |-> 0,
   fetchOutstanding |-> FALSE, memOutstanding |-> FALSE,
   awDone |-> FALSE, wDone |-> FALSE,
   dpc |-> 0, cause |-> "none",
   step |-> FALSE, ebreakm |-> FALSE, stepActive |-> FALSE, resetActive |-> FALSE,
   resumeAck |-> FALSE, resetAck |-> FALSE,
   abstractDone |-> FALSE, abstractError |-> NONE, abstractRdata |-> 0,
   memBusy |-> FALSE, memory |-> NoLatch, debugOutstanding |-> FALSE,
   debugAwDone |-> FALSE, debugWDone |-> FALSE]

HartInit ==
  /\ hart = PowerOn
  /\ program \in Programs
  /\ pin = FALSE
  /\ reads = <<>> /\ awrites = <<>> /\ wwrites = <<>>
  /\ stalled = {}

\* Mutant: the address does not wrap.
FollowingPast(a) == a + 1
Following(a) == (a + 1) % DataSize

(***************************************************************************)
(* Requests shown in the cycle, at most one on each channel.               *)
(***************************************************************************)
Fetching == hart.state \in {"RUN", "STRADDLE"}
DebugReads == hart.state = "DEBUG" /\ hart.memBusy /\ ~hart.memory.write
DebugWrites == hart.state = "DEBUG" /\ hart.memBusy /\ hart.memory.write

FetchArValid == Fetching /\ ~HaltReq /\ ~hart.fetchOutstanding
\* Mutant: a halt request holds back a load like a fetch.
LoadArValidGated == hart.state = "LOAD" /\ ~hart.memOutstanding /\ ~HaltReq
LoadArValid == hart.state = "LOAD" /\ ~hart.memOutstanding
DebugArValid == DebugReads /\ ~hart.debugOutstanding

ArBits ==
  IF hart.state = "DEBUG" THEN [channel |-> "ar", by |-> "debug", at |-> hart.memory.address]
  ELSE IF hart.state = "LOAD" THEN [channel |-> "ar", by |-> "data", at |-> 0]
  ELSE [channel |-> "ar", at |-> hart.pc,
        by |-> IF hart.state = "STRADDLE" THEN "second" ELSE "first"]
ArValid == FetchArValid \/ LoadArValid \/ DebugArValid

AwBits == IF hart.state = "DEBUG"
          THEN [channel |-> "aw", by |-> "debug", at |-> hart.memory.address]
          ELSE [channel |-> "aw", by |-> "data", at |-> 0]
WBits == IF hart.state = "DEBUG"
         THEN [channel |-> "w", by |-> "debug", at |-> hart.memory.data]
         ELSE [channel |-> "w", by |-> "data", at |-> 0]
AwValid == (hart.state = "STORE" /\ ~hart.awDone) \/ (DebugWrites /\ ~hart.debugAwDone)
WValid == (hart.state = "STORE" /\ ~hart.wDone) \/ (DebugWrites /\ ~hart.debugWDone)

Shown == {b \in {ArBits} : ArValid} \cup {b \in {AwBits} : AwValid}
         \cup {b \in {WBits} : WValid}

\* The slave's queues with what it accepts in this cycle.
ReadsWith(ar) == IF ar THEN Append(reads, ArBits) ELSE reads
AwritesWith(aw) == IF aw THEN Append(awrites, AwBits) ELSE awrites
WwritesWith(w) == IF w THEN Append(wwrites, WBits) ELSE wwrites

\* Some instruction of the program writes mie and sets MIE.
EnablesInterrupts == \E a \in Datum : program[a] = "setmie"

\* What happens outside the hart in every cycle.
Outside(ar, aw, w) ==
  /\ ar => ArValid /\ Len(reads) < SlaveDepth
  /\ aw => AwValid /\ Len(awrites) < SlaveDepth
  /\ w => WValid /\ Len(wwrites) < SlaveDepth
  /\ stalled' = {b \in Shown : /\ b.channel = "ar" => ~ar
                               /\ b.channel = "aw" => ~aw
                               /\ b.channel = "w" => ~w}
  /\ pin' \in IF Interrupts /\ EnablesInterrupts THEN BOOLEAN ELSE {FALSE}
  /\ UNCHANGED program

Accepts(ar, aw, w) ==
  /\ reads' = ReadsWith(ar) /\ awrites' = AwritesWith(aw) /\ wwrites' = WwritesWith(w)
  /\ Outside(ar, aw, w)

\* The slave answers the oldest read, or the oldest write.
AnswersRead(ar) ==
  /\ ReadsWith(ar) # <<>> /\ reads' = Tail(ReadsWith(ar))
  /\ Outside(ar, FALSE, FALSE)
  /\ UNCHANGED writes

AnswersWrite(aw, w) ==
  /\ AwritesWith(aw) # <<>> /\ awrites' = Tail(AwritesWith(aw))
  /\ WwritesWith(w) # <<>> /\ wwrites' = Tail(WwritesWith(w))
  /\ Outside(FALSE, aw, w)
  /\ UNCHANGED reads

(***************************************************************************)
(* The debug logic, in the order of its assignments.                       *)
(***************************************************************************)

\* A register is read or written; a memory access is refused or begun.
Commanded(c) ==
  LET l == dm.latch
      refused == IF l.type = "memory"
                 THEN IF l.size = 2 /\ l.address % 2 = 1 THEN BUS ELSE NONE
                 ELSE IF l.regno = "unknown" \/ (l.regno = "readonly" /\ l.write)
                 THEN EXCEPTION ELSE NONE
      writesTo(r) == refused = NONE /\ l.write /\ l.regno = r
  IN
  IF ~dm.valid THEN c
  ELSE IF l.type = "memory" /\ refused = NONE
  THEN [c EXCEPT !.memBusy = TRUE, !.memory = l, !.debugOutstanding = FALSE,
                 !.debugAwDone = FALSE, !.debugWDone = FALSE]
  ELSE [c EXCEPT !.abstractDone = TRUE,
         !.abstractError = IF refused # NONE THEN refused ELSE @,
         !.mepc = IF writesTo("mepc") THEN l.data ELSE @,
         !.dpc = IF writesTo("dpc") THEN l.data ELSE @,
         !.step = IF writesTo("dcsr") THEN l.data % 2 = 1 ELSE @,
         !.ebreakm = IF writesTo("dcsr") THEN (l.data \div 2) % 2 = 1 ELSE @,
         !.abstractRdata =
            IF refused # NONE \/ l.write THEN @
            ELSE CASE l.regno = "mepc" -> hart.mepc
                   [] l.regno = "dpc" -> hart.dpc
                   [] l.regno = "dcsr" -> (IF hart.step THEN 1 ELSE 0)
                                          + (IF hart.ebreakm THEN 2 ELSE 0)
                   [] OTHER -> 0]

\* How a core cycle ended: "commit" of an instruction that needs no memory,
\* the end of its "memory" phase, an "ebreak" into debug mode, the cycle of
\* "irq", a "fetch" phase with no response owed, "sleep"; or "busy".
Ends == {"commit", "memory", "ebreak", "irq", "fetch", "sleep", "busy"}

EndsStep(ends) == ends \in {"commit", "memory"}

\* Mutant: a hart that waits for an interrupt does not halt.
HaltsUnlessAsleep(ends) == ends \in {"fetch", "irq", "memory"}
EndsForHalt(ends) == ends \in {"fetch", "sleep", "irq", "memory"}

Stopped(c, ends, at) ==
  LET steps == hart.stepActive /\ EndsStep(ends)
      halts == HaltReq /\ EndsForHalt(ends) IN
  IF ~(steps \/ halts \/ ends = "ebreak") THEN c
  ELSE [c EXCEPT !.state = "DEBUG",
                 !.pc = IF ends \in {"commit", "memory", "irq"} THEN at ELSE @,
                 !.dpc = at,
                 !.cause = IF halts THEN "halt" ELSE IF ends = "ebreak" THEN "ebreak"
                           ELSE "step",
                 !.stepActive = @ /\ ~steps]

\* Mutant: the fetch goes on where the core stopped.
ResumedAtPc(c) ==
  IF hart.state = "DEBUG" /\ ResumeReq /\ ~hart.memBusy
  THEN [c EXCEPT !.state = "RUN", !.fetchOutstanding = FALSE,
                 !.stepActive = hart.step, !.resumeAck = TRUE]
  ELSE c

\* Mutant: the module is not told.
ResumedSilently(c) ==
  IF hart.state = "DEBUG" /\ ResumeReq /\ ~hart.memBusy
  THEN [c EXCEPT !.state = "RUN", !.pc = hart.dpc, !.fetchOutstanding = FALSE,
                 !.stepActive = hart.step]
  ELSE c

Resumed(c) ==
  IF hart.state = "DEBUG" /\ ResumeReq /\ ~hart.memBusy
  THEN [c EXCEPT !.state = "RUN", !.pc = hart.dpc, !.fetchOutstanding = FALSE,
                 !.stepActive = hart.step, !.resumeAck = TRUE]
  ELSE c

\* While reset is requested; the pulses and the latched access are left.
UnderReset(c) ==
  IF ~ResetReq THEN c
  ELSE [PowerOn EXCEPT !.resetActive = TRUE,
          !.resumeAck = c.resumeAck, !.memory = c.memory,
          !.abstractDone = c.abstractDone, !.abstractError = c.abstractError,
          !.abstractRdata = c.abstractRdata]

\* The first cycle without the request.
Released(c) ==
  IF ~hart.resetActive \/ ResetReq THEN c
  ELSE IF HaltOnResetReq \/ HaltReq
  THEN [c EXCEPT !.resetActive = FALSE, !.resetAck = TRUE, !.state = "DEBUG",
                 !.dpc = 0, !.cause = IF HaltOnResetReq THEN "reset" ELSE "halt"]
  ELSE [c EXCEPT !.resetActive = FALSE, !.resetAck = TRUE, !.state = "RUN"]

Debugged(c, ends, at) == Released(UnderReset(Resumed(Stopped(Commanded(c), ends, at))))

(***************************************************************************)
(* The core's cycles.                                                      *)
(***************************************************************************)

\* The registers of the core as it finds them: the pulses are over.
Base == [hart EXCEPT !.resumeAck = FALSE, !.resetAck = FALSE,
                     !.abstractDone = FALSE, !.abstractError = NONE]

Trapped(c, epc) == [c EXCEPT !.mpie = c.mie, !.mie = FALSE, !.mepc = epc]

InterruptDue(c) == pin /\ c.mie /\ ~hart.stepActive

\* Between two instructions: pc is the next one's.
Boundary(c) == IF InterruptDue(c) THEN [Trapped(c, c.pc) EXCEPT !.state = "IRQ"] ELSE c

ResetCycle ==
  /\ hart.state = "RESET"
  /\ hart' = Debugged([Base EXCEPT !.state = "RUN", !.fetchOutstanding = FALSE,
                         !.memOutstanding = FALSE, !.awDone = FALSE, !.wDone = FALSE],
                      "busy", hart.pc)
  /\ Accepts(FALSE, FALSE, FALSE)

IrqCycle ==
  /\ hart.state = "IRQ"
  /\ hart' = Debugged([Base EXCEPT !.state = "RUN", !.pc = Handler], "irq", Handler)
  /\ Accepts(FALSE, FALSE, FALSE)

SleepCycle ==
  /\ hart.state = "SLEEP"
  /\ hart' = Debugged(IF pin THEN Boundary([Base EXCEPT !.state = "RUN"]) ELSE Base,
                      "sleep", hart.pc)
  /\ Accepts(FALSE, FALSE, FALSE)

FetchCycle(ar) ==
  /\ Fetching
  /\ hart' = Debugged([Base EXCEPT !.fetchOutstanding = @ \/ ar],
                      IF hart.fetchOutstanding THEN "busy" ELSE "fetch", hart.pc)
  /\ Accepts(ar, FALSE, FALSE)

FetchResponse(ar) == Fetching /\ (hart.fetchOutstanding \/ ar) /\ AnswersRead(ar)
Responded == [Base EXCEPT !.fetchOutstanding = FALSE]

\* The instruction is what the answered word holds.
Fetched(ar) ==
  IF hart.state = "STRADDLE" THEN "wide" ELSE program[Head(ReadsWith(ar)).at]
NextPc(kind) == IF kind = "mret" THEN hart.mepc ELSE Following(hart.pc)

FetchFault(ar) ==
  /\ FetchErrors /\ FetchResponse(ar)
  /\ hart' = Debugged([Trapped(Responded, hart.pc) EXCEPT !.state = "IRQ"], "fetch", hart.pc)

FetchStraddle(ar) ==
  /\ FetchResponse(ar)
  /\ hart.state = "RUN" /\ Fetched(ar) = "wide"
  /\ hart' = Debugged([Responded EXCEPT !.state = "STRADDLE"], "fetch", hart.pc)

\* A response with an instruction to commit, unless a halt is requested.
Arrives(ar) == FetchResponse(ar) /\ ~(hart.state = "RUN" /\ Fetched(ar) = "wide")

\* It is not committed; pc moves all the same, to no effect.
Dropped(ar) ==
  LET k == Fetched(ar)  memory == k \in {"load", "store"} IN
  /\ Arrives(ar) /\ HaltReq
  /\ hart' = Debugged([Responded EXCEPT !.pc = IF memory THEN @ ELSE NextPc(k),
                         !.state = IF memory THEN @ ELSE "RUN"], "fetch", hart.pc)

CommitEbreak(ar) ==
  /\ Arrives(ar) /\ ~HaltReq
  /\ Fetched(ar) = "ebreak" /\ hart.ebreakm
  /\ hart' = Debugged([Responded EXCEPT !.pc = NextPc("ebreak")], "ebreak", hart.pc)

CommitTrap(ar) ==
  /\ Arrives(ar) /\ ~HaltReq
  /\ Fetched(ar) = "trap" \/ (Fetched(ar) = "ebreak" /\ ~hart.ebreakm)
  /\ hart' = Debugged([Trapped(Responded, hart.pc) EXCEPT !.pc = Handler, !.state = "RUN"],
                      "commit", Handler)

CommitRetire(ar) ==
  LET k == Fetched(ar)
      c == [Responded EXCEPT
              !.pc = NextPc(k), !.state = IF k = "wfi" THEN "SLEEP" ELSE "RUN",
              !.mie = CASE k = "mret" -> hart.mpie [] k = "setmie" -> TRUE [] OTHER -> @,
              !.mpie = @ \/ k = "mret"] IN
  /\ Arrives(ar) /\ ~HaltReq
  /\ k \in {"plain", "wide", "wfi", "mret", "setmie"}
  /\ hart' = Debugged(Boundary(c), "commit", NextPc(k))

CommitMem(ar) ==
  /\ Arrives(ar) /\ ~HaltReq
  /\ Fetched(ar) \in {"load", "store"}
  /\ hart' = Debugged([Responded EXCEPT
                         !.state = IF Fetched(ar) = "load" THEN "LOAD" ELSE "STORE",
                         !.memOutstanding = FALSE, !.awDone = FALSE, !.wDone = FALSE],
                      "busy", hart.pc)

\* The memory phase ends: at the handler, or after the instruction.
MemFault(c) == Debugged([Trapped(c, hart.pc) EXCEPT !.state = "IRQ"], "memory", Handler)
MemDone(c) == Debugged(Boundary([c EXCEPT !.pc = Following(hart.pc), !.state = "RUN"]),
                       "memory", Following(hart.pc))
MemEnd(c) == IF DataErrors THEN {MemFault(c), MemDone(c)} ELSE {MemDone(c)}

LoadCycle(ar) ==
  /\ hart.state = "LOAD"
  /\ hart' = Debugged([Base EXCEPT !.memOutstanding = @ \/ ar], "busy", hart.pc)
  /\ Accepts(ar, FALSE, FALSE)

LoadResponse(ar) ==
  /\ hart.state = "LOAD" /\ (hart.memOutstanding \/ ar)
  /\ AnswersRead(ar)
  /\ hart' \in MemEnd([Base EXCEPT !.memOutstanding = FALSE])

StoreCycle(aw, w) ==
  /\ hart.state = "STORE"
  /\ hart' = Debugged([Base EXCEPT !.awDone = @ \/ aw, !.wDone = @ \/ w], "busy", hart.pc)
  /\ Accepts(FALSE, aw, w)

StoreResponse(aw, w) ==
  /\ hart.state = "STORE" /\ (hart.awDone \/ aw) /\ (hart.wDone \/ w)
  /\ AnswersWrite(aw, w)
  /\ hart' \in MemEnd([Base EXCEPT !.awDone = FALSE, !.wDone = FALSE])

(***************************************************************************)
(* Cycles in debug mode: nothing, or the access of an abstract command.    *)
(***************************************************************************)
DebugIdle ==
  /\ hart.state = "DEBUG" /\ ~hart.memBusy
  /\ hart' = Debugged(Base, "busy", hart.pc)
  /\ Accepts(FALSE, FALSE, FALSE)

DebugRead(ar) ==
  /\ DebugReads
  /\ hart' = Debugged([Base EXCEPT !.debugOutstanding = @ \/ ar], "busy", hart.pc)
  /\ Accepts(ar, FALSE, FALSE)

\* Mutant: the module is not told.
DoneSilently == [Base EXCEPT !.memBusy = FALSE]
\* The access is over; the module is told.
DebugDone == [Base EXCEPT !.memBusy = FALSE, !.abstractDone = TRUE]

DebugReadResponse(ar) ==
  LET c == [DebugDone EXCEPT !.debugOutstanding = FALSE] IN
  /\ DebugReads /\ (hart.debugOutstanding \/ ar)
  /\ AnswersRead(ar)
  /\ \/ hart' = Debugged([c EXCEPT !.abstractRdata = Head(ReadsWith(ar)).at], "busy", hart.pc)
     \/ DataErrors /\ hart' = Debugged([c EXCEPT !.abstractError = BUS], "busy", hart.pc)

DebugWrite(aw, w) ==
  /\ DebugWrites
  /\ hart' = Debugged([Base EXCEPT !.debugAwDone = @ \/ aw, !.debugWDone = @ \/ w],
                      "busy", hart.pc)
  /\ Accepts(FALSE, aw, w)

DebugWriteResponse(aw, w) ==
  LET c == [DebugDone EXCEPT !.debugAwDone = FALSE, !.debugWDone = FALSE] IN
  /\ DebugWrites /\ (hart.debugAwDone \/ aw) /\ (hart.debugWDone \/ w)
  /\ AnswersWrite(aw, w)
  /\ \/ hart' = Debugged(c, "busy", hart.pc)
     \/ DataErrors /\ hart' = Debugged([c EXCEPT !.abstractError = BUS], "busy", hart.pc)

(***************************************************************************)
(* Every cycle.                                                            *)
(***************************************************************************)
ReadCycle(ar) ==
  \/ FetchCycle(ar) \/ FetchFault(ar) \/ FetchStraddle(ar) \/ Dropped(ar)
  \/ CommitEbreak(ar) \/ CommitTrap(ar) \/ CommitRetire(ar) \/ CommitMem(ar)
  \/ LoadCycle(ar) \/ LoadResponse(ar)
  \/ DebugRead(ar) \/ DebugReadResponse(ar)

WriteCycle(aw, w) ==
  \/ StoreCycle(aw, w) \/ StoreResponse(aw, w)
  \/ DebugWrite(aw, w) \/ DebugWriteResponse(aw, w)

HartNext ==
  \/ ResetCycle \/ IrqCycle \/ SleepCycle \/ DebugIdle
  \/ \E ar \in BOOLEAN : ReadCycle(ar)
  \/ \E aw, w \in BOOLEAN : WriteCycle(aw, w)
=============================================================================
