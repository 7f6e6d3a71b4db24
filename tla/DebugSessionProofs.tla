------------------------- MODULE DebugSessionProofs -------------------------
(***************************************************************************)
(* Proofs about the debug module and the hart it debugs, for every program,*)
(* every size of memory, every depth of the slave's queues and whatever    *)
(* requests the debugger may make; then, with an orderly debugger, about   *)
(* the bus port, the program that is debugged and the answers of commands. *)
(***************************************************************************)
EXTENDS DebugSession, TLAPS

ModuleTypeOK ==
  /\ dm \in DmRegisters /\ stage \in {"idle", "sent", "meta", "sync"}
  /\ request \in Request /\ made \in 0 .. MaxRequests

(***************************************************************************)
(* The registers of the debug module.                                      *)
(***************************************************************************)
LEMMA DatumFacts ==
  /\ 0 \in Datum
  /\ \A a \in Nat : a % DataSize \in Datum
  /\ Datum \subseteq Nat
  BY DataSizeAssumption DEF Datum

LEMMA RestTypes ==
  /\ NoCommand \in Command /\ NoLatch \in Latch /\ Inactive \in DmRegisters
  <1>1. NoCommand \in Command
    BY DEF NoCommand, Command, Regno
  <1>2. NoLatch \in Latch
    BY DatumFacts DEF NoLatch, Latch, Regno
  <1>3. Inactive \in DmRegisters
    BY <1>1, <1>2, DatumFacts DEF Inactive, DmRegisters, NONE
  <1>4. QED
    BY <1>1, <1>2, <1>3

\* The registers after the hart's report keep their types, and these their values.
LEMMA CompletedTypes ==
  ASSUME dm \in DmRegisters, hart \in HartRegisters
  PROVE  /\ Completed(hart) \in DmRegisters
         /\ Completed(hart).dmactive = dm.dmactive /\ Completed(hart).reset = dm.reset
         /\ Completed(hart).resumeReq = FALSE /\ Completed(hart).valid = FALSE
         /\ Completed(hart).busy = (dm.busy /\ ~hart.abstractDone)
         /\ Completed(hart).latch = dm.latch
  <1>1. /\ Acknowledged(hart) \in DmRegisters
        /\ Acknowledged(hart).dmactive = dm.dmactive /\ Acknowledged(hart).reset = dm.reset
        /\ Acknowledged(hart).resumeReq = FALSE /\ Acknowledged(hart).valid = FALSE
        /\ Acknowledged(hart).busy = dm.busy /\ Acknowledged(hart).latch = dm.latch
    <2> DEFINE ack == (dm.resumeAck \/ hart.resumeAck) /\ ~hart.resetAck
               have == dm.haveReset \/ hart.resetAck
    <2>1. ack \in BOOLEAN /\ have \in BOOLEAN
      OBVIOUS
    <2>2. Acknowledged(hart) = [dm EXCEPT !.resumeReq = FALSE, !.valid = FALSE,
                                          !.resumeAck = ack, !.haveReset = have]
      BY DEF Acknowledged
    <2>3. QED
      BY <2>1, <2>2 DEF DmRegisters
  <1>2. /\ dm.latch.size \in {1, 2} /\ hart.abstractError \in SUBSET (0 .. 2)
        /\ hart.abstractRdata \in Datum /\ hart.abstractDone \in BOOLEAN /\ dm.busy \in BOOLEAN
    BY DEF DmRegisters, HartRegisters, Latch
  <1>3. CASE ~(hart.abstractDone /\ dm.busy)
    BY <1>1, <1>2, <1>3 DEF Completed
  <1>4. CASE hart.abstractDone /\ dm.busy /\ hart.abstractError # NONE
    BY <1>1, <1>2, <1>4 DEF Completed, DmRegisters
  <1>5. CASE hart.abstractDone /\ dm.busy /\ hart.abstractError = NONE
    <2>1. (Acknowledged(hart).data1 + dm.latch.size) % DataSize \in Datum
      BY <1>1, <1>2, DatumFacts DEF DmRegisters
    <2>2. QED
      BY <1>1, <1>2, <1>5, <2>1 DEF Completed, DmRegisters
  <1>6. QED
    BY <1>3, <1>4, <1>5

\* The parts of a request.
LEMMA RequestParts ==
  ASSUME request \in Request
  PROVE  /\ request.to \in {"off", "dmcontrol", "data0", "data1", "readdata", "abstractcs", "command"}
         /\ request.to = "dmcontrol" => request.control \in Control
         /\ request.to \in {"data0", "data1"} => request.data \in Datum
         /\ request.to = "abstractcs" => request.clear \in SUBSET (0 .. 2)
         /\ request.to = "command" => request.command \in Command
  BY DEF Request

\* A command is started only on a halted hart.
LEMMA TakenTypes ==
  ASSUME ModuleTypeOK, hart \in HartRegisters, request.to = "command"
  PROVE  /\ CommandTaken(hart) \in DmRegisters
         /\ CommandTaken(hart).dmactive = dm.dmactive /\ CommandTaken(hart).reset = dm.reset
         /\ CommandTaken(hart).resumeReq = FALSE
         /\ CommandTaken(hart).busy = CommandTaken(hart).valid
         /\ CommandTaken(hart).busy => hart.state = "DEBUG"
  <1> DEFINE c == request.command
             refusal == CommandRefused(c, hart)
             starts == refusal = NONE /\ (c.type = "memory" \/ c.transfer)
             error == IF refusal # NONE THEN refusal ELSE Completed(hart).error
             latch == IF ~starts THEN Completed(hart).latch
                      ELSE IF c.type = "register"
                      THEN [type |-> "register", write |-> c.write, regno |-> c.regno,
                            size |-> 2, data |-> dm.data0, address |-> 0]
                      ELSE [type |-> "memory", write |-> c.write, regno |-> "mepc",
                            size |-> c.size, data |-> dm.data0, address |-> dm.data1]
  <1>1. c \in Command /\ dm \in DmRegisters
    BY RequestParts DEF ModuleTypeOK
  <1>2. Completed(hart) \in DmRegisters
    BY CompletedTypes DEF ModuleTypeOK
  <1>3. refusal \in SUBSET (0 .. 2) /\ (starts => hart.state = "DEBUG") /\ starts \in BOOLEAN
    BY DEF CommandRefused, NOT_SUPPORTED, HALT_OR_RESUME, NONE
  <1>4. error \in SUBSET (0 .. 2)
    BY <1>2, <1>3 DEF DmRegisters
  <1>5. latch \in Latch
    <2>1. c.write \in BOOLEAN /\ c.regno \in Regno /\ c.size \in {1, 2}
      BY <1>1 DEF Command
    <2>2. dm.data0 \in Datum /\ dm.data1 \in Datum /\ Completed(hart).latch \in Latch
      BY <1>1, <1>2 DEF DmRegisters
    <2>3. QED
      BY <2>1, <2>2, DatumFacts DEF Latch, Regno
  <1>6. CommandTaken(hart) = [Completed(hart) EXCEPT !.command = c, !.busy = starts,
                                !.valid = starts, !.error = error, !.latch = latch]
    BY DEF CommandTaken
  <1>7. /\ Completed(hart).dmactive = dm.dmactive /\ Completed(hart).reset = dm.reset
        /\ Completed(hart).resumeReq = FALSE
    BY CompletedTypes DEF ModuleTypeOK
  <1> HIDE DEF c, starts, error, latch
  <1>8. QED
    BY <1>1, <1>2, <1>3, <1>4, <1>5, <1>6, <1>7 DEF DmRegisters

LEMMA TakenKeepsLatch ==
  ASSUME ModuleTypeOK, hart \in HartRegisters, request.to = "command",
         ~CommandTaken(hart).busy
  PROVE  CommandTaken(hart).latch = dm.latch
  <1> DEFINE c == request.command
             starts == CommandRefused(c, hart) = NONE /\ (c.type = "memory" \/ c.transfer)
  <1>1. Completed(hart) \in DmRegisters /\ Completed(hart).latch = dm.latch
    BY CompletedTypes DEF ModuleTypeOK
  <1>2. CommandTaken(hart).busy = starts
    BY <1>1 DEF CommandTaken, DmRegisters
  <1>3. ~starts
    BY <1>2
  <1>4. QED
    BY <1>1, <1>3 DEF CommandTaken, DmRegisters

LEMMA ControlledTypes ==
  ASSUME ModuleTypeOK, hart \in HartRegisters, request.to = "dmcontrol",
         NEW resumes \in BOOLEAN
  PROVE  /\ Controlled(hart, resumes) \in DmRegisters
         /\ Controlled(hart, resumes).dmactive = TRUE
         /\ Controlled(hart, resumes).reset = request.control.reset
         /\ Controlled(hart, resumes).resumeReq = resumes
         /\ Controlled(hart, resumes).valid = FALSE
         /\ Controlled(hart, resumes).busy = (dm.busy /\ ~hart.abstractDone)
         /\ Controlled(hart, resumes).latch = dm.latch
  <1> DEFINE c == request.control
             d == Completed(hart)
             free == ~dm.busy
             halt == IF free THEN c.halt ELSE d.haltRequest
             ack == d.resumeAck /\ ~resumes
             have == d.haveReset /\ ~(free /\ c.ackhavereset)
             onreset == IF free THEN (d.resetHaltRequest \/ c.setresethalt) /\ ~c.clrresethalt
                        ELSE d.resetHaltRequest
  <1>1. c \in Control
    BY RequestParts DEF ModuleTypeOK
  <1>2. /\ d \in DmRegisters /\ d.valid = FALSE /\ d.latch = dm.latch
        /\ d.busy = (dm.busy /\ ~hart.abstractDone)
    BY CompletedTypes DEF ModuleTypeOK
  <1>3. ack \in BOOLEAN /\ have \in BOOLEAN
    OBVIOUS
  <1>4. halt \in BOOLEAN
    BY <1>1, <1>2 DEF Control, DmRegisters
  <1>5. onreset \in BOOLEAN
    <2>1. ((d.resetHaltRequest \/ c.setresethalt) /\ ~c.clrresethalt) \in BOOLEAN
      OBVIOUS
    <2>2. d.resetHaltRequest \in BOOLEAN
      BY <1>2 DEF DmRegisters
    <2>3. QED
      BY <2>1, <2>2
  <1>6. c.reset \in BOOLEAN
    BY <1>1 DEF Control
  <1>7. Controlled(hart, resumes) = [d EXCEPT !.dmactive = TRUE, !.reset = c.reset,
             !.haltRequest = halt, !.resumeReq = resumes, !.resumeAck = ack,
             !.haveReset = have, !.resetHaltRequest = onreset]
    BY DEF Controlled
  <1>8. c.reset = request.control.reset
    OBVIOUS
  <1> HIDE DEF c, d, halt, ack, have, onreset
  <1>9. d \in DmRegisters /\ d.valid = FALSE /\ d.latch = dm.latch
    BY <1>2
  <1>10. Controlled(hart, resumes) \in DmRegisters
    BY <1>3, <1>4, <1>5, <1>6, <1>7, <1>9 DEF DmRegisters
  <1>11. /\ Controlled(hart, resumes).dmactive = TRUE
         /\ Controlled(hart, resumes).reset = c.reset
         /\ Controlled(hart, resumes).resumeReq = resumes
         /\ Controlled(hart, resumes).valid = FALSE
         /\ Controlled(hart, resumes).busy = d.busy
         /\ Controlled(hart, resumes).latch = dm.latch
    BY <1>7, <1>9 DEF DmRegisters
  <1>12. QED
    BY <1>2, <1>8, <1>10, <1>11

(***************************************************************************)
(* What a cycle does to run control and to the command in progress.        *)
(***************************************************************************)
StillBusy == dm.busy /\ ~hart.abstractDone

Keeps ==
  /\ dm'.dmactive = dm.dmactive /\ dm'.reset = dm.reset /\ dm'.resumeReq = FALSE
  /\ dm'.valid = FALSE /\ dm'.busy = StillBusy /\ dm'.latch = dm.latch

SwitchesOff ==
  /\ request.to = "off"
  /\ ~dm'.dmactive /\ ~dm'.resumeReq /\ ~dm'.valid /\ ~dm'.busy

Controls ==
  /\ request.to = "dmcontrol" /\ dm'.reset = request.control.reset
  /\ dm'.resumeReq => ~dm.busy
  /\ dm'.valid = FALSE /\ dm'.busy = StillBusy

Starts ==
  /\ ~dm.busy /\ hart.state = "DEBUG"
  /\ dm'.dmactive = dm.dmactive /\ dm'.reset = dm.reset /\ dm'.resumeReq = FALSE
  /\ dm'.valid = TRUE /\ dm'.busy = TRUE

LEMMA KeepsTypes ==
  ASSUME ModuleTypeOK, hart \in HartRegisters,
         NEW d \in DmRegisters, dm' = d,
         d.dmactive = Completed(hart).dmactive, d.reset = Completed(hart).reset,
         d.resumeReq = Completed(hart).resumeReq, d.valid = Completed(hart).valid,
         d.busy = Completed(hart).busy, d.latch = Completed(hart).latch
  PROVE  Keeps
  BY CompletedTypes DEF Keeps, StillBusy, ModuleTypeOK

LEMMA ServeEffect ==
  ASSUME ModuleTypeOK, hart \in HartRegisters, Serve(hart)
  PROVE  dm' \in DmRegisters /\ (Keeps \/ SwitchesOff \/ Controls \/ Starts)
  <1> DEFINE d == Completed(hart)
  <1>1. d \in DmRegisters /\ dm \in DmRegisters
    BY CompletedTypes DEF ModuleTypeOK
  <1>2. CASE WriteOff(hart)
    <2>1. dm' = [Inactive EXCEPT !.haveReset = d.haveReset, !.latch = dm.latch]
      BY <1>2 DEF WriteOff
    <2>2. Inactive \in DmRegisters /\ d.haveReset \in BOOLEAN /\ dm.latch \in Latch
      BY <1>1, RestTypes DEF DmRegisters
    <2>3. ~Inactive.dmactive /\ ~Inactive.resumeReq /\ ~Inactive.valid /\ ~Inactive.busy
      BY DEF Inactive
    <2> HIDE DEF d
    <2>4. dm' \in DmRegisters /\ ~dm'.dmactive /\ ~dm'.resumeReq /\ ~dm'.valid /\ ~dm'.busy
      BY <2>1, <2>2, <2>3 DEF DmRegisters
    <2>5. QED
      BY <1>2, <2>4 DEF WriteOff, SwitchesOff
  <1>3. CASE WriteControl(hart)
    <2> DEFINE resumes == /\ ~dm.busy /\ hart.state = "DEBUG"
                          /\ request.control.resume /\ ~request.control.halt
    <2>1. request.to = "dmcontrol" /\ dm' = Controlled(hart, resumes)
      BY <1>3 DEF WriteControl
    <2>2. resumes \in BOOLEAN /\ (resumes => ~dm.busy)
      OBVIOUS
    <2> HIDE DEF resumes
    <2>3. QED
      BY <2>1, <2>2, ControlledTypes DEF Controls, StillBusy
  <1>4. CASE RefusedAsBusy(hart)
    <2> DEFINE e == IF dm.error = NONE THEN BUSY ELSE d.error
    <2>1. dm' = [d EXCEPT !.error = e]
      BY <1>4 DEF RefusedAsBusy
    <2>2. e \in SUBSET (0 .. 2)
      BY <1>1 DEF DmRegisters, BUSY
    <2> HIDE DEF e, d
    <2>3. /\ dm' \in DmRegisters
          /\ dm'.dmactive = d.dmactive /\ dm'.reset = d.reset /\ dm'.resumeReq = d.resumeReq
          /\ dm'.valid = d.valid /\ dm'.busy = d.busy /\ dm'.latch = d.latch
      BY <1>1, <2>1, <2>2 DEF DmRegisters
    <2>4. QED
      BY <2>3, KeepsTypes DEF d
  <1>5. CASE WriteData(hart)
    <2>1. request.data \in Datum
      BY <1>5, RequestParts DEF WriteData, ModuleTypeOK
    <2>2. dm' = [d EXCEPT !.data0 = request.data] \/ dm' = [d EXCEPT !.data1 = request.data]
      BY <1>5 DEF WriteData
    <2> HIDE DEF d
    <2>3. /\ dm' \in DmRegisters
          /\ dm'.dmactive = d.dmactive /\ dm'.reset = d.reset /\ dm'.resumeReq = d.resumeReq
          /\ dm'.valid = d.valid /\ dm'.busy = d.busy /\ dm'.latch = d.latch
      BY <1>1, <2>1, <2>2 DEF DmRegisters
    <2>4. QED
      BY <2>3, KeepsTypes DEF d
  <1>6. CASE ClearError(hart)
    <2> DEFINE e == dm.error \ request.clear
    <2>1. dm' = [d EXCEPT !.error = e]
      BY <1>6 DEF ClearError
    <2>2. e \in SUBSET (0 .. 2)
      BY <1>1 DEF DmRegisters
    <2> HIDE DEF e, d
    <2>3. /\ dm' \in DmRegisters
          /\ dm'.dmactive = d.dmactive /\ dm'.reset = d.reset /\ dm'.resumeReq = d.resumeReq
          /\ dm'.valid = d.valid /\ dm'.busy = d.busy /\ dm'.latch = d.latch
      BY <1>1, <2>1, <2>2 DEF DmRegisters
    <2>4. QED
      BY <2>3, KeepsTypes DEF d
  <1>7. CASE WriteCommand(hart)
    <2>1. dm' = CommandTaken(hart) /\ request.to = "command" /\ ~dm.busy
      BY <1>7 DEF WriteCommand
    <2>2. /\ dm' \in DmRegisters /\ dm'.dmactive = dm.dmactive /\ dm'.reset = dm.reset
          /\ dm'.resumeReq = FALSE /\ dm'.busy = dm'.valid
          /\ dm'.busy => hart.state = "DEBUG"
      BY <2>1, TakenTypes
    <2>3. CASE dm'.busy
      BY <2>1, <2>2, <2>3 DEF Starts, DmRegisters
    <2>4. CASE ~dm'.busy
      <3>1. dm'.latch = dm.latch
        BY <2>1, <2>4, TakenKeepsLatch
      <3>2. QED
        BY <2>1, <2>2, <2>4, <3>1 DEF Keeps, StillBusy, DmRegisters
    <2>5. QED
      BY <2>3, <2>4
  <1>8. CASE WithoutEffect(hart)
    BY <1>1, <1>8, KeepsTypes DEF WithoutEffect
  <1>9. QED
    BY <1>2, <1>3, <1>4, <1>5, <1>6, <1>7, <1>8 DEF Serve

\* A cycle of the module: it waits for a request, is on the way of one, or serves one.
LEMMA ModuleStep ==
  ASSUME ModuleTypeOK, hart \in HartRegisters, DmNext(hart)
  PROVE  /\ ModuleTypeOK'
         /\ \/ stage = "idle" /\ Keeps /\ stage' = "idle" /\ request' = request
            \/ stage = "idle" /\ Keeps /\ stage' = "sent" /\ made' # made
            \/ stage \in {"sent", "meta"} /\ Keeps /\ stage' # "idle" /\ request' = request
            \/ stage = "sync" /\ stage' = "idle" /\ request' = request
               /\ (Keeps \/ SwitchesOff \/ Controls \/ Starts)
  <1> DEFINE d == Completed(hart)
  <1>1. d \in DmRegisters
    BY CompletedTypes DEF ModuleTypeOK
  <1>2. CASE Serve(hart)
    <2>1. stage = "sync" /\ stage' = "idle" /\ request' = request /\ made' = made
      BY <1>2 DEF Serve
    <2>2. QED
      BY <1>2, <2>1, ServeEffect DEF ModuleTypeOK
  <1>3. ASSUME dm' = d PROVE Keeps /\ dm' \in DmRegisters
    BY <1>1, <1>3, KeepsTypes
  <1>4. CASE Make(hart)
    <2>1. /\ stage = "idle" /\ stage' = "sent" /\ request' \in Request /\ dm' = d
          /\ made' = made + 1 /\ made < MaxRequests
      BY <1>4, DmiRequestsAssumption DEF Make
    <2>2. made' \in 0 .. MaxRequests /\ made' # made
      BY <2>1, MaxRequestsAssumption DEF ModuleTypeOK
    <2>3. QED
      BY <1>3, <2>1, <2>2 DEF ModuleTypeOK
  <1>5. CASE Cross(hart)
    <2>1. /\ dm' = d /\ UNCHANGED <<request, made>>
          /\ \/ stage = "sent" /\ stage' = "meta"
             \/ stage = "meta" /\ stage' = "sync"
      BY <1>5 DEF Cross
    <2>2. QED
      BY <1>3, <2>1 DEF ModuleTypeOK
  <1>6. CASE Rest(hart)
    <2>1. dm' = d /\ stage = "idle" /\ UNCHANGED <<stage, request, made>>
      BY <1>6 DEF Rest
    <2>2. QED
      BY <1>3, <2>1 DEF ModuleTypeOK
  <1>7. QED
    BY <1>2, <1>4, <1>5, <1>6 DEF DmNext

(***************************************************************************)
(* The debug logic of the hart.                                            *)
(***************************************************************************)

\* A command is carried out at once, or begun: an access that is not refused.
Begins == dm.latch.type = "memory" /\ ~(dm.latch.size = 2 /\ dm.latch.address % 2 = 1)

Begun(c, l) ==
  [c EXCEPT !.memBusy = TRUE, !.memory = l, !.debugOutstanding = FALSE,
            !.debugAwDone = FALSE, !.debugWDone = FALSE]

CarriedOut(c, error, mepc, dpc, step, ebreakm, rdata) ==
  [c EXCEPT !.abstractDone = TRUE, !.abstractError = error, !.mepc = mepc, !.dpc = dpc,
            !.step = step, !.ebreakm = ebreakm, !.abstractRdata = rdata]

LEMMA BegunTypes ==
  ASSUME NEW c \in HartRegisters, NEW l \in Latch
  PROVE  /\ Begun(c, l) \in HartRegisters
         /\ Begun(c, l).state = c.state /\ Begun(c, l).resetActive = c.resetActive
         /\ Begun(c, l).memBusy /\ Begun(c, l).abstractDone = c.abstractDone
  <1>1. Begun(c, l) \in HartRegisters
    BY DEF HartRegisters, Begun
  <1>2. /\ Begun(c, l).state = c.state /\ Begun(c, l).resetActive = c.resetActive
        /\ Begun(c, l).memBusy /\ Begun(c, l).abstractDone = c.abstractDone
    BY DEF HartRegisters, Begun
  <1>3. QED
    BY <1>1, <1>2

LEMMA CarriedOutTypes ==
  ASSUME NEW c \in HartRegisters, NEW error \in SUBSET (0 .. 2), NEW mepc \in Datum,
         NEW dpc \in Datum, NEW step \in BOOLEAN, NEW ebreakm \in BOOLEAN, NEW rdata \in Datum
  PROVE  LET d == CarriedOut(c, error, mepc, dpc, step, ebreakm, rdata) IN
         /\ d \in HartRegisters
         /\ d.state = c.state /\ d.resetActive = c.resetActive
         /\ d.memBusy = c.memBusy /\ d.abstractDone
  <1> DEFINE d == CarriedOut(c, error, mepc, dpc, step, ebreakm, rdata)
  <1>1. d \in HartRegisters
    BY DEF HartRegisters, CarriedOut
  <1>2. /\ d.state = c.state /\ d.resetActive = c.resetActive
        /\ d.memBusy = c.memBusy /\ d.abstractDone
    BY DEF HartRegisters, CarriedOut
  <1>3. QED
    BY <1>1, <1>2

LEMMA CommandedTypes ==
  ASSUME dm \in DmRegisters, hart \in HartRegisters, NEW c \in HartRegisters
  PROVE  /\ Commanded(c) \in HartRegisters
         /\ Commanded(c).state = c.state /\ Commanded(c).resetActive = c.resetActive
         /\ ~dm.valid => Commanded(c) = c
         /\ dm.valid /\ Begins => Commanded(c).memBusy /\ Commanded(c).abstractDone = c.abstractDone
         /\ dm.valid /\ ~Begins => Commanded(c).memBusy = c.memBusy /\ Commanded(c).abstractDone
  <1> DEFINE l == dm.latch
             refused == IF l.type = "memory"
                        THEN IF l.size = 2 /\ l.address % 2 = 1 THEN BUS ELSE NONE
                        ELSE IF l.regno = "unknown" \/ (l.regno = "readonly" /\ l.write)
                        THEN EXCEPTION ELSE NONE
             writesTo(r) == refused = NONE /\ l.write /\ l.regno = r
             error == IF refused # NONE THEN refused ELSE c.abstractError
             mepc == IF writesTo("mepc") THEN l.data ELSE c.mepc
             dpc == IF writesTo("dpc") THEN l.data ELSE c.dpc
             step == IF writesTo("dcsr") THEN l.data % 2 = 1 ELSE c.step
             ebreakm == IF writesTo("dcsr") THEN (l.data \div 2) % 2 = 1 ELSE c.ebreakm
             dcsr == (IF hart.step THEN 1 ELSE 0) + (IF hart.ebreakm THEN 2 ELSE 0)
             rdata == IF refused # NONE \/ l.write THEN c.abstractRdata
                      ELSE CASE l.regno = "mepc" -> hart.mepc
                             [] l.regno = "dpc" -> hart.dpc
                             [] l.regno = "dcsr" -> dcsr
                             [] OTHER -> 0
  <1>1. l \in Latch
    BY DEF DmRegisters
  <1>2. error \in SUBSET (0 .. 2)
    BY DEF HartRegisters, BUS, EXCEPTION, NONE
  <1>3. mepc \in Datum /\ dpc \in Datum
    BY <1>1 DEF HartRegisters, Latch
  <1>4. step \in BOOLEAN /\ ebreakm \in BOOLEAN
    BY DEF HartRegisters
  <1>5. rdata \in Datum
    <2>1. dcsr \in Datum
      BY DataSizeAssumption DEF Datum
    <2>2. hart.mepc \in Datum /\ hart.dpc \in Datum /\ c.abstractRdata \in Datum
      BY DEF HartRegisters
    <2> HIDE DEF dcsr
    <2>3. QED
      BY <2>1, <2>2, DatumFacts
  <1>6. refused = NONE \/ refused # NONE
    OBVIOUS
  <1>7. Begins <=> l.type = "memory" /\ refused = NONE
    BY DEF Begins, BUS, NONE
  <1>8. CASE ~dm.valid
    BY <1>8 DEF Commanded
  <1>9. CASE dm.valid /\ Begins
    <2>1. Commanded(c) = Begun(c, l)
      BY <1>7, <1>9 DEF Commanded, Begun
    <2>2. QED
      BY <1>1, <1>9, <2>1, BegunTypes
  <1>10. CASE dm.valid /\ ~Begins
    <2>1. Commanded(c) = CarriedOut(c, error, mepc, dpc, step, ebreakm, rdata)
      BY <1>7, <1>10 DEF Commanded, CarriedOut
    <2> HIDE DEF error, mepc, dpc, step, ebreakm, rdata
    <2>2. QED
      BY <1>2, <1>3, <1>4, <1>5, <1>10, <2>1, CarriedOutTypes
  <1>11. QED
    BY <1>8, <1>9, <1>10

LEMMA StoppedTypes ==
  ASSUME NEW c \in HartRegisters, NEW ends, NEW at \in Datum
  PROVE  /\ Stopped(c, ends, at) \in HartRegisters
         /\ Stopped(c, ends, at).state \in {c.state, "DEBUG"}
         /\ Stopped(c, ends, at).resetActive = c.resetActive
         /\ Stopped(c, ends, at).memBusy = c.memBusy
         /\ Stopped(c, ends, at).abstractDone = c.abstractDone
  <1> DEFINE steps == hart.stepActive /\ EndsStep(ends)
             halts == HaltReq /\ EndsForHalt(ends)
             pc == IF ends \in {"commit", "memory", "irq"} THEN at ELSE c.pc
             cause == IF halts THEN "halt" ELSE IF ends = "ebreak" THEN "ebreak" ELSE "step"
             active == c.stepActive /\ ~steps
             d == [c EXCEPT !.state = "DEBUG", !.pc = pc, !.dpc = at, !.cause = cause,
                            !.stepActive = active]
  <1>1. Stopped(c, ends, at) = c \/ Stopped(c, ends, at) = d
    BY DEF Stopped
  <1>2. pc \in Datum
    BY DEF HartRegisters
  <1>3. cause \in {"none", "ebreak", "halt", "step", "reset"} /\ active \in BOOLEAN
    OBVIOUS
  <1> HIDE DEF pc, cause, active
  <1>4. d \in HartRegisters
    BY <1>2, <1>3 DEF HartRegisters, State
  <1>5. /\ d.state = "DEBUG" /\ d.resetActive = c.resetActive
        /\ d.memBusy = c.memBusy /\ d.abstractDone = c.abstractDone
    BY DEF HartRegisters
  <1> HIDE DEF d
  <1>6. QED
    BY <1>1, <1>4, <1>5

LEMMA ResumedTypes ==
  ASSUME hart \in HartRegisters, NEW c \in HartRegisters
  PROVE  /\ Resumed(c) \in HartRegisters
         /\ ~dm.resumeReq => Resumed(c) = c
         /\ Resumed(c).resetActive = c.resetActive
         /\ Resumed(c).memBusy = c.memBusy
         /\ Resumed(c).abstractDone = c.abstractDone
  <1> DEFINE dpc == hart.dpc
             step == hart.step
             d == [c EXCEPT !.state = "RUN", !.pc = dpc, !.fetchOutstanding = FALSE,
                            !.stepActive = step, !.resumeAck = TRUE]
  <1>1. Resumed(c) = c \/ (dm.resumeReq /\ Resumed(c) = d)
    BY DEF Resumed, ResumeReq
  <1>2. dpc \in Datum /\ step \in BOOLEAN
    BY DEF HartRegisters
  <1> HIDE DEF dpc, step
  <1>3. d \in HartRegisters
    BY <1>2 DEF HartRegisters, State
  <1>4. /\ d.resetActive = c.resetActive
        /\ d.memBusy = c.memBusy /\ d.abstractDone = c.abstractDone
    BY DEF HartRegisters
  <1> HIDE DEF d
  <1>5. QED
    BY <1>1, <1>3, <1>4

LEMMA UnderResetTypes ==
  ASSUME NEW c \in HartRegisters
  PROVE  /\ UnderReset(c) \in HartRegisters
         /\ ~ResetReq => UnderReset(c) = c
         /\ UnderReset(c).abstractDone = c.abstractDone
         /\ ResetReq => /\ UnderReset(c).state = "RESET" /\ UnderReset(c).resetActive
                        /\ ~UnderReset(c).memBusy
  <1>1. CASE ~ResetReq
    BY <1>1 DEF UnderReset
  <1>2. CASE ResetReq
    <2> DEFINE d == [PowerOn EXCEPT !.resetActive = TRUE,
                       !.resumeAck = c.resumeAck, !.memory = c.memory,
                       !.abstractDone = c.abstractDone, !.abstractError = c.abstractError,
                       !.abstractRdata = c.abstractRdata]
    <2>1. PowerOn \in HartRegisters /\ PowerOn.state = "RESET" /\ ~PowerOn.memBusy
      BY RestTypes, DatumFacts DEF PowerOn, HartRegisters, State, NONE
    <2>2. UnderReset(c) = d
      BY <1>2 DEF UnderReset
    <2>3. /\ c.resumeAck \in BOOLEAN /\ c.memory \in Latch /\ c.abstractDone \in BOOLEAN
          /\ c.abstractError \in SUBSET (0 .. 2) /\ c.abstractRdata \in Datum
      BY DEF HartRegisters
    <2>4. d \in HartRegisters
      BY <2>1, <2>3 DEF HartRegisters
    <2>5. d.state = "RESET" /\ d.resetActive /\ ~d.memBusy /\ d.abstractDone = c.abstractDone
      BY <2>1 DEF HartRegisters
    <2> HIDE DEF d
    <2>6. QED
      BY <1>2, <2>2, <2>4, <2>5
  <1>3. QED
    BY <1>1, <1>2

LEMMA ReleasedTypes ==
  ASSUME NEW c \in HartRegisters
  PROVE  /\ Released(c) \in HartRegisters
         /\ ~hart.resetActive \/ ResetReq => Released(c) = c
         /\ Released(c).memBusy = c.memBusy /\ Released(c).abstractDone = c.abstractDone
         /\ hart.resetActive /\ ~ResetReq => ~Released(c).resetActive
  <1> DEFINE cause == IF HaltOnResetReq THEN "reset" ELSE "halt"
             d == [c EXCEPT !.resetActive = FALSE, !.resetAck = TRUE, !.state = "DEBUG",
                            !.dpc = 0, !.cause = cause]
             e == [c EXCEPT !.resetActive = FALSE, !.resetAck = TRUE, !.state = "RUN"]
  <1>1. \/ (~hart.resetActive \/ ResetReq) /\ Released(c) = c
        \/ hart.resetActive /\ ~ResetReq /\ Released(c) \in {d, e}
    BY DEF Released
  <1>2. cause \in {"none", "ebreak", "halt", "step", "reset"} /\ 0 \in Datum
    BY DatumFacts
  <1> HIDE DEF cause
  <1>3. d \in HartRegisters /\ e \in HartRegisters
    BY <1>2 DEF HartRegisters, State
  <1>4. /\ ~d.resetActive /\ d.memBusy = c.memBusy /\ d.abstractDone = c.abstractDone
        /\ ~e.resetActive /\ e.memBusy = c.memBusy /\ e.abstractDone = c.abstractDone
    BY DEF HartRegisters
  <1> HIDE DEF d, e
  <1>5. QED
    BY <1>1, <1>3, <1>4

\* What a core cycle leaves the debug logic: its own registers, or the end of an access.
CoreLeaves(c) ==
  /\ c \in HartRegisters /\ c.resetActive = hart.resetActive
  /\ hart.state = "DEBUG" => c.state = "DEBUG"
  /\ \/ c.memBusy = hart.memBusy /\ ~c.abstractDone
     \/ hart.memBusy /\ ~c.memBusy /\ c.abstractDone

\* What the debug logic does to run control and to the command in progress.
LEMMA DebuggedEffect ==
  ASSUME dm \in DmRegisters, hart \in HartRegisters, NEW c, CoreLeaves(c),
         NEW ends, NEW at \in Datum, hart' = Debugged(c, ends, at)
  PROVE  /\ hart' \in HartRegisters
         /\ hart'.resetActive <=> ResetReq
         /\ ResetReq => hart'.state = "RESET"
         /\ hart'.abstractDone <=> c.abstractDone \/ (dm.valid /\ ~Begins)
         /\ hart'.memBusy <=> ~ResetReq /\ (c.memBusy \/ (dm.valid /\ Begins))
         /\ hart.state = "DEBUG" /\ ~ResetReq /\ ~dm.resumeReq /\ ~hart.resetActive
              => hart'.state = "DEBUG"
  <1> DEFINE c1 == Commanded(c)
             c2 == Stopped(c1, ends, at)
             c3 == Resumed(c2)
             c4 == UnderReset(c3)
             c5 == Released(c4)
  <1>1. hart' = c5
    BY DEF Debugged
  <1>2. c \in HartRegisters /\ c.resetActive = hart.resetActive
        /\ (hart.state = "DEBUG" => c.state = "DEBUG")
    BY DEF CoreLeaves
  <1>3. /\ c1 \in HartRegisters /\ c1.state = c.state /\ c1.resetActive = c.resetActive
        /\ (c1.abstractDone <=> c.abstractDone \/ (dm.valid /\ ~Begins))
        /\ (c1.memBusy <=> c.memBusy \/ (dm.valid /\ Begins))
    BY <1>2, CommandedTypes
  <1> HIDE DEF c1
  <1>4. /\ c2 \in HartRegisters /\ c2.state \in {c1.state, "DEBUG"}
        /\ c2.resetActive = c1.resetActive
        /\ c2.memBusy = c1.memBusy /\ c2.abstractDone = c1.abstractDone
    BY <1>3, StoppedTypes
  <1> HIDE DEF c2
  <1>5. /\ c3 \in HartRegisters /\ (~dm.resumeReq => c3 = c2)
        /\ c3.resetActive = c2.resetActive
        /\ c3.memBusy = c2.memBusy /\ c3.abstractDone = c2.abstractDone
    BY <1>4, ResumedTypes
  <1> HIDE DEF c3
  <1>6. /\ c4 \in HartRegisters /\ (~ResetReq => c4 = c3)
        /\ c4.abstractDone = c3.abstractDone
        /\ (ResetReq => c4.state = "RESET" /\ c4.resetActive /\ ~c4.memBusy)
    BY <1>5, UnderResetTypes
  <1> HIDE DEF c4
  <1>7. /\ c5 \in HartRegisters /\ (~hart.resetActive \/ ResetReq => c5 = c4)
        /\ c5.memBusy = c4.memBusy /\ c5.abstractDone = c4.abstractDone
        /\ (hart.resetActive /\ ~ResetReq => ~c5.resetActive)
    BY <1>6, ReleasedTypes
  <1> HIDE DEF c5
  <1>8. hart'.abstractDone <=> c.abstractDone \/ (dm.valid /\ ~Begins)
    BY <1>1, <1>3, <1>4, <1>5, <1>6, <1>7
  <1>9. hart'.resetActive <=> ResetReq
    BY <1>1, <1>2, <1>3, <1>4, <1>5, <1>6, <1>7
  <1>10. hart'.memBusy <=> ~ResetReq /\ (c.memBusy \/ (dm.valid /\ Begins))
    BY <1>1, <1>3, <1>4, <1>5, <1>6, <1>7
  <1>11. hart.state = "DEBUG" /\ ~ResetReq /\ ~dm.resumeReq /\ ~hart.resetActive
           => hart'.state = "DEBUG"
    BY <1>1, <1>2, <1>3, <1>4, <1>5, <1>6, <1>7
  <1>12. QED
    BY <1>1, <1>6, <1>7, <1>8, <1>9, <1>10, <1>11

(***************************************************************************)
(* The core's cycles.                                                      *)
(***************************************************************************)

\* d differs from b in registers of the core only.
SameDebug(b, d) ==
  /\ d \in HartRegisters
  /\ d.resetActive = b.resetActive /\ d.memBusy = b.memBusy /\ d.abstractDone = b.abstractDone

LEMMA Transitive ==
  ASSUME NEW b, NEW c, NEW d, SameDebug(b, c), SameDebug(c, d)
  PROVE  SameDebug(b, d)
  BY DEF SameDebug

\* Registers of the core that a cycle writes.
LEMMA StateForm ==
  ASSUME NEW b \in HartRegisters, NEW s \in State
  PROVE  SameDebug(b, [b EXCEPT !.state = s])
  BY DEF HartRegisters, SameDebug

LEMMA JumpForm ==
  ASSUME NEW b \in HartRegisters, NEW s \in State, NEW pc \in Datum
  PROVE  SameDebug(b, [b EXCEPT !.state = s, !.pc = pc])
  BY DEF HartRegisters, SameDebug

LEMMA PlaceForm ==
  ASSUME NEW b \in HartRegisters, NEW s \in State, NEW pc \in Datum
  PROVE  SameDebug(b, [b EXCEPT !.pc = pc, !.state = s])
  BY DEF HartRegisters, SameDebug

LEMMA PcForm ==
  ASSUME NEW b \in HartRegisters, NEW pc \in Datum
  PROVE  SameDebug(b, [b EXCEPT !.pc = pc])
  BY DEF HartRegisters, SameDebug

LEMMA FetchForm ==
  ASSUME NEW b \in HartRegisters, NEW x \in BOOLEAN
  PROVE  SameDebug(b, [b EXCEPT !.fetchOutstanding = x])
  BY DEF HartRegisters, SameDebug

LEMMA RetireForm ==
  ASSUME NEW b \in HartRegisters, NEW s \in State, NEW pc \in Datum, NEW x \in BOOLEAN, NEW y \in BOOLEAN
  PROVE  SameDebug(b, [b EXCEPT !.pc = pc, !.state = s, !.mie = x, !.mpie = y])
  BY DEF HartRegisters, SameDebug

LEMMA ResetForm ==
  ASSUME NEW b \in HartRegisters, NEW s \in State
  PROVE  SameDebug(b, [b EXCEPT !.state = s, !.fetchOutstanding = FALSE, !.memOutstanding = FALSE,
                               !.awDone = FALSE, !.wDone = FALSE])
  BY DEF HartRegisters, SameDebug

LEMMA MemForm ==
  ASSUME NEW b \in HartRegisters, NEW s \in State
  PROVE  SameDebug(b, [b EXCEPT !.state = s, !.memOutstanding = FALSE, !.awDone = FALSE,
                               !.wDone = FALSE])
  BY DEF HartRegisters, SameDebug

LEMMA LoadForm ==
  ASSUME NEW b \in HartRegisters, NEW x \in BOOLEAN
  PROVE  SameDebug(b, [b EXCEPT !.memOutstanding = x])
  BY DEF HartRegisters, SameDebug

LEMMA StoreForm ==
  ASSUME NEW b \in HartRegisters, NEW x \in BOOLEAN, NEW y \in BOOLEAN
  PROVE  SameDebug(b, [b EXCEPT !.awDone = x, !.wDone = y])
  BY DEF HartRegisters, SameDebug

\* Registers that the access of an abstract command writes; the state stays.
LEMMA DebugReadForm ==
  ASSUME NEW b \in HartRegisters, NEW x \in BOOLEAN
  PROVE  /\ SameDebug(b, [b EXCEPT !.debugOutstanding = x])
         /\ [b EXCEPT !.debugOutstanding = x].state = b.state
  BY DEF HartRegisters, SameDebug

LEMMA DebugWriteForm ==
  ASSUME NEW b \in HartRegisters, NEW x \in BOOLEAN, NEW y \in BOOLEAN
  PROVE  /\ SameDebug(b, [b EXCEPT !.debugAwDone = x, !.debugWDone = y])
         /\ [b EXCEPT !.debugAwDone = x, !.debugWDone = y].state = b.state
  BY DEF HartRegisters, SameDebug

LEMMA AnswerForm ==
  ASSUME NEW b \in HartRegisters, NEW a \in Datum
  PROVE  /\ SameDebug(b, [b EXCEPT !.abstractRdata = a])
         /\ [b EXCEPT !.abstractRdata = a].state = b.state
  BY DEF HartRegisters, SameDebug

LEMMA ErrorForm ==
  ASSUME NEW b \in HartRegisters, NEW e \in SUBSET (0 .. 2)
  PROVE  /\ SameDebug(b, [b EXCEPT !.abstractError = e])
         /\ [b EXCEPT !.abstractError = e].state = b.state
  BY DEF HartRegisters, SameDebug

\* The registers as a cycle finds them, and as an access leaves them.
LEMMA BaseTypes ==
  ASSUME hart \in HartRegisters
  PROVE  /\ Base \in HartRegisters
         /\ Base.state = hart.state /\ Base.resetActive = hart.resetActive
         /\ Base.memBusy = hart.memBusy /\ ~Base.abstractDone
         /\ Base.pc = hart.pc /\ Base.mie = hart.mie /\ Base.mpie = hart.mpie
         /\ DebugDone \in HartRegisters
         /\ DebugDone.state = hart.state /\ DebugDone.resetActive = hart.resetActive
         /\ ~DebugDone.memBusy /\ DebugDone.abstractDone
  <1>1. Base \in HartRegisters
    BY DEF HartRegisters, Base, NONE
  <1>2. /\ Base.state = hart.state /\ Base.resetActive = hart.resetActive
        /\ Base.memBusy = hart.memBusy /\ ~Base.abstractDone
        /\ Base.pc = hart.pc /\ Base.mie = hart.mie /\ Base.mpie = hart.mpie
    BY DEF HartRegisters, Base
  <1>3. ASSUME NEW b \in HartRegisters
        PROVE  LET d == [b EXCEPT !.memBusy = FALSE, !.abstractDone = TRUE] IN
               /\ d \in HartRegisters
               /\ d.state = b.state /\ d.resetActive = b.resetActive
               /\ ~d.memBusy /\ d.abstractDone
    BY <1>3 DEF HartRegisters
  <1>4. /\ DebugDone \in HartRegisters
        /\ DebugDone.state = Base.state /\ DebugDone.resetActive = Base.resetActive
        /\ ~DebugDone.memBusy /\ DebugDone.abstractDone
    BY <1>1, <1>3, Zenon DEF DebugDone
  <1>5. QED
    BY <1>1, <1>2, <1>3, <1>4

LEMMA TrappedTypes ==
  ASSUME NEW b \in HartRegisters, NEW epc \in Datum
  PROVE  SameDebug(b, Trapped(b, epc))
  BY DEF HartRegisters, SameDebug, Trapped

LEMMA BoundaryTypes ==
  ASSUME NEW b \in HartRegisters
  PROVE  SameDebug(b, Boundary(b))
  <1>1. b.pc \in Datum
    BY DEF HartRegisters
  <1>2. SameDebug(b, Trapped(b, b.pc)) /\ Trapped(b, b.pc) \in HartRegisters
    BY <1>1, TrappedTypes DEF SameDebug
  <1>3. ASSUME NEW t \in HartRegisters PROVE SameDebug(t, [t EXCEPT !.state = "IRQ"])
    BY DEF HartRegisters, SameDebug, State
  <1>4. SameDebug(Trapped(b, b.pc), [Trapped(b, b.pc) EXCEPT !.state = "IRQ"])
    BY <1>2, <1>3, Zenon
  <1>5. SameDebug(b, [Trapped(b, b.pc) EXCEPT !.state = "IRQ"])
    BY <1>2, <1>4, Transitive, Zenon
  <1>6. SameDebug(b, b)
    BY DEF SameDebug
  <1>7. QED
    BY <1>5, <1>6 DEF Boundary

\* A core cycle outside debug mode, or one that leaves the state alone.
LEMMA CoreCycle ==
  ASSUME hart \in HartRegisters, NEW c, SameDebug(Base, c),
         hart.state # "DEBUG" \/ c.state = "DEBUG"
  PROVE  CoreLeaves(c)
  BY BaseTypes DEF SameDebug, CoreLeaves

\* The addresses the core moves to.
LEMMA Addresses ==
  ASSUME hart \in HartRegisters
  PROVE  /\ hart.pc \in Datum /\ Handler \in Datum /\ Following(hart.pc) \in Datum
         /\ \A k : NextPc(k) \in Datum
  <1>1. hart.pc \in Datum /\ hart.mepc \in Datum
    BY DEF HartRegisters
  <1>2. Following(hart.pc) \in Datum
    <2>1. hart.pc \in Nat
      BY <1>1, DatumFacts
    <2>2. hart.pc + 1 \in Nat
      BY <2>1
    <2>3. QED
      BY <2>2, DatumFacts DEF Following
  <1>3. QED
    BY <1>1, <1>2, ProgramsAssumption DEF NextPc

\* A cycle of the hart: what the core leaves goes through the debug logic.
CoreThenDebug == \E c, ends, at : CoreLeaves(c) /\ at \in Datum /\ hart' = Debugged(c, ends, at)

LEMMA RestCycles ==
  ASSUME hart \in HartRegisters, ResetCycle \/ IrqCycle \/ SleepCycle \/ DebugIdle
  PROVE  CoreThenDebug
  <1> USE DEF CoreThenDebug
  <1>1. Base \in HartRegisters /\ Base.state = hart.state
    BY BaseTypes
  <1>2. "RUN" \in State /\ Handler \in Datum /\ hart.pc \in Datum
    BY Addresses DEF State
  <1>3. CASE ResetCycle
    <2> DEFINE c == [Base EXCEPT !.state = "RUN", !.fetchOutstanding = FALSE,
                                 !.memOutstanding = FALSE, !.awDone = FALSE, !.wDone = FALSE]
    <2>1. SameDebug(Base, c)
      BY <1>1, <1>2, ResetForm, Zenon
    <2>2. hart.state # "DEBUG" /\ hart' = Debugged(c, "busy", hart.pc)
      BY <1>3 DEF ResetCycle
    <2> HIDE DEF c
    <2>3. QED
      BY <1>2, <2>1, <2>2, CoreCycle
  <1>4. CASE IrqCycle
    <2> DEFINE c == [Base EXCEPT !.state = "RUN", !.pc = Handler]
    <2>1. SameDebug(Base, c)
      BY <1>1, <1>2, JumpForm, Zenon
    <2>2. hart.state # "DEBUG" /\ hart' = Debugged(c, "irq", Handler)
      BY <1>4 DEF IrqCycle
    <2> HIDE DEF c
    <2>3. QED
      BY <1>2, <2>1, <2>2, CoreCycle
  <1>5. CASE SleepCycle
    <2> DEFINE r == [Base EXCEPT !.state = "RUN"]
               c == IF pin THEN Boundary(r) ELSE Base
    <2>1. SameDebug(Base, r)
      BY <1>1, <1>2, StateForm, Zenon
    <2>2. hart.state # "DEBUG" /\ hart' = Debugged(c, "sleep", hart.pc)
      BY <1>5 DEF SleepCycle
    <2> HIDE DEF r
    <2>3. SameDebug(r, Boundary(r))
      BY <2>1, BoundaryTypes DEF SameDebug
    <2>4. SameDebug(Base, Boundary(r))
      BY <2>1, <2>3, Transitive
    <2>5. SameDebug(Base, c)
      BY <1>1, <2>4 DEF SameDebug
    <2> HIDE DEF c
    <2>6. QED
      BY <1>2, <2>2, <2>5, CoreCycle
  <1>6. CASE DebugIdle
    <2>1. SameDebug(Base, Base) /\ Base.state = "DEBUG"
      BY <1>1, <1>6 DEF SameDebug, DebugIdle
    <2>2. hart' = Debugged(Base, "busy", hart.pc)
      BY <1>6 DEF DebugIdle
    <2>3. QED
      BY <1>2, <2>1, <2>2, CoreCycle
  <1>7. QED
    BY <1>3, <1>4, <1>5, <1>6

\* The registers with the answer to a fetch taken.
LEMMA RespondedTypes ==
  ASSUME hart \in HartRegisters
  PROVE  SameDebug(Base, Responded) /\ Responded \in HartRegisters
  <1>1. SameDebug(Base, Responded)
    BY BaseTypes, FetchForm, Zenon DEF Responded
  <1>2. QED
    BY <1>1 DEF SameDebug

\* A cycle outside debug mode.
LEMMA RunCycle ==
  ASSUME hart \in HartRegisters, hart.state # "DEBUG", NEW c, SameDebug(Base, c),
         NEW ends, NEW at \in Datum, hart' = Debugged(c, ends, at)
  PROVE  CoreThenDebug
  BY CoreCycle DEF CoreThenDebug

LEMMA FetchCycles ==
  ASSUME hart \in HartRegisters, NEW ar \in BOOLEAN,
         FetchCycle(ar) \/ FetchFault(ar) \/ FetchStraddle(ar)
  PROVE  CoreThenDebug
  <1>1. /\ Base \in HartRegisters /\ Responded \in HartRegisters
        /\ SameDebug(Base, Responded) /\ hart.pc \in Datum
    BY BaseTypes, RespondedTypes, Addresses
  <1>2. hart.state # "DEBUG"
    BY DEF FetchCycle, FetchFault, FetchStraddle, FetchResponse, Fetching
  <1>3. CASE FetchCycle(ar)
    <2> DEFINE x == Base.fetchOutstanding \/ ar
               c == [Base EXCEPT !.fetchOutstanding = x]
    <2>1. x \in BOOLEAN
      OBVIOUS
    <2>2. hart' = Debugged(c, IF hart.fetchOutstanding THEN "busy" ELSE "fetch", hart.pc)
      BY <1>3 DEF FetchCycle
    <2> HIDE DEF x
    <2>3. SameDebug(Base, c)
      BY <1>1, <2>1, FetchForm, Zenon
    <2> HIDE DEF c
    <2>4. QED
      BY <1>1, <1>2, <2>2, <2>3, RunCycle
  <1>4. CASE FetchFault(ar)
    <2> DEFINE t == Trapped(Responded, hart.pc)
               c == [t EXCEPT !.state = "IRQ"]
    <2>1. SameDebug(Responded, t)
      BY <1>1, TrappedTypes
    <2>2. hart' = Debugged(c, "fetch", hart.pc)
      BY <1>4 DEF FetchFault
    <2> HIDE DEF t
    <2>3. t \in HartRegisters /\ "IRQ" \in State
      BY <2>1 DEF SameDebug, State
    <2>4. SameDebug(t, c)
      BY <2>3, StateForm, Zenon
    <2> HIDE DEF c
    <2>5. SameDebug(Base, c)
      BY <1>1, <2>1, <2>4, Transitive
    <2>6. QED
      BY <1>1, <1>2, <2>2, <2>5, RunCycle
  <1>5. CASE FetchStraddle(ar)
    <2> DEFINE c == [Responded EXCEPT !.state = "STRADDLE"]
    <2>1. hart' = Debugged(c, "fetch", hart.pc)
      BY <1>5 DEF FetchStraddle
    <2>2. "STRADDLE" \in State
      BY DEF State
    <2>3. SameDebug(Responded, c)
      BY <1>1, <2>2, StateForm, Zenon
    <2> HIDE DEF c
    <2>4. SameDebug(Base, c)
      BY <1>1, <2>3, Transitive
    <2>5. QED
      BY <1>1, <1>2, <2>1, <2>4, RunCycle
  <1>6. QED
    BY <1>3, <1>4, <1>5

LEMMA DroppedCycle ==
  ASSUME hart \in HartRegisters, NEW ar \in BOOLEAN, Dropped(ar)
  PROVE  CoreThenDebug
  <1> DEFINE k == Fetched(ar)
             memory == k \in {"load", "store"}
             pc == IF memory THEN Responded.pc ELSE NextPc(k)
             s == IF memory THEN Responded.state ELSE "RUN"
             c == [Responded EXCEPT !.pc = pc, !.state = s]
  <1>1. Responded \in HartRegisters /\ SameDebug(Base, Responded) /\ hart.pc \in Datum
    BY RespondedTypes, Addresses
  <1>2. Responded.pc \in Datum /\ Responded.state \in State
    BY <1>1 DEF HartRegisters
  <1>3. pc \in Datum /\ s \in State
    BY <1>2, Addresses DEF State
  <1>4. hart.state # "DEBUG" /\ hart' = Debugged(c, "fetch", hart.pc)
    BY DEF Dropped, Arrives, FetchResponse, Fetching
  <1> HIDE DEF pc, s
  <1>5. SameDebug(Responded, c)
    BY <1>1, <1>3, PlaceForm, Zenon
  <1> HIDE DEF c
  <1>6. SameDebug(Base, c)
    BY <1>1, <1>5, Transitive
  <1>7. QED
    BY <1>1, <1>4, <1>6, RunCycle

LEMMA CommitCycles ==
  ASSUME hart \in HartRegisters, NEW ar \in BOOLEAN,
         CommitEbreak(ar) \/ CommitTrap(ar) \/ CommitRetire(ar) \/ CommitMem(ar)
  PROVE  CoreThenDebug
  <1>1. Responded \in HartRegisters /\ SameDebug(Base, Responded) /\ hart.pc \in Datum
    BY RespondedTypes, Addresses
  <1>2. hart.state # "DEBUG"
    BY DEF CommitEbreak, CommitTrap, CommitRetire, CommitMem, Arrives, FetchResponse, Fetching
  <1>3. CASE CommitEbreak(ar)
    <2> DEFINE pc == NextPc("ebreak")
               c == [Responded EXCEPT !.pc = pc]
    <2>1. hart' = Debugged(c, "ebreak", hart.pc)
      BY <1>3 DEF CommitEbreak
    <2>2. pc \in Datum
      BY Addresses
    <2> HIDE DEF pc
    <2>3. SameDebug(Responded, c)
      BY <1>1, <2>2, PcForm, Zenon
    <2> HIDE DEF c
    <2>4. SameDebug(Base, c)
      BY <1>1, <2>3, Transitive
    <2>5. QED
      BY <1>1, <1>2, <2>1, <2>4, RunCycle
  <1>4. CASE CommitTrap(ar)
    <2> DEFINE t == Trapped(Responded, hart.pc)
               c == [t EXCEPT !.pc = Handler, !.state = "RUN"]
    <2>1. SameDebug(Responded, t)
      BY <1>1, TrappedTypes
    <2>2. hart' = Debugged(c, "commit", Handler)
      BY <1>4 DEF CommitTrap
    <2> HIDE DEF t
    <2>3. t \in HartRegisters /\ "RUN" \in State /\ Handler \in Datum
      BY <2>1, Addresses DEF SameDebug, State
    <2>4. SameDebug(t, c)
      BY <2>3, PlaceForm, Zenon
    <2> HIDE DEF c
    <2>5. SameDebug(Base, c)
      BY <1>1, <2>1, <2>4, Transitive
    <2>6. QED
      BY <1>2, <2>2, <2>3, <2>5, RunCycle
  <1>5. CASE CommitRetire(ar)
    <2> DEFINE k == Fetched(ar)
               pc == NextPc(k)
               s == IF k = "wfi" THEN "SLEEP" ELSE "RUN"
               mie == CASE k = "mret" -> hart.mpie [] k = "setmie" -> TRUE
                        [] OTHER -> Responded.mie
               mpie == Responded.mpie \/ k = "mret"
               c == [Responded EXCEPT !.pc = pc, !.state = s, !.mie = mie, !.mpie = mpie]
    <2>1. hart' = Debugged(Boundary(c), "commit", pc)
      BY <1>5 DEF CommitRetire
    <2>2. pc \in Datum /\ s \in State
      BY Addresses DEF State
    <2>3. hart.mpie \in BOOLEAN /\ Responded.mie \in BOOLEAN
      BY <1>1 DEF HartRegisters
    <2>4. mie \in BOOLEAN
      BY <2>3
    <2>5. mpie \in BOOLEAN
      OBVIOUS
    <2> HIDE DEF pc, s, mie, mpie
    <2>6. SameDebug(Responded, c)
      BY <1>1, <2>2, <2>4, <2>5, RetireForm, Zenon
    <2> HIDE DEF c
    <2>7. SameDebug(c, Boundary(c))
      BY <2>6, BoundaryTypes DEF SameDebug
    <2>8. SameDebug(Base, Boundary(c))
      BY <1>1, <2>6, <2>7, Transitive
    <2>9. QED
      BY <1>2, <2>1, <2>2, <2>8, RunCycle
  <1>6. CASE CommitMem(ar)
    <2> DEFINE s == IF Fetched(ar) = "load" THEN "LOAD" ELSE "STORE"
               c == [Responded EXCEPT !.state = s, !.memOutstanding = FALSE, !.awDone = FALSE,
                                      !.wDone = FALSE]
    <2>1. hart' = Debugged(c, "busy", hart.pc)
      BY <1>6 DEF CommitMem
    <2>2. s \in State
      BY DEF State
    <2> HIDE DEF s
    <2>3. SameDebug(Responded, c)
      BY <1>1, <2>2, MemForm, Zenon
    <2> HIDE DEF c
    <2>4. SameDebug(Base, c)
      BY <1>1, <2>3, Transitive
    <2>5. QED
      BY <1>1, <1>2, <2>1, <2>4, RunCycle
  <1>7. QED
    BY <1>3, <1>4, <1>5, <1>6

\* The memory phase ends, in a trap or after the instruction.
LEMMA MemEndCycle ==
  ASSUME hart \in HartRegisters, hart.state # "DEBUG", NEW c, SameDebug(Base, c),
         hart' \in MemEnd(c)
  PROVE  CoreThenDebug
  <1>1. c \in HartRegisters /\ hart.pc \in Datum /\ Handler \in Datum
        /\ Following(hart.pc) \in Datum
    BY Addresses DEF SameDebug
  <1>2. CASE hart' = MemFault(c)
    <2> DEFINE t == Trapped(c, hart.pc)
               d == [t EXCEPT !.state = "IRQ"]
    <2>1. SameDebug(c, t)
      BY <1>1, TrappedTypes
    <2>2. hart' = Debugged(d, "memory", Handler)
      BY <1>2 DEF MemFault
    <2> HIDE DEF t
    <2>3. t \in HartRegisters /\ "IRQ" \in State
      BY <2>1 DEF SameDebug, State
    <2>4. SameDebug(t, d)
      BY <2>3, StateForm, Zenon
    <2> HIDE DEF d
    <2>5. SameDebug(Base, d)
      BY <2>1, <2>4, Transitive
    <2>6. QED
      BY <1>1, <2>2, <2>5, RunCycle
  <1>3. CASE hart' = MemDone(c)
    <2> DEFINE pc == Following(hart.pc)
               d == [c EXCEPT !.pc = pc, !.state = "RUN"]
    <2>1. hart' = Debugged(Boundary(d), "memory", pc)
      BY <1>3 DEF MemDone
    <2>2. pc \in Datum /\ "RUN" \in State
      BY <1>1 DEF State
    <2> HIDE DEF pc
    <2>3. SameDebug(c, d)
      BY <1>1, <2>2, PlaceForm, Zenon
    <2> HIDE DEF d
    <2>4. SameDebug(d, Boundary(d))
      BY <2>3, BoundaryTypes DEF SameDebug
    <2>5. SameDebug(Base, Boundary(d))
      BY <2>3, <2>4, Transitive
    <2>6. QED
      BY <2>1, <2>2, <2>5, RunCycle
  <1>4. QED
    BY <1>2, <1>3 DEF MemEnd

LEMMA MemCycles ==
  ASSUME hart \in HartRegisters, NEW ar \in BOOLEAN, NEW aw \in BOOLEAN, NEW w \in BOOLEAN,
         LoadCycle(ar) \/ LoadResponse(ar) \/ StoreCycle(aw, w) \/ StoreResponse(aw, w)
  PROVE  CoreThenDebug
  <1>1. Base \in HartRegisters /\ hart.pc \in Datum
    BY BaseTypes, Addresses
  <1>2. CASE LoadCycle(ar)
    <2> DEFINE x == Base.memOutstanding \/ ar
               c == [Base EXCEPT !.memOutstanding = x]
    <2>1. x \in BOOLEAN
      OBVIOUS
    <2>2. hart' = Debugged(c, "busy", hart.pc) /\ hart.state # "DEBUG"
      BY <1>2 DEF LoadCycle
    <2> HIDE DEF x
    <2>3. SameDebug(Base, c)
      BY <1>1, <2>1, LoadForm, Zenon
    <2> HIDE DEF c
    <2>4. QED
      BY <1>1, <2>2, <2>3, RunCycle
  <1>3. CASE LoadResponse(ar)
    <2> DEFINE c == [Base EXCEPT !.memOutstanding = FALSE]
    <2>1. hart' \in MemEnd(c) /\ hart.state # "DEBUG"
      BY <1>3 DEF LoadResponse
    <2>2. FALSE \in BOOLEAN
      OBVIOUS
    <2>3. SameDebug(Base, c)
      BY <1>1, <2>2, LoadForm, Zenon
    <2> HIDE DEF c
    <2>4. QED
      BY <2>1, <2>3, MemEndCycle
  <1>4. CASE StoreCycle(aw, w)
    <2> DEFINE x == Base.awDone \/ aw
               y == Base.wDone \/ w
               c == [Base EXCEPT !.awDone = x, !.wDone = y]
    <2>1. x \in BOOLEAN /\ y \in BOOLEAN
      OBVIOUS
    <2>2. hart' = Debugged(c, "busy", hart.pc) /\ hart.state # "DEBUG"
      BY <1>4 DEF StoreCycle
    <2> HIDE DEF x, y
    <2>3. SameDebug(Base, c)
      BY <1>1, <2>1, StoreForm, Zenon
    <2> HIDE DEF c
    <2>4. QED
      BY <1>1, <2>2, <2>3, RunCycle
  <1>5. CASE StoreResponse(aw, w)
    <2> DEFINE c == [Base EXCEPT !.awDone = FALSE, !.wDone = FALSE]
    <2>1. hart' \in MemEnd(c) /\ hart.state # "DEBUG"
      BY <1>5 DEF StoreResponse
    <2>2. FALSE \in BOOLEAN
      OBVIOUS
    <2>3. SameDebug(Base, c)
      BY <1>1, <2>2, StoreForm, Zenon
    <2> HIDE DEF c
    <2>4. QED
      BY <2>1, <2>3, MemEndCycle
  <1>6. QED
    BY <1>2, <1>3, <1>4, <1>5

\* The end of an access: its registers are left, its state too.
LEMMA DoneCycle ==
  ASSUME hart \in HartRegisters, hart.state = "DEBUG", hart.memBusy, NEW c,
         SameDebug(DebugDone, c), c.state = "DEBUG", hart' = Debugged(c, "busy", hart.pc)
  PROVE  CoreThenDebug
  <1>1. CoreLeaves(c)
    BY BaseTypes DEF SameDebug, CoreLeaves
  <1>2. QED
    BY <1>1, Addresses DEF CoreThenDebug

\* The slave's queues hold requests.
QueuesTypeOK == reads \in Seq(Access) /\ awrites \in Seq(Access) /\ wwrites \in Seq(Access)

LEMMA ShownTypes ==
  ASSUME hart \in HartRegisters
  PROVE  ArBits \in Access /\ AwBits \in Access /\ WBits \in Access /\ Shown \subseteq Access
  <1>1. hart.pc \in Datum /\ hart.memory.address \in Datum /\ hart.memory.data \in Datum
        /\ 0 \in Datum
    BY DatumFacts DEF HartRegisters, Latch
  <1>2. ArBits \in Access
    BY <1>1 DEF ArBits, Access
  <1>3. AwBits \in Access /\ WBits \in Access
    BY <1>1 DEF AwBits, WBits, Access
  <1>4. QED
    BY <1>2, <1>3 DEF Shown

LEMMA WithTypes ==
  ASSUME hart \in HartRegisters, QueuesTypeOK, NEW x \in BOOLEAN
  PROVE  /\ ReadsWith(x) \in Seq(Access) /\ AwritesWith(x) \in Seq(Access)
         /\ WwritesWith(x) \in Seq(Access)
  <1>1. ArBits \in Access /\ AwBits \in Access /\ WBits \in Access
    BY ShownTypes
  <1>2. /\ Append(reads, ArBits) \in Seq(Access) /\ Append(awrites, AwBits) \in Seq(Access)
        /\ Append(wwrites, WBits) \in Seq(Access)
    BY <1>1 DEF QueuesTypeOK
  <1>3. QED
    BY <1>2 DEF ReadsWith, AwritesWith, WwritesWith, QueuesTypeOK

LEMMA CommandCycles ==
  ASSUME hart \in HartRegisters, QueuesTypeOK,
         NEW ar \in BOOLEAN, NEW aw \in BOOLEAN, NEW w \in BOOLEAN,
         DebugRead(ar) \/ DebugReadResponse(ar) \/ DebugWrite(aw, w) \/ DebugWriteResponse(aw, w)
  PROVE  CoreThenDebug
  <1>1. /\ Base \in HartRegisters /\ DebugDone \in HartRegisters /\ hart.pc \in Datum
        /\ Base.state = hart.state /\ DebugDone.state = hart.state
    BY BaseTypes, Addresses
  <1>2. hart.state = "DEBUG" /\ hart.memBusy
    BY DEF DebugRead, DebugReadResponse, DebugWrite, DebugWriteResponse, DebugReads, DebugWrites
  <1>3. FALSE \in BOOLEAN /\ BUS \in SUBSET (0 .. 2)
    BY DEF BUS
  <1>4. CASE DebugRead(ar)
    <2> DEFINE x == Base.debugOutstanding \/ ar
               c == [Base EXCEPT !.debugOutstanding = x]
    <2>1. x \in BOOLEAN
      OBVIOUS
    <2>2. hart' = Debugged(c, "busy", hart.pc)
      BY <1>4 DEF DebugRead
    <2> HIDE DEF x
    <2>3. SameDebug(Base, c) /\ c.state = Base.state
      BY <1>1, <2>1, DebugReadForm, Zenon
    <2> HIDE DEF c
    <2>4. QED
      BY <1>1, <1>2, <2>2, <2>3, CoreCycle DEF CoreThenDebug
  <1>5. CASE DebugWrite(aw, w)
    <2> DEFINE x == Base.debugAwDone \/ aw
               y == Base.debugWDone \/ w
               c == [Base EXCEPT !.debugAwDone = x, !.debugWDone = y]
    <2>1. x \in BOOLEAN /\ y \in BOOLEAN
      OBVIOUS
    <2>2. hart' = Debugged(c, "busy", hart.pc)
      BY <1>5 DEF DebugWrite
    <2> HIDE DEF x, y
    <2>3. SameDebug(Base, c) /\ c.state = Base.state
      BY <1>1, <2>1, DebugWriteForm, Zenon
    <2> HIDE DEF c
    <2>4. QED
      BY <1>1, <1>2, <2>2, <2>3, CoreCycle DEF CoreThenDebug
  <1>6. CASE DebugReadResponse(ar)
    <2> DEFINE c == [DebugDone EXCEPT !.debugOutstanding = FALSE]
               a == Head(ReadsWith(ar)).at
               d == [c EXCEPT !.abstractRdata = a]
               e == [c EXCEPT !.abstractError = BUS]
    <2>1. /\ hart' = Debugged(d, "busy", hart.pc) \/ hart' = Debugged(e, "busy", hart.pc)
          /\ ReadsWith(ar) # <<>>
      BY <1>6 DEF DebugReadResponse, AnswersRead
    <2>2. a \in Datum
      <3>1. ReadsWith(ar) \in Seq(Access)
        BY WithTypes
      <3>2. Head(ReadsWith(ar)) \in Access
        BY <2>1, <3>1
      <3>3. QED
        BY <3>2 DEF Access
    <2>3. SameDebug(DebugDone, c) /\ c.state = "DEBUG"
      <3>1. SameDebug(DebugDone, c) /\ c.state = DebugDone.state
        BY <1>1, <1>3, DebugReadForm, Zenon
      <3>2. QED
        BY <1>1, <1>2, <3>1
    <2> HIDE DEF a, c
    <2>4. c \in HartRegisters
      BY <2>3 DEF SameDebug
    <2>5. SameDebug(c, d) /\ d.state = c.state
      BY <2>2, <2>4, AnswerForm, Zenon
    <2>6. SameDebug(c, e) /\ e.state = c.state
      BY <1>3, <2>4, ErrorForm, Zenon
    <2> HIDE DEF d, e
    <2>7. SameDebug(DebugDone, d) /\ SameDebug(DebugDone, e)
      BY <2>3, <2>5, <2>6, Transitive
    <2>8. QED
      BY <1>2, <2>1, <2>3, <2>5, <2>6, <2>7, DoneCycle
  <1>7. CASE DebugWriteResponse(aw, w)
    <2> DEFINE c == [DebugDone EXCEPT !.debugAwDone = FALSE, !.debugWDone = FALSE]
               e == [c EXCEPT !.abstractError = BUS]
    <2>1. hart' = Debugged(c, "busy", hart.pc) \/ hart' = Debugged(e, "busy", hart.pc)
      BY <1>7 DEF DebugWriteResponse
    <2>2. SameDebug(DebugDone, c) /\ c.state = "DEBUG"
      <3>1. SameDebug(DebugDone, c) /\ c.state = DebugDone.state
        BY <1>1, <1>3, DebugWriteForm, Zenon
      <3>2. QED
        BY <1>1, <1>2, <3>1
    <2> HIDE DEF c
    <2>3. c \in HartRegisters
      BY <2>2 DEF SameDebug
    <2>4. SameDebug(c, e) /\ e.state = c.state
      BY <1>3, <2>3, ErrorForm, Zenon
    <2> HIDE DEF e
    <2>5. SameDebug(DebugDone, e)
      BY <2>2, <2>4, Transitive
    <2>6. QED
      BY <1>2, <2>1, <2>2, <2>4, <2>5, DoneCycle
  <1>8. QED
    BY <1>4, <1>5, <1>6, <1>7

LEMMA HartCycle ==
  ASSUME hart \in HartRegisters, QueuesTypeOK, HartNext
  PROVE  CoreThenDebug
  <1>1. ASSUME NEW ar \in BOOLEAN, ReadCycle(ar) PROVE CoreThenDebug
    BY <1>1, FetchCycles, DroppedCycle, CommitCycles, MemCycles, CommandCycles DEF ReadCycle
  <1>2. ASSUME NEW aw \in BOOLEAN, NEW w \in BOOLEAN, WriteCycle(aw, w) PROVE CoreThenDebug
    BY <1>2, MemCycles, CommandCycles DEF WriteCycle
  <1>3. QED
    BY <1>1, <1>2, RestCycles DEF HartNext

\* Whatever the slave accepts and answers, its queues and the stalled requests keep their
\* types.
LEMMA SlaveTypes ==
  ASSUME hart \in HartRegisters, QueuesTypeOK, program \in Programs, HartNext
  PROVE  QueuesTypeOK' /\ program' \in Programs /\ pin' \in BOOLEAN /\ stalled' \subseteq Access
  <1> DEFINE P == QueuesTypeOK' /\ program' \in Programs /\ pin' \in BOOLEAN
                  /\ stalled' \subseteq Access
  <1>1. ASSUME NEW ar \in BOOLEAN, NEW aw \in BOOLEAN, NEW w \in BOOLEAN, Outside(ar, aw, w)
        PROVE  program' \in Programs /\ pin' \in BOOLEAN /\ stalled' \subseteq Access
    BY <1>1, ShownTypes DEF Outside
  <1>2. ASSUME NEW ar \in BOOLEAN, NEW aw \in BOOLEAN, NEW w \in BOOLEAN, Accepts(ar, aw, w)
        PROVE  P
    BY <1>1, <1>2, WithTypes DEF Accepts, QueuesTypeOK
  <1>3. ASSUME NEW ar \in BOOLEAN, AnswersRead(ar) PROVE P
    <2>1. ReadsWith(ar) \in Seq(Access) /\ ReadsWith(ar) # <<>>
      BY <1>3, WithTypes DEF AnswersRead
    <2>2. Tail(ReadsWith(ar)) \in Seq(Access)
      BY <2>1
    <2>3. QED
      BY <1>1, <1>3, <2>2 DEF AnswersRead, QueuesTypeOK, writes
  <1>4. ASSUME NEW aw \in BOOLEAN, NEW w \in BOOLEAN, AnswersWrite(aw, w) PROVE P
    <2>1. /\ AwritesWith(aw) \in Seq(Access) /\ AwritesWith(aw) # <<>>
          /\ WwritesWith(w) \in Seq(Access) /\ WwritesWith(w) # <<>>
      BY <1>4, WithTypes DEF AnswersWrite
    <2>2. Tail(AwritesWith(aw)) \in Seq(Access) /\ Tail(WwritesWith(w)) \in Seq(Access)
      BY <2>1
    <2>3. QED
      BY <1>1, <1>4, <2>2 DEF AnswersWrite, QueuesTypeOK
  <1> HIDE DEF P
  <1>5. ASSUME NEW ar \in BOOLEAN, ReadCycle(ar) PROVE P
    <2>1. FetchCycle(ar) \/ LoadCycle(ar) \/ DebugRead(ar) => Accepts(ar, FALSE, FALSE)
      BY DEF FetchCycle, LoadCycle, DebugRead
    <2>2. FetchFault(ar) \/ FetchStraddle(ar) => AnswersRead(ar)
      BY DEF FetchFault, FetchStraddle, FetchResponse
    <2>3. Dropped(ar) \/ CommitEbreak(ar) \/ CommitTrap(ar) \/ CommitRetire(ar) \/ CommitMem(ar)
            => AnswersRead(ar)
      BY DEF Dropped, CommitEbreak, CommitTrap, CommitRetire, CommitMem, Arrives, FetchResponse
    <2>4. LoadResponse(ar) \/ DebugReadResponse(ar) => AnswersRead(ar)
      BY DEF LoadResponse, DebugReadResponse
    <2>5. QED
      BY <1>2, <1>3, <1>5, <2>1, <2>2, <2>3, <2>4 DEF ReadCycle
  <1>6. ASSUME NEW aw \in BOOLEAN, NEW w \in BOOLEAN, WriteCycle(aw, w) PROVE P
    <2>1. StoreCycle(aw, w) \/ DebugWrite(aw, w) => Accepts(FALSE, aw, w)
      BY DEF StoreCycle, DebugWrite
    <2>2. StoreResponse(aw, w) \/ DebugWriteResponse(aw, w) => AnswersWrite(aw, w)
      BY DEF StoreResponse, DebugWriteResponse
    <2>3. QED
      BY <1>2, <1>4, <1>6, <2>1, <2>2 DEF WriteCycle
  <1>7. ResetCycle \/ IrqCycle \/ SleepCycle \/ DebugIdle => Accepts(FALSE, FALSE, FALSE)
    BY DEF ResetCycle, IrqCycle, SleepCycle, DebugIdle
  <1>8. P
    BY <1>2, <1>5, <1>6, <1>7 DEF HartNext
  <1>9. QED
    BY <1>8 DEF P

(***************************************************************************)
(* Types, whatever the debugger does.                                      *)
(***************************************************************************)
TypeInv == ModuleTypeOK /\ TypeOK

LEMMA InitTypes == ASSUME Init PROVE TypeInv
  <1>1. ModuleTypeOK
    <2>1. Inactive \in DmRegisters /\ 0 \in 0 .. MaxRequests /\ [to |-> "readdata"] \in Request
      BY RestTypes, MaxRequestsAssumption DEF Request
    <2>2. QED
      BY <2>1 DEF Init, DmInit, ModuleTypeOK
  <1>2. PowerOn \in HartRegisters
    BY RestTypes, DatumFacts DEF PowerOn, HartRegisters, State, NONE
  <1>3. hart = PowerOn /\ program \in Programs /\ pin = FALSE
        /\ reads = <<>> /\ awrites = <<>> /\ wwrites = <<>> /\ stalled = {}
    BY DEF Init, HartInit
  <1>4. <<>> \in Seq(Access) /\ {} \subseteq Access
    OBVIOUS
  <1>5. QED
    BY <1>1, <1>2, <1>3, <1>4, Zenon DEF TypeInv, ModuleTypeOK, TypeOK

LEMMA StepTypes == ASSUME TypeInv, Next PROVE TypeInv'
  <1>1. ModuleTypeOK /\ hart \in HartRegisters /\ dm \in DmRegisters /\ QueuesTypeOK
        /\ program \in Programs
    BY DEF TypeInv, ModuleTypeOK, TypeOK, QueuesTypeOK
  <1>2. DmNext(hart) /\ HartNext
    BY DEF Next
  <1>3. ModuleTypeOK'
    BY <1>1, <1>2, ModuleStep
  <1>4. hart' \in HartRegisters
    <2>1. CoreThenDebug
      BY <1>1, <1>2, HartCycle
    <2>2. PICK c, ends, at : CoreLeaves(c) /\ at \in Datum /\ hart' = Debugged(c, ends, at)
      BY <2>1 DEF CoreThenDebug
    <2>3. QED
      BY <1>1, <2>2, DebuggedEffect
  <1>5. QueuesTypeOK' /\ program' \in Programs /\ pin' \in BOOLEAN /\ stalled' \subseteq Access
    BY <1>1, <1>2, SlaveTypes
  <1>6. QED
    BY <1>3, <1>4, <1>5 DEF TypeInv, ModuleTypeOK, TypeOK, QueuesTypeOK

LEMMA TypesHold == Spec => []TypeInv
  <1>1. Init => TypeInv
    BY InitTypes
  <1>2. TypeInv /\ UNCHANGED vars => TypeInv'
    BY DEF TypeInv, ModuleTypeOK, TypeOK, vars, dmVars, hartVars, writes
  <1>3. TypeInv /\ [Next]_vars => TypeInv'
    BY <1>2, StepTypes
  <1>4. QED
    BY <1>1, <1>3, PTL DEF Spec

\* The registers of the module and of the hart, and what the slave holds, stay within their
\* types under every debugger.
THEOREM TypeCorrect == Spec => []TypeOK
  <1>1. TypeInv => TypeOK
    BY DEF TypeInv
  <1>2. QED
    BY <1>1, TypesHold, PTL

(***************************************************************************)
(* A command and its answer, with an orderly debugger.                     *)
(*                                                                         *)
(* That a command is in exactly one place is not kept by itself: a reset   *)
(* forgets an access at work, and switching the module off forgets what it *)
(* waits for.  RunControl says why neither meets a command: a request that    *)
(* would is made when none is in progress, and none starts before it is    *)
(* served.  A command started now finds the hart halted next because no    *)
(* resume and no reset is on its way to it.                                *)
(***************************************************************************)
Disrupts == request.to = "off" \/ (request.to = "dmcontrol" /\ request.control.reset)

RunControl ==
  /\ ResetReq => ~dm.busy /\ (stage # "idle" => hart.state = "RESET")
  /\ dm.resumeReq => ~dm.busy /\ stage = "idle"
  /\ hart.resetActive => hart.state = "RESET"
  /\ stage # "idle" /\ Disrupts => ~dm.busy

OnePlace ==
  /\ ~dm.busy => ~dm.valid /\ ~hart.memBusy /\ ~hart.abstractDone
  /\ dm.busy => dm.valid \/ hart.memBusy \/ hart.abstractDone
  /\ ~(dm.valid /\ hart.memBusy) /\ ~(dm.valid /\ hart.abstractDone)
  /\ ~(hart.memBusy /\ hart.abstractDone)

CommandInv == TypeInv /\ RunControl /\ OnePlace /\ CommandMeetsHaltedHart

\* What a cycle of the hart does to the command in progress.
HartEffect ==
  /\ hart'.resetActive <=> ResetReq
  /\ ResetReq => hart'.state = "RESET"
  /\ hart'.abstractDone => hart.memBusy \/ dm.valid
  /\ hart'.memBusy => ~ResetReq /\ (hart.memBusy \/ dm.valid)
  /\ ~ResetReq /\ (hart.memBusy \/ dm.valid) => hart'.memBusy \/ hart'.abstractDone
  /\ ~(dm.valid /\ hart.memBusy) => ~(hart'.memBusy /\ hart'.abstractDone)
  /\ hart.state = "DEBUG" /\ ~ResetReq /\ ~dm.resumeReq /\ ~hart.resetActive
       => hart'.state = "DEBUG"

LEMMA HartEffectHolds == ASSUME TypeInv, Next PROVE HartEffect
  <1>1. dm \in DmRegisters /\ hart \in HartRegisters /\ QueuesTypeOK /\ HartNext
    BY DEF TypeInv, TypeOK, QueuesTypeOK, Next
  <1>2. PICK c, ends, at : CoreLeaves(c) /\ at \in Datum /\ hart' = Debugged(c, ends, at)
    BY <1>1, HartCycle DEF CoreThenDebug
  <1>3. /\ hart'.resetActive <=> ResetReq
        /\ ResetReq => hart'.state = "RESET"
        /\ hart'.abstractDone <=> c.abstractDone \/ (dm.valid /\ ~Begins)
        /\ hart'.memBusy <=> ~ResetReq /\ (c.memBusy \/ (dm.valid /\ Begins))
        /\ hart.state = "DEBUG" /\ ~ResetReq /\ ~dm.resumeReq /\ ~hart.resetActive
             => hart'.state = "DEBUG"
    BY <1>1, <1>2, DebuggedEffect
  <1>4. \/ c.memBusy = hart.memBusy /\ ~c.abstractDone
        \/ hart.memBusy /\ ~c.memBusy /\ c.abstractDone
    BY <1>2 DEF CoreLeaves
  <1>5. QED
    BY <1>3, <1>4 DEF HartEffect

\* How the module ends the cycle, as in ModuleStep.
ModuleEffect ==
  \/ stage = "idle" /\ Keeps /\ stage' = "idle" /\ request' = request
  \/ stage = "idle" /\ Keeps /\ stage' = "sent" /\ (Orderly => Polite(request'))
  \/ stage \in {"sent", "meta"} /\ Keeps /\ stage' # "idle" /\ request' = request
  \/ stage = "sync" /\ stage' = "idle" /\ request' = request
     /\ (Keeps \/ SwitchesOff \/ Controls \/ Starts)

LEMMA ModuleEffectHolds == ASSUME TypeInv, Next PROVE ModuleEffect
  <1>1. ModuleTypeOK /\ hart \in HartRegisters /\ DmNext(hart)
    BY DEF TypeInv, TypeOK, Next
  <1>2. made' # made => (Orderly => Polite(request'))
    BY DEF Next
  <1>3. QED
    BY <1>1, <1>2, ModuleStep DEF ModuleEffect

LEMMA RunControlStep ==
  ASSUME Orderly, TypeInv, RunControl, OnePlace, HartEffect, ModuleEffect
  PROVE  RunControl'
  <1>1. /\ ResetReq => ~dm.busy /\ (stage # "idle" => hart.state = "RESET")
        /\ stage # "idle" /\ Disrupts => ~dm.busy
        /\ ResetReq => hart'.state = "RESET"
        /\ hart'.resetActive <=> ResetReq
    BY DEF RunControl, HartEffect
  <1>2. CASE Keeps
    <2>1. /\ ResetReq' <=> ResetReq
          /\ ~dm'.resumeReq /\ (~dm.busy => ~dm'.busy)
      BY <1>2 DEF Keeps, StillBusy, ResetReq
    <2>2. stage' # "idle" /\ Disrupts' => ~dm.busy
      <3>1. CASE request' = request /\ stage # "idle"
        BY <1>1, <3>1 DEF Disrupts
      <3>2. CASE stage' = "idle"
        BY <3>2
      <3>3. CASE Polite(request')
        BY <3>3 DEF Polite, Disrupts
      <3>4. QED
        BY <3>1, <3>2, <3>3 DEF ModuleEffect
    <2>3. QED
      BY <1>1, <2>1, <2>2 DEF RunControl
  <1>3. CASE ~Keeps
    <2>1. stage = "sync" /\ stage' = "idle" /\ (SwitchesOff \/ Controls \/ Starts)
      BY <1>3 DEF ModuleEffect
    <2>2. CASE SwitchesOff
      BY <1>1, <2>1, <2>2 DEF SwitchesOff, RunControl, ResetReq
    <2>3. CASE Controls
      <3>1. dm'.resumeReq => ~dm'.busy
        BY <2>3 DEF Controls, StillBusy
      <3>2. ResetReq' => ~dm'.busy
        BY <1>1, <2>1, <2>3 DEF Controls, StillBusy, ResetReq, Disrupts
      <3>3. QED
        BY <1>1, <2>1, <3>1, <3>2 DEF RunControl
    <2>4. CASE Starts
      <3>1. ~ResetReq /\ ~ResetReq'
        BY <1>1, <2>1, <2>4 DEF Starts, ResetReq
      <3>2. QED
        BY <1>1, <2>1, <2>4, <3>1 DEF Starts, RunControl
    <2>5. QED
      BY <2>1, <2>2, <2>3, <2>4
  <1>4. QED
    BY <1>2, <1>3

LEMMA OnePlaceStep ==
  ASSUME TypeInv, RunControl, OnePlace, HartEffect, ModuleEffect
  PROVE  OnePlace'
  <1>1. /\ ~dm.busy => ~hart'.memBusy /\ ~hart'.abstractDone
        /\ StillBusy => hart'.memBusy \/ hart'.abstractDone
        /\ ~(hart'.memBusy /\ hart'.abstractDone)
        /\ dm.busy /\ hart.abstractDone => ~hart'.memBusy /\ ~hart'.abstractDone
    BY DEF RunControl, OnePlace, HartEffect, StillBusy
  <1>2. CASE dm'.valid = FALSE /\ dm'.busy = StillBusy
    BY <1>1, <1>2 DEF OnePlace, StillBusy
  <1>3. CASE stage = "sync" /\ SwitchesOff
    <2>1. ~dm.busy
      BY <1>3 DEF SwitchesOff, RunControl, Disrupts
    <2>2. QED
      BY <1>1, <1>3, <2>1 DEF OnePlace, SwitchesOff
  <1>4. CASE Starts
    BY <1>1, <1>4 DEF OnePlace, Starts
  <1>5. QED
    BY <1>2, <1>3, <1>4 DEF ModuleEffect, Keeps, Controls

LEMMA HaltedStep ==
  ASSUME TypeInv, RunControl, OnePlace, CommandMeetsHaltedHart, HartEffect, ModuleEffect
  PROVE  CommandMeetsHaltedHart'
  <1>1. /\ dm.busy => ~ResetReq /\ ~dm.resumeReq
        /\ stage = "sync" /\ hart.state = "DEBUG" => ~ResetReq /\ ~dm.resumeReq
        /\ hart.state = "DEBUG" => ~hart.resetActive
    BY DEF RunControl
  <1>2. CASE hart'.memBusy
    <2>1. dm.busy /\ hart.state = "DEBUG"
      BY <1>2 DEF HartEffect, OnePlace, CommandMeetsHaltedHart
    <2>2. QED
      BY <1>1, <2>1 DEF HartEffect, CommandMeetsHaltedHart
  <1>3. CASE dm'.valid
    <2>1. stage = "sync" /\ hart.state = "DEBUG"
      BY <1>3 DEF ModuleEffect, Keeps, SwitchesOff, Controls, Starts
    <2>2. QED
      BY <1>1, <2>1 DEF HartEffect, CommandMeetsHaltedHart
  <1>4. CASE ~hart'.memBusy /\ ~dm'.valid
    BY <1>4 DEF CommandMeetsHaltedHart
  <1>5. QED
    BY <1>2, <1>3, <1>4

LEMMA CommandInit == ASSUME Init PROVE CommandInv
  <1>1. /\ ~dm.dmactive /\ ~dm.resumeReq /\ ~dm.valid /\ ~dm.busy /\ stage = "idle"
        /\ ~hart.memBusy /\ ~hart.abstractDone /\ ~hart.resetActive
    BY DEF Init, DmInit, HartInit, Inactive, PowerOn
  <1>2. QED
    BY <1>1, InitTypes DEF CommandInv, RunControl, OnePlace, CommandMeetsHaltedHart, ResetReq

LEMMA CommandStep == ASSUME Orderly, CommandInv, Next PROVE CommandInv'
  <1>1. TypeInv /\ RunControl /\ OnePlace /\ CommandMeetsHaltedHart
    BY DEF CommandInv
  <1>2. TypeInv'
    BY <1>1, StepTypes
  <1>3. HartEffect /\ ModuleEffect
    BY <1>1, HartEffectHolds, ModuleEffectHolds
  <1>4. RunControl'
    BY <1>1, <1>3, RunControlStep
  <1>5. OnePlace'
    BY <1>1, <1>3, OnePlaceStep
  <1>6. CommandMeetsHaltedHart'
    BY <1>1, <1>3, HaltedStep
  <1>7. QED
    BY <1>2, <1>4, <1>5, <1>6 DEF CommandInv

LEMMA CommandInvHolds == ASSUME Orderly PROVE Spec => []CommandInv
  <1>1. Init => CommandInv
    BY CommandInit
  <1>2. CommandInv /\ UNCHANGED vars => CommandInv'
    <2>1. TypeInv /\ UNCHANGED vars => TypeInv'
      BY DEF TypeInv, ModuleTypeOK, TypeOK, vars, dmVars, hartVars, writes
    <2>2. QED
      BY <2>1 DEF CommandInv, RunControl, OnePlace, CommandMeetsHaltedHart, ResetReq, Disrupts,
                  vars, dmVars, hartVars
  <1>3. CommandInv /\ [Next]_vars => CommandInv'
    BY <1>2, CommandStep
  <1>4. QED
    BY <1>1, <1>3, PTL DEF Spec

\* With an orderly debugger, a command the module waits for is on its way to the hart, at work
\* there or on its way back, in exactly one of these places: none is lost and none answered twice.
THEOREM CommandsTracked == ASSUME Orderly PROVE Spec => []CommandTracked
  <1>1. CommandInv => CommandTracked
    BY DEF CommandInv, OnePlace, CommandTracked
  <1>2. QED
    BY <1>1, CommandInvHolds, PTL

\* With an orderly debugger, a command checked against a halted hart meets a halted hart, and
\* the hart stays halted until the access is over.
THEOREM CommandsMeetHaltedHarts == ASSUME Orderly PROVE Spec => []CommandMeetsHaltedHart
  <1>1. CommandInv => CommandMeetsHaltedHart
    BY DEF CommandInv
  <1>2. QED
    BY <1>1, CommandInvHolds, PTL

\* A command is in one place at a time and meets a halted hart all the way.
THEOREM CommandsReach == ASSUME Orderly PROVE Spec => []CommandsReachHart
  <1>1. CommandTracked /\ CommandMeetsHaltedHart => CommandsReachHart
    BY DEF CommandsReachHart
  <1>2. QED
    BY <1>1, CommandsTracked, CommandsMeetHaltedHarts, PTL

(***************************************************************************)
(* The port and the program, with an orderly debugger.                     *)
(*                                                                         *)
(* Everything rests on where the hart is.  While it runs the program there *)
(* is no command and no reset, so the debug logic can only stop it; while  *)
(* it is halted the core's own handshakes are at rest.  SessionInv says so *)
(* register by register, and what the slave owes follows.                  *)
(***************************************************************************)

\* A reset meets a hart that is halted, or held in reset already.
ResetWaits ==
  /\ ResetReq => hart.state \in {"DEBUG", "RESET"}
  /\ stage # "idle" /\ request.to = "dmcontrol" /\ request.control.reset =>
       ResetReq \/ (hart.state = "DEBUG" /\ ~dm.resumeReq)

\* A handshake is open only in the state that closes it.
InState ==
  /\ hart.fetchOutstanding => Fetching
  /\ hart.memOutstanding => hart.state = "LOAD"
  /\ hart.awDone \/ hart.wDone => hart.state = "STORE"
  /\ hart.debugOutstanding => DebugReads
  /\ hart.debugAwDone \/ hart.debugWDone => DebugWrites

\* What the state says of the instruction at pc, and a reset of the registers.
OfProgram ==
  /\ hart.state = "STRADDLE" => program[hart.pc] = "wide"
  /\ hart.state = "LOAD" => program[hart.pc] = "load"
  /\ hart.state = "STORE" => program[hart.pc] = "store"
  /\ hart.state = "RESET" => /\ hart.pc = 0 /\ ~hart.mie /\ ~hart.mpie /\ hart.mepc = 0
                             /\ ~hart.stepActive /\ ~hart.ebreakm

PortInv == InState /\ OfProgram /\ ResponsesExpected
SessionInv == CommandInv /\ ResetWaits /\ PortInv

Fields ==
  {"state", "pc", "mie", "mpie", "mepc", "fetchOutstanding", "memOutstanding", "awDone", "wDone",
   "dpc", "cause", "step", "ebreakm", "stepActive", "resetActive", "resumeAck", "resetAck",
   "abstractDone", "abstractError", "abstractRdata", "memBusy", "memory", "debugOutstanding",
   "debugAwDone", "debugWDone"}

\* d differs from b in the registers of S only.
Only(b, d, S) == d \in HartRegisters /\ \A f \in Fields \ S : d[f] = b[f]

LEMMA OnlyChain ==
  ASSUME NEW b, NEW c, NEW d, NEW S, NEW T, Only(b, c, S), Only(c, d, T)
  PROVE  Only(b, d, S \cup T)
  BY DEF Only

Pulses == {"resumeAck", "resetAck", "abstractDone", "abstractError"}

LEMMA BaseOnly ==
  ASSUME hart \in HartRegisters
  PROVE  Only(hart, Base, Pulses) /\ ~Base.abstractDone /\ Base.abstractError = NONE
  BY DEF HartRegisters, Base, Only, Fields, Pulses, NONE

LEMMA RespondedOnly ==
  ASSUME hart \in HartRegisters
  PROVE  /\ Only(hart, Responded, Pulses \cup {"fetchOutstanding"})
         /\ ~Responded.fetchOutstanding /\ ~Responded.abstractDone
  <1>1. Only(hart, Base, Pulses) /\ ~Base.abstractDone /\ Base \in HartRegisters
    BY BaseOnly DEF Only
  <1>2. ASSUME NEW b \in HartRegisters
        PROVE  /\ Only(b, [b EXCEPT !.fetchOutstanding = FALSE], {"fetchOutstanding"})
               /\ ~[b EXCEPT !.fetchOutstanding = FALSE].fetchOutstanding
               /\ [b EXCEPT !.fetchOutstanding = FALSE].abstractDone = b.abstractDone
    BY <1>2 DEF HartRegisters, Only, Fields
  <1>3. /\ Only(Base, Responded, {"fetchOutstanding"})
        /\ ~Responded.fetchOutstanding /\ ~Responded.abstractDone
    BY <1>1, <1>2 DEF Responded
  <1>4. QED
    BY <1>1, <1>3, OnlyChain

(***************************************************************************)
(* The debug logic, by where the hart is.                                  *)
(***************************************************************************)
InProgram == hart.state \notin {"DEBUG", "RESET"}

Stops(ends) ==
  \/ hart.stepActive /\ EndsStep(ends)
  \/ HaltReq /\ EndsForHalt(ends)
  \/ ends = "ebreak"

LEMMA ProgramFacts ==
  ASSUME SessionInv, InProgram
  PROVE  /\ ~dm.valid /\ ~hart.memBusy /\ ~ResetReq /\ ~hart.resetActive
         /\ ~hart.debugOutstanding /\ ~hart.debugAwDone /\ ~hart.debugWDone
         /\ hart \in HartRegisters /\ hart.pc \in Datum
  BY DEF SessionInv, CommandInv, TypeInv, TypeOK, RunControl, CommandMeetsHaltedHart, ResetWaits, PortInv,
         InState, InProgram, HartRegisters, DebugReads, DebugWrites

\* While the hart runs the program the debug logic can only stop it.
LEMMA ProgramCycle ==
  ASSUME SessionInv, InProgram, NEW c \in HartRegisters, NEW ends, NEW at \in Datum,
         hart' = Debugged(c, ends, at)
  PROVE  /\ Only(c, hart', {"state", "pc", "dpc", "cause", "stepActive"})
         /\ hart'.stepActive = (c.stepActive /\ ~(hart.stepActive /\ EndsStep(ends)))
         /\ Stops(ends) => hart'.state = "DEBUG" /\ hart'.dpc = at
         /\ ~Stops(ends) => hart' = c
  <1> DEFINE steps == hart.stepActive /\ EndsStep(ends)
             halts == HaltReq /\ EndsForHalt(ends)
             pc == IF ends \in {"commit", "memory", "irq"} THEN at ELSE c.pc
             cause == IF halts THEN "halt" ELSE IF ends = "ebreak" THEN "ebreak" ELSE "step"
             active == c.stepActive /\ ~steps
             d == [c EXCEPT !.state = "DEBUG", !.pc = pc, !.dpc = at, !.cause = cause,
                            !.stepActive = active]
  <1>1. hart' = Stopped(c, ends, at)
    BY ProgramFacts DEF Debugged, Commanded, Resumed, UnderReset, Released, InProgram
  <1>2. /\ Stops(ends) => hart' = d
        /\ ~Stops(ends) => hart' = c
    BY <1>1 DEF Stopped, Stops
  <1>3. pc \in Datum /\ active \in BOOLEAN /\ cause \in {"none", "ebreak", "halt", "step", "reset"}
    BY DEF HartRegisters
  <1>4. ~Stops(ends) => ~steps
    BY DEF Stops
  <1> HIDE DEF pc, cause, active
  <1>5. /\ Only(c, d, {"state", "pc", "dpc", "cause", "stepActive"})
        /\ d.stepActive = active /\ d.state = "DEBUG" /\ d.dpc = at
    BY <1>3 DEF Only, Fields, HartRegisters, State
  <1> HIDE DEF d
  <1>6. c.stepActive \in BOOLEAN /\ Only(c, c, {"state", "pc", "dpc", "cause", "stepActive"})
    BY DEF HartRegisters, Only
  <1>7. QED
    BY <1>2, <1>4, <1>5, <1>6 DEF active, steps

\* A reset forgets everything but pulses and the latched access.
LEMMA ResetOnly ==
  ASSUME ResetReq, NEW c \in HartRegisters
  PROVE  /\ UnderReset(c) \in HartRegisters
         /\ Only(PowerOn, UnderReset(c), {"resetActive", "resumeAck", "memory", "abstractDone",
                                          "abstractError", "abstractRdata"})
         /\ Released(UnderReset(c)) = UnderReset(c)
  <1>1. UnderReset(c) \in HartRegisters
    BY UnderResetTypes
  <1>2. PowerOn \in HartRegisters
    BY RestTypes, DatumFacts DEF PowerOn, HartRegisters, State, NONE
  <1>3. ASSUME NEW p \in HartRegisters, NEW d,
               d = [p EXCEPT !.resetActive = TRUE, !.resumeAck = c.resumeAck, !.memory = c.memory,
                      !.abstractDone = c.abstractDone, !.abstractError = c.abstractError,
                      !.abstractRdata = c.abstractRdata]
        PROVE  \A f \in Fields \ {"resetActive", "resumeAck", "memory", "abstractDone",
                                   "abstractError", "abstractRdata"} : d[f] = p[f]
    BY <1>3 DEF HartRegisters, Fields
  <1>4. QED
    BY <1>1, <1>2, <1>3 DEF UnderReset, Released, Only

LEMMA ResetFacts ==
  ASSUME ResetReq, NEW c \in HartRegisters, hart' = UnderReset(c)
  PROVE  /\ hart'.state = "RESET" /\ hart'.pc = 0 /\ ~hart'.mie /\ ~hart'.mpie /\ hart'.mepc = 0
         /\ ~hart'.stepActive /\ ~hart'.ebreakm /\ ~hart'.fetchOutstanding
         /\ ~hart'.memOutstanding /\ ~hart'.awDone /\ ~hart'.wDone /\ ~hart'.debugOutstanding
         /\ ~hart'.debugAwDone /\ ~hart'.debugWDone /\ ~hart'.memBusy
  <1>1. Only(PowerOn, hart', {"resetActive", "resumeAck", "memory", "abstractDone",
                              "abstractError", "abstractRdata"})
    BY ResetOnly
  <1>2. QED
    BY <1>1 DEF Only, Fields, PowerOn

\* In reset, the debug logic holds the hart there, lets it run or halts it.
LEMMA InReset ==
  ASSUME SessionInv, hart.state = "RESET", NEW c \in HartRegisters, c.state = "RUN",
         NEW at, hart' = Debugged(c, "busy", at)
  PROVE  \/ ResetReq /\ hart' = UnderReset(c)
         \/ ~ResetReq /\ hart'.state = "RUN"
            /\ Only(c, hart', {"state", "dpc", "cause", "resetActive", "resetAck"})
         \/ ~ResetReq /\ hart'.state = "DEBUG" /\ hart'.dpc = 0
            /\ Only(c, hart', {"state", "dpc", "cause", "resetActive", "resetAck"})
  <1> DEFINE cause == IF HaltOnResetReq THEN "reset" ELSE "halt"
             d == [c EXCEPT !.resetActive = FALSE, !.resetAck = TRUE, !.state = "DEBUG",
                            !.dpc = 0, !.cause = cause]
             e == [c EXCEPT !.resetActive = FALSE, !.resetAck = TRUE, !.state = "RUN"]
  <1>1. ~dm.valid
    BY DEF SessionInv, CommandInv, CommandMeetsHaltedHart
  <1>2. hart' = Released(UnderReset(c))
    BY <1>1 DEF Debugged, Commanded, Stopped, Resumed, EndsStep, EndsForHalt
  <1>3. CASE ResetReq
    BY <1>2, <1>3 DEF Released
  <1>4. CASE ~ResetReq
    <2>1. hart' \in {c, d, e}
      BY <1>2, <1>4 DEF Released, UnderReset
    <2>2. cause \in {"none", "ebreak", "halt", "step", "reset"} /\ 0 \in Datum
      BY DatumFacts
    <2> HIDE DEF cause
    <2>3. /\ Only(c, d, {"state", "dpc", "cause", "resetActive", "resetAck"})
          /\ d.state = "DEBUG" /\ d.dpc = 0
      BY <2>2 DEF HartRegisters, State, Only, Fields
    <2>4. Only(c, e, {"state", "dpc", "cause", "resetActive", "resetAck"}) /\ e.state = "RUN"
      BY DEF HartRegisters, State, Only, Fields
    <2>5. Only(c, c, {"state", "dpc", "cause", "resetActive", "resetAck"})
      BY DEF Only
    <2> HIDE DEF d, e
    <2>6. QED
      BY <1>4, <2>1, <2>3, <2>4, <2>5
  <1>5. QED
    BY <1>3, <1>4

\* A halted hart takes a command, begins the access of one, resumes, or does nothing.
Takes(c) ==
  /\ dm.valid /\ ~Begins /\ hart'.abstractDone
  /\ Only(c, hart', {"abstractDone", "abstractError", "abstractRdata", "mepc", "dpc", "step", "ebreakm"})
  /\ \/ hart'.mepc = c.mepc /\ hart'.dpc = c.dpc
     \/ hart'.mepc = c.mepc /\ hart'.ebreakm = c.ebreakm
     \/ hart'.dpc = c.dpc /\ hart'.ebreakm = c.ebreakm
  /\ dm.latch.type = "memory" => hart'.abstractError # NONE

Begin(c) ==
  /\ dm.valid /\ Begins /\ hart'.memBusy /\ hart'.memory = dm.latch
  /\ ~hart'.debugOutstanding /\ ~hart'.debugAwDone /\ ~hart'.debugWDone
  /\ Only(c, hart', {"memBusy", "memory", "debugOutstanding", "debugAwDone", "debugWDone"})

GoesOn(c) ==
  /\ ~dm.valid /\ ~hart.memBusy /\ hart'.state = "RUN" /\ hart'.pc = hart.dpc
  /\ ~hart'.fetchOutstanding
  /\ Only(c, hart', {"state", "pc", "fetchOutstanding", "stepActive", "resumeAck"})

LEMMA TakenInDebug ==
  ASSUME dm \in DmRegisters, hart \in HartRegisters, NEW c \in HartRegisters,
         c.mepc = hart.mepc, c.dpc = hart.dpc, dm.valid, ~Begins, hart' = Commanded(c)
  PROVE  Takes(c)
  <1> DEFINE l == dm.latch
             refused == IF l.type = "memory"
                        THEN IF l.size = 2 /\ l.address % 2 = 1 THEN BUS ELSE NONE
                        ELSE IF l.regno = "unknown" \/ (l.regno = "readonly" /\ l.write)
                        THEN EXCEPTION ELSE NONE
             writesTo(r) == refused = NONE /\ l.write /\ l.regno = r
             error == IF refused # NONE THEN refused ELSE c.abstractError
             mepc == IF writesTo("mepc") THEN l.data ELSE c.mepc
             dpc == IF writesTo("dpc") THEN l.data ELSE c.dpc
             step == IF writesTo("dcsr") THEN l.data % 2 = 1 ELSE c.step
             ebreakm == IF writesTo("dcsr") THEN (l.data \div 2) % 2 = 1 ELSE c.ebreakm
             dcsr == (IF hart.step THEN 1 ELSE 0) + (IF hart.ebreakm THEN 2 ELSE 0)
             rdata == IF refused # NONE \/ l.write THEN c.abstractRdata
                      ELSE CASE l.regno = "mepc" -> hart.mepc
                             [] l.regno = "dpc" -> hart.dpc
                             [] l.regno = "dcsr" -> dcsr
                             [] OTHER -> 0
             d == CarriedOut(c, error, mepc, dpc, step, ebreakm, rdata)
  <1>1. l.type = "memory" => refused # NONE
    BY DEF Begins, BUS, NONE
  <1>2. hart' = d
    BY <1>1 DEF Commanded, CarriedOut
  <1>3. hart' \in HartRegisters /\ hart'.abstractDone
    BY CommandedTypes
  <1>4. /\ \/ mepc = c.mepc /\ dpc = c.dpc
           \/ mepc = c.mepc /\ ebreakm = c.ebreakm
           \/ dpc = c.dpc /\ ebreakm = c.ebreakm
        /\ l.type = "memory" => error # NONE
    BY <1>1
  <1> HIDE DEF error, mepc, dpc, step, ebreakm, rdata
  <1>5. /\ \A f \in Fields \ {"abstractDone", "abstractError", "abstractRdata", "mepc", "dpc",
                              "step", "ebreakm"} : d[f] = c[f]
        /\ d.mepc = mepc /\ d.dpc = dpc /\ d.ebreakm = ebreakm /\ d.abstractError = error
    BY DEF HartRegisters, Fields, CarriedOut
  <1> HIDE DEF d
  <1>6. QED
    BY <1>2, <1>3, <1>4, <1>5 DEF Takes, Only

LEMMA InDebug ==
  ASSUME SessionInv, hart.state = "DEBUG", ~ResetReq, NEW c \in HartRegisters,
         c.state = "DEBUG", c.mepc = hart.mepc, c.dpc = hart.dpc, NEW at,
         hart' = Debugged(c, "busy", at)
  PROVE  Takes(c) \/ Begin(c) \/ GoesOn(c) \/ (~dm.valid /\ hart' = c)
  <1>1. /\ dm \in DmRegisters /\ hart \in HartRegisters /\ ~hart.resetActive
        /\ dm.valid => ~dm.resumeReq
    BY DEF SessionInv, CommandInv, TypeInv, TypeOK, RunControl, OnePlace
  <1>2. hart' = Resumed(Commanded(c))
    BY <1>1 DEF Debugged, Stopped, UnderReset, Released, EndsStep, EndsForHalt
  <1>3. CASE dm.valid /\ ~Begins
    <2>1. hart' = Commanded(c)
      BY <1>1, <1>2, <1>3 DEF Resumed, ResumeReq
    <2>2. QED
      BY <1>1, <1>3, <2>1, TakenInDebug
  <1>4. CASE dm.valid /\ Begins
    <2> DEFINE l == dm.latch
               d == Begun(c, l)
    <2>1. hart' = d
      BY <1>1, <1>2, <1>4 DEF Resumed, ResumeReq, Commanded, Begins, Begun, BUS, NONE
    <2>2. l \in Latch
      BY <1>1 DEF DmRegisters
    <2> HIDE DEF l
    <2>3. /\ Only(c, d, {"memBusy", "memory", "debugOutstanding", "debugAwDone", "debugWDone"})
          /\ d.memBusy /\ d.memory = l
          /\ ~d.debugOutstanding /\ ~d.debugAwDone /\ ~d.debugWDone
      BY <2>2 DEF HartRegisters, Only, Fields, Begun
    <2> HIDE DEF d
    <2>4. QED
      BY <1>4, <2>1, <2>3 DEF Begin, l
  <1>5. CASE ~dm.valid
    <2> DEFINE dpc == hart.dpc
               step == hart.step
               d == [c EXCEPT !.state = "RUN", !.pc = dpc, !.fetchOutstanding = FALSE,
                              !.stepActive = step, !.resumeAck = TRUE]
    <2>1. hart' = c \/ (~hart.memBusy /\ hart' = d)
      BY <1>2, <1>5 DEF Commanded, Resumed
    <2>2. dpc \in Datum /\ step \in BOOLEAN
      BY <1>1 DEF HartRegisters
    <2> HIDE DEF dpc, step
    <2>3. /\ Only(c, d, {"state", "pc", "fetchOutstanding", "stepActive", "resumeAck"})
          /\ d.state = "RUN" /\ d.pc = dpc /\ ~d.fetchOutstanding
      <3>1. d \in HartRegisters
        BY <2>2 DEF HartRegisters, State
      <3>2. /\ \A f \in Fields \ {"state", "pc", "fetchOutstanding", "stepActive",
                                   "resumeAck"} : d[f] = c[f]
            /\ d.state = "RUN" /\ d.pc = dpc /\ ~d.fetchOutstanding
        BY DEF HartRegisters, Fields
      <3> HIDE DEF d
      <3>3. QED
        BY <3>1, <3>2 DEF Only
    <2> HIDE DEF d
    <2>4. QED
      BY <1>5, <2>1, <2>3 DEF GoesOn, dpc
  <1>6. QED
    BY <1>3, <1>4, <1>5

(***************************************************************************)
(* What the slave owes.                                                    *)
(***************************************************************************)
ReadOwed == hart.fetchOutstanding \/ hart.memOutstanding \/ hart.debugOutstanding
AddressOwed == hart.awDone \/ hart.debugAwDone
DataOwed == hart.wDone \/ hart.debugWDone

LEMMA One ==
  ASSUME NEW x
  PROVE  Append(<<>>, x) = <<x>> /\ <<x>> # <<>> /\ Head(<<x>>) = x /\ Tail(<<x>>) = <<>>
  OBVIOUS

\* The queues with what is accepted in the cycle hold what is waited for.
LEMMA Queued ==
  ASSUME InState, ResponsesExpected, NEW ar \in BOOLEAN, NEW aw \in BOOLEAN, NEW w \in BOOLEAN,
         ar => ArValid, aw => AwValid, w => WValid
  PROVE  /\ ReadsWith(ar) = IF ReadOwed \/ ar THEN <<ArBits>> ELSE <<>>
         /\ AwritesWith(aw) = IF AddressOwed \/ aw THEN <<AwBits>> ELSE <<>>
         /\ WwritesWith(w) = IF DataOwed \/ w THEN <<WBits>> ELSE <<>>
  <1>1. ArValid => ~ReadOwed
    BY DEF ArValid, FetchArValid, LoadArValid, DebugArValid, DebugReads, Fetching, ReadOwed, InState
  <1>2. AwValid => ~AddressOwed
    BY DEF AwValid, DebugWrites, AddressOwed, InState
  <1>3. WValid => ~DataOwed
    BY DEF WValid, DebugWrites, DataOwed, InState
  <1>4. /\ reads = IF ReadOwed THEN <<ArBits>> ELSE <<>>
        /\ awrites = IF AddressOwed THEN <<AwBits>> ELSE <<>>
        /\ wwrites = IF DataOwed THEN <<WBits>> ELSE <<>>
    BY DEF ResponsesExpected, ReadOwed, AddressOwed, DataOwed
  <1>5. QED
    BY <1>1, <1>2, <1>3, <1>4, One DEF ReadsWith, AwritesWith, WwritesWith

\* What a cycle leaves owed.
Owed(ar, aw, w) ==
  /\ ReadOwed' = ar /\ (ar => ArBits' = ArBits)
  /\ AddressOwed' = aw /\ (aw => AwBits' = AwBits)
  /\ DataOwed' = w /\ (w => WBits' = WBits)

LEMMA AcceptsExpected ==
  ASSUME InState, ResponsesExpected, NEW ar \in BOOLEAN, NEW aw \in BOOLEAN, NEW w \in BOOLEAN,
         Accepts(ar, aw, w), Owed(ReadOwed \/ ar, AddressOwed \/ aw, DataOwed \/ w)
  PROVE  ResponsesExpected'
  <1>1. /\ ar => ArValid
        /\ aw => AwValid
        /\ w => WValid
    BY DEF Accepts, Outside
  <1>2. /\ reads' = IF ReadOwed \/ ar THEN <<ArBits>> ELSE <<>>
        /\ awrites' = IF AddressOwed \/ aw THEN <<AwBits>> ELSE <<>>
        /\ wwrites' = IF DataOwed \/ w THEN <<WBits>> ELSE <<>>
    BY <1>1, Queued DEF Accepts
  <1>3. /\ reads' = IF ReadOwed' THEN <<ArBits'>> ELSE <<>>
        /\ awrites' = IF AddressOwed' THEN <<AwBits'>> ELSE <<>>
        /\ wwrites' = IF DataOwed' THEN <<WBits'>> ELSE <<>>
    BY <1>2 DEF Owed
  <1>4. QED
    BY <1>3 DEF ResponsesExpected, ReadOwed, AddressOwed, DataOwed

LEMMA AnswersReadExpected ==
  ASSUME InState, ResponsesExpected, NEW ar \in BOOLEAN, AnswersRead(ar), ReadOwed \/ ar,
         ~AddressOwed, ~DataOwed, Owed(FALSE, FALSE, FALSE)
  PROVE  ResponsesExpected' /\ ReadsWith(ar) = <<ArBits>>
  <1>1. ReadsWith(ar) = <<ArBits>>
    BY Queued DEF AnswersRead, Outside
  <1>2. reads' = <<>> /\ awrites' = <<>> /\ wwrites' = <<>>
    BY <1>1, One DEF AnswersRead, writes, ResponsesExpected, AddressOwed, DataOwed
  <1>3. QED
    BY <1>1, <1>2 DEF ResponsesExpected, ReadOwed, AddressOwed, DataOwed, Owed

LEMMA AnswersWriteExpected ==
  ASSUME InState, ResponsesExpected, NEW aw \in BOOLEAN, NEW w \in BOOLEAN, AnswersWrite(aw, w),
         AddressOwed \/ aw, DataOwed \/ w, ~ReadOwed, Owed(FALSE, FALSE, FALSE)
  PROVE  ResponsesExpected'
  <1>1. AwritesWith(aw) = <<AwBits>> /\ WwritesWith(w) = <<WBits>>
    BY Queued DEF AnswersWrite, Outside
  <1>2. reads' = <<>> /\ awrites' = <<>> /\ wwrites' = <<>>
    BY <1>1, One DEF AnswersWrite, ResponsesExpected, ReadOwed
  <1>3. QED
    BY <1>2 DEF ResponsesExpected, ReadOwed, AddressOwed, DataOwed, Owed

\* What the program or a command waits to hand over is still shown.
StillShown == \A b \in stalled' : b.by \in {"data", "debug"} => b \in Shown'

LEMMA NothingShown ==
  ASSUME NEW ar, NEW aw, NEW w, Outside(ar, aw, w),
         hart.state \in {"RESET", "SLEEP", "IRQ", "RUN", "STRADDLE"}
           \/ (hart.state = "DEBUG" /\ ~hart.memBusy)
  PROVE  StillShown
  <1>1. ~AwValid /\ ~WValid /\ (ArValid => ArBits.by \in {"first", "second"})
    BY DEF AwValid, WValid, DebugWrites, ArValid, FetchArValid, Fetching, LoadArValid, DebugArValid,
           DebugReads, ArBits
  <1>2. \A b \in stalled' : b.by \in {"first", "second"}
    BY <1>1 DEF Outside, Shown
  <1>3. QED
    BY <1>2 DEF StillShown

\* An access that goes on: what was not accepted is shown again.
LEMMA AccessGoesOn ==
  ASSUME NEW ar \in BOOLEAN, NEW aw \in BOOLEAN, NEW w \in BOOLEAN, Outside(ar, aw, w),
         ArValid /\ ~ar => ArValid' /\ ArBits' = ArBits,
         AwValid /\ ~aw => AwValid' /\ AwBits' = AwBits,
         WValid /\ ~w => WValid' /\ WBits' = WBits
  PROVE  StillShown
  <1>1. ArBits.channel = "ar" /\ AwBits.channel = "aw" /\ WBits.channel = "w"
    BY DEF ArBits, AwBits, WBits
  <1>2. ASSUME NEW b \in stalled' PROVE b \in Shown'
    <2>1. b \in Shown /\ (b.channel = "ar" => ~ar) /\ (b.channel = "aw" => ~aw)
          /\ (b.channel = "w" => ~w)
      BY DEF Outside
    <2>2. CASE b = ArBits /\ ArValid
      BY <1>1, <2>1, <2>2 DEF Shown
    <2>3. CASE b = AwBits /\ AwValid
      BY <1>1, <2>1, <2>3 DEF Shown
    <2>4. CASE b = WBits /\ WValid
      BY <1>1, <2>1, <2>4 DEF Shown
    <2>5. QED
      BY <2>1, <2>2, <2>3, <2>4 DEF Shown
  <1>3. QED
    BY <1>2 DEF StillShown

(***************************************************************************)
(* The program that the debugger sees.                                     *)
(***************************************************************************)
Regs(pc, mie, mpie, mepc) == [pc |-> pc, mie |-> mie, mpie |-> mpie, mepc |-> mepc]
ArchRegs == Regs(ArchPc, hart.mie, hart.mpie, hart.mepc)
Implements == [Arch!Next]_(Arch!archVars)

LEMMA RegsFacts ==
  ASSUME NEW p, NEW i, NEW q, NEW e
  PROVE  /\ Regs(p, i, q, e).pc = p /\ Regs(p, i, q, e).mie = i
         /\ Regs(p, i, q, e).mpie = q /\ Regs(p, i, q, e).mepc = e
         /\ program[p] \in {"plain", "wide", "wfi", "load", "store"}
              => Arch!Ran(Regs(p, i, q, e)) = Regs(Following(p), i, q, e)
  BY DEF Arch!Ran, Arch!Next1, Regs, Following

\* The registers of a trap, at the handler or not there yet.
HalfEntered(a) == [Arch!Entered(a) EXCEPT !.pc = a.pc]

LEMMA EnteredRegs ==
  ASSUME NEW p, NEW i, NEW q, NEW e, NEW mie \in BOOLEAN, NEW mpie, NEW mepc,
         ~mie, mpie = i, mepc = p
  PROVE  /\ Arch!Entered(Regs(p, i, q, e)) = Regs(Handler, mie, mpie, mepc)
         /\ HalfEntered(Regs(p, i, q, e)) = Regs(p, mie, mpie, mepc)
         /\ program[p] \in {"trap", "ebreak"}
              => Arch!Ran(Regs(p, i, q, e)) = Regs(Handler, mie, mpie, mepc)
  <1>1. Arch!Entered(Regs(p, i, q, e)) = Regs(Handler, mie, mpie, mepc)
    BY DEF Arch!Entered, Regs
  <1>2. [Regs(Handler, mie, mpie, mepc) EXCEPT !.pc = p] = Regs(p, mie, mpie, mepc)
    BY DEF Regs
  <1>3. program[p] \in {"trap", "ebreak"}
          => Arch!Ran(Regs(p, i, q, e)) = Arch!Entered(Regs(p, i, q, e))
    BY RegsFacts DEF Arch!Ran
  <1>4. HalfEntered(Regs(p, i, q, e)) = Regs(p, mie, mpie, mepc)
    BY <1>1, <1>2, RegsFacts DEF HalfEntered
  <1>5. QED
    BY <1>1, <1>3, <1>4

\* A cycle of the program: what may happen to its registers, and how the hart stops.
RunsTo ==
  \/ ArchRegs' = ArchRegs
  \/ Arch!Execute \/ Arch!Fault \/ Arch!FetchFault \/ Arch!Interrupt \/ Arch!HalfTrap
  \/ Arch!FaultInStep

LEMMA RunImplements ==
  ASSUME SessionInv, InProgram, NEW c \in HartRegisters, NEW ends, NEW at \in Datum,
         c.state # "DEBUG", c.stepActive = hart.stepActive, c.ebreakm = hart.ebreakm,
         hart' = Debugged(c, ends, at), program' = program, RunsTo
  PROVE  Implements
  <1>1. /\ hart'.ebreakm = hart.ebreakm
        /\ hart'.stepActive = (hart.stepActive /\ ~(hart.stepActive /\ EndsStep(ends)))
        /\ Stops(ends) => hart'.state = "DEBUG"
        /\ ~Stops(ends) => hart'.state # "DEBUG" /\ hart'.stepActive = hart.stepActive
    BY ProgramCycle DEF Only, Fields, Stops
  <1>2. hart.state # "DEBUG" /\ hart.stepActive \in BOOLEAN
    BY ProgramFacts DEF InProgram, HartRegisters
  <1>3. CASE ArchRegs' = ArchRegs
    <2>1. CASE Stops(ends)
      <3>1. Arch!Halt
        BY <1>1, <1>2, <1>3, <2>1 DEF Arch!Halt, ArchRegs, Regs
      <3>2. QED
        BY <1>1, <1>2, <2>1, <3>1 DEF Implements, Arch!Next, Arch!Run
    <2>2. CASE ~Stops(ends)
      BY <1>1, <1>2, <1>3, <2>2 DEF Implements, Arch!archVars, ArchRegs, Regs
    <2>3. QED
      BY <2>1, <2>2
  <1>4. CASE ~(ArchRegs' = ArchRegs)
    BY <1>1, <1>2, <1>4 DEF RunsTo, Implements, Arch!Next, Arch!Run
  <1>5. QED
    BY <1>3, <1>4

\* The registers after a cycle of the program.
LEMMA RegsAfter ==
  ASSUME SessionInv, InProgram, NEW c \in HartRegisters, NEW ends, NEW at \in Datum,
         c.state # "DEBUG", hart' = Debugged(c, ends, at)
  PROVE  /\ Stops(ends) => ArchRegs' = Regs(at, c.mie, c.mpie, c.mepc)
         /\ ~Stops(ends) => ArchRegs' = Regs(IF c.state = "IRQ" THEN Handler ELSE c.pc,
                                             c.mie, c.mpie, c.mepc)
         /\ Stops(ends) <=> hart'.state = "DEBUG"
  BY ProgramCycle DEF ArchRegs, ArchPc, Regs, Only, Fields

LEMMA TrappedEffect ==
  ASSUME NEW b \in HartRegisters, NEW epc \in Datum
  PROVE  /\ Only(b, Trapped(b, epc), {"mie", "mpie", "mepc"})
         /\ Trapped(b, epc).mpie = b.mie /\ ~Trapped(b, epc).mie /\ Trapped(b, epc).mepc = epc
  BY DEF HartRegisters, Only, Fields, Trapped

\* A trap taken: the registers, and the state that goes to the handler.
TrapFrom(b, c, epc) ==
  /\ Only(b, c, {"mie", "mpie", "mepc", "state"})
  /\ c.mpie = b.mie /\ ~c.mie /\ c.mepc = epc /\ c.state = "IRQ"

LEMMA TrapEffect ==
  ASSUME NEW b \in HartRegisters, NEW epc \in Datum
  PROVE  TrapFrom(b, [Trapped(b, epc) EXCEPT !.state = "IRQ"], epc)
  <1> DEFINE t == Trapped(b, epc)
             c == [t EXCEPT !.state = "IRQ"]
  <1>1. /\ Only(b, t, {"mie", "mpie", "mepc"}) /\ t \in HartRegisters
        /\ t.mpie = b.mie /\ ~t.mie /\ t.mepc = epc
    BY TrappedEffect DEF Only
  <1> HIDE DEF t
  <1>2. Only(t, c, {"state"}) /\ c.state = "IRQ"
    BY <1>1 DEF HartRegisters, Only, Fields, State
  <1>3. c.mpie = t.mpie /\ c.mie = t.mie /\ c.mepc = t.mepc
    BY <1>2 DEF Only, Fields
  <1> HIDE DEF c
  <1>4. Only(b, c, {"mie", "mpie", "mepc"} \cup {"state"})
    BY <1>1, <1>2, OnlyChain
  <1>5. QED
    BY <1>1, <1>2, <1>3, <1>4 DEF TrapFrom, t, c, Only

LEMMA BoundaryEffect ==
  ASSUME NEW b \in HartRegisters
  PROVE  /\ InterruptDue(b) => TrapFrom(b, Boundary(b), b.pc)
         /\ ~InterruptDue(b) => Boundary(b) = b
  <1>1. b.pc \in Datum
    BY DEF HartRegisters
  <1>2. QED
    BY <1>1, TrapEffect DEF Boundary

(***************************************************************************)
(* The cycles of the program.                                              *)
(***************************************************************************)
Good == PortInv' /\ StillShown /\ Implements

\* What a core cycle leaves when no handshake is open.
CoreRest(c) ==
  /\ c \in HartRegisters
  /\ ~c.fetchOutstanding /\ ~c.memOutstanding /\ ~c.awDone /\ ~c.wDone
  /\ c.memBusy = hart.memBusy /\ c.debugOutstanding = hart.debugOutstanding
  /\ c.debugAwDone = hart.debugAwDone /\ c.debugWDone = hart.debugWDone
  /\ c.stepActive = hart.stepActive /\ c.ebreakm = hart.ebreakm
  /\ c.state \notin {"DEBUG", "RESET"}
  /\ c.state = "STRADDLE" => program[c.pc] = "wide"
  /\ c.state = "LOAD" => program[c.pc] = "load"
  /\ c.state = "STORE" => program[c.pc] = "store"

LEMMA Resting ==
  ASSUME SessionInv, InProgram, NEW c, CoreRest(c), NEW ends, NEW at \in Datum,
         hart' = Debugged(c, ends, at), program' = program
  PROVE  InState' /\ OfProgram' /\ Owed(FALSE, FALSE, FALSE)
  <1>1. c \in HartRegisters
    BY DEF CoreRest
  <1>2. /\ ~hart'.fetchOutstanding /\ ~hart'.memOutstanding /\ ~hart'.awDone /\ ~hart'.wDone
        /\ ~hart'.debugOutstanding /\ ~hart'.debugAwDone /\ ~hart'.debugWDone
    BY <1>1, ProgramCycle, ProgramFacts DEF CoreRest, Only, Fields
  <1>3. hart'.state = "DEBUG" \/ hart' = c
    BY <1>1, ProgramCycle
  <1>4. QED
    BY <1>2, <1>3 DEF CoreRest, InState, OfProgram, Owed, ReadOwed, AddressOwed, DataOwed

LEMMA InvParts ==
  ASSUME SessionInv
  PROVE  InState /\ OfProgram /\ ResponsesExpected /\ hart \in HartRegisters /\ dm \in DmRegisters
  BY DEF SessionInv, PortInv, CommandInv, TypeInv, TypeOK

\* A response to a fetch is the instruction at pc.
LEMMA Response ==
  ASSUME SessionInv, NEW ar \in BOOLEAN, FetchResponse(ar)
  PROVE  /\ InProgram /\ ArchPc = hart.pc /\ program' = program /\ StillShown
         /\ Fetched(ar) = program[hart.pc]
         /\ Owed(FALSE, FALSE, FALSE) => ResponsesExpected'
  <1>1. /\ hart.state \in {"RUN", "STRADDLE"} /\ AnswersRead(ar) /\ Outside(ar, FALSE, FALSE)
        /\ ReadOwed \/ ar
    BY DEF FetchResponse, Fetching, AnswersRead, ReadOwed
  <1>2. ~AddressOwed /\ ~DataOwed
    BY <1>1, InvParts DEF InState, AddressOwed, DataOwed, DebugWrites
  <1>3. ReadsWith(ar) = <<ArBits>>
    BY <1>1, Queued, InvParts DEF Outside
  <1>4. Fetched(ar) = program[hart.pc]
    BY <1>1, <1>3, One, InvParts DEF Fetched, ArBits, OfProgram
  <1>5. StillShown
    BY <1>1, NothingShown
  <1>6. Owed(FALSE, FALSE, FALSE) => ResponsesExpected'
    BY <1>1, <1>2, AnswersReadExpected, InvParts
  <1>7. QED
    BY <1>1, <1>4, <1>5, <1>6 DEF InProgram, ArchPc, Outside

\* The registers the answer leaves: those of the hart, nothing outstanding.
LEMMA RespondedFacts ==
  ASSUME SessionInv, NEW ar \in BOOLEAN, FetchResponse(ar)
  PROVE  /\ Responded \in HartRegisters
         /\ Only(hart, Responded, Pulses \cup {"fetchOutstanding"})
         /\ ~Responded.fetchOutstanding /\ ~hart.memOutstanding /\ ~hart.awDone /\ ~hart.wDone
         /\ hart.state \in {"RUN", "STRADDLE"}
         /\ hart.pc \in Datum /\ hart.mie \in BOOLEAN /\ hart.mpie \in BOOLEAN /\ hart.mepc \in Datum
  <1>1. hart.state \in {"RUN", "STRADDLE"}
    BY DEF FetchResponse, Fetching
  <1>2. QED
    BY <1>1, InvParts, RespondedOnly DEF Only, InState, HartRegisters

LEMMA FetchFaultGood ==
  ASSUME SessionInv, NEW ar \in BOOLEAN, FetchFault(ar)
  PROVE  Good
  <1> DEFINE c == [Trapped(Responded, hart.pc) EXCEPT !.state = "IRQ"]
  <1>1. FetchResponse(ar) /\ hart' = Debugged(c, "fetch", hart.pc)
    BY DEF FetchFault
  <1>2. TrapFrom(Responded, c, hart.pc)
    BY <1>1, RespondedFacts, TrapEffect
  <1> HIDE DEF c
  <1>3. /\ CoreRest(c) /\ hart.pc \in Datum /\ c.state = "IRQ"
        /\ c.mie = FALSE /\ c.mpie = hart.mie /\ c.mepc = hart.pc
    BY <1>1, <1>2, RespondedFacts DEF CoreRest, TrapFrom, Only, Fields, Pulses, HartRegisters
  <1>4. /\ Stops("fetch") => ArchRegs' = Regs(hart.pc, c.mie, c.mpie, c.mepc)
        /\ ~Stops("fetch") => ArchRegs' = Regs(Handler, c.mie, c.mpie, c.mepc)
        /\ Stops("fetch") <=> hart'.state = "DEBUG"
    BY <1>1, <1>3, RegsAfter, Response DEF CoreRest
  <1>5. /\ ArchRegs = Regs(hart.pc, hart.mie, hart.mpie, hart.mepc)
        /\ Arch!Entered(ArchRegs) = Regs(Handler, c.mie, c.mpie, c.mepc)
        /\ HalfEntered(ArchRegs) = Regs(hart.pc, c.mie, c.mpie, c.mepc)
    <2>1. ArchRegs = Regs(hart.pc, hart.mie, hart.mpie, hart.mepc)
      BY <1>1, Response DEF ArchRegs
    <2>2. c.mie \in BOOLEAN /\ ~c.mie /\ c.mpie = hart.mie /\ c.mepc = hart.pc
      BY <1>3
    <2>3. QED
      BY <2>1, <2>2, EnteredRegs
  <1>6. RunsTo
    <2>1. CASE Stops("fetch")
      <3>1. ArchRegs' = HalfEntered(ArchRegs)
        BY <1>4, <1>5, <2>1
      <3>2. Arch!HalfTrap
        BY <1>1, <1>4, <2>1, <3>1, Response
           DEF Arch!HalfTrap, HalfEntered, ArchRegs, Regs, InProgram
      <3>3. QED
        BY <3>2 DEF RunsTo
    <2>2. CASE ~Stops("fetch")
      <3>1. ArchRegs' = Arch!Entered(ArchRegs)
        BY <1>4, <1>5, <2>2
      <3>2. Arch!FetchFault \/ Arch!FaultInStep
        BY <1>1, <1>4, <2>2, <3>1, Response
           DEF Arch!FetchFault, Arch!FaultInStep, ArchRegs, Regs, InProgram
      <3>3. QED
        BY <3>2 DEF RunsTo
    <2>3. QED
      BY <2>1, <2>2
  <1>7. Implements
    BY <1>1, <1>3, <1>6, Response, RunImplements DEF CoreRest
  <1>8. QED
    BY <1>1, <1>3, <1>7, Response, Resting DEF Good, PortInv

LEMMA FetchStraddleGood ==
  ASSUME SessionInv, NEW ar \in BOOLEAN, FetchStraddle(ar)
  PROVE  Good
  <1> DEFINE c == [Responded EXCEPT !.state = "STRADDLE"]
  <1>1. /\ FetchResponse(ar) /\ hart.state = "RUN" /\ Fetched(ar) = "wide"
        /\ hart' = Debugged(c, "fetch", hart.pc)
    BY DEF FetchStraddle
  <1>2. Only(Responded, c, {"state"}) /\ c.state = "STRADDLE"
    BY <1>1, RespondedFacts DEF HartRegisters, Only, Fields, State
  <1> HIDE DEF c
  <1>3. /\ CoreRest(c) /\ hart.pc \in Datum /\ c.state = "STRADDLE" /\ c.pc = hart.pc
        /\ c.mie = hart.mie /\ c.mpie = hart.mpie /\ c.mepc = hart.mepc
    BY <1>1, <1>2, RespondedFacts, Response DEF CoreRest, Only, Fields, Pulses
  <1>4. ArchRegs' = ArchRegs
    BY <1>1, <1>3, RegsAfter, Response DEF CoreRest, ArchRegs
  <1>5. Implements
    BY <1>1, <1>3, <1>4, Response, RunImplements DEF CoreRest, RunsTo
  <1>6. QED
    BY <1>1, <1>3, <1>5, Response, Resting DEF Good, PortInv

LEMMA DroppedGood ==
  ASSUME SessionInv, NEW ar \in BOOLEAN, Dropped(ar)
  PROVE  Good
  <1> DEFINE k == Fetched(ar)
             memory == k \in {"load", "store"}
             pc == IF memory THEN Responded.pc ELSE NextPc(k)
             s == IF memory THEN Responded.state ELSE "RUN"
             c == [Responded EXCEPT !.pc = pc, !.state = s]
  <1>1. FetchResponse(ar) /\ HaltReq /\ hart' = Debugged(c, "fetch", hart.pc)
    BY DEF Dropped, Arrives
  <1>2. s \in {"RUN", "STRADDLE"} /\ (s = "STRADDLE" => memory /\ hart.state = "STRADDLE")
    BY <1>1, RespondedFacts DEF Only, Fields, Pulses
  <1>3. s # "STRADDLE"
    BY <1>1, <1>2, Response, InvParts DEF OfProgram
  <1>4. pc \in Datum
    BY <1>1, RespondedFacts, Addresses, InvParts DEF HartRegisters
  <1> HIDE DEF pc, s
  <1>5. Only(Responded, c, {"pc", "state"}) /\ c.state = s
    BY <1>1, <1>2, <1>4, RespondedFacts DEF HartRegisters, Only, Fields, State
  <1> HIDE DEF c
  <1>6. /\ CoreRest(c) /\ hart.pc \in Datum
        /\ c.mie = hart.mie /\ c.mpie = hart.mpie /\ c.mepc = hart.mepc
    BY <1>1, <1>2, <1>3, <1>5, RespondedFacts DEF CoreRest, Only, Fields, Pulses
  <1>7. Stops("fetch")
    BY <1>1 DEF Stops, EndsForHalt
  <1>8. ArchRegs' = ArchRegs
    BY <1>1, <1>6, <1>7, RegsAfter, Response DEF CoreRest, ArchRegs
  <1>9. Implements
    BY <1>1, <1>6, <1>8, Response, RunImplements DEF CoreRest, RunsTo
  <1>10. QED
    BY <1>1, <1>6, <1>9, Response, Resting DEF Good, PortInv

LEMMA CommitEbreakGood ==
  ASSUME SessionInv, NEW ar \in BOOLEAN, CommitEbreak(ar)
  PROVE  Good
  <1> DEFINE pc == NextPc("ebreak")
             c == [Responded EXCEPT !.pc = pc]
  <1>1. FetchResponse(ar) /\ Fetched(ar) = "ebreak" /\ hart' = Debugged(c, "ebreak", hart.pc)
    BY DEF CommitEbreak, Arrives
  <1>2. pc \in Datum /\ hart.state = "RUN"
    BY <1>1, Addresses, InvParts, RespondedFacts DEF Fetched
  <1> HIDE DEF pc
  <1>3. Only(Responded, c, {"pc"})
    BY <1>1, <1>2, RespondedFacts DEF HartRegisters, Only, Fields
  <1> HIDE DEF c
  <1>4. /\ CoreRest(c) /\ hart.pc \in Datum
        /\ c.mie = hart.mie /\ c.mpie = hart.mpie /\ c.mepc = hart.mepc
    BY <1>1, <1>2, <1>3, RespondedFacts DEF CoreRest, Only, Fields, Pulses
  <1>5. Stops("ebreak")
    BY DEF Stops
  <1>6. ArchRegs' = ArchRegs
    BY <1>1, <1>4, <1>5, RegsAfter, Response DEF CoreRest, ArchRegs
  <1>7. Implements
    BY <1>1, <1>4, <1>6, Response, RunImplements DEF CoreRest, RunsTo
  <1>8. QED
    BY <1>1, <1>4, <1>7, Response, Resting DEF Good, PortInv

\* An instruction and what follows it, as the program sees them.
LEMMA Executes ==
  ASSUME InProgram, ArchPc = hart.pc, program[hart.pc] = "ebreak" => ~hart.ebreakm,
         hart.stepActive => hart'.state = "DEBUG",
         \/ ArchRegs' = Arch!Ran(ArchRegs)
         \/ /\ ~hart.stepActive /\ Arch!Ran(ArchRegs).mie
            /\ ArchRegs' = Arch!Entered(Arch!Ran(ArchRegs))
  PROVE  Arch!Execute
  BY DEF Arch!Execute, ArchRegs, Regs, InProgram

LEMMA HalfTraps ==
  ASSUME InProgram, hart'.state = "DEBUG",
         \/ ArchRegs' = HalfEntered(ArchRegs)
         \/ ~hart.stepActive /\ ArchRegs' = HalfEntered(Arch!Ran(ArchRegs))
  PROVE  Arch!HalfTrap
  BY DEF Arch!HalfTrap, HalfEntered, ArchRegs, Regs, InProgram

LEMMA TrapRest ==
  ASSUME NEW b, NEW c, NEW epc, CoreRest(b), TrapFrom(b, c, epc)
  PROVE  CoreRest(c) /\ c.mie \in BOOLEAN
  BY DEF CoreRest, TrapFrom, Only, Fields, HartRegisters

\* The end of an instruction, with the interrupt that may follow it at once.
LEMMA InstructionEnds ==
  ASSUME SessionInv, InProgram, ArchPc = hart.pc, program[hart.pc] # "ebreak", program' = program,
         NEW b, CoreRest(b), b.state # "IRQ", NEW ends \in {"commit", "memory"},
         Arch!Ran(ArchRegs) = Regs(b.pc, b.mie, b.mpie, b.mepc),
         hart' = Debugged(Boundary(b), ends, b.pc)
  PROVE  InState' /\ OfProgram' /\ Owed(FALSE, FALSE, FALSE) /\ Implements
  <1> DEFINE c == Boundary(b)
  <1>1. b \in HartRegisters /\ b.pc \in Datum
    BY DEF CoreRest, HartRegisters
  <1>2. /\ InterruptDue(b) => TrapFrom(b, c, b.pc)
        /\ ~InterruptDue(b) => c = b
    BY <1>1, BoundaryEffect
  <1>3. hart' = Debugged(c, ends, b.pc)
    OBVIOUS
  <1> HIDE DEF c
  <1>4. CoreRest(c)
    BY <1>2, TrapRest
  <1>5. /\ Stops(ends) => ArchRegs' = Regs(b.pc, c.mie, c.mpie, c.mepc)
        /\ ~Stops(ends) => ArchRegs' = Regs(IF c.state = "IRQ" THEN Handler ELSE c.pc,
                                            c.mie, c.mpie, c.mepc)
        /\ Stops(ends) <=> hart'.state = "DEBUG"
    BY <1>1, <1>3, <1>4, RegsAfter DEF CoreRest
  <1>6. hart.stepActive => Stops(ends)
    BY DEF Stops, EndsStep
  <1>7. CASE ~InterruptDue(b)
    <2>1. ArchRegs' = Arch!Ran(ArchRegs)
      BY <1>2, <1>5, <1>7
    <2>2. RunsTo
      BY <1>5, <1>6, <2>1, Executes DEF RunsTo
    <2>3. QED
      BY <1>1, <1>3, <1>4, <2>2, Resting, RunImplements DEF CoreRest
  <1>8. CASE InterruptDue(b)
    <2>0. b.mie
      BY <1>8 DEF InterruptDue
    <2>1. /\ ~hart.stepActive /\ c.state = "IRQ"
          /\ c.mie \in BOOLEAN /\ ~c.mie /\ c.mpie = b.mie /\ c.mepc = b.pc
      BY <1>2, <1>8, TrapRest DEF InterruptDue, TrapFrom
    <2> DEFINE r == Arch!Ran(ArchRegs)
    <2>2. /\ Arch!Entered(r) = Regs(Handler, c.mie, c.mpie, c.mepc)
          /\ HalfEntered(r) = Regs(b.pc, c.mie, c.mpie, c.mepc)
          /\ r.mie = b.mie
      <3>1. r = Regs(b.pc, b.mie, b.mpie, b.mepc)
        OBVIOUS
      <3> HIDE DEF r
      <3>2. /\ b.mie \in BOOLEAN /\ b.mpie \in BOOLEAN
            /\ r.pc = b.pc /\ r.mie = b.mie /\ r.mpie = b.mpie /\ r.mepc = b.mepc
        BY <1>1, <3>1 DEF Regs, HartRegisters
      <3>3. Arch!Entered(r) = Regs(Handler, c.mie, c.mpie, c.mepc)
        BY <2>1, <3>2 DEF Arch!Entered, Regs
      <3>4. HalfEntered(r) = [Regs(Handler, c.mie, c.mpie, c.mepc) EXCEPT !.pc = b.pc]
        BY <3>2, <3>3 DEF HalfEntered
      <3>5. QED
        BY <3>2, <3>3, <3>4 DEF Regs
    <2>4. ASSUME Stops(ends) PROVE RunsTo
      <3>1. ArchRegs' = HalfEntered(r) /\ hart'.state = "DEBUG"
        BY <1>5, <2>2, <2>4
      <3>2. Arch!HalfTrap
        BY <2>1, <3>1, HalfTraps
      <3>3. QED
        BY <3>2 DEF RunsTo
    <2>5. ASSUME ~Stops(ends) PROVE RunsTo
      <3>1. ArchRegs' = Arch!Entered(r)
        BY <1>5, <2>1, <2>2, <2>5
      <3>2. Arch!Execute
        BY <2>0, <2>1, <2>2, <3>1, Executes
      <3>3. QED
        BY <3>2 DEF RunsTo
    <2>6. QED
      BY <1>1, <1>3, <1>4, <2>4, <2>5, Resting, RunImplements DEF CoreRest
  <1>9. QED
    BY <1>7, <1>8

LEMMA CommitTrapGood ==
  ASSUME SessionInv, NEW ar \in BOOLEAN, CommitTrap(ar)
  PROVE  Good
  <1> DEFINE t == Trapped(Responded, hart.pc)
             c == [t EXCEPT !.pc = Handler, !.state = "RUN"]
  <1>1. /\ FetchResponse(ar) /\ hart' = Debugged(c, "commit", Handler)
        /\ Fetched(ar) = "trap" \/ (Fetched(ar) = "ebreak" /\ ~hart.ebreakm)
    BY DEF CommitTrap, Arrives
  <1>2. /\ Only(Responded, t, {"mie", "mpie", "mepc"})
        /\ t.mpie = Responded.mie /\ ~t.mie /\ t.mepc = hart.pc
    BY <1>1, RespondedFacts, TrappedEffect
  <1> HIDE DEF t
  <1>3. Only(t, c, {"pc", "state"}) /\ c.pc = Handler /\ c.state = "RUN"
    BY <1>2, ProgramsAssumption DEF HartRegisters, Only, Fields, State
  <1> HIDE DEF c
  <1>4. /\ CoreRest(c) /\ c.state = "RUN" /\ c.pc = Handler /\ Handler \in Datum
        /\ c.mie \in BOOLEAN /\ ~c.mie /\ c.mpie = hart.mie /\ c.mepc = hart.pc
    BY <1>1, <1>2, <1>3, RespondedFacts, ProgramsAssumption
       DEF CoreRest, Only, Fields, Pulses, HartRegisters
  <1>5. /\ ArchRegs' = Regs(Handler, c.mie, c.mpie, c.mepc)
        /\ Stops("commit") <=> hart'.state = "DEBUG"
    BY <1>1, <1>4, RegsAfter, Response DEF CoreRest
  <1>6. Arch!Ran(ArchRegs) = Regs(Handler, c.mie, c.mpie, c.mepc)
    <2>1. ArchRegs = Regs(hart.pc, hart.mie, hart.mpie, hart.mepc)
          /\ program[hart.pc] \in {"trap", "ebreak"}
      BY <1>1, Response DEF ArchRegs
    <2>2. QED
      BY <1>4, <2>1, EnteredRegs
  <1>7. hart.stepActive => Stops("commit")
    BY DEF Stops, EndsStep
  <1>8. Arch!Execute
    BY <1>1, <1>5, <1>6, <1>7, Response, Executes
  <1>9. Implements
    BY <1>1, <1>4, <1>8, Response, RunImplements DEF CoreRest, RunsTo
  <1>10. QED
    BY <1>1, <1>4, <1>9, Response, Resting DEF Good, PortInv

LEMMA CommitRetireGood ==
  ASSUME SessionInv, NEW ar \in BOOLEAN, CommitRetire(ar)
  PROVE  Good
  <1> DEFINE k == Fetched(ar)
             pc == NextPc(k)
             s == IF k = "wfi" THEN "SLEEP" ELSE "RUN"
             mie == CASE k = "mret" -> hart.mpie [] k = "setmie" -> TRUE [] OTHER -> Responded.mie
             mpie == Responded.mpie \/ k = "mret"
             b == [Responded EXCEPT !.pc = pc, !.state = s, !.mie = mie, !.mpie = mpie]
  <1>1. /\ FetchResponse(ar) /\ k \in {"plain", "wide", "wfi", "mret", "setmie"}
        /\ hart' = Debugged(Boundary(b), "commit", pc)
    BY DEF CommitRetire, Arrives
  <1>2. Responded.mie = hart.mie /\ Responded.mpie = hart.mpie /\ Responded.mepc = hart.mepc
    BY <1>1, RespondedFacts DEF Only, Fields, Pulses
  <1>3. /\ pc \in Datum /\ s \in {"RUN", "SLEEP"} /\ mpie \in BOOLEAN
        /\ mie \in BOOLEAN
    BY <1>1, <1>2, RespondedFacts, Addresses, InvParts
  <1>4. Arch!Ran(ArchRegs) = Regs(pc, mie, mpie, hart.mepc)
    <2>1. ArchRegs = Regs(hart.pc, hart.mie, hart.mpie, hart.mepc) /\ program[hart.pc] = k
      BY <1>1, Response DEF ArchRegs
    <2>2. \/ program[hart.pc] \in {"plain", "wide", "wfi"}
             /\ pc = Following(hart.pc) /\ mie = hart.mie /\ mpie = hart.mpie
          \/ program[hart.pc] = "mret" /\ pc = hart.mepc /\ mie = hart.mpie /\ mpie
          \/ program[hart.pc] = "setmie" /\ pc = Following(hart.pc) /\ mie /\ mpie = hart.mpie
      BY <1>1, <1>2, <2>1, RespondedFacts DEF NextPc
    <2> HIDE DEF k, pc, mie, mpie
    <2>3. QED
      BY <1>3, <2>1, <2>2 DEF Arch!Ran, Arch!Next1, Regs, Following
  <1> HIDE DEF pc, s, mie, mpie
  <1>5. Only(Responded, b, {"pc", "state", "mie", "mpie"}) /\ b.pc = pc /\ b.state = s
        /\ b.mie = mie /\ b.mpie = mpie
    <2>1. b \in HartRegisters
      BY <1>1, <1>3, RespondedFacts DEF HartRegisters, State
    <2>2. /\ \A f \in Fields \ {"pc", "state", "mie", "mpie"} : b[f] = Responded[f]
          /\ b.pc = pc /\ b.state = s /\ b.mie = mie /\ b.mpie = mpie
      BY <1>1, RespondedFacts DEF HartRegisters, Fields
    <2> HIDE DEF b
    <2>3. QED
      BY <2>1, <2>2 DEF Only
  <1> HIDE DEF b
  <1>6. CoreRest(b) /\ b.mepc = hart.mepc
    BY <1>1, <1>3, <1>5, RespondedFacts DEF CoreRest, Only, Fields, Pulses
  <1>7. program[hart.pc] # "ebreak"
    BY <1>1, Response
  <1>8. InState' /\ OfProgram' /\ Owed(FALSE, FALSE, FALSE) /\ Implements
    BY <1>1, <1>3, <1>4, <1>5, <1>6, <1>7, Response, InstructionEnds
  <1>9. QED
    BY <1>1, <1>8, Response DEF Good, PortInv

LEMMA CommitMemGood ==
  ASSUME SessionInv, NEW ar \in BOOLEAN, CommitMem(ar)
  PROVE  Good
  <1> DEFINE s == IF Fetched(ar) = "load" THEN "LOAD" ELSE "STORE"
             c == [Responded EXCEPT !.state = s, !.memOutstanding = FALSE, !.awDone = FALSE,
                                    !.wDone = FALSE]
  <1>1. /\ FetchResponse(ar) /\ Fetched(ar) \in {"load", "store"}
        /\ hart' = Debugged(c, "busy", hart.pc)
    BY DEF CommitMem, Arrives
  <1>2. /\ s \in {"LOAD", "STORE"} /\ (s = "LOAD" => Fetched(ar) = "load")
        /\ (s = "STORE" => Fetched(ar) = "store")
    BY <1>1
  <1> HIDE DEF s
  <1>3. /\ Only(Responded, c, {"state", "memOutstanding", "awDone", "wDone"}) /\ c.state = s
        /\ ~c.memOutstanding /\ ~c.awDone /\ ~c.wDone
    BY <1>1, <1>2, RespondedFacts DEF HartRegisters, Only, Fields, State
  <1> HIDE DEF c
  <1>4. /\ CoreRest(c) /\ hart.pc \in Datum /\ c.pc = hart.pc /\ c.state # "IRQ"
        /\ c.mie = hart.mie /\ c.mpie = hart.mpie /\ c.mepc = hart.mepc
    BY <1>1, <1>2, <1>3, RespondedFacts, Response DEF CoreRest, Only, Fields, Pulses
  <1>5. ArchRegs' = ArchRegs
    BY <1>1, <1>4, RegsAfter, Response DEF CoreRest, ArchRegs
  <1>6. Implements
    BY <1>1, <1>4, <1>5, Response, RunImplements DEF CoreRest, RunsTo
  <1>7. QED
    BY <1>1, <1>4, <1>6, Response, Resting DEF Good, PortInv

\* A cycle of the program in which nothing is asked of the bus.
LEMMA QuietExpected ==
  ASSUME SessionInv, Accepts(FALSE, FALSE, FALSE), ~ReadOwed, ~AddressOwed, ~DataOwed,
         Owed(FALSE, FALSE, FALSE)
  PROVE  ResponsesExpected'
  <1>1. reads' = reads /\ awrites' = awrites /\ wwrites' = wwrites
    BY DEF Accepts, ReadsWith, AwritesWith, WwritesWith
  <1>2. QED
    BY <1>1, InvParts DEF ResponsesExpected, ReadOwed, AddressOwed, DataOwed, Owed

LEMMA QuietGood ==
  ASSUME SessionInv, hart.state \in {"SLEEP", "IRQ"}, Accepts(FALSE, FALSE, FALSE),
         NEW c, CoreRest(c), NEW ends, NEW at \in Datum, hart' = Debugged(c, ends, at)
  PROVE  PortInv' /\ StillShown
  <1>1. InProgram /\ Outside(FALSE, FALSE, FALSE) /\ program' = program
    BY DEF InProgram, Accepts, Outside
  <1>2. ~ReadOwed /\ ~AddressOwed /\ ~DataOwed
    BY InvParts DEF InState, ReadOwed, AddressOwed, DataOwed, Fetching, DebugReads, DebugWrites
  <1>3. InState' /\ OfProgram' /\ Owed(FALSE, FALSE, FALSE)
    BY <1>1, Resting
  <1>4. ResponsesExpected'
    BY <1>2, <1>3, QuietExpected
  <1>5. StillShown
    BY <1>1, NothingShown
  <1>6. QED
    BY <1>3, <1>4, <1>5 DEF PortInv

\* The registers of a hart at rest, but for the pulses.
LEMMA BaseRest ==
  ASSUME SessionInv, hart.state \in {"SLEEP", "IRQ"}
  PROVE  /\ CoreRest(Base) /\ Base \in HartRegisters /\ Only(hart, Base, Pulses)
         /\ hart.pc \in Datum /\ hart.mie \in BOOLEAN /\ Base.pc = hart.pc
         /\ Base.mie = hart.mie /\ Base.mpie = hart.mpie /\ Base.mepc = hart.mepc
  <1>1. Only(hart, Base, Pulses) /\ hart.pc \in Datum /\ hart.mie \in BOOLEAN
    BY BaseOnly, InvParts DEF HartRegisters
  <1>2. /\ ~hart.fetchOutstanding /\ ~hart.memOutstanding /\ ~hart.awDone /\ ~hart.wDone
    BY InvParts DEF InState, Fetching
  <1>3. QED
    BY <1>1, <1>2 DEF CoreRest, Only, Fields, Pulses

LEMMA IrqCycleGood ==
  ASSUME SessionInv, IrqCycle
  PROVE  Good
  <1> DEFINE c == [Base EXCEPT !.state = "RUN", !.pc = Handler]
  <1>1. /\ hart.state = "IRQ" /\ InProgram /\ Accepts(FALSE, FALSE, FALSE) /\ program' = program
        /\ hart' = Debugged(c, "irq", Handler) /\ ArchPc = Handler /\ Handler \in Datum
    BY ProgramsAssumption DEF IrqCycle, InProgram, Accepts, Outside, ArchPc
  <1>2. Only(Base, c, {"state", "pc"}) /\ c.state = "RUN" /\ c.pc = Handler
    BY <1>1, BaseRest DEF HartRegisters, Only, Fields, State
  <1> HIDE DEF c
  <1>3. CoreRest(c) /\ c.mie = hart.mie /\ c.mpie = hart.mpie /\ c.mepc = hart.mepc
    BY <1>1, <1>2, BaseRest DEF CoreRest, Only, Fields
  <1>4. ArchRegs' = ArchRegs
    BY <1>1, <1>2, <1>3, RegsAfter DEF CoreRest, ArchRegs
  <1>5. Implements
    BY <1>1, <1>3, <1>4, RunImplements DEF CoreRest, RunsTo
  <1>6. QED
    BY <1>1, <1>3, <1>5, QuietGood DEF Good

\* The interrupt that wakes a sleeping hart.
LEMMA WokenImplements ==
  ASSUME SessionInv, hart.state = "SLEEP", program' = program, NEW c, TrapFrom(Base, c, hart.pc),
         CoreRest(c), InterruptDue(Base), hart' = Debugged(c, "sleep", hart.pc)
  PROVE  Implements
  <1>1. InProgram /\ ArchPc = hart.pc /\ ArchRegs = Regs(hart.pc, hart.mie, hart.mpie, hart.mepc)
    BY DEF InProgram, ArchPc, ArchRegs
  <1>2. hart.mie /\ ~hart.stepActive
    BY BaseRest DEF InterruptDue
  <1>3. c.mie \in BOOLEAN /\ ~c.mie /\ c.mpie = hart.mie /\ c.mepc = hart.pc /\ c.state = "IRQ"
    BY BaseRest DEF TrapFrom, CoreRest, HartRegisters
  <1>4. /\ Stops("sleep") => ArchRegs' = Regs(hart.pc, c.mie, c.mpie, c.mepc)
        /\ ~Stops("sleep") => ArchRegs' = Regs(Handler, c.mie, c.mpie, c.mepc)
        /\ Stops("sleep") <=> hart'.state = "DEBUG"
    BY <1>1, <1>3, BaseRest, RegsAfter DEF CoreRest
  <1>5. /\ Arch!Entered(ArchRegs) = Regs(Handler, c.mie, c.mpie, c.mepc)
        /\ HalfEntered(ArchRegs) = Regs(hart.pc, c.mie, c.mpie, c.mepc)
    BY <1>1, <1>3, EnteredRegs
  <1>6. RunsTo
    <2>1. CASE Stops("sleep")
      <3>1. ArchRegs' = HalfEntered(ArchRegs) /\ hart'.state = "DEBUG"
        BY <1>4, <1>5, <2>1
      <3>2. Arch!HalfTrap
        BY <1>1, <3>1, HalfTraps
      <3>3. QED
        BY <3>2 DEF RunsTo
    <2>2. CASE ~Stops("sleep")
      <3>1. ArchRegs' = Arch!Entered(ArchRegs) /\ hart'.state # "DEBUG"
        BY <1>4, <1>5, <2>2
      <3>2. Arch!Interrupt
        BY <1>1, <1>2, <3>1 DEF Arch!Interrupt, ArchRegs, Regs, InProgram
      <3>3. QED
        BY <3>2 DEF RunsTo
    <2>3. QED
      BY <2>1, <2>2
  <1>7. QED
    BY <1>1, <1>3, <1>6, BaseRest, RunImplements DEF CoreRest

LEMMA SleepCycleGood ==
  ASSUME SessionInv, SleepCycle
  PROVE  Good
  <1> DEFINE b == [Base EXCEPT !.state = "RUN"]
             c == Boundary(b)
             d == IF pin THEN c ELSE Base
  <1>1. /\ hart.state = "SLEEP" /\ InProgram /\ Accepts(FALSE, FALSE, FALSE) /\ program' = program
        /\ hart' = Debugged(d, "sleep", hart.pc) /\ ArchPc = hart.pc
    BY DEF SleepCycle, InProgram, Accepts, Outside, ArchPc
  <1>2. Only(Base, b, {"state"}) /\ b.state = "RUN"
    BY <1>1, BaseRest DEF HartRegisters, Only, Fields, State
  <1> HIDE DEF b
  <1>3. /\ InterruptDue(b) => TrapFrom(b, c, hart.pc)
        /\ ~InterruptDue(b) => c = b
        /\ InterruptDue(b) <=> InterruptDue(Base)
    BY <1>1, <1>2, BaseRest, BoundaryEffect DEF Only, Fields, InterruptDue
  <1> HIDE DEF c
  <1>4. CoreRest(b) /\ b.pc = hart.pc /\ b.mie = hart.mie /\ b.mpie = hart.mpie /\ b.mepc = hart.mepc
    BY <1>1, <1>2, BaseRest DEF CoreRest, Only, Fields
  <1>5. CASE pin /\ InterruptDue(b)
    <2>1. CoreRest(c) /\ TrapFrom(Base, c, hart.pc)
      BY <1>1, <1>2, <1>3, <1>4, <1>5, BaseRest, TrapRest DEF TrapFrom, Only, Fields
    <2>2. Implements
      BY <1>1, <1>3, <1>5, <2>1, WokenImplements
    <2>3. QED
      BY <1>1, <1>5, <2>1, <2>2, BaseRest, QuietGood DEF Good
  <1>6. CASE ~(pin /\ InterruptDue(b))
    <2>1. d \in {b, Base}
      BY <1>3, <1>6
    <2> HIDE DEF d
    <2>2. /\ CoreRest(d) /\ d.state # "IRQ" /\ d.pc = hart.pc
          /\ d.mie = hart.mie /\ d.mpie = hart.mpie /\ d.mepc = hart.mepc
      BY <1>1, <1>2, <1>4, <2>1, BaseRest DEF Only, Fields, Pulses
    <2>3. ArchRegs' = ArchRegs
      BY <1>1, <2>2, BaseRest, RegsAfter DEF CoreRest, ArchRegs
    <2>4. Implements
      BY <1>1, <2>2, <2>3, BaseRest, RunImplements DEF CoreRest, RunsTo
    <2>5. QED
      BY <1>1, <2>2, <2>4, BaseRest, QuietGood DEF Good
  <1>7. QED
    BY <1>5, <1>6

\* What the cycle's registers leave owed, whoever waits for it.
LEMMA OpenFetch ==
  ASSUME SessionInv, NEW ar \in BOOLEAN, FetchCycle(ar)
  PROVE  Good
  <1> DEFINE open == hart.fetchOutstanding \/ ar
             c == [Base EXCEPT !.fetchOutstanding = open]
             ends == IF hart.fetchOutstanding THEN "busy" ELSE "fetch"
  <1>1. /\ hart.state \in {"RUN", "STRADDLE"} /\ InProgram /\ Accepts(ar, FALSE, FALSE)
        /\ Outside(ar, FALSE, FALSE) /\ program' = program /\ ArchPc = hart.pc
    BY DEF FetchCycle, Fetching, InProgram, Accepts, Outside, ArchPc
  <1>2. hart \in HartRegisters /\ hart.pc \in Datum /\ open \in BOOLEAN
    BY InvParts DEF HartRegisters
  <1>3. Only(hart, Base, Pulses) /\ Base \in HartRegisters /\ Base.fetchOutstanding = hart.fetchOutstanding
    BY <1>2, BaseOnly DEF Only, Fields, Pulses
  <1>4. hart' = Debugged(c, ends, hart.pc)
    BY <1>3 DEF FetchCycle
  <1>5. /\ ~hart.memOutstanding /\ ~hart.awDone /\ ~hart.wDone
        /\ ~hart.debugOutstanding /\ ~hart.debugAwDone /\ ~hart.debugWDone
    BY <1>1, InvParts DEF InState, DebugReads, DebugWrites
  <1>6. /\ Stops(ends) => ~open
        /\ ar => ~HaltReq
    BY <1>1 DEF Stops, EndsStep, EndsForHalt, Outside, ArValid, FetchArValid, LoadArValid, DebugArValid,
                DebugReads
  <1> HIDE DEF open, ends
  <1>7. Only(Base, c, {"fetchOutstanding"}) /\ c.fetchOutstanding = open
    BY <1>2, <1>3 DEF HartRegisters, Only, Fields
  <1> HIDE DEF c
  <1>8. /\ c \in HartRegisters /\ c.state = hart.state /\ c.pc = hart.pc
        /\ c.mie = hart.mie /\ c.mpie = hart.mpie /\ c.mepc = hart.mepc
        /\ c.stepActive = hart.stepActive /\ c.ebreakm = hart.ebreakm
        /\ ~c.memOutstanding /\ ~c.awDone /\ ~c.wDone /\ ~c.debugOutstanding
        /\ ~c.debugAwDone /\ ~c.debugWDone
    BY <1>3, <1>5, <1>7 DEF Only, Fields, Pulses
  <1>9. /\ Only(c, hart', {"state", "pc", "dpc", "cause", "stepActive"})
        /\ Stops(ends) => hart'.state = "DEBUG"
        /\ ~Stops(ends) => hart' = c
    BY <1>1, <1>2, <1>4, <1>8, ProgramCycle
  <1>10. /\ hart'.fetchOutstanding = open /\ ~hart'.memOutstanding /\ ~hart'.awDone /\ ~hart'.wDone
         /\ ~hart'.debugOutstanding /\ ~hart'.debugAwDone /\ ~hart'.debugWDone
    BY <1>7, <1>8, <1>9 DEF Only, Fields
  <1>11. ArchRegs' = ArchRegs
    BY <1>1, <1>2, <1>4, <1>8, RegsAfter DEF ArchRegs
  <1>12. Implements
    BY <1>1, <1>2, <1>4, <1>8, <1>11, RunImplements DEF RunsTo
  <1>13. InState'
    BY <1>1, <1>6, <1>8, <1>9, <1>10 DEF InState, Fetching
  <1>14. OfProgram'
    BY <1>1, <1>8, <1>9, InvParts DEF OfProgram
  <1>15. open => ArBits' = ArBits
    BY <1>1, <1>6, <1>8, <1>9 DEF ArBits
  <1>16. Owed(ReadOwed \/ ar, AddressOwed \/ FALSE, DataOwed \/ FALSE)
    BY <1>5, <1>10, <1>15 DEF Owed, ReadOwed, AddressOwed, DataOwed, open
  <1>17. ResponsesExpected'
    BY <1>1, <1>16, InvParts, AcceptsExpected
  <1>18. StillShown
    BY <1>1, NothingShown
  <1>19. QED
    BY <1>12, <1>13, <1>14, <1>17, <1>18 DEF Good, PortInv

\* While an access of the program goes on, the debugger can do nothing to the hart.
LEMMA Busy ==
  ASSUME SessionInv, InProgram, program' = program, NEW c \in HartRegisters,
         c.state = hart.state, c.pc = hart.pc, c.mie = hart.mie, c.mpie = hart.mpie,
         c.mepc = hart.mepc, c.stepActive = hart.stepActive, c.ebreakm = hart.ebreakm,
         hart' = Debugged(c, "busy", hart.pc), ArchPc = hart.pc
  PROVE  hart' = c /\ Implements
  <1>1. ~Stops("busy") /\ hart.pc \in Datum
    BY InvParts DEF Stops, EndsStep, EndsForHalt, HartRegisters
  <1>2. hart' = c
    BY <1>1, ProgramCycle
  <1>3. ArchRegs' = ArchRegs
    BY <1>2 DEF ArchRegs, ArchPc, InProgram
  <1>4. QED
    BY <1>1, <1>2, <1>3, RunImplements DEF RunsTo, InProgram

LEMMA LoadCycleGood ==
  ASSUME SessionInv, NEW ar \in BOOLEAN, LoadCycle(ar)
  PROVE  Good
  <1> DEFINE open == hart.memOutstanding \/ ar
             c == [Base EXCEPT !.memOutstanding = open]
  <1>1. /\ hart.state = "LOAD" /\ InProgram /\ Accepts(ar, FALSE, FALSE)
        /\ Outside(ar, FALSE, FALSE) /\ program' = program /\ ArchPc = hart.pc
    BY DEF LoadCycle, InProgram, Accepts, Outside, ArchPc
  <1>2. hart \in HartRegisters /\ open \in BOOLEAN
    BY InvParts DEF HartRegisters
  <1>3. Only(hart, Base, Pulses) /\ Base \in HartRegisters /\ Base.memOutstanding = hart.memOutstanding
    BY <1>2, BaseOnly DEF Only, Fields, Pulses
  <1>4. hart' = Debugged(c, "busy", hart.pc)
    BY <1>3 DEF LoadCycle
  <1>5. /\ ~hart.fetchOutstanding /\ ~hart.awDone /\ ~hart.wDone
        /\ ~hart.debugOutstanding /\ ~hart.debugAwDone /\ ~hart.debugWDone
    BY <1>1, InvParts DEF InState, DebugReads, DebugWrites, Fetching
  <1> HIDE DEF open
  <1>6. Only(Base, c, {"memOutstanding"}) /\ c.memOutstanding = open
    BY <1>2, <1>3 DEF HartRegisters, Only, Fields
  <1> HIDE DEF c
  <1>7. /\ c \in HartRegisters /\ c.state = hart.state /\ c.pc = hart.pc
        /\ c.mie = hart.mie /\ c.mpie = hart.mpie /\ c.mepc = hart.mepc
        /\ c.stepActive = hart.stepActive /\ c.ebreakm = hart.ebreakm
        /\ ~c.fetchOutstanding /\ ~c.awDone /\ ~c.wDone /\ ~c.debugOutstanding
        /\ ~c.debugAwDone /\ ~c.debugWDone
    BY <1>3, <1>5, <1>6 DEF Only, Fields, Pulses
  <1>8. hart' = c /\ Implements
    BY <1>1, <1>4, <1>7, Busy
  <1>9. InState' /\ OfProgram'
    BY <1>1, <1>7, <1>8, InvParts DEF InState, OfProgram
  <1>10. ArBits' = ArBits
    BY <1>1, <1>7, <1>8 DEF ArBits
  <1>11. Owed(ReadOwed \/ ar, AddressOwed \/ FALSE, DataOwed \/ FALSE)
    BY <1>5, <1>6, <1>7, <1>8, <1>10 DEF Owed, ReadOwed, AddressOwed, DataOwed, open
  <1>12. ResponsesExpected'
    BY <1>1, <1>11, InvParts, AcceptsExpected
  <1>13. StillShown
    <2>1. /\ ~AwValid /\ ~WValid
          /\ ArValid /\ ~ar => ArValid'
      BY <1>1, <1>6, <1>7, <1>8
         DEF AwValid, WValid, DebugWrites, ArValid, FetchArValid, Fetching, LoadArValid, DebugArValid,
             DebugReads, open
    <2>2. QED
      BY <1>1, <1>10, <2>1, AccessGoesOn
  <1>14. QED
    BY <1>8, <1>9, <1>12, <1>13 DEF Good, PortInv

LEMMA StoreCycleGood ==
  ASSUME SessionInv, NEW aw \in BOOLEAN, NEW w \in BOOLEAN, StoreCycle(aw, w)
  PROVE  Good
  <1> DEFINE a == hart.awDone \/ aw
             d == hart.wDone \/ w
             c == [Base EXCEPT !.awDone = a, !.wDone = d]
  <1>1. /\ hart.state = "STORE" /\ InProgram /\ Accepts(FALSE, aw, w)
        /\ Outside(FALSE, aw, w) /\ program' = program /\ ArchPc = hart.pc
    BY DEF StoreCycle, InProgram, Accepts, Outside, ArchPc
  <1>2. hart \in HartRegisters /\ a \in BOOLEAN /\ d \in BOOLEAN
    BY InvParts DEF HartRegisters
  <1>3. Only(hart, Base, Pulses) /\ Base \in HartRegisters /\ Base.awDone = hart.awDone
        /\ Base.wDone = hart.wDone
    BY <1>2, BaseOnly DEF Only, Fields, Pulses
  <1>4. hart' = Debugged(c, "busy", hart.pc)
    BY <1>3 DEF StoreCycle
  <1>5. /\ ~hart.fetchOutstanding /\ ~hart.memOutstanding
        /\ ~hart.debugOutstanding /\ ~hart.debugAwDone /\ ~hart.debugWDone
    BY <1>1, InvParts DEF InState, DebugReads, DebugWrites, Fetching
  <1> HIDE DEF a, d
  <1>6. Only(Base, c, {"awDone", "wDone"}) /\ c.awDone = a /\ c.wDone = d
    <2>1. Base \in HartRegisters
      BY <1>3
    <2>2. a \in BOOLEAN /\ d \in BOOLEAN
      BY <1>2
    <2>3. c \in HartRegisters
      BY <2>1, <2>2 DEF HartRegisters
    <2>4. /\ \A f \in Fields \ {"awDone", "wDone"} : c[f] = Base[f]
          /\ c.awDone = a /\ c.wDone = d
      BY <2>1 DEF HartRegisters, Fields
    <2>5. QED
      BY <2>3, <2>4 DEF Only
  <1> HIDE DEF c
  <1>7. /\ c \in HartRegisters /\ c.state = hart.state /\ c.pc = hart.pc
        /\ c.mie = hart.mie /\ c.mpie = hart.mpie /\ c.mepc = hart.mepc
        /\ c.stepActive = hart.stepActive /\ c.ebreakm = hart.ebreakm
        /\ ~c.fetchOutstanding /\ ~c.memOutstanding /\ ~c.debugOutstanding
        /\ ~c.debugAwDone /\ ~c.debugWDone
    BY <1>3, <1>5, <1>6 DEF Only, Fields, Pulses
  <1>8. hart' = c /\ Implements
    BY <1>1, <1>4, <1>7, Busy
  <1>9. InState' /\ OfProgram'
    BY <1>1, <1>7, <1>8, InvParts DEF InState, OfProgram
  <1>10. AwBits' = AwBits /\ WBits' = WBits
    BY <1>1, <1>7, <1>8 DEF AwBits, WBits
  <1>11. Owed(ReadOwed \/ FALSE, AddressOwed \/ aw, DataOwed \/ w)
    BY <1>5, <1>6, <1>7, <1>8, <1>10 DEF Owed, ReadOwed, AddressOwed, DataOwed, a, d
  <1>12. ResponsesExpected'
    BY <1>1, <1>11, InvParts, AcceptsExpected
  <1>13. StillShown
    <2>1. /\ ~ArValid
          /\ AwValid /\ ~aw => AwValid'
          /\ WValid /\ ~w => WValid'
      BY <1>1, <1>6, <1>7, <1>8
         DEF AwValid, WValid, DebugWrites, ArValid, FetchArValid, Fetching, LoadArValid, DebugArValid,
             DebugReads, a, d
    <2>2. QED
      BY <1>1, <1>10, <2>1, AccessGoesOn
  <1>14. QED
    BY <1>8, <1>9, <1>12, <1>13 DEF Good, PortInv

(***************************************************************************)
(* The end of a memory phase.                                              *)
(***************************************************************************)
LEMMA MemFaultEnds ==
  ASSUME SessionInv, hart.state \in {"LOAD", "STORE"}, program' = program, NEW b, CoreRest(b),
         b.mie = hart.mie, hart' = MemFault(b)
  PROVE  InState' /\ OfProgram' /\ Owed(FALSE, FALSE, FALSE) /\ Implements
  <1> DEFINE c == [Trapped(b, hart.pc) EXCEPT !.state = "IRQ"]
  <1>1. /\ InProgram /\ ArchPc = hart.pc /\ hart.pc \in Datum /\ Handler \in Datum
        /\ program[hart.pc] \in {"load", "store"}
    BY InvParts, ProgramFacts, ProgramsAssumption DEF InProgram, ArchPc, OfProgram
  <1>2. hart' = Debugged(c, "memory", Handler)
    BY DEF MemFault
  <1>3. TrapFrom(b, c, hart.pc)
    BY <1>1, TrapEffect DEF CoreRest
  <1> HIDE DEF c
  <1>4. /\ CoreRest(c) /\ c.state = "IRQ" /\ c.mie \in BOOLEAN /\ ~c.mie /\ c.mpie = hart.mie
        /\ c.mepc = hart.pc
    BY <1>3, TrapRest DEF TrapFrom
  <1>5. /\ ArchRegs' = Regs(Handler, c.mie, c.mpie, c.mepc)
        /\ Stops("memory") <=> hart'.state = "DEBUG"
    BY <1>1, <1>2, <1>4, RegsAfter DEF CoreRest
  <1>6. Arch!Entered(ArchRegs) = Regs(Handler, c.mie, c.mpie, c.mepc)
    <2>1. ArchRegs = Regs(hart.pc, hart.mie, hart.mpie, hart.mepc)
      BY <1>1 DEF ArchRegs
    <2>2. QED
      BY <1>4, <2>1, EnteredRegs
  <1>7. hart.stepActive => Stops("memory")
    BY DEF Stops, EndsStep
  <1>8. Arch!Fault
    BY <1>1, <1>5, <1>6, <1>7 DEF Arch!Fault, ArchRegs, Regs, InProgram
  <1>9. Implements
    BY <1>1, <1>2, <1>4, <1>8, RunImplements DEF CoreRest, RunsTo
  <1>10. QED
    BY <1>1, <1>2, <1>4, <1>9, Resting

LEMMA MemDoneEnds ==
  ASSUME SessionInv, hart.state \in {"LOAD", "STORE"}, program' = program, NEW c, CoreRest(c),
         c.mie = hart.mie, c.mpie = hart.mpie, c.mepc = hart.mepc, hart' = MemDone(c)
  PROVE  InState' /\ OfProgram' /\ Owed(FALSE, FALSE, FALSE) /\ Implements
  <1> DEFINE pc == Following(hart.pc)
             b == [c EXCEPT !.pc = pc, !.state = "RUN"]
  <1>1. /\ InProgram /\ ArchPc = hart.pc /\ hart.pc \in Datum
        /\ program[hart.pc] \in {"load", "store"}
    BY InvParts, ProgramFacts DEF InProgram, ArchPc, OfProgram
  <1>2. hart' = Debugged(Boundary(b), "memory", pc)
    BY DEF MemDone
  <1>3. pc \in Datum
    BY <1>1, DatumFacts DEF Following, Datum
  <1>4. Arch!Ran(ArchRegs) = Regs(pc, hart.mie, hart.mpie, hart.mepc)
    BY <1>1, RegsFacts DEF ArchRegs
  <1> HIDE DEF pc
  <1>5. Only(c, b, {"pc", "state"}) /\ b.pc = pc /\ b.state = "RUN"
    BY <1>3 DEF CoreRest, HartRegisters, Only, Fields, State
  <1> HIDE DEF b
  <1>6. CoreRest(b) /\ b.mie = hart.mie /\ b.mpie = hart.mpie /\ b.mepc = hart.mepc
    BY <1>5 DEF CoreRest, Only, Fields
  <1>7. QED
    BY <1>1, <1>2, <1>4, <1>5, <1>6, InstructionEnds

\* The registers of a hart whose access is answered.
LEMMA AnsweredRest ==
  ASSUME SessionInv, hart.state \in {"LOAD", "STORE"},
         NEW c, Only(hart, c, Pulses \cup {"memOutstanding", "awDone", "wDone"}),
         ~c.memOutstanding, ~c.awDone, ~c.wDone
  PROVE  CoreRest(c) /\ c.mie = hart.mie /\ c.mpie = hart.mpie /\ c.mepc = hart.mepc
  <1>1. ~hart.fetchOutstanding /\ hart.state = c.state /\ hart.pc = c.pc
    BY InvParts DEF InState, Fetching, Only, Fields, Pulses
  <1>2. QED
    BY <1>1, InvParts DEF CoreRest, Only, Fields, Pulses, OfProgram

LEMMA MemEnds ==
  ASSUME SessionInv, hart.state \in {"LOAD", "STORE"}, program' = program,
         NEW c, Only(hart, c, Pulses \cup {"memOutstanding", "awDone", "wDone"}),
         ~c.memOutstanding, ~c.awDone, ~c.wDone, hart' \in MemEnd(c)
  PROVE  InState' /\ OfProgram' /\ Owed(FALSE, FALSE, FALSE) /\ Implements
  <1>1. CoreRest(c) /\ c.mie = hart.mie /\ c.mpie = hart.mpie /\ c.mepc = hart.mepc
    BY AnsweredRest
  <1>2. hart' = MemFault(c) \/ hart' = MemDone(c)
    BY DEF MemEnd
  <1>3. QED
    BY <1>1, <1>2, MemFaultEnds, MemDoneEnds

LEMMA LoadResponseGood ==
  ASSUME SessionInv, NEW ar \in BOOLEAN, LoadResponse(ar)
  PROVE  Good
  <1> DEFINE c == [Base EXCEPT !.memOutstanding = FALSE]
  <1>1. /\ hart.state = "LOAD" /\ AnswersRead(ar) /\ Outside(ar, FALSE, FALSE) /\ program' = program
        /\ hart.memOutstanding \/ ar
        /\ hart' \in MemEnd(c)
    BY DEF LoadResponse, AnswersRead, Outside
  <1>2. Only(hart, Base, Pulses) /\ Base \in HartRegisters
    BY InvParts, BaseOnly DEF Only
  <1>3. Only(Base, c, {"memOutstanding"}) /\ ~c.memOutstanding
    BY <1>2 DEF HartRegisters, Only, Fields
  <1> HIDE DEF c
  <1>4. ~hart.awDone /\ ~hart.wDone /\ ~AddressOwed /\ ~DataOwed /\ (ReadOwed \/ ar)
    BY <1>1, InvParts DEF InState, AddressOwed, DataOwed, ReadOwed, DebugWrites
  <1>5. /\ Only(hart, c, Pulses \cup {"memOutstanding", "awDone", "wDone"})
        /\ ~c.awDone /\ ~c.wDone
    BY <1>2, <1>3, <1>4 DEF Only, Fields, Pulses
  <1>6. InState' /\ OfProgram' /\ Owed(FALSE, FALSE, FALSE) /\ Implements
    BY <1>1, <1>3, <1>5, MemEnds
  <1>7. ResponsesExpected'
    BY <1>1, <1>4, <1>6, InvParts, AnswersReadExpected
  <1>8. StillShown
    <2>1. ~AwValid /\ ~WValid /\ ~(ArValid /\ ~ar)
      BY <1>1 DEF AwValid, WValid, DebugWrites, ArValid, FetchArValid, Fetching, LoadArValid,
                  DebugArValid, DebugReads
    <2>2. QED
      BY <1>1, <2>1, AccessGoesOn
  <1>9. QED
    BY <1>6, <1>7, <1>8 DEF Good, PortInv

LEMMA StoreResponseGood ==
  ASSUME SessionInv, NEW aw \in BOOLEAN, NEW w \in BOOLEAN, StoreResponse(aw, w)
  PROVE  Good
  <1> DEFINE c == [Base EXCEPT !.awDone = FALSE, !.wDone = FALSE]
  <1>1. /\ hart.state = "STORE" /\ AnswersWrite(aw, w) /\ Outside(FALSE, aw, w) /\ program' = program
        /\ hart.awDone \/ aw
        /\ hart.wDone \/ w
        /\ hart' \in MemEnd(c)
    BY DEF StoreResponse, AnswersWrite, Outside
  <1>2. Only(hart, Base, Pulses) /\ Base \in HartRegisters
    BY InvParts, BaseOnly DEF Only
  <1>3. Only(Base, c, {"awDone", "wDone"}) /\ ~c.awDone /\ ~c.wDone
    BY <1>2 DEF HartRegisters, Only, Fields
  <1> HIDE DEF c
  <1>4. ~hart.memOutstanding /\ ~ReadOwed /\ (AddressOwed \/ aw) /\ (DataOwed \/ w)
    BY <1>1, InvParts DEF InState, AddressOwed, DataOwed, ReadOwed, DebugReads, Fetching
  <1>5. /\ Only(hart, c, Pulses \cup {"memOutstanding", "awDone", "wDone"})
        /\ ~c.memOutstanding
    BY <1>2, <1>3, <1>4 DEF Only, Fields, Pulses
  <1>6. InState' /\ OfProgram' /\ Owed(FALSE, FALSE, FALSE) /\ Implements
    BY <1>1, <1>3, <1>5, MemEnds
  <1>7. ResponsesExpected'
    BY <1>1, <1>4, <1>6, InvParts, AnswersWriteExpected
  <1>8. StillShown
    <2>1. ~ArValid /\ ~(AwValid /\ ~aw) /\ ~(WValid /\ ~w)
      BY <1>1 DEF AwValid, WValid, DebugWrites, ArValid, FetchArValid, Fetching, LoadArValid,
                  DebugArValid, DebugReads
    <2>2. QED
      BY <1>1, <2>1, AccessGoesOn
  <1>9. QED
    BY <1>6, <1>7, <1>8 DEF Good, PortInv

(***************************************************************************)
(* Reset, and the cycles in debug mode.                                    *)
(***************************************************************************)

\* While reset is requested the hart is back where it starts.
LEMMA ResetGood ==
  ASSUME SessionInv, ResetReq, NEW c \in HartRegisters, hart' = UnderReset(c), program' = program
  PROVE  InState' /\ OfProgram' /\ Owed(FALSE, FALSE, FALSE) /\ Implements
  <1>1. /\ hart'.state = "RESET" /\ hart'.pc = 0 /\ ~hart'.mie /\ ~hart'.mpie /\ hart'.mepc = 0
        /\ ~hart'.stepActive /\ ~hart'.ebreakm /\ ~hart'.fetchOutstanding
        /\ ~hart'.memOutstanding /\ ~hart'.awDone /\ ~hart'.wDone /\ ~hart'.debugOutstanding
        /\ ~hart'.debugAwDone /\ ~hart'.debugWDone /\ ~hart'.memBusy
        /\ hart' \in HartRegisters
    BY ResetFacts, ResetOnly
  <1>2. InState' /\ OfProgram' /\ Owed(FALSE, FALSE, FALSE)
    BY <1>1 DEF InState, OfProgram, Owed, ReadOwed, AddressOwed, DataOwed
  <1>3. hart'.mie = FALSE /\ hart'.mpie = FALSE
    BY <1>1 DEF HartRegisters
  <1>4. Arch!Reset
    BY <1>1, <1>3 DEF Arch!Reset, ArchPc
  <1>5. QED
    BY <1>2, <1>4 DEF Implements, Arch!Next

LEMMA ResetCycleGood ==
  ASSUME SessionInv, ResetCycle
  PROVE  Good
  <1> DEFINE c == [Base EXCEPT !.state = "RUN", !.fetchOutstanding = FALSE,
                     !.memOutstanding = FALSE, !.awDone = FALSE, !.wDone = FALSE]
  <1>1. /\ hart.state = "RESET" /\ Accepts(FALSE, FALSE, FALSE) /\ Outside(FALSE, FALSE, FALSE)
        /\ program' = program /\ hart' = Debugged(c, "busy", hart.pc)
    BY DEF ResetCycle, Accepts, Outside
  <1>2. Only(hart, Base, Pulses) /\ Base \in HartRegisters
    BY InvParts, BaseOnly DEF Only
  <1>3. /\ Only(Base, c, {"state", "fetchOutstanding", "memOutstanding", "awDone", "wDone"})
        /\ c.state = "RUN" /\ ~c.fetchOutstanding /\ ~c.memOutstanding /\ ~c.awDone /\ ~c.wDone
    BY <1>2 DEF HartRegisters, Only, Fields, State
  <1> HIDE DEF c
  <1>4. /\ ~ReadOwed /\ ~AddressOwed /\ ~DataOwed /\ ~hart.debugOutstanding
        /\ ~hart.debugAwDone /\ ~hart.debugWDone
    BY <1>1, InvParts DEF InState, ReadOwed, AddressOwed, DataOwed, Fetching, DebugReads, DebugWrites
  <1>5. /\ hart.pc = 0 /\ ~hart.mie /\ ~hart.mpie /\ hart.mepc = 0
        /\ ~hart.stepActive /\ ~hart.ebreakm /\ ~hart.memBusy
    BY <1>1, InvParts DEF OfProgram, SessionInv, CommandInv, CommandMeetsHaltedHart
  <1>6. /\ c \in HartRegisters /\ c.pc = hart.pc /\ c.mie = hart.mie /\ c.mpie = hart.mpie
        /\ c.mepc = hart.mepc /\ c.stepActive = hart.stepActive /\ c.ebreakm = hart.ebreakm
        /\ ~c.debugOutstanding /\ ~c.debugAwDone /\ ~c.debugWDone /\ ~c.memBusy
    BY <1>2, <1>3, <1>4, <1>5 DEF Only, Fields, Pulses
  <1>7. \/ ResetReq /\ hart' = UnderReset(c)
        \/ /\ hart'.state \in {"RUN", "DEBUG"} /\ (hart'.state = "DEBUG" => hart'.dpc = 0)
           /\ Only(c, hart', {"state", "dpc", "cause", "resetActive", "resetAck"})
    BY <1>1, <1>3, <1>6, InReset
  <1>8. InState' /\ OfProgram' /\ Owed(FALSE, FALSE, FALSE) /\ Implements
    <2>1. CASE ResetReq /\ hart' = UnderReset(c)
      BY <1>1, <1>6, <2>1, ResetGood
    <2>2. CASE /\ hart'.state \in {"RUN", "DEBUG"} /\ (hart'.state = "DEBUG" => hart'.dpc = 0)
               /\ Only(c, hart', {"state", "dpc", "cause", "resetActive", "resetAck"})
      <3>1. /\ hart'.pc = hart.pc /\ hart'.mie = hart.mie /\ hart'.mpie = hart.mpie
            /\ hart'.mepc = hart.mepc /\ hart'.stepActive = hart.stepActive
            /\ hart'.ebreakm = hart.ebreakm
        BY <1>6, <2>2 DEF Only, Fields
      <3>2. /\ ~hart'.debugOutstanding /\ ~hart'.debugAwDone /\ ~hart'.debugWDone /\ ~hart'.memBusy
            /\ ~hart'.fetchOutstanding /\ ~hart'.memOutstanding /\ ~hart'.awDone /\ ~hart'.wDone
        BY <1>3, <1>6, <2>2 DEF Only, Fields
      <3>3. InState' /\ OfProgram' /\ Owed(FALSE, FALSE, FALSE)
        BY <2>2, <3>2 DEF InState, OfProgram, Owed, ReadOwed, AddressOwed, DataOwed
      <3>4. ArchRegs' = ArchRegs
        BY <1>1, <1>5, <2>2, <3>1 DEF ArchRegs, ArchPc
      <3>5. CASE hart'.state = "DEBUG"
        <4>1. Arch!Halt
          BY <1>1, <3>4, <3>5 DEF Arch!Halt, ArchRegs, Regs
        <4>2. Arch!Run
          BY <1>1, <1>5, <3>1, <3>5, <4>1 DEF Arch!Run
        <4>3. QED
          BY <3>3, <4>2 DEF Implements, Arch!Next
      <3>6. CASE hart'.state = "RUN"
        BY <1>1, <1>5, <3>1, <3>3, <3>4, <3>6 DEF Implements, Arch!archVars, ArchRegs, Regs
      <3>7. QED
        BY <2>2, <3>5, <3>6
    <2>3. QED
      BY <1>7, <2>1, <2>2
  <1>9. ResponsesExpected'
    BY <1>1, <1>4, <1>8, QuietExpected
  <1>10. StillShown
    BY <1>1, NothingShown
  <1>11. QED
    BY <1>8, <1>9, <1>10 DEF Good, PortInv

\* What the hart does with the command it holds, or was handed.
HartLatch == hart.memBusy => hart.memory = dm.latch /\ dm.latch.type = "memory"
HartAnswers ==
  /\ hart'.memBusy => hart'.memory = dm.latch /\ dm.latch.type = "memory"
  /\ dm.latch.type = "memory" /\ ~dm.latch.write /\ hart'.abstractDone /\ hart'.abstractError = NONE
       => hart'.abstractRdata = dm.latch.address

\* The registers that a command at work may change, and what a halted hart is to the program.
Hidden == {"resumeAck", "resetAck", "abstractDone", "abstractError", "abstractRdata", "memBusy",
           "memory", "debugOutstanding", "debugAwDone", "debugWDone"}

LEMMA HiddenStep ==
  ASSUME hart.state = "DEBUG", Only(hart, hart', Hidden), program' = program
  PROVE  Implements
  BY DEF Only, Fields, Hidden, Implements, Arch!archVars, ArchPc

\* While a command is at work the debug logic leaves it alone.
LEMMA AtWork ==
  ASSUME SessionInv, hart.memBusy, NEW c, Only(hart, c, Hidden), NEW at,
         hart' = Debugged(c, "busy", at)
  PROVE  hart' = c
  <1>1. hart.state = "DEBUG" /\ ~ResetReq
    BY DEF SessionInv, CommandInv, CommandMeetsHaltedHart, RunControl, OnePlace
  <1>2. ~dm.valid
    BY DEF SessionInv, CommandInv, OnePlace
  <1>3. c \in HartRegisters /\ c.state = "DEBUG" /\ c.mepc = hart.mepc /\ c.dpc = hart.dpc
    BY <1>1 DEF Only, Fields, Hidden
  <1>4. QED
    BY <1>1, <1>2, <1>3, InDebug DEF Takes, Begin, GoesOn

LEMMA DebugFacts ==
  ASSUME SessionInv, hart.state = "DEBUG"
  PROVE  /\ ~hart.fetchOutstanding /\ ~hart.memOutstanding /\ ~hart.awDone /\ ~hart.wDone
         /\ hart.debugOutstanding => DebugReads
         /\ hart.debugAwDone \/ hart.debugWDone => DebugWrites
         /\ hart \in HartRegisters /\ Base \in HartRegisters /\ Only(hart, Base, Pulses)
  BY InvParts, BaseOnly DEF InState, Fetching, Only

LEMMA DebugReadGood ==
  ASSUME SessionInv, NEW ar \in BOOLEAN, DebugRead(ar)
  PROVE  Good /\ (HartLatch => HartAnswers)
  <1> DEFINE open == hart.debugOutstanding \/ ar
             c == [Base EXCEPT !.debugOutstanding = open]
  <1>1. /\ hart.state = "DEBUG" /\ hart.memBusy /\ ~hart.memory.write
        /\ Accepts(ar, FALSE, FALSE) /\ Outside(ar, FALSE, FALSE) /\ program' = program
    BY DEF DebugRead, DebugReads, Accepts, Outside
  <1>2. open \in BOOLEAN /\ hart.debugOutstanding \in BOOLEAN
    BY <1>1, DebugFacts DEF HartRegisters
  <1>3. Base.debugOutstanding = hart.debugOutstanding
    BY <1>1, DebugFacts DEF Only, Fields, Pulses
  <1>4. hart' = Debugged(c, "busy", hart.pc)
    BY <1>3 DEF DebugRead
  <1>5. /\ ~hart.fetchOutstanding /\ ~hart.memOutstanding /\ ~hart.awDone /\ ~hart.wDone
        /\ ~hart.debugAwDone /\ ~hart.debugWDone
    BY <1>1, DebugFacts DEF DebugWrites
  <1> HIDE DEF open
  <1>6. Only(Base, c, {"debugOutstanding"}) /\ c.debugOutstanding = open
    BY <1>1, <1>2, DebugFacts DEF HartRegisters, Only, Fields
  <1>7. ~Base.abstractDone
    BY <1>1, DebugFacts, BaseOnly
  <1> HIDE DEF c
  <1>8. /\ Only(hart, c, Hidden) /\ c.memBusy /\ c.memory = hart.memory /\ ~c.abstractDone
        /\ c.state = hart.state /\ ~c.fetchOutstanding /\ ~c.memOutstanding /\ ~c.awDone /\ ~c.wDone
        /\ ~c.debugAwDone /\ ~c.debugWDone
    BY <1>1, <1>5, <1>6, <1>7, DebugFacts DEF Only, Fields, Pulses, Hidden
  <1>9. hart' = c
    BY <1>1, <1>4, <1>8, AtWork
  <1>10. InState' /\ OfProgram' /\ ArBits' = ArBits
    BY <1>1, <1>6, <1>8, <1>9 DEF InState, OfProgram, DebugReads, ArBits
  <1>11. Owed(ReadOwed \/ ar, AddressOwed \/ FALSE, DataOwed \/ FALSE)
    BY <1>5, <1>6, <1>8, <1>9, <1>10 DEF Owed, ReadOwed, AddressOwed, DataOwed, open
  <1>12. ResponsesExpected'
    BY <1>1, <1>11, InvParts, AcceptsExpected
  <1>13. StillShown
    <2>1. /\ ~AwValid /\ ~WValid
          /\ ArValid /\ ~ar => ArValid'
      BY <1>1, <1>6, <1>8, <1>9
         DEF AwValid, WValid, DebugWrites, ArValid, FetchArValid, Fetching, LoadArValid, DebugArValid,
             DebugReads, open
    <2>2. QED
      BY <1>1, <1>10, <2>1, AccessGoesOn
  <1>14. Implements
    BY <1>1, <1>8, <1>9, HiddenStep
  <1>15. HartLatch => HartAnswers
    BY <1>1, <1>8, <1>9 DEF HartLatch, HartAnswers
  <1>16. QED
    BY <1>10, <1>12, <1>13, <1>14, <1>15 DEF Good, PortInv

LEMMA DebugWriteGood ==
  ASSUME SessionInv, NEW aw \in BOOLEAN, NEW w \in BOOLEAN, DebugWrite(aw, w)
  PROVE  Good /\ (HartLatch => HartAnswers)
  <1> DEFINE a == hart.debugAwDone \/ aw
             d == hart.debugWDone \/ w
             c == [Base EXCEPT !.debugAwDone = a, !.debugWDone = d]
  <1>1. /\ hart.state = "DEBUG" /\ hart.memBusy /\ hart.memory.write
        /\ Accepts(FALSE, aw, w) /\ Outside(FALSE, aw, w) /\ program' = program
    BY DEF DebugWrite, DebugWrites, Accepts, Outside
  <1>2. a \in BOOLEAN /\ d \in BOOLEAN
    BY <1>1, DebugFacts DEF HartRegisters
  <1>3. Base.debugAwDone = hart.debugAwDone /\ Base.debugWDone = hart.debugWDone
    BY <1>1, DebugFacts DEF Only, Fields, Pulses
  <1>4. hart' = Debugged(c, "busy", hart.pc)
    BY <1>3 DEF DebugWrite
  <1>5. /\ ~hart.fetchOutstanding /\ ~hart.memOutstanding /\ ~hart.awDone /\ ~hart.wDone
        /\ ~hart.debugOutstanding
    BY <1>1, DebugFacts DEF DebugReads
  <1> HIDE DEF a, d
  <1>6. Only(Base, c, {"debugAwDone", "debugWDone"}) /\ c.debugAwDone = a /\ c.debugWDone = d
    <2>1. Base \in HartRegisters
      BY <1>1, DebugFacts
    <2>2. c \in HartRegisters
      BY <1>2, <2>1 DEF HartRegisters
    <2>3. /\ \A f \in Fields \ {"debugAwDone", "debugWDone"} : c[f] = Base[f]
          /\ c.debugAwDone = a /\ c.debugWDone = d
      BY <2>1 DEF HartRegisters, Fields
    <2>4. QED
      BY <2>2, <2>3 DEF Only
  <1>7. ~Base.abstractDone
    BY <1>1, DebugFacts, BaseOnly
  <1> HIDE DEF c
  <1>8. /\ Only(hart, c, Hidden) /\ c.memBusy /\ c.memory = hart.memory /\ ~c.abstractDone
        /\ c.state = hart.state /\ ~c.fetchOutstanding /\ ~c.memOutstanding /\ ~c.awDone /\ ~c.wDone
        /\ ~c.debugOutstanding
    BY <1>1, <1>5, <1>6, <1>7, DebugFacts DEF Only, Fields, Pulses, Hidden
  <1>9. hart' = c
    BY <1>1, <1>4, <1>8, AtWork
  <1>10. InState' /\ OfProgram' /\ AwBits' = AwBits /\ WBits' = WBits
    BY <1>1, <1>6, <1>8, <1>9 DEF InState, OfProgram, DebugWrites, AwBits, WBits
  <1>11. Owed(ReadOwed \/ FALSE, AddressOwed \/ aw, DataOwed \/ w)
    BY <1>5, <1>6, <1>8, <1>9, <1>10 DEF Owed, ReadOwed, AddressOwed, DataOwed, a, d
  <1>12. ResponsesExpected'
    BY <1>1, <1>11, InvParts, AcceptsExpected
  <1>13. StillShown
    <2>1. /\ ~ArValid
          /\ AwValid /\ ~aw => AwValid'
          /\ WValid /\ ~w => WValid'
      BY <1>1, <1>6, <1>8, <1>9
         DEF AwValid, WValid, DebugWrites, ArValid, FetchArValid, Fetching, LoadArValid, DebugArValid,
             DebugReads, a, d
    <2>2. QED
      BY <1>1, <1>10, <2>1, AccessGoesOn
  <1>14. Implements
    BY <1>1, <1>8, <1>9, HiddenStep
  <1>15. HartLatch => HartAnswers
    BY <1>1, <1>8, <1>9 DEF HartLatch, HartAnswers
  <1>16. QED
    BY <1>10, <1>12, <1>13, <1>14, <1>15 DEF Good, PortInv

\* The registers once the access is over.
LEMMA DoneFacts ==
  ASSUME SessionInv, hart.state = "DEBUG"
  PROVE  Only(hart, DebugDone, Pulses \cup {"memBusy"}) /\ ~DebugDone.memBusy
         /\ DebugDone \in HartRegisters /\ DebugDone.abstractError = NONE
  <1>1. Base \in HartRegisters /\ Only(hart, Base, Pulses) /\ Base.abstractError = NONE
    BY DebugFacts, BaseOnly
  <1>2. /\ DebugDone \in HartRegisters /\ ~DebugDone.memBusy
        /\ \A f \in Fields \ {"memBusy", "abstractDone"} : DebugDone[f] = Base[f]
    BY <1>1 DEF DebugDone, HartRegisters, Fields
  <1>3. QED
    BY <1>1, <1>2 DEF Only, Fields, Pulses

\* A halted hart with no access at work and nothing owed.
LEMMA OverRests ==
  ASSUME SessionInv, hart.state = "DEBUG", hart.memBusy, program' = program,
         NEW c, Only(hart, c, Hidden), ~c.memBusy, ~c.debugOutstanding, ~c.debugAwDone,
         ~c.debugWDone, NEW at, hart' = Debugged(c, "busy", at)
  PROVE  hart' = c /\ InState' /\ OfProgram' /\ Owed(FALSE, FALSE, FALSE) /\ Implements
  <1>1. hart' = c
    BY AtWork
  <1>2. /\ c.state = "DEBUG" /\ ~c.fetchOutstanding /\ ~c.memOutstanding /\ ~c.awDone /\ ~c.wDone
    BY DebugFacts DEF Only, Fields, Hidden
  <1>3. InState' /\ OfProgram' /\ Owed(FALSE, FALSE, FALSE)
    BY <1>1, <1>2 DEF InState, OfProgram, Owed, ReadOwed, AddressOwed, DataOwed
  <1>4. Implements
    BY <1>1, HiddenStep
  <1>5. QED
    BY <1>1, <1>3, <1>4

LEMMA DebugReadResponseGood ==
  ASSUME SessionInv, NEW ar \in BOOLEAN, DebugReadResponse(ar)
  PROVE  Good /\ (HartLatch => HartAnswers)
  <1> DEFINE c == [DebugDone EXCEPT !.debugOutstanding = FALSE]
             x == Head(ReadsWith(ar)).at
             d == [c EXCEPT !.abstractRdata = x]
             e == [c EXCEPT !.abstractError = BUS]
  <1>1. /\ hart.state = "DEBUG" /\ hart.memBusy /\ ~hart.memory.write
        /\ hart.debugOutstanding \/ ar
        /\ AnswersRead(ar) /\ Outside(ar, FALSE, FALSE) /\ program' = program
        /\ hart' = Debugged(d, "busy", hart.pc) \/ hart' = Debugged(e, "busy", hart.pc)
    BY DEF DebugReadResponse, DebugReads, AnswersRead, Outside
  <1>2. ~AddressOwed /\ ~DataOwed /\ (ReadOwed \/ ar)
    BY <1>1, DebugFacts DEF DebugWrites, AddressOwed, DataOwed, ReadOwed
  <1>3. ReadsWith(ar) = <<ArBits>>
    BY <1>1, <1>2, Queued, InvParts DEF Outside
  <1>4. x = hart.memory.address /\ x \in Datum
    BY <1>1, <1>3, One, DebugFacts DEF ArBits, HartRegisters, Latch
  <1> HIDE DEF x
  <1>5. Only(DebugDone, c, {"debugOutstanding"}) /\ ~c.debugOutstanding
    BY <1>1, DoneFacts DEF HartRegisters, Only, Fields
  <1> HIDE DEF c
  <1>6. c \in HartRegisters /\ BUS \in SUBSET (0 .. 2) /\ BUS # NONE
    BY <1>5 DEF Only, BUS, NONE
  <1>7. /\ Only(c, d, {"abstractRdata"}) /\ d.abstractRdata = x
        /\ Only(c, e, {"abstractError"}) /\ e.abstractError = BUS
    BY <1>4, <1>6 DEF HartRegisters, Only, Fields
  <1> HIDE DEF d, e
  <1>8. PICK f \in {d, e} : hart' = Debugged(f, "busy", hart.pc)
    BY <1>1
  <1>9. /\ Only(hart, f, Hidden) /\ ~f.memBusy /\ ~f.debugOutstanding /\ ~f.debugAwDone
        /\ ~f.debugWDone /\ (f.abstractError # NONE \/ f.abstractRdata = x)
    <2>1. Only(hart, DebugDone, Pulses \cup {"memBusy"}) /\ ~DebugDone.memBusy
          /\ ~hart.debugAwDone /\ ~hart.debugWDone
      BY <1>1, DoneFacts, DebugFacts DEF DebugWrites
    <2>2. Only(DebugDone, f, {"debugOutstanding", "abstractRdata", "abstractError"})
          /\ ~f.debugOutstanding /\ (f.abstractError # NONE \/ f.abstractRdata = x)
      BY <1>5, <1>6, <1>7, <1>8 DEF Only, Fields
    <2>3. QED
      BY <2>1, <2>2 DEF Only, Fields, Pulses, Hidden
  <1>10. hart' = f /\ InState' /\ OfProgram' /\ Owed(FALSE, FALSE, FALSE) /\ Implements
    BY <1>1, <1>8, <1>9, OverRests
  <1>11. ResponsesExpected'
    BY <1>1, <1>2, <1>10, InvParts, AnswersReadExpected
  <1>12. StillShown
    <2>1. ~AwValid /\ ~WValid /\ ~(ArValid /\ ~ar)
      BY <1>1 DEF AwValid, WValid, DebugWrites, ArValid, FetchArValid, Fetching, LoadArValid,
                  DebugArValid, DebugReads
    <2>2. QED
      BY <1>1, <2>1, AccessGoesOn
  <1>13. HartLatch => HartAnswers
    BY <1>1, <1>4, <1>9, <1>10 DEF HartLatch, HartAnswers
  <1>14. QED
    BY <1>10, <1>11, <1>12, <1>13 DEF Good, PortInv

LEMMA DebugWriteResponseGood ==
  ASSUME SessionInv, NEW aw \in BOOLEAN, NEW w \in BOOLEAN, DebugWriteResponse(aw, w)
  PROVE  Good /\ (HartLatch => HartAnswers)
  <1> DEFINE c == [DebugDone EXCEPT !.debugAwDone = FALSE, !.debugWDone = FALSE]
             e == [c EXCEPT !.abstractError = BUS]
  <1>1. /\ hart.state = "DEBUG" /\ hart.memBusy /\ hart.memory.write
        /\ hart.debugAwDone \/ aw
        /\ hart.debugWDone \/ w
        /\ AnswersWrite(aw, w) /\ Outside(FALSE, aw, w) /\ program' = program
        /\ hart' = Debugged(c, "busy", hart.pc) \/ hart' = Debugged(e, "busy", hart.pc)
    BY DEF DebugWriteResponse, DebugWrites, AnswersWrite, Outside
  <1>2. ~ReadOwed /\ ~hart.debugOutstanding /\ (AddressOwed \/ aw) /\ (DataOwed \/ w)
    BY <1>1, DebugFacts DEF DebugReads, AddressOwed, DataOwed, ReadOwed
  <1>3. Only(DebugDone, c, {"debugAwDone", "debugWDone"}) /\ ~c.debugAwDone /\ ~c.debugWDone
    BY <1>1, DoneFacts DEF HartRegisters, Only, Fields
  <1> HIDE DEF c
  <1>4. c \in HartRegisters /\ BUS \in SUBSET (0 .. 2)
    BY <1>3 DEF Only, BUS
  <1>5. Only(c, e, {"abstractError"})
    BY <1>4 DEF HartRegisters, Only, Fields
  <1> HIDE DEF e
  <1>6. PICK f \in {c, e} : hart' = Debugged(f, "busy", hart.pc)
    BY <1>1
  <1>7. /\ Only(hart, f, Hidden) /\ ~f.memBusy /\ ~f.debugOutstanding /\ ~f.debugAwDone
        /\ ~f.debugWDone
    <2>1. Only(hart, DebugDone, Pulses \cup {"memBusy"}) /\ ~DebugDone.memBusy
      BY <1>1, DoneFacts
    <2>2. Only(DebugDone, f, {"debugAwDone", "debugWDone", "abstractError"})
          /\ ~f.debugAwDone /\ ~f.debugWDone
      BY <1>3, <1>4, <1>5, <1>6 DEF Only, Fields
    <2>3. QED
      BY <1>2, <2>1, <2>2 DEF Only, Fields, Pulses, Hidden
  <1>8. hart' = f /\ InState' /\ OfProgram' /\ Owed(FALSE, FALSE, FALSE) /\ Implements
    BY <1>1, <1>6, <1>7, OverRests
  <1>9. ResponsesExpected'
    BY <1>1, <1>2, <1>8, InvParts, AnswersWriteExpected
  <1>10. StillShown
    <2>1. ~ArValid /\ ~(AwValid /\ ~aw) /\ ~(WValid /\ ~w)
      BY <1>1 DEF AwValid, WValid, DebugWrites, ArValid, FetchArValid, Fetching, LoadArValid,
                  DebugArValid, DebugReads
    <2>2. QED
      BY <1>1, <2>1, AccessGoesOn
  <1>11. HartLatch => HartAnswers
    BY <1>1, <1>7, <1>8 DEF HartLatch, HartAnswers
  <1>12. QED
    BY <1>8, <1>9, <1>10, <1>11 DEF Good, PortInv

\* A halted hart without an access, under reset.
LEMMA IdleUnderReset ==
  ASSUME SessionInv, hart.state = "DEBUG", ~hart.memBusy, ResetReq, program' = program,
         NEW at \in Datum, hart' = Debugged(Base, "busy", at)
  PROVE  /\ InState' /\ OfProgram' /\ Owed(FALSE, FALSE, FALSE) /\ Implements
         /\ HartAnswers
  <1> DEFINE c == Resumed(Stopped(Commanded(Base), "busy", at))
  <1>1. ~dm.valid /\ hart.resetActive \in BOOLEAN
    BY DebugFacts DEF SessionInv, CommandInv, RunControl, OnePlace, HartRegisters
  <1>2. c = Resumed(Base)
    BY <1>1 DEF Commanded, Stopped, EndsStep, EndsForHalt
  <1>3. c \in HartRegisters /\ c.abstractDone = Base.abstractDone /\ ~Base.abstractDone
    BY <1>2, DebugFacts, BaseOnly, ResumedTypes
  <1>4. hart' = UnderReset(c)
    BY DEF Debugged, Released
  <1> HIDE DEF c
  <1>5. ~hart'.memBusy /\ ~hart'.abstractDone
    BY <1>3, <1>4, UnderResetTypes
  <1>6. HartAnswers
    BY <1>5 DEF HartAnswers
  <1>7. QED
    BY <1>3, <1>4, <1>6, ResetGood

LEMMA IdleRests ==
  ASSUME SessionInv, hart.state = "DEBUG", ~hart.memBusy, ~ResetReq, program' = program,
         NEW at \in Datum, hart' = Debugged(Base, "busy", at)
  PROVE  /\ InState' /\ OfProgram' /\ Owed(FALSE, FALSE, FALSE) /\ Implements
         /\ HartAnswers
  <1> DEFINE S == {"abstractDone", "abstractError", "abstractRdata", "mepc", "dpc", "step",
                   "ebreakm", "memBusy", "memory", "debugOutstanding", "debugAwDone",
                   "debugWDone", "state", "pc", "fetchOutstanding", "stepActive", "resumeAck"}
  <1>1. /\ Base \in HartRegisters /\ Only(hart, Base, Pulses) /\ ~Base.abstractDone
        /\ ~hart.fetchOutstanding /\ ~hart.memOutstanding /\ ~hart.awDone /\ ~hart.wDone
        /\ ~hart.debugOutstanding /\ ~hart.debugAwDone /\ ~hart.debugWDone
    BY DebugFacts, BaseOnly DEF DebugReads, DebugWrites
  <1>2. Base.state = "DEBUG" /\ Base.mepc = hart.mepc /\ Base.dpc = hart.dpc
        /\ Base.ebreakm = hart.ebreakm /\ Base.mie = hart.mie /\ Base.mpie = hart.mpie
        /\ ~Base.memBusy
    BY <1>1 DEF Only, Fields, Pulses
  <1>3. Takes(Base) \/ Begin(Base) \/ GoesOn(Base) \/ (~dm.valid /\ hart' = Base)
    BY <1>1, <1>2, InDebug
  <1>4. /\ ~hart'.memOutstanding /\ ~hart'.awDone /\ ~hart'.wDone /\ ~hart'.fetchOutstanding
        /\ ~hart'.debugOutstanding /\ ~hart'.debugAwDone /\ ~hart'.debugWDone
        /\ hart'.mie = hart.mie /\ hart'.mpie = hart.mpie
        /\ hart'.state \in {"DEBUG", "RUN"}
    BY <1>1, <1>2, <1>3 DEF Takes, Begin, GoesOn, Only, Fields, Pulses
  <1>5. InState' /\ OfProgram' /\ Owed(FALSE, FALSE, FALSE)
    BY <1>4 DEF InState, OfProgram, Owed, ReadOwed, AddressOwed, DataOwed
  <1>6. Implements /\ HartAnswers
    <2>1. CASE Takes(Base)
      <3>1. hart'.state = "DEBUG" /\ ~hart'.memBusy
        BY <1>2, <2>1 DEF Takes, Only, Fields
      <3>2. \/ hart'.mepc = hart.mepc /\ hart'.dpc = hart.dpc
            \/ hart'.mepc = hart.mepc /\ hart'.ebreakm = hart.ebreakm
            \/ hart'.dpc = hart.dpc /\ hart'.ebreakm = hart.ebreakm
        BY <1>2, <2>1 DEF Takes
      <3>3. /\ ArchRegs = Regs(hart.dpc, hart.mie, hart.mpie, hart.mepc)
            /\ ArchRegs' = Regs(hart'.dpc, hart.mie, hart.mpie, hart'.mepc)
        BY <1>4, <3>1 DEF ArchRegs, ArchPc
      <3>4. \/ ArchRegs' = [ArchRegs EXCEPT !.pc = ArchRegs'.pc] /\ hart'.ebreakm = hart.ebreakm
            \/ ArchRegs' = [ArchRegs EXCEPT !.mepc = ArchRegs'.mepc] /\ hart'.ebreakm = hart.ebreakm
            \/ ArchRegs' = ArchRegs
        BY <3>2, <3>3 DEF Regs
      <3>5. Arch!Write
        BY <3>1, <3>4 DEF Arch!Write, ArchRegs, Regs
      <3>6. HartAnswers
        BY <2>1, <3>1 DEF Takes, HartAnswers
      <3>7. QED
        BY <3>5, <3>6 DEF Implements, Arch!Next
    <2>2. CASE Begin(Base)
      <3>1. /\ hart'.state = "DEBUG" /\ hart'.dpc = hart.dpc /\ hart'.mepc = hart.mepc
            /\ hart'.ebreakm = hart.ebreakm /\ ~hart'.abstractDone
        BY <1>1, <1>2, <2>2 DEF Begin, Only, Fields
      <3>2. Implements
        BY <1>4, <3>1 DEF Implements, Arch!archVars, ArchPc
      <3>3. HartAnswers
        BY <2>2, <3>1 DEF Begin, Begins, HartAnswers
      <3>4. QED
        BY <3>2, <3>3
    <2>3. CASE GoesOn(Base)
      <3>1. /\ hart'.state = "RUN" /\ hart'.pc = hart.dpc /\ hart'.mepc = hart.mepc
            /\ hart'.ebreakm = hart.ebreakm /\ ~hart'.abstractDone /\ ~hart'.memBusy
            /\ hart'.stepActive \in BOOLEAN
        BY <1>1, <1>2, <2>3 DEF GoesOn, Only, Fields, HartRegisters
      <3>2. ArchRegs' = ArchRegs
        BY <1>4, <3>1 DEF ArchRegs, ArchPc
      <3>3. Arch!Resume
        BY <3>1, <3>2 DEF Arch!Resume, ArchRegs, Regs
      <3>4. QED
        BY <3>1, <3>3 DEF HartAnswers, Implements, Arch!Next
    <2>4. CASE hart' = Base
      <3>1. Only(hart, hart', Hidden)
        BY <1>1, <2>4 DEF Only, Pulses, Hidden
      <3>2. HartAnswers
        BY <1>1, <1>2, <2>4 DEF HartAnswers
      <3>3. QED
        BY <3>1, <3>2, HiddenStep
    <2>5. QED
      BY <1>3, <2>1, <2>2, <2>3, <2>4
  <1>7. QED
    BY <1>5, <1>6

LEMMA DebugIdleGood ==
  ASSUME SessionInv, DebugIdle
  PROVE  Good /\ (HartLatch => HartAnswers)
  <1>1. /\ hart.state = "DEBUG" /\ ~hart.memBusy /\ Accepts(FALSE, FALSE, FALSE)
        /\ Outside(FALSE, FALSE, FALSE) /\ program' = program
        /\ hart' = Debugged(Base, "busy", hart.pc) /\ hart.pc \in Datum
    BY DebugFacts DEF DebugIdle, Accepts, Outside, HartRegisters
  <1>2. InState' /\ OfProgram' /\ Owed(FALSE, FALSE, FALSE) /\ Implements /\ HartAnswers
    BY <1>1, IdleUnderReset, IdleRests
  <1>3. ~ReadOwed /\ ~AddressOwed /\ ~DataOwed
    BY <1>1, DebugFacts DEF ReadOwed, AddressOwed, DataOwed, DebugReads, DebugWrites
  <1>4. ResponsesExpected'
    BY <1>1, <1>2, <1>3, QuietExpected
  <1>5. StillShown
    BY <1>1, NothingShown
  <1>6. QED
    BY <1>2, <1>4, <1>5 DEF Good, PortInv

\* Every cycle of the hart keeps the port, the program and the command it holds.
LEMMA CycleGood ==
  ASSUME SessionInv, HartNext, HartEffect
  PROVE  Good /\ (HartLatch => HartAnswers)
  <1>1. ASSUME hart.state # "DEBUG" PROVE HartAnswers
    <2>1. ~hart.memBusy /\ ~dm.valid
      BY <1>1 DEF SessionInv, CommandInv, CommandMeetsHaltedHart
    <2>2. QED
      BY <2>1 DEF HartEffect, HartAnswers
  <1>2. CASE ResetCycle \/ IrqCycle \/ SleepCycle
    <2>1. hart.state # "DEBUG"
      BY <1>2 DEF ResetCycle, IrqCycle, SleepCycle
    <2>2. QED
      BY <1>1, <1>2, <2>1, ResetCycleGood, IrqCycleGood, SleepCycleGood
  <1>3. CASE DebugIdle
    BY <1>3, DebugIdleGood
  <1>4. ASSUME NEW ar \in BOOLEAN, ReadCycle(ar) PROVE Good /\ (HartLatch => HartAnswers)
    <2>1. CASE FetchCycle(ar) \/ FetchFault(ar) \/ FetchStraddle(ar) \/ Dropped(ar)
      <3>1. hart.state # "DEBUG"
        BY <2>1 DEF FetchCycle, FetchFault, FetchStraddle, Dropped, Arrives, FetchResponse, Fetching
      <3>2. QED
        BY <1>1, <2>1, <3>1, OpenFetch, FetchFaultGood, FetchStraddleGood, DroppedGood
    <2>2. CASE CommitEbreak(ar) \/ CommitTrap(ar) \/ CommitRetire(ar) \/ CommitMem(ar)
      <3>1. hart.state # "DEBUG"
        BY <2>2 DEF CommitEbreak, CommitTrap, CommitRetire, CommitMem, Arrives, FetchResponse, Fetching
      <3>2. QED
        BY <1>1, <2>2, <3>1, CommitEbreakGood, CommitTrapGood, CommitRetireGood, CommitMemGood
    <2>3. CASE LoadCycle(ar) \/ LoadResponse(ar)
      <3>1. hart.state # "DEBUG"
        BY <2>3 DEF LoadCycle, LoadResponse
      <3>2. QED
        BY <1>1, <2>3, <3>1, LoadCycleGood, LoadResponseGood
    <2>4. CASE DebugRead(ar) \/ DebugReadResponse(ar)
      BY <2>4, DebugReadGood, DebugReadResponseGood
    <2>5. QED
      BY <1>4, <2>1, <2>2, <2>3, <2>4 DEF ReadCycle
  <1>5. ASSUME NEW aw \in BOOLEAN, NEW w \in BOOLEAN, WriteCycle(aw, w)
        PROVE  Good /\ (HartLatch => HartAnswers)
    <2>1. CASE StoreCycle(aw, w) \/ StoreResponse(aw, w)
      <3>1. hart.state # "DEBUG"
        BY <2>1 DEF StoreCycle, StoreResponse
      <3>2. QED
        BY <1>1, <2>1, <3>1, StoreCycleGood, StoreResponseGood
    <2>2. CASE DebugWrite(aw, w) \/ DebugWriteResponse(aw, w)
      BY <2>2, DebugWriteGood, DebugWriteResponseGood
    <2>3. QED
      BY <1>5, <2>1, <2>2 DEF WriteCycle
  <1>6. QED
    BY <1>2, <1>3, <1>4, <1>5 DEF HartNext

LEMMA ResetWaitsStep ==
  ASSUME Orderly, CommandInv, ResetWaits, HartEffect, ModuleEffect
  PROVE  ResetWaits'
  <1> DEFINE asked == request.to = "dmcontrol" /\ request.control.reset
             settled == hart.state = "DEBUG" /\ ~dm.resumeReq
  <1>1. /\ ResetReq => hart'.state = "RESET"
        /\ hart.state = "DEBUG" => ~hart.resetActive
        /\ settled /\ ~ResetReq => hart'.state = "DEBUG"
    BY DEF CommandInv, RunControl, HartEffect
  <1>2. stage # "idle" /\ asked => ResetReq \/ settled
    BY DEF ResetWaits
  <1>3. CASE Keeps
    <2>1. (ResetReq' <=> ResetReq) /\ ~dm'.resumeReq
      BY <1>3 DEF Keeps, ResetReq
    <2>2. ASSUME stage' # "idle", asked' PROVE ResetReq \/ settled
      <3>1. CASE request' = request /\ stage # "idle"
        BY <1>2, <2>2, <3>1
      <3>2. CASE Polite(request')
        BY <2>2, <3>2 DEF Polite
      <3>3. QED
        BY <2>2, <3>1, <3>2 DEF ModuleEffect
    <2>3. QED
      BY <1>1, <2>1, <2>2 DEF ResetWaits
  <1>4. CASE ~Keeps
    <2>1. stage = "sync" /\ stage' = "idle" /\ (SwitchesOff \/ Controls \/ Starts)
      BY <1>4 DEF ModuleEffect
    <2>2. ResetReq' => ResetReq \/ asked
      BY <2>1 DEF SwitchesOff, Controls, Starts, ResetReq
    <2>3. QED
      BY <1>1, <1>2, <2>1, <2>2 DEF ResetWaits
  <1>5. QED
    BY <1>3, <1>4

LEMMA SessionInit == ASSUME Init PROVE SessionInv /\ HartLatch /\ Arch!Init
  <1>1. /\ hart = PowerOn /\ reads = <<>> /\ awrites = <<>> /\ wwrites = <<>> /\ stage = "idle"
        /\ ~dm.dmactive
    BY DEF Init, HartInit, DmInit, Inactive
  <1>2. /\ hart.state = "RESET" /\ hart.pc = 0 /\ hart.mie = FALSE /\ hart.mpie = FALSE
        /\ hart.mepc = 0 /\ ~hart.stepActive /\ ~hart.ebreakm /\ ~hart.fetchOutstanding
        /\ ~hart.memOutstanding /\ ~hart.awDone /\ ~hart.wDone /\ ~hart.debugOutstanding
        /\ ~hart.debugAwDone /\ ~hart.debugWDone /\ ~hart.memBusy
    BY <1>1 DEF PowerOn
  <1>3. PortInv
    BY <1>1, <1>2 DEF PortInv, InState, OfProgram, ResponsesExpected
  <1>4. ResetWaits
    BY <1>1 DEF ResetWaits, ResetReq
  <1>5. Arch!Init
    BY <1>2 DEF Arch!Init, ArchPc
  <1>6. QED
    BY <1>2, <1>3, <1>4, <1>5, CommandInit DEF SessionInv, HartLatch

LEMMA SessionStep ==
  ASSUME Orderly, SessionInv, Next
  PROVE  SessionInv' /\ StillShown /\ Implements /\ (HartLatch => HartAnswers)
  <1>1. CommandInv /\ ResetWaits /\ TypeInv
    BY DEF SessionInv, CommandInv
  <1>2. HartEffect /\ ModuleEffect /\ HartNext
    BY <1>1, HartEffectHolds, ModuleEffectHolds DEF Next
  <1>3. CommandInv' /\ ResetWaits'
    BY <1>1, <1>2, CommandStep, ResetWaitsStep
  <1>4. Good /\ (HartLatch => HartAnswers)
    BY <1>2, CycleGood
  <1>5. QED
    BY <1>3, <1>4 DEF SessionInv, Good

\* Nothing happens: nothing changes.
LEMMA SessionRests ==
  ASSUME SessionInv, UNCHANGED vars
  PROVE  SessionInv' /\ Implements
  <1>1. /\ dm' = dm /\ stage' = stage /\ request' = request /\ made' = made /\ hart' = hart
        /\ program' = program /\ reads' = reads /\ awrites' = awrites /\ wwrites' = wwrites
        /\ pin' = pin /\ stalled' = stalled
    BY DEF vars, dmVars, hartVars, writes
  <1>2. TypeInv' /\ RunControl' /\ OnePlace' /\ CommandMeetsHaltedHart'
    BY <1>1 DEF SessionInv, CommandInv, TypeInv, ModuleTypeOK, TypeOK, RunControl, OnePlace,
                CommandMeetsHaltedHart, ResetReq, Disrupts
  <1>3. ResetWaits'
    BY <1>1 DEF SessionInv, ResetWaits, ResetReq
  <1>4. PortInv'
    BY <1>1 DEF SessionInv, PortInv, InState, OfProgram, ResponsesExpected, Fetching, DebugReads,
                DebugWrites, ArBits, AwBits, WBits
  <1>5. Implements
    BY <1>1 DEF Implements, Arch!archVars, ArchPc
  <1>6. QED
    BY <1>2, <1>3, <1>4, <1>5 DEF SessionInv, CommandInv

LEMMA SessionHolds == ASSUME Orderly PROVE Spec => []SessionInv
  <1>1. Init => SessionInv
    BY SessionInit
  <1>2. SessionInv /\ [Next]_vars => SessionInv'
    BY SessionStep, SessionRests
  <1>3. QED
    BY <1>1, <1>2, PTL DEF Spec

\* With an orderly debugger no response is left over for a later request, and an access that the
\* slave has not accepted stays, whatever is asked for meanwhile.
THEOREM PortUndisturbed == ASSUME Orderly PROVE Spec => PortKept
  <1>1. SessionInv => ResponsesExpected
    BY DEF SessionInv, PortInv
  <1>2. SessionInv /\ [Next]_vars
          => [\A b \in stalled' : b.by \in {"data", "debug"} => b \in Shown']_vars
    BY SessionStep DEF StillShown
  <1>3. QED
    BY <1>1, <1>2, SessionHolds, PTL DEF Spec, PortKept, DataRequestsStable

\* With an orderly debugger, halting, looking around, stepping, resuming and resetting are invisible
\* to the program but for the two departures that DebugProgram names.
THEOREM ProgramRefinement == ASSUME Orderly PROVE Spec => ImplementsProgram
  <1>1. Init => Arch!Init
    BY SessionInit
  <1>2. SessionInv /\ [Next]_vars => [Arch!Next]_(Arch!archVars)
    BY SessionStep, SessionRests DEF Implements
  <1>3. QED
    BY <1>1, <1>2, SessionHolds, PTL DEF Spec, ImplementsProgram, Arch!Spec

(***************************************************************************)
(* The answer of a command.                                                *)
(*                                                                         *)
(* The module and the hart hold the command twice: command, data0 and      *)
(* data1, which the debugger may rewrite once the command is over, and the *)
(* latch and memory, which are what is carried out.  LatchInv says that    *)
(* they agree as long as the command lasts.                                *)
(***************************************************************************)
ModuleLatch ==
  dm.busy => /\ dm.command.type = dm.latch.type /\ dm.data0 = dm.latch.data
             /\ dm.latch.type = "memory" => dm.data1 = dm.latch.address

\* A register command that succeeded: the value read, or the register written.
RegisterDone ==
  IF dm.latch.write
  THEN RegisterValue(dm.latch.regno) =
         IF dm.latch.regno = "dcsr" THEN dm.latch.data % 4 ELSE dm.latch.data
  ELSE hart.abstractRdata = RegisterValue(dm.latch.regno)

AnswerLatch ==
  hart.abstractDone /\ hart.abstractError = NONE =>
    /\ dm.latch.type = "memory" /\ ~dm.latch.write => hart.abstractRdata = dm.latch.address
    /\ dm.latch.type = "register" => RegisterDone

LatchInv == ModuleLatch /\ HartLatch /\ AnswerLatch

LEMMA CompletedData ==
  ASSUME dm \in DmRegisters, hart \in HartRegisters
  PROVE  /\ Completed(hart).command = dm.command
         /\ ~(hart.abstractDone /\ dm.busy /\ hart.abstractError = NONE)
              => Completed(hart).data0 = dm.data0 /\ Completed(hart).data1 = dm.data1
         /\ hart.abstractDone /\ dm.busy /\ hart.abstractError = NONE
              => /\ dm.latch.write => Completed(hart).data0 = dm.data0
                 /\ ~dm.latch.write => Completed(hart).data0 = hart.abstractRdata
                 /\ Completed(hart).data1 =
                      IF dm.command.type = "memory" /\ dm.command.postincrement
                      THEN (dm.data1 + dm.latch.size) % DataSize ELSE dm.data1
  <1> DEFINE a == Acknowledged(hart)
             x == IF dm.latch.write THEN a.data0 ELSE hart.abstractRdata
             y == IF dm.command.type = "memory" /\ dm.command.postincrement
                  THEN (a.data1 + dm.latch.size) % DataSize ELSE a.data1
             error == hart.abstractError
             b == [a EXCEPT !.busy = FALSE, !.error = error]
             c == [a EXCEPT !.busy = FALSE, !.data0 = x, !.data1 = y]
  <1>1. /\ ~(hart.abstractDone /\ dm.busy) => Completed(hart) = a
        /\ hart.abstractDone /\ dm.busy /\ hart.abstractError # NONE => Completed(hart) = b
        /\ hart.abstractDone /\ dm.busy /\ hart.abstractError = NONE => Completed(hart) = c
    BY DEF Completed
  <1>2. a.command = dm.command /\ a.data0 = dm.data0 /\ a.data1 = dm.data1
        /\ DOMAIN a = DOMAIN dm
    BY DEF Acknowledged, DmRegisters
  <1>3. DOMAIN a = DOMAIN dm /\ {"command", "data0", "data1", "busy", "error"} \subseteq DOMAIN dm
    BY <1>2 DEF DmRegisters
  <1> HIDE DEF a, error
  <1>4. b.command = a.command /\ b.data0 = a.data0 /\ b.data1 = a.data1
    BY <1>3
  <1>5. x = (IF dm.latch.write THEN dm.data0 ELSE hart.abstractRdata)
        /\ y = (IF dm.command.type = "memory" /\ dm.command.postincrement
                THEN (dm.data1 + dm.latch.size) % DataSize ELSE dm.data1)
    BY <1>2
  <1> HIDE DEF x, y
  <1>6. c.command = a.command /\ c.data0 = x /\ c.data1 = y
    BY <1>3
  <1> HIDE DEF b, c
  <1>7. QED
    BY <1>1, <1>2, <1>4, <1>5, <1>6

\* The registers that hold a command, as the answer of the hart leaves them.
Holds(d) ==
  /\ dm'.command = d.command /\ dm'.data0 = d.data0 /\ dm'.data1 = d.data1
  /\ dm'.latch = d.latch /\ dm'.busy = d.busy

LEMMA BusyStep ==
  ASSUME TypeInv, RunControl, dm.busy, DmNext(hart)
  PROVE  Holds(Completed(hart))
  <1> DEFINE d == Completed(hart)
  <1>1. d \in DmRegisters /\ d.busy \in BOOLEAN
    BY CompletedTypes DEF TypeInv, TypeOK, DmRegisters
  <1>2. CASE dm' = d
    BY <1>2 DEF Holds
  <1>3. CASE WriteControl(hart) /\ stage = "sync"
    <2> DEFINE c == request.control
               halt == d.haltRequest
               ack == d.resumeAck
               have == d.haveReset
               onreset == d.resetHaltRequest
               reset == c.reset
    <2>1. dm' = [d EXCEPT !.dmactive = TRUE, !.reset = reset, !.haltRequest = halt,
                          !.resumeReq = FALSE, !.resumeAck = ack /\ ~FALSE,
                          !.haveReset = have /\ ~(FALSE /\ c.ackhavereset),
                          !.resetHaltRequest = onreset]
      BY <1>3 DEF WriteControl, Controlled
    <2>2. Holds(d)
      <3> HIDE DEF d, halt, ack, have, onreset, reset, c
      <3>1. QED
        BY <1>1, <2>1 DEF Holds, DmRegisters
    <2>3. QED
      BY <2>2
  <1>4. CASE RefusedAsBusy(hart)
    <2> DEFINE error == IF dm.error = NONE THEN BUSY ELSE d.error
    <2>1. dm' = [d EXCEPT !.error = error]
      BY <1>4 DEF RefusedAsBusy
    <2>2. Holds(d)
      <3> HIDE DEF d, error
      <3>1. QED
        BY <1>1, <2>1 DEF Holds, DmRegisters
    <2>3. QED
      BY <2>2
  <1>5. ~(WriteOff(hart) /\ stage = "sync")
    BY DEF WriteOff, RunControl, Disrupts
  <1>6. ~WriteData(hart) /\ ~ClearError(hart) /\ ~WriteCommand(hart)
    BY DEF WriteData, ClearError, WriteCommand
  <1>7. dm' = d \/ (WriteControl(hart) /\ stage = "sync") \/ RefusedAsBusy(hart)
    BY <1>5, <1>6 DEF DmNext, Make, Cross, Rest, Serve, WithoutEffect
  <1>8. QED
    BY <1>2, <1>3, <1>4, <1>7

\* A command that starts is latched as it was written.
LEMMA StartStep ==
  ASSUME TypeInv, ~dm.busy, dm'.busy, DmNext(hart)
  PROVE  /\ dm'.command.type = dm'.latch.type /\ dm'.data0 = dm'.latch.data
         /\ dm'.latch.type = "memory" => dm'.data1 = dm'.latch.address
  <1> DEFINE d == Completed(hart)
  <1>1. d \in DmRegisters /\ ~d.busy /\ d.data0 = dm.data0 /\ d.data1 = dm.data1 /\ ModuleTypeOK
    BY CompletedTypes, CompletedData DEF TypeInv, TypeOK
  <1>2. dm' # d
    BY <1>1
  <1>3. ~WriteOff(hart) /\ ~RefusedAsBusy(hart)
    BY DEF WriteOff, RefusedAsBusy, Inactive
  <1>4. ~WriteControl(hart)
    <2>1. ASSUME NEW r \in BOOLEAN, dm' = Controlled(hart, r), request.to = "dmcontrol" PROVE FALSE
      BY <1>1, <2>1, ControlledTypes DEF TypeInv, TypeOK
    <2>2. QED
      BY <2>1 DEF WriteControl
  <1>5. ~WriteData(hart) /\ ~ClearError(hart)
    BY <1>1 DEF WriteData, ClearError, DmRegisters
  <1>6. WriteCommand(hart)
    BY <1>2, <1>3, <1>4, <1>5 DEF DmNext, Make, Cross, Rest, Serve, WithoutEffect
  <1> DEFINE c == request.command
             refusal == CommandRefused(c, hart)
             starts == refusal = NONE /\ (c.type = "memory" \/ c.transfer)
             error == IF refusal # NONE THEN refusal ELSE d.error
             latch == IF ~starts THEN d.latch
                      ELSE IF c.type = "register"
                      THEN [type |-> "register", write |-> c.write, regno |-> c.regno,
                            size |-> 2, data |-> dm.data0, address |-> 0]
                      ELSE [type |-> "memory", write |-> c.write, regno |-> "mepc",
                            size |-> c.size, data |-> dm.data0, address |-> dm.data1]
  <1>7. dm' = [d EXCEPT !.command = c, !.busy = starts, !.valid = starts, !.error = error,
                        !.latch = latch]
    BY <1>6 DEF WriteCommand, CommandTaken
  <1>8. c.type \in {"register", "memory", "other"} /\ starts \in BOOLEAN
    BY <1>1, <1>6, RequestParts DEF WriteCommand, ModuleTypeOK, Command
  <1>9. starts => c.type # "other"
    BY DEF CommandRefused, NOT_SUPPORTED, NONE
  <1>10. starts => /\ c.type = latch.type /\ latch.data = dm.data0
                   /\ latch.type = "memory" => latch.address = dm.data1
    BY <1>8, <1>9
  <1> HIDE DEF d, c, latch, error, starts
  <1>11. /\ dm'.command = c /\ dm'.busy = starts /\ dm'.latch = latch /\ dm'.data0 = d.data0
         /\ dm'.data1 = d.data1
    BY <1>1, <1>7 DEF DmRegisters
  <1>12. QED
    BY <1>1, <1>8, <1>10, <1>11

\* A halted hart hands out and takes the register that the command names.
LEMMA RegisterTaken ==
  ASSUME SessionInv, HartLatch, Next, dm.latch.type = "register",
         hart'.abstractDone, hart'.abstractError = NONE, dm'.latch = dm.latch
  PROVE  RegisterDone'
  <1>1. TypeInv /\ dm \in DmRegisters /\ hart \in HartRegisters /\ HartNext
    BY DEF SessionInv, CommandInv, TypeInv, TypeOK, Next
  <1>2. dm.valid /\ ~hart.memBusy /\ dm.busy
    BY <1>1, HartEffectHolds DEF HartEffect, HartLatch, SessionInv, CommandInv, OnePlace
  <1>3. hart.state = "DEBUG" /\ ~ResetReq /\ ~dm.resumeReq /\ ~hart.resetActive
    BY <1>2 DEF SessionInv, CommandInv, CommandMeetsHaltedHart, RunControl
  <1>4. hart' = Debugged(Base, "busy", hart.pc)
    <2>1. ~DebugReads /\ ~DebugWrites /\ ~Fetching
      BY <1>2, <1>3 DEF DebugReads, DebugWrites, Fetching
    <2>2. ASSUME NEW ar \in BOOLEAN PROVE ~ReadCycle(ar)
      <3>1. ~FetchResponse(ar) /\ ~FetchCycle(ar) /\ ~DebugRead(ar) /\ ~DebugReadResponse(ar)
        BY <2>1 DEF FetchResponse, FetchCycle, DebugRead, DebugReadResponse
      <3>2. ~LoadCycle(ar) /\ ~LoadResponse(ar)
        BY <1>3 DEF LoadCycle, LoadResponse
      <3>3. QED
        BY <3>1, <3>2 DEF ReadCycle, FetchFault, FetchStraddle, Dropped, CommitEbreak, CommitTrap,
          CommitRetire, CommitMem, Arrives
    <2>3. ASSUME NEW aw \in BOOLEAN, NEW w \in BOOLEAN PROVE ~WriteCycle(aw, w)
      BY <1>3, <2>1 DEF WriteCycle, StoreCycle, StoreResponse, DebugWrite, DebugWriteResponse
    <2>4. DebugIdle
      BY <1>1, <1>3, <2>2, <2>3 DEF HartNext, ResetCycle, IrqCycle, SleepCycle
    <2>5. QED
      BY <2>4 DEF DebugIdle
  <1>5. hart' = Commanded(Base)
    <2>1. Base \in HartRegisters /\ Only(hart, Base, Pulses)
      BY <1>3, DebugFacts
    <2>2. Commanded(Base).state = "DEBUG"
      BY <1>1, <1>3, <2>1, CommandedTypes DEF Only, Fields, Pulses
    <2>3. QED
      BY <1>3, <1>4 DEF Debugged, Stopped, UnderReset, Released, Resumed, ResumeReq, EndsStep,
        EndsForHalt
  <1> DEFINE l == dm.latch
             refused == IF l.regno = "unknown" \/ (l.regno = "readonly" /\ l.write)
                        THEN EXCEPTION ELSE NONE
             writesTo(r) == refused = NONE /\ l.write /\ l.regno = r
             error == IF refused # NONE THEN refused ELSE Base.abstractError
             mepc == IF writesTo("mepc") THEN l.data ELSE Base.mepc
             dpc == IF writesTo("dpc") THEN l.data ELSE Base.dpc
             step == IF writesTo("dcsr") THEN l.data % 2 = 1 ELSE Base.step
             ebreakm == IF writesTo("dcsr") THEN (l.data \div 2) % 2 = 1 ELSE Base.ebreakm
             dcsr == (IF hart.step THEN 1 ELSE 0) + (IF hart.ebreakm THEN 2 ELSE 0)
             rdata == IF refused # NONE \/ l.write THEN Base.abstractRdata
                      ELSE CASE l.regno = "mepc" -> hart.mepc
                             [] l.regno = "dpc" -> hart.dpc
                             [] l.regno = "dcsr" -> dcsr
                             [] OTHER -> 0
             d == CarriedOut(Base, error, mepc, dpc, step, ebreakm, rdata)
  <1>6. hart' = d
    BY <1>2, <1>5 DEF Commanded, CarriedOut
  <1>7. /\ Base \in HartRegisters
        /\ Base.mepc = hart.mepc /\ Base.dpc = hart.dpc /\ Base.step = hart.step
        /\ Base.ebreakm = hart.ebreakm
    BY <1>3, DebugFacts DEF Only, Fields, Pulses
  <1>8. l \in Latch
    BY <1>1 DEF DmRegisters
  <1>9. /\ d.mepc = mepc /\ d.dpc = dpc /\ d.step = step /\ d.ebreakm = ebreakm
        /\ d.abstractError = error /\ d.abstractRdata = rdata
    <2> HIDE DEF error, mepc, dpc, step, ebreakm, rdata
    <2>1. QED
      BY <1>7 DEF CarriedOut, HartRegisters
  <1>10. refused = NONE /\ l.regno # "unknown" /\ (l.write => l.regno \in {"mepc", "dpc", "dcsr"})
    <2>1. error = NONE
      BY <1>6, <1>9
    <2>2. refused = NONE
      BY <2>1
    <2>3. l.regno \in Regno
      BY <1>8 DEF Latch
    <2>4. QED
      BY <2>2, <2>3 DEF Regno, EXCEPTION, NONE
  <1>11. /\ hart'.mepc = mepc /\ hart'.dpc = dpc /\ hart'.step = step /\ hart'.ebreakm = ebreakm
         /\ hart'.abstractRdata = rdata
    BY <1>6, <1>9
  <1>12. CASE l.write
    <2>1. l.data \in Nat
      BY <1>8 DEF Latch, Datum
    <2>2. (IF l.data % 2 = 1 THEN 1 ELSE 0) + (IF (l.data \div 2) % 2 = 1 THEN 2 ELSE 0) = l.data % 4
      BY <2>1
    <2>3. QED
      BY <1>10, <1>11, <1>12, <2>2 DEF RegisterDone, RegisterValue
  <1>13. CASE ~l.write
    <2>1. mepc = hart.mepc /\ dpc = hart.dpc /\ step = hart.step /\ ebreakm = hart.ebreakm
      BY <1>7, <1>13
    <2>2. rdata = RegisterValue(l.regno)
      BY <1>10, <1>13 DEF RegisterValue
    <2>3. QED
      BY <1>11, <1>13, <2>1, <2>2 DEF RegisterDone, RegisterValue
  <1>14. QED
    BY <1>12, <1>13

LEMMA LatchStep ==
  ASSUME Orderly, SessionInv, LatchInv, Next
  PROVE  LatchInv'
  <1>1. TypeInv /\ RunControl /\ OnePlace /\ DmNext(hart) /\ HartAnswers
    BY SessionStep DEF SessionInv, CommandInv, LatchInv, Next
  <1>2. HartEffect /\ dm \in DmRegisters /\ hart \in HartRegisters
    BY <1>1, HartEffectHolds DEF TypeInv, TypeOK
  <1>3. hart'.memBusy \/ hart'.abstractDone => dm.busy
    BY <1>1, <1>2 DEF HartEffect, OnePlace
  <1>4. CASE dm.busy
    <2>1. Holds(Completed(hart))
      BY <1>1, <1>4, BusyStep
    <2>2. dm'.latch = dm.latch /\ dm'.busy = StillBusy
      BY <1>2, <2>1, CompletedTypes DEF Holds, StillBusy
    <2>3. dm'.busy => dm'.command = dm.command /\ dm'.data0 = dm.data0 /\ dm'.data1 = dm.data1
      BY <1>2, <2>1, <2>2, CompletedData DEF Holds, StillBusy
    <2>4. dm.latch.type = "register" /\ hart'.abstractDone /\ hart'.abstractError = NONE
            => RegisterDone'
      BY <2>2, RegisterTaken DEF LatchInv
    <2>5. QED
      BY <1>1, <1>4, <2>2, <2>3, <2>4 DEF LatchInv, ModuleLatch, HartLatch, AnswerLatch, HartAnswers
  <1>5. CASE ~dm.busy
    <2>1. HartLatch' /\ AnswerLatch'
      BY <1>3, <1>5 DEF HartLatch, AnswerLatch
    <2>2. ModuleLatch'
      BY <1>1, <1>5, StartStep DEF ModuleLatch
    <2>3. QED
      BY <2>1, <2>2 DEF LatchInv
  <1>6. QED
    BY <1>4, <1>5

\* What the step that ends a command leaves.
Answered ==
  (dm.busy /\ ~dm'.busy /\ dm'.dmactive)
     => IF hart.abstractError # NONE
        THEN dm'.data0 = dm.data0 /\ dm'.data1 = dm.data1
        ELSE OwnAnswer

LEMMA AnswerStep ==
  ASSUME SessionInv, LatchInv, Next
  PROVE  Answered
  <1>1. TypeInv /\ RunControl /\ DmNext(hart) /\ dm \in DmRegisters /\ hart \in HartRegisters
    BY DEF SessionInv, CommandInv, TypeInv, TypeOK, Next
  <1> SUFFICES ASSUME dm.busy, ~dm'.busy PROVE Answered
    BY DEF Answered
  <1>2. Holds(Completed(hart)) /\ hart.abstractDone
    BY <1>1, BusyStep, CompletedTypes DEF Holds
  <1>3. /\ dm.command.type = dm.latch.type /\ dm.data0 = dm.latch.data
        /\ dm.latch.type = "memory" => dm.data1 = dm.latch.address
        /\ dm.latch.type \in {"register", "memory"}
    BY <1>1 DEF LatchInv, ModuleLatch, DmRegisters, Latch
  <1>4. CASE hart.abstractError # NONE
    BY <1>1, <1>2, <1>4, CompletedData DEF Holds, Answered
  <1>5. CASE hart.abstractError = NONE
    <2>1. /\ dm.latch.type = "memory" /\ ~dm.latch.write => hart.abstractRdata = dm.latch.address
          /\ dm.latch.type = "register" => RegisterDone
      BY <1>2, <1>5 DEF LatchInv, AnswerLatch
    <2>2. /\ dm.latch.write => dm'.data0 = dm.data0
          /\ ~dm.latch.write => dm'.data0 = hart.abstractRdata
          /\ dm'.data1 = IF dm.command.type = "memory" /\ dm.command.postincrement
                         THEN (dm.data1 + dm.latch.size) % DataSize ELSE dm.data1
      BY <1>1, <1>2, <1>5, CompletedData DEF Holds
    <2>3. ASSUME dm.latch.type = "memory" PROVE OwnAnswer
      <3>1. dm'.data0 = IF dm.latch.write THEN dm.latch.data ELSE dm.latch.address
        BY <1>3, <2>1, <2>2, <2>3
      <3>2. dm'.data1 = IF dm.latch.type = "memory" /\ dm.command.postincrement
                       THEN (dm.latch.address + dm.latch.size) % DataSize ELSE dm.data1
        BY <1>3, <2>2, <2>3
      <3>3. dm.latch.type # "register"
        BY <2>3
      <3>4. QED
        BY <1>3, <2>3, <3>1, <3>2, <3>3 DEF OwnAnswer
    <2>4. ASSUME dm.latch.type = "register" PROVE OwnAnswer
      <3>1. dm.latch.type # "memory" /\ RegisterDone /\ dm'.data1 = dm.data1
        BY <1>3, <2>1, <2>2, <2>4
      <3>2. dm'.data0 = IF dm.latch.write THEN dm.latch.data ELSE RegisterValue(dm.latch.regno)
        BY <1>3, <2>2, <3>1 DEF RegisterDone
      <3>3. QED
        BY <3>1, <3>2 DEF OwnAnswer, RegisterDone
    <2>5. OwnAnswer
      BY <1>3, <2>3, <2>4
    <2>6. QED
      BY <1>5, <2>5 DEF Answered
  <1>6. QED
    BY <1>4, <1>5

\* With an orderly debugger, what a finished command leaves is its own: data0 is the word at
\* its address or the register it names if it was a read, that register holds its data if it
\* was a write, data1 moves past a memory access, and a command that failed leaves both.
THEOREM AnswersAreOwn == ASSUME Orderly PROVE Spec => AnswerIsOfThisCommand
  <1>1. Init => LatchInv
    <2>1. ASSUME Init PROVE ~dm.busy /\ ~hart.abstractDone
      BY <2>1 DEF Init, DmInit, HartInit, Inactive, PowerOn
    <2>2. QED
      BY <2>1, SessionInit DEF LatchInv, ModuleLatch, AnswerLatch
  <1>2. SessionInv /\ LatchInv /\ [Next]_vars => LatchInv'
    <2>1. LatchInv /\ UNCHANGED vars => LatchInv'
      BY DEF LatchInv, ModuleLatch, HartLatch, AnswerLatch, RegisterDone, RegisterValue, vars,
           dmVars, hartVars
    <2>2. QED
      BY <2>1, LatchStep
  <1>3. SessionInv /\ LatchInv /\ [Next]_vars => [Answered]_vars
    BY AnswerStep
  <1>4. Spec => [][Answered]_vars
    BY <1>1, <1>2, <1>3, SessionHolds, PTL DEF Spec
  <1>5. QED
    BY <1>4 DEF AnswerIsOfThisCommand, Answered
=============================================================================
