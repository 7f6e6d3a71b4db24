---------------------------- MODULE DebugSession ----------------------------
(***************************************************************************)
(* Debug module, hart and bus, clock edge by clock edge, under a debugger  *)
(* that makes any of DmiRequests at any time.                              *)
(***************************************************************************)
EXTENDS DebugHart

CONSTANT Orderly   \* the debugger waits before it resets or switches off

ASSUME OrderlyAssumption == Orderly \in BOOLEAN

vars == <<dmVars, hartVars>>

\* An orderly debugger polls: it starts a reset only of a hart that is halted
\* and not about to resume, and neither resets nor switches the module off
\* during a command.
Polite(r) ==
  /\ r.to = "off" => ~dm.busy
  /\ r.to = "dmcontrol" => (r.control.reset =>
       ~dm.busy /\ (ResetReq \/ (hart.state = "DEBUG" /\ ~dm.resumeReq)))

Init == DmInit /\ HartInit
Next == DmNext(hart) /\ HartNext /\ (Orderly /\ made' # made => Polite(request'))
Spec == Init /\ [][Next]_vars

(***************************************************************************)
(* Invariants                                                              *)
(***************************************************************************)
TypeOK ==
  /\ dm \in DmRegisters
  /\ stage \in {"idle", "sent", "meta", "sync"} /\ made \in 0 .. MaxRequests
  /\ hart \in HartRegisters
  /\ program \in Programs /\ pin \in BOOLEAN
  /\ reads \in Seq(Access) /\ awrites \in Seq(Access) /\ wwrites \in Seq(Access)
  /\ stalled \subseteq Access

\* A command the module waits for is on its way to the hart, at work there or
\* on its way back, in exactly one of these places, and nothing comes back for
\* a command the module does not wait for.
CommandTracked ==
  LET places == {x \in {"valid", "working", "done"} :
                   \/ x = "valid" /\ dm.valid
                   \/ x = "working" /\ hart.memBusy
                   \/ x = "done" /\ hart.abstractDone} IN
  IF dm.busy THEN \E x \in places : places = {x} ELSE places = {}

\* A command that was checked against a halted hart still meets a halted hart,
\* and the hart stays halted until the command is over.
CommandMeetsHaltedHart == dm.valid \/ hart.memBusy => hart.state = "DEBUG"

\* The slave owes what the hart is waiting for and nothing else: no response
\* is left over for a later request, whenever the hart is stopped.
ResponsesExpected ==
  /\ reads = IF hart.fetchOutstanding \/ hart.memOutstanding \/ hart.debugOutstanding
             THEN <<ArBits>> ELSE <<>>
  /\ awrites = IF hart.awDone \/ hart.debugAwDone THEN <<AwBits>> ELSE <<>>
  /\ wwrites = IF hart.wDone \/ hart.debugWDone THEN <<WBits>> ELSE <<>>

\* A command is in one place at a time, from the module to the hart and back, and meets a
\* halted hart all the way.
CommandsReachHart == CommandTracked /\ CommandMeetsHaltedHart

(***************************************************************************)
(* Action properties                                                       *)
(***************************************************************************)

\* An access of the program or of a command that the slave has not accepted
\* yet stays, whatever the debugger asks for meanwhile.
DataRequestsStable ==
  [][\A b \in stalled' : b.by \in {"data", "debug"} => b \in Shown']_vars

\* The debugger does not disturb the port: no response is left over, no request withdrawn.
PortKept == []ResponsesExpected /\ DataRequestsStable

\* The register r, of those the debugger can name, as a command reads it.
RegisterValue(r) ==
  CASE r = "mepc" -> hart.mepc
    [] r = "dpc" -> hart.dpc
    [] r = "dcsr" -> (IF hart.step THEN 1 ELSE 0) + (IF hart.ebreakm THEN 2 ELSE 0)
    [] OTHER -> 0

\* What a command leaves when it has succeeded: data0 is the word at its address or the
\* register it names if it was a read, that register holds its data if it was a write, and
\* data1 moves on past a memory access that asks for it and stays otherwise.
OwnAnswer ==
  LET l == dm.latch IN
  /\ dm'.data0 = IF l.write THEN l.data
                 ELSE IF l.type = "memory" THEN l.address ELSE RegisterValue(l.regno)
  /\ l.type = "register" /\ l.write =>
       RegisterValue(l.regno) = IF l.regno = "dcsr" THEN l.data % 4 ELSE l.data
  /\ dm'.data1 = IF l.type = "memory" /\ dm.command.postincrement
                 THEN (l.address + l.size) % DataSize ELSE dm.data1
  /\ l.type = "memory" => dm.data1 = l.address

\* What a finished command leaves is its own, and one that failed leaves data0 and data1 as
\* they were.
AnswerIsOfThisCommand ==
  [][(dm.busy /\ ~dm'.busy /\ dm'.dmactive)
     => IF hart.abstractError # NONE
        THEN dm'.data0 = dm.data0 /\ dm'.data1 = dm.data1
        ELSE OwnAnswer]_vars

(***************************************************************************)
(* The program under the debugger.                                         *)
(***************************************************************************)
ArchPc == CASE hart.state = "DEBUG" -> hart.dpc
            [] hart.state = "IRQ" -> Handler
            [] OTHER -> hart.pc

Arch == INSTANCE DebugProgram WITH
          arch <- [pc |-> ArchPc, mie |-> hart.mie, mpie |-> hart.mpie, mepc |-> hart.mepc],
          halted <- (hart.state = "DEBUG"),
          stepping <- (hart.state # "DEBUG" /\ hart.stepActive),
          ebreaks <- hart.ebreakm

\* Halting, looking around, stepping and resuming are invisible to the program
\* but for the two departures named in DebugProgram.
ImplementsProgram == Arch!Spec

(***************************************************************************)
(* What the documents say and the hart does not do.                        *)
(***************************************************************************)

\* doc/requirements.md: "at most one outstanding read".
OneReadOutstanding == Len(reads) <= 1

\* doc/requirements.md: "The hart enters Debug only at an instruction or
\* completed memory boundary", so a halt that finds a trap begun, MIE cleared,
\* goes to the handler.
HaltsAtBoundary ==
  [][(hart.state # "DEBUG" /\ hart'.state = "DEBUG" /\ hart'.cause = "halt"
      /\ hart.mie /\ ~hart'.mie) => hart'.dpc = Handler]_vars

(***************************************************************************)
(* Liveness.  The clock ticks; the slave accepts a request that stays, and *)
(* answers one it has accepted.  The debugger need do nothing.             *)
(***************************************************************************)
Cycle(A) == DmNext(hart) /\ A /\ (Orderly /\ made' # made => Polite(request'))
AcceptRead == Cycle(ReadCycle(TRUE))
AnswerRead == Cycle(\E ar \in BOOLEAN : ReadCycle(ar) /\ AnswersRead(ar))
AcceptAddress == Cycle(\E w \in BOOLEAN : WriteCycle(TRUE, w))
AcceptData == Cycle(\E aw \in BOOLEAN : WriteCycle(aw, TRUE))
AnswerWrite == Cycle(\E aw, w \in BOOLEAN : WriteCycle(aw, w) /\ AnswersWrite(aw, w))

FairSpec ==
  /\ Spec /\ WF_vars(Next)
  /\ WF_vars(AcceptRead) /\ WF_vars(AnswerRead)
  /\ WF_vars(AcceptAddress) /\ WF_vars(AcceptData) /\ WF_vars(AnswerWrite)

\* A halt request that stays takes effect, whatever the hart is doing: it waits
\* for the bus or an interrupt no longer than these do.
HaltTakesEffect == HaltReq ~> (hart.state = "DEBUG" \/ ~HaltReq \/ ResetReq)

\* An abstract command comes to its end.
CommandEnds == dm.busy ~> ~dm.busy

\* A resume request that the module passes on is acknowledged.
ResumeAcknowledged == dm.resumeReq ~> dm.resumeAck
=============================================================================
