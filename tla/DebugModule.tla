---------------------------- MODULE DebugModule ----------------------------
(***************************************************************************)
(* The debug module of DitDah32 (DitDah32DebugModule.scala): one request   *)
(* of the debugger per toggle, run control, and abstract commands, which   *)
(* it hands to the hart and waits for.  Its registers change at one clock  *)
(* edge with those of the hart, so its steps are operators of the hart's   *)
(* outputs h; a later assignment of the source overrides an earlier one.   *)
(*                                                                         *)
(* ndmreset and hartreset are written by one request and only read ORed:   *)
(* one field, reset.  Values are members of Datum; as addresses they count *)
(* halfwords.  What a read returns is the register, carried by DmiLink.    *)
(***************************************************************************)
EXTENDS Naturals

CONSTANTS
  DataSize,      \* values and addresses are 0 .. DataSize - 1
  DmiRequests,   \* what the debugger may ask for
  MaxRequests    \* bound: requests the debugger makes

ASSUME DataSizeAssumption == DataSize \in Nat /\ DataSize % 2 = 0 /\ DataSize >= 4
ASSUME MaxRequestsAssumption == MaxRequests \in Nat

VARIABLES
  dm,         \* registers of the module
  stage,      \* where the request toggle is: "idle", "sent", "meta", "sync"
  request,    \* the request it stands for
  made        \* requests made

dmVars == <<dm, stage, request, made>>

Datum == 0 .. DataSize - 1
Regno == {"mepc", "dcsr", "dpc", "readonly", "unknown"}

\* cmderr, as the set of its bits that are 1.
NONE == {}
BUSY == {0}
NOT_SUPPORTED == {1}
EXCEPTION == {0, 1}
HALT_OR_RESUME == {2}
BUS == {0, 2}

\* What the debugger writes to COMMAND.  "supported" stands for the size and
\* the bits the module refuses.
Command == [type : {"register", "memory", "other"}, supported : BOOLEAN,
            transfer : BOOLEAN, write : BOOLEAN, regno : Regno,
            size : {1, 2}, postincrement : BOOLEAN]
NoCommand == [type |-> "register", supported |-> TRUE, transfer |-> FALSE,
              write |-> FALSE, regno |-> "mepc", size |-> 2, postincrement |-> FALSE]

\* The command on its way to the hart: the latched abstract... registers.
Latch == [type : {"register", "memory"}, write : BOOLEAN, regno : Regno,
          size : {1, 2}, data : Datum, address : Datum]
NoLatch == [type |-> "register", write |-> FALSE, regno |-> "mepc", size |-> 2,
            data |-> 0, address |-> 0]

Control == [halt : BOOLEAN, resume : BOOLEAN, reset : BOOLEAN, ackhavereset : BOOLEAN,
            setresethalt : BOOLEAN, clrresethalt : BOOLEAN]

\* Requests, by the register they name: dmcontrol with dmactive 0 is "off".
Request == [to : {"off"}] \cup [to : {"dmcontrol"}, control : Control]
      \cup [to : {"data0", "data1"}, data : Datum] \cup [to : {"readdata"}]
      \cup [to : {"abstractcs"}, clear : SUBSET (0 .. 2)]
      \cup [to : {"command"}, command : Command]

ASSUME DmiRequestsAssumption == DmiRequests \subseteq Request

Inactive == [dmactive |-> FALSE, reset |-> FALSE, haltRequest |-> FALSE,
             resetHaltRequest |-> FALSE, resumeAck |-> FALSE, haveReset |-> FALSE,
             data0 |-> 0, data1 |-> 0, command |-> NoCommand, busy |-> FALSE,
             error |-> NONE, resumeReq |-> FALSE, valid |-> FALSE, latch |-> NoLatch]

DmRegisters == [dmactive : BOOLEAN, reset : BOOLEAN, haltRequest : BOOLEAN,
                resetHaltRequest : BOOLEAN, resumeAck : BOOLEAN, haveReset : BOOLEAN,
                data0 : Datum, data1 : Datum, command : Command, busy : BOOLEAN,
                error : SUBSET (0 .. 2), resumeReq : BOOLEAN, valid : BOOLEAN, latch : Latch]

DmInit ==
  /\ dm = Inactive
  /\ stage = "idle" /\ request = [to |-> "readdata"] /\ made = 0

(***************************************************************************)
(* What the hart is shown.                                                 *)
(***************************************************************************)
HaltReq == dm.dmactive /\ dm.haltRequest
ResumeReq == dm.dmactive /\ dm.resumeReq
ResetReq == dm.dmactive /\ dm.reset
HaltOnResetReq == dm.dmactive /\ dm.resetHaltRequest

(***************************************************************************)
(* What the hart reports.                                                  *)
(***************************************************************************)

\* Pulses end; acknowledgements of the hart are kept.
Acknowledged(h) ==
  [dm EXCEPT !.resumeReq = FALSE, !.valid = FALSE,
             !.resumeAck = (@ \/ h.resumeAck) /\ ~h.resetAck,
             !.haveReset = @ \/ h.resetAck]

\* Mutant: a refused access also moves the address on.
CompletedAlways(h) ==
  IF ~(h.abstractDone /\ dm.busy) THEN Acknowledged(h)
  ELSE [Acknowledged(h) EXCEPT
          !.busy = FALSE,
          !.error = IF h.abstractError # NONE THEN h.abstractError ELSE @,
          !.data0 = IF h.abstractError # NONE \/ dm.latch.write THEN @ ELSE h.abstractRdata,
          !.data1 = IF dm.command.type = "memory" /\ dm.command.postincrement
                    THEN (@ + dm.latch.size) % DataSize ELSE @]

\* The command in progress, if it is done, leaves its error, or its result and
\* the address of the next access.
Completed(h) ==
  IF ~(h.abstractDone /\ dm.busy) THEN Acknowledged(h)
  ELSE IF h.abstractError # NONE
  THEN [Acknowledged(h) EXCEPT !.busy = FALSE, !.error = h.abstractError]
  ELSE [Acknowledged(h) EXCEPT
          !.busy = FALSE,
          !.data0 = IF dm.latch.write THEN @ ELSE h.abstractRdata,
          !.data1 = IF dm.command.type = "memory" /\ dm.command.postincrement
                    THEN (@ + dm.latch.size) % DataSize ELSE @]

(***************************************************************************)
(* What the debugger asks for.                                             *)
(***************************************************************************)
WriteOff(h) ==
  /\ request.to = "off"
  /\ dm' = [Inactive EXCEPT !.haveReset = Completed(h).haveReset, !.latch = dm.latch]

\* dmcontrol is written; the hart is told to resume if "resumes".
Controlled(h, resumes) ==
  LET c == request.control  free == ~dm.busy IN
  [Completed(h) EXCEPT
     !.dmactive = TRUE, !.reset = c.reset,
     !.haltRequest = IF free THEN c.halt ELSE @,
     !.resumeReq = resumes, !.resumeAck = @ /\ ~resumes,
     !.haveReset = @ /\ ~(free /\ c.ackhavereset),
     !.resetHaltRequest = IF free THEN (@ \/ c.setresethalt) /\ ~c.clrresethalt ELSE @]

\* Reset is passed on even while a command is in progress, the rest is not.
WriteControl(h) ==
  /\ request.to = "dmcontrol"
  /\ dm' = Controlled(h, /\ ~dm.busy /\ h.state = "DEBUG"
                         /\ request.control.resume /\ ~request.control.halt)

\* Nothing but dmcontrol is served while a command is in progress.
RefusedAsBusy(h) ==
  /\ dm.busy
  /\ \/ request.to = "readdata"
     \/ dm.dmactive /\ request.to \in {"data0", "data1", "abstractcs", "command"}
  /\ dm' = [Completed(h) EXCEPT !.error = IF dm.error = NONE THEN BUSY ELSE @]

WriteData(h) ==
  /\ request.to \in {"data0", "data1"} /\ dm.dmactive /\ ~dm.busy
  /\ dm' = IF request.to = "data0" THEN [Completed(h) EXCEPT !.data0 = request.data]
           ELSE [Completed(h) EXCEPT !.data1 = request.data]

ClearError(h) ==
  /\ request.to = "abstractcs" /\ dm.dmactive /\ ~dm.busy
  /\ dm' = [Completed(h) EXCEPT !.error = dm.error \ request.clear]

\* The command is kept, and refused, done (it transfers nothing) or started.
CommandRefused(c, h) ==
  IF c.type = "other" \/ ~c.supported THEN NOT_SUPPORTED
  ELSE IF (c.type = "memory" \/ c.transfer) /\ h.state # "DEBUG" THEN HALT_OR_RESUME
  ELSE NONE

CommandTaken(h) ==
  LET c == request.command
      refusal == CommandRefused(c, h)
      starts == refusal = NONE /\ (c.type = "memory" \/ c.transfer) IN
  [Completed(h) EXCEPT
     !.command = c, !.busy = starts, !.valid = starts,
     !.error = IF refusal # NONE THEN refusal ELSE @,
     !.latch = IF ~starts THEN @
               ELSE IF c.type = "register"
               THEN [type |-> "register", write |-> c.write, regno |-> c.regno,
                     size |-> 2, data |-> dm.data0, address |-> 0]
               ELSE [type |-> "memory", write |-> c.write, regno |-> "mepc",
                     size |-> c.size, data |-> dm.data0, address |-> dm.data1]]

WriteCommand(h) ==
  /\ request.to = "command" /\ dm.dmactive /\ ~dm.busy /\ dm.error = NONE
  /\ dm' = CommandTaken(h)

\* A request that changes nothing.
WithoutEffect(h) ==
  /\ \/ request.to = "readdata" /\ ~dm.busy
     \/ request.to \in {"data0", "data1", "abstractcs", "command"} /\ ~dm.dmactive
     \/ request.to = "command" /\ ~dm.busy /\ dm.error # NONE
  /\ dm' = Completed(h)

Serve(h) ==
  /\ stage = "sync" /\ stage' = "idle"
  /\ \/ WriteOff(h) \/ WriteControl(h) \/ RefusedAsBusy(h) \/ WriteData(h)
     \/ ClearError(h) \/ WriteCommand(h) \/ WithoutEffect(h)
  /\ UNCHANGED <<request, made>>

(***************************************************************************)
(* The way of a request: made, then two synchronizer flops.  The next one  *)
(* is made after the answer, and the debugger is given no delay of its own.*)
(***************************************************************************)
Make(h) ==
  /\ stage = "idle" /\ made < MaxRequests
  /\ stage' = "sent" /\ made' = made + 1
  /\ request' \in DmiRequests
  /\ dm' = Completed(h)

Cross(h) ==
  /\ \/ stage = "sent" /\ stage' = "meta"
     \/ stage = "meta" /\ stage' = "sync"
  /\ dm' = Completed(h)
  /\ UNCHANGED <<request, made>>

Rest(h) ==
  /\ stage = "idle"
  /\ dm' = Completed(h)
  /\ UNCHANGED <<stage, request, made>>

DmNext(h) == Make(h) \/ Cross(h) \/ Rest(h) \/ Serve(h)
=============================================================================
