------------------------------- MODULE JtagDtm -------------------------------
(***************************************************************************)
(* The JTAG transport (DitDah32JtagDtm.scala), one step per rising edge of *)
(* TCK: the TAP controller, the instruction and data registers, and the    *)
(* DMI request it keeps for the debug module until the answer has crossed  *)
(* back.  The debugger moves tms, tdi and trstN freely.                    *)
(*                                                                         *)
(* shift stands for irShift and drShift, which are live in different TAP   *)
(* states: a scan fills it, an update uses it up.  One shift may already   *)
(* leave any word there; what the bits in between were is not kept.        *)
(***************************************************************************)
EXTENDS Naturals

CONSTANTS
  Addr,      \* DMI addresses; the data of a request is left out
  ShiftOps   \* values of the op field the debugger shifts in

ASSUME AddrAssumption == 0 \in Addr
ASSUME ShiftOpsAssumption == ShiftOps \subseteq 0..3

VARIABLES
  tap, ir, shift,                \* TAP state, instruction, shift register
  requestToggle, request,        \* request offered to the debug module
  outstanding,                   \* its answer is awaited
  responseToggleMeta,            \* synchronizer of the response toggle
  responseToggleSync,
  responseToggleSeen,
  response,                      \* last answer: address and status
  stickyStatus,                  \* error kept until the debugger clears it
  responseToggle, dmResponse     \* inputs from the debug module

responseSynchronizer ==
  <<responseToggleMeta, responseToggleSync, responseToggleSeen>>
offered == <<requestToggle, request>>
dtmVars == <<tap, ir, shift, offered, outstanding, responseSynchronizer,
             response, stickyStatus>>

Bit == {0, 1}
\* Mutant: a counter where a toggle is meant.
FlipUp(b) == b + 1
Flip(b) == 1 - b

\* DMI operations and, in the same two bits, states of an answer.
NOP == 0
READ == 1
WRITE == 2
SUCCESS == 0
FAILED == 2
BUSY == 3

Instruction == {"IDCODE", "DTMCS", "DMI", "BYPASS"}
Clear == {"dmireset", "dmihardreset"}
Message == [addr : Addr, op : 0..3]
ShiftWord == [dmi : Message, clear : SUBSET Clear, ir : Instruction]

NoMessage == [addr |-> 0, op |-> NOP]
EmptyShift == [dmi |-> NoMessage, clear |-> {}, ir |-> "IDCODE"]

TapState == {"TEST_LOGIC_RESET", "RUN_TEST_IDLE", "SELECT_DR_SCAN", "CAPTURE_DR",
             "SHIFT_DR", "EXIT1_DR", "PAUSE_DR", "EXIT2_DR", "UPDATE_DR",
             "SELECT_IR_SCAN", "CAPTURE_IR", "SHIFT_IR", "EXIT1_IR", "PAUSE_IR",
             "EXIT2_IR", "UPDATE_IR"}

\* The states after tms = 0 and after tms = 1.
TapEdges ==
  [TEST_LOGIC_RESET |-> <<"RUN_TEST_IDLE", "TEST_LOGIC_RESET">>,
   RUN_TEST_IDLE    |-> <<"RUN_TEST_IDLE", "SELECT_DR_SCAN">>,
   SELECT_DR_SCAN   |-> <<"CAPTURE_DR", "SELECT_IR_SCAN">>,
   CAPTURE_DR       |-> <<"SHIFT_DR", "EXIT1_DR">>,
   SHIFT_DR         |-> <<"SHIFT_DR", "EXIT1_DR">>,
   EXIT1_DR         |-> <<"PAUSE_DR", "UPDATE_DR">>,
   PAUSE_DR         |-> <<"PAUSE_DR", "EXIT2_DR">>,
   EXIT2_DR         |-> <<"SHIFT_DR", "UPDATE_DR">>,
   UPDATE_DR        |-> <<"RUN_TEST_IDLE", "SELECT_DR_SCAN">>,
   SELECT_IR_SCAN   |-> <<"CAPTURE_IR", "TEST_LOGIC_RESET">>,
   CAPTURE_IR       |-> <<"SHIFT_IR", "EXIT1_IR">>,
   SHIFT_IR         |-> <<"SHIFT_IR", "EXIT1_IR">>,
   EXIT1_IR         |-> <<"PAUSE_IR", "UPDATE_IR">>,
   PAUSE_IR         |-> <<"PAUSE_IR", "EXIT2_IR">>,
   EXIT2_IR         |-> <<"SHIFT_IR", "UPDATE_IR">>,
   UPDATE_IR        |-> <<"RUN_TEST_IDLE", "SELECT_DR_SCAN">>]

\* tms is sampled on every edge.
TapMoves == \E tms \in Bit : tap' = TapEdges[tap][tms + 1]

DtmInit ==
  /\ tap = "TEST_LOGIC_RESET" /\ ir = "IDCODE" /\ shift = EmptyShift
  /\ requestToggle = 0 /\ request = NoMessage /\ outstanding = FALSE
  /\ responseToggleMeta = 0 /\ responseToggleSync = 0 /\ responseToggleSeen = 0
  /\ response = NoMessage /\ stickyStatus = SUCCESS

(***************************************************************************)
(* The answer.  Its toggle passes two flops; when it differs from the one  *)
(* last seen, the answer itself has been stable for that long and is taken *)
(* if one is awaited.                                                      *)
(***************************************************************************)
\* Mutant: the toggle is followed only while an answer is awaited.
SynchronizeAwaited ==
  /\ responseToggleMeta' = responseToggle
  /\ responseToggleSync' = responseToggleMeta
  /\ responseToggleSeen' = IF outstanding THEN responseToggleSync ELSE responseToggleSeen
Synchronize ==
  /\ responseToggleMeta' = responseToggle
  /\ responseToggleSync' = responseToggleMeta
  /\ responseToggleSeen' = responseToggleSync

Arrives == responseToggleSync # responseToggleSeen
Answered == Arrives /\ outstanding

\* Mutant: an answer that comes after the busy error is lost.
ResponseUnlessBusy ==
  IF Answered /\ stickyStatus = SUCCESS THEN dmResponse ELSE response
Outstanding == outstanding /\ ~Arrives
Response == IF Answered THEN dmResponse ELSE response
Sticky == IF Answered /\ dmResponse.op # SUCCESS THEN dmResponse.op ELSE stickyStatus

TakeResponse ==
  outstanding' = Outstanding /\ response' = Response /\ stickyStatus' = Sticky

\* What a debugger reads when it captures the DMI register.
CaptureStatus ==
  IF stickyStatus # SUCCESS THEN stickyStatus
  ELSE IF outstanding THEN BUSY ELSE response.op

\* Forget the request and its answer; the toggle stays as it is.
DropRequest ==
  /\ request' = NoMessage /\ UNCHANGED requestToggle
  /\ outstanding' = FALSE /\ response' = NoMessage /\ stickyStatus' = SUCCESS

(***************************************************************************)
(* Edges of TCK, by TAP state.                                             *)
(***************************************************************************)
\* Nothing but the walk.
WalkEdge ==
  /\ tap \in TapState \ {"TEST_LOGIC_RESET", "CAPTURE_IR", "SHIFT_IR",
                         "UPDATE_IR", "CAPTURE_DR", "SHIFT_DR", "UPDATE_DR"}
  /\ TakeResponse
  /\ UNCHANGED <<ir, shift, offered>>

\* The TAP's reset state, also when only passed through.
TapResetEdge ==
  /\ tap = "TEST_LOGIC_RESET"
  /\ ir' = "IDCODE"
  /\ DropRequest
  /\ UNCHANGED shift

IrEdge ==
  /\ tap \in {"CAPTURE_IR", "SHIFT_IR", "UPDATE_IR"}
  /\ \/ /\ tap = "CAPTURE_IR" /\ shift' = EmptyShift /\ UNCHANGED ir
     \/ /\ tap = "SHIFT_IR" /\ UNCHANGED ir
        /\ \E i \in Instruction : shift' = [EmptyShift EXCEPT !.ir = i]
     \/ /\ tap = "UPDATE_IR" /\ ir' = shift.ir /\ shift' = EmptyShift
  /\ TakeResponse
  /\ UNCHANGED offered

\* Capturing a pending request makes the busy error sticky.
CaptureSticky ==
  IF ir = "DMI" /\ stickyStatus = SUCCESS /\ outstanding THEN BUSY ELSE Sticky

CaptureDrEdge ==
  /\ tap = "CAPTURE_DR"
  /\ shift' = IF ir = "DMI"
              THEN [EmptyShift EXCEPT !.dmi = [addr |-> response.addr,
                                               op |-> CaptureStatus]]
              ELSE EmptyShift
  /\ outstanding' = Outstanding /\ response' = Response
  /\ stickyStatus' = CaptureSticky
  /\ UNCHANGED <<ir, offered>>

ShiftDrEdge ==
  /\ tap = "SHIFT_DR"
  /\ CASE ir = "DMI" -> \E a \in Addr, op \in ShiftOps :
            shift' = [EmptyShift EXCEPT !.dmi = [addr |-> a, op |-> op]]
       [] ir = "DTMCS" -> \E c \in SUBSET Clear :
            shift' = [EmptyShift EXCEPT !.clear = c]
       [] OTHER -> shift' = EmptyShift
  /\ TakeResponse
  /\ UNCHANGED <<ir, offered>>

UpdateDtmcs ==
  /\ ir = "DTMCS"
  /\ IF "dmihardreset" \in shift.clear THEN DropRequest
     ELSE /\ outstanding' = Outstanding
          /\ IF "dmireset" \in shift.clear
             THEN /\ stickyStatus' = SUCCESS
                  /\ response' = [Response EXCEPT !.op = SUCCESS]
             ELSE stickyStatus' = Sticky /\ response' = Response
          /\ UNCHANGED offered

\* A scan that comes while a request is out has captured it, so the busy error
\* stands already.  Mutant: a standing error does not keep a request back.
MayOfferAfterError == ~outstanding /\ shift.dmi.op \in {READ, WRITE}
MayOffer ==
  stickyStatus = SUCCESS /\ ~outstanding /\ shift.dmi.op \in {READ, WRITE}

Offer ==
  /\ requestToggle' = Flip(requestToggle)
  /\ request' = shift.dmi
  /\ outstanding' = TRUE

\* The error a scan leaves when it offers nothing.
RefusedSticky ==
  IF stickyStatus # SUCCESS \/ shift.dmi.op = NOP THEN Sticky
  ELSE IF outstanding THEN BUSY ELSE FAILED

\* Mutant: the request registers are loaded by every scan.
UpdateDmiLoads ==
  /\ ir = "DMI"
  /\ response' = Response
  /\ \/ MayOffer /\ Offer /\ stickyStatus' = Sticky
     \/ /\ ~MayOffer
        /\ stickyStatus' = RefusedSticky
        /\ outstanding' = Outstanding
        /\ request' = shift.dmi /\ UNCHANGED requestToggle
UpdateDmi ==
  /\ ir = "DMI"
  /\ response' = Response
  /\ \/ MayOffer /\ Offer /\ stickyStatus' = Sticky
     \/ /\ ~MayOffer
        /\ stickyStatus' = RefusedSticky
        /\ outstanding' = Outstanding
        /\ UNCHANGED offered

UpdateDrEdge ==
  /\ tap = "UPDATE_DR"
  /\ \/ UpdateDtmcs
     \/ UpdateDmi
     \/ ir \notin {"DTMCS", "DMI"} /\ TakeResponse /\ UNCHANGED offered
  /\ shift' = EmptyShift
  /\ UNCHANGED ir

\* trstN is low: everything but the toggles and their synchronizer.
TrstEdge ==
  /\ tap' = "TEST_LOGIC_RESET" /\ ir' = "IDCODE" /\ shift' = EmptyShift
  /\ DropRequest
  /\ Synchronize

\* io.reset is high.
DtmResetEdge ==
  /\ tap' = "TEST_LOGIC_RESET" /\ ir' = "IDCODE" /\ shift' = EmptyShift
  /\ requestToggle' = 0 /\ request' = NoMessage /\ outstanding' = FALSE
  /\ responseToggleMeta' = 0 /\ responseToggleSync' = 0 /\ responseToggleSeen' = 0
  /\ response' = NoMessage /\ stickyStatus' = SUCCESS

ScanEdge ==
  /\ TapMoves
  /\ Synchronize
  /\ \/ WalkEdge
     \/ TapResetEdge
     \/ IrEdge
     \/ CaptureDrEdge
     \/ ShiftDrEdge
     \/ UpdateDrEdge

DtmTypeOK ==
  /\ tap \in TapState /\ ir \in Instruction /\ shift \in ShiftWord
  /\ requestToggle \in Bit /\ request \in Message /\ outstanding \in BOOLEAN
  /\ responseToggleMeta \in Bit /\ responseToggleSync \in Bit
  /\ responseToggleSeen \in Bit
  /\ response \in Message /\ stickyStatus \in 0..3
=============================================================================
