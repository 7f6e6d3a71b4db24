---------------------------- MODULE DmiLinkProofs ----------------------------
(***************************************************************************)
(* Proofs about the DMI link, for every set of addresses and every op the  *)
(* debugger may shift in.                                                  *)
(***************************************************************************)
EXTENDS DmiLink, TLAPS

\* The debug module never reports a failure.
AnswersSucceed == dmResponse.op = SUCCESS /\ response.op = SUCCESS

\* A request that is awaited is a read or a write, and the debug module's answer
\* to it is there as soon as the module has seen it.
Awaited ==
  ~broken /\ outstanding =>
    /\ request.op \in {READ, WRITE}
    /\ requestToggle # requestToggleSeen => ~performed
    /\ requestToggle = requestToggleSeen =>
         performed /\ dmResponse.addr = request.addr

\* When there is no request there is no answer.
Blank == request = NoMessage => ~outstanding /\ response.addr = NoMessage.addr

IInv == /\ TypeOK /\ AnswersSucceed /\ OneInRing /\ Awaited /\ AnswerIsTrue
        /\ Blank /\ ErrorsStick

(***************************************************************************)
(* What an edge of TCK does to the link, whatever the TAP does: the        *)
(* transport offers a request, drops the one it has, or keeps it.          *)
(***************************************************************************)
Offers ==
  /\ stickyStatus = SUCCESS /\ ~outstanding /\ outstanding' = TRUE
  /\ requestToggle' = Flip(requestToggle)
  /\ request' \in Message /\ request'.op \in {READ, WRITE}
  /\ response' = Response

Keeps ==
  /\ UNCHANGED offered
  /\ outstanding' = Outstanding
  /\ response'.addr = Response.addr /\ response'.op \in {Response.op, SUCCESS}

\* A word shifted in or captured has the form of a word.
LEMMA WordTypes ==
  /\ NoMessage \in Message /\ EmptyShift \in ShiftWord
  /\ \A i \in Instruction : [EmptyShift EXCEPT !.ir = i] \in ShiftWord
  /\ \A d \in Message : [EmptyShift EXCEPT !.dmi = d] \in ShiftWord
  /\ \A c \in SUBSET Clear : [EmptyShift EXCEPT !.clear = c] \in ShiftWord
  <1>1. NoMessage \in Message
    BY AddrAssumption DEF NoMessage, Message, NOP
  <1>2. EmptyShift = [dmi |-> NoMessage, clear |-> {}, ir |-> "IDCODE"]
    BY DEF EmptyShift
  <1>3. EmptyShift \in ShiftWord
    BY <1>1, <1>2 DEF ShiftWord, Instruction
  <1>4. ASSUME NEW i \in Instruction PROVE [EmptyShift EXCEPT !.ir = i] \in ShiftWord
    BY <1>3 DEF ShiftWord
  <1>5. ASSUME NEW d \in Message PROVE [EmptyShift EXCEPT !.dmi = d] \in ShiftWord
    BY <1>3 DEF ShiftWord
  <1>6. ASSUME NEW c \in SUBSET Clear
        PROVE  [EmptyShift EXCEPT !.clear = c] \in ShiftWord
    BY <1>3 DEF ShiftWord
  <1>7. QED
    BY <1>1, <1>3, <1>4, <1>5, <1>6

\* The answer as registered, and the status shown, stay in range.
LEMMA AnswerTypes ==
  ASSUME TypeOK
  PROVE  /\ Response \in Message /\ Sticky \in 0..3 /\ CaptureStatus \in 0..3
         /\ Outstanding \in BOOLEAN
  <1>1. Response \in Message
    BY DEF TypeOK, DtmTypeOK, Response
  <1>2. dmResponse.op \in 0..3 /\ response.op \in 0..3
    BY DEF TypeOK, DtmTypeOK, Message
  <1>3. Sticky \in 0..3
    BY <1>2 DEF TypeOK, DtmTypeOK, Sticky
  <1>4. CaptureStatus \in 0..3
    BY <1>2 DEF TypeOK, DtmTypeOK, CaptureStatus, BUSY
  <1>5. Outstanding \in BOOLEAN
    BY DEF Outstanding
  <1>6. QED
    BY <1>1, <1>3, <1>4, <1>5

\* The TAP stays in its states.
LEMMA TapTypes == ASSUME TypeOK, TapMoves PROVE tap' \in TapState
  <1>1. PICK tms \in Bit : tap' = TapEdges[tap][tms + 1]
    BY DEF TapMoves
  <1>2. tms = 0 \/ tms = 1
    BY DEF Bit
  <1>3. tap \in TapState
    BY DEF TypeOK, DtmTypeOK
  <1>4. TapEdges[tap][1] \in TapState /\ TapEdges[tap][2] \in TapState
    BY <1>3 DEF TapState, TapEdges
  <1>5. CASE tms = 0
    BY <1>1, <1>4, <1>5
  <1>6. CASE tms = 1
    BY <1>1, <1>4, <1>6
  <1>7. QED
    BY <1>2, <1>5, <1>6

LEMMA ScanEffect ==
  ASSUME TypeOK, ScanEdge
  PROVE  Synchronize /\ (Offers \/ DropRequest \/ Keeps)
  <1>1. Response \in Message
    BY AnswerTypes
  <1>2. SUFFICES Offers \/ DropRequest \/ Keeps
    BY DEF ScanEdge
  <1>3. CASE TakeResponse /\ UNCHANGED offered
    BY <1>3 DEF TakeResponse, Keeps
  <1>4. CASE TapResetEdge
    BY <1>4 DEF TapResetEdge
  <1>5. CASE CaptureDrEdge
    BY <1>5 DEF CaptureDrEdge, Keeps
  <1>6. CASE UpdateDrEdge /\ UpdateDtmcs
    <2>1. CASE "dmihardreset" \in shift.clear
      BY <1>6, <2>1 DEF UpdateDtmcs
    <2>2. CASE "dmihardreset" \notin shift.clear /\ "dmireset" \in shift.clear
      <3>1. response' = [Response EXCEPT !.op = SUCCESS]
        BY <1>6, <2>2 DEF UpdateDtmcs
      <3>2. response'.addr = Response.addr /\ response'.op = SUCCESS
        BY <1>1, <3>1 DEF Message
      <3>3. QED
        BY <1>6, <2>2, <3>2 DEF UpdateDtmcs, Keeps
    <2>3. CASE "dmihardreset" \notin shift.clear /\ "dmireset" \notin shift.clear
      BY <1>6, <2>3 DEF UpdateDtmcs, Keeps
    <2>4. QED
      BY <2>1, <2>2, <2>3
  <1>7. CASE UpdateDrEdge /\ UpdateDmi
    <2>1. CASE MayOffer /\ Offer
      <3>1. shift.dmi \in Message
        BY DEF TypeOK, DtmTypeOK, ShiftWord
      <3>2. request' = shift.dmi /\ shift.dmi.op \in {READ, WRITE} /\ ~outstanding
            /\ stickyStatus = SUCCESS
        BY <2>1 DEF MayOffer, Offer
      <3>3. QED
        BY <1>7, <2>1, <3>1, <3>2 DEF UpdateDmi, Offer, Offers
    <2>2. CASE ~MayOffer
      BY <1>7, <2>2 DEF UpdateDmi, Keeps
    <2>3. QED
      BY <1>7, <2>1, <2>2 DEF UpdateDmi
  <1>8. QED
    BY <1>3, <1>4, <1>5, <1>6, <1>7
       DEF ScanEdge, WalkEdge, IrEdge, ShiftDrEdge, UpdateDrEdge

\* The shift register and the instruction stay in range.
LEMMA ShiftTypes ==
  ASSUME TypeOK, ScanEdge
  PROVE  shift' \in ShiftWord /\ ir' \in Instruction
  <1>1. ir \in Instruction /\ shift \in ShiftWord /\ response \in Message
    BY DEF TypeOK, DtmTypeOK
  <1>2. shift.ir \in Instruction
    BY <1>1 DEF ShiftWord
  <1>3. CASE WalkEdge \/ TapResetEdge
    BY <1>1, <1>3 DEF WalkEdge, TapResetEdge, Instruction
  <1>4. CASE IrEdge
    BY <1>1, <1>2, <1>4, WordTypes DEF IrEdge
  <1>5. CASE CaptureDrEdge
    <2>1. [addr |-> response.addr, op |-> CaptureStatus] \in Message
      BY <1>1, AnswerTypes DEF Message
    <2>2. QED
      BY <1>1, <1>5, <2>1, WordTypes DEF CaptureDrEdge
  <1>6. CASE ShiftDrEdge
    <2>1. \A a \in Addr, op \in ShiftOps : [addr |-> a, op |-> op] \in Message
      BY ShiftOpsAssumption DEF Message
    <2>2. CASE ir = "DMI"
      BY <1>1, <1>6, <2>1, <2>2, WordTypes DEF ShiftDrEdge
    <2>3. CASE ir = "DTMCS"
      BY <1>1, <1>6, <2>3, WordTypes DEF ShiftDrEdge
    <2>4. CASE ir \notin {"DMI", "DTMCS"}
      BY <1>1, <1>6, <2>4, WordTypes, Zenon DEF ShiftDrEdge
    <2>5. QED
      BY <2>2, <2>3, <2>4
  <1>7. CASE UpdateDrEdge
    BY <1>1, <1>7, WordTypes DEF UpdateDrEdge
  <1>8. QED
    BY <1>3, <1>4, <1>5, <1>6, <1>7 DEF ScanEdge

\* So does the sticky error.
LEMMA StickyTypes ==
  ASSUME TypeOK, ScanEdge
  PROVE  stickyStatus' \in 0..3
  <1> USE AnswerTypes DEF SUCCESS, BUSY, FAILED
  <1>1. CASE TakeResponse \/ DropRequest
    BY <1>1 DEF TakeResponse, DropRequest
  <1>2. CASE CaptureDrEdge
    BY <1>2 DEF CaptureDrEdge, CaptureSticky
  <1>3. CASE UpdateDrEdge /\ UpdateDtmcs
    BY <1>3 DEF UpdateDtmcs, DropRequest
  <1>4. CASE UpdateDrEdge /\ UpdateDmi
    BY <1>4 DEF UpdateDmi, RefusedSticky
  <1>5. QED
    BY <1>1, <1>2, <1>3, <1>4
       DEF ScanEdge, WalkEdge, TapResetEdge, IrEdge, ShiftDrEdge, UpdateDrEdge

LEMMA TypeStep == ASSUME TypeOK, [Next]_vars PROVE TypeOK'
  <1> USE DEF TypeOK, DtmTypeOK
  <1>1. NoMessage \in Message /\ EmptyShift \in ShiftWord
    BY WordTypes
  <1>2. ASSUME TckScan PROVE TypeOK'
    <2>1. ScanEdge /\ UNCHANGED <<dmVars, reset>>
      BY <1>2 DEF TckScan
    <2>2. tap' \in TapState /\ shift' \in ShiftWord /\ ir' \in Instruction
          /\ stickyStatus' \in 0..3
      BY <2>1, TapTypes, ShiftTypes, StickyTypes DEF ScanEdge
    <2>3. Synchronize /\ (Offers \/ DropRequest \/ Keeps)
      BY <2>1, ScanEffect
    <2>4. response' \in Message
      <3>1. CASE TakeResponse \/ DropRequest
        BY <1>1, <3>1, AnswerTypes DEF TakeResponse, DropRequest
      <3>2. CASE response' = Response
        BY <3>2, AnswerTypes
      <3>3. CASE response' = [Response EXCEPT !.op = SUCCESS]
        BY <3>3, AnswerTypes DEF Message, SUCCESS
      <3>4. QED
        BY <2>1, <3>1, <3>2, <3>3
           DEF ScanEdge, WalkEdge, TapResetEdge, IrEdge, CaptureDrEdge, ShiftDrEdge,
               UpdateDrEdge, UpdateDtmcs, UpdateDmi
    <2>5. requestToggle' \in Bit /\ request' \in Message
      BY <1>1, <2>3 DEF Offers, DropRequest, Keeps, offered, Flip, Bit
    <2>6. outstanding' \in BOOLEAN
      BY <2>3, AnswerTypes, Zenon DEF Offers, DropRequest, Keeps
    <2>7. performed' \in BOOLEAN /\ failed' \in BOOLEAN /\ broken' \in BOOLEAN
      BY <1>2 DEF TckScan, Record
    <2>8. QED
      BY <2>1, <2>2, <2>3, <2>4, <2>5, <2>6, <2>7
         DEF Synchronize, dmVars, requestSynchronizer
  <1>3. ASSUME TckTrst PROVE TypeOK'
    <2>1. outstanding' \in BOOLEAN /\ performed' \in BOOLEAN /\ failed' \in BOOLEAN
          /\ broken' \in BOOLEAN
      BY <1>3, Zenon DEF TckTrst, TrstEdge, DropRequest, Record
    <2>2. QED
      BY <1>1, <1>3, <2>1
         DEF TckTrst, TrstEdge, DropRequest, Synchronize, dmVars, requestSynchronizer,
             TapState, Instruction, SUCCESS
  <1>4. ASSUME TckReset PROVE TypeOK'
    <2>1. outstanding' \in BOOLEAN /\ performed' \in BOOLEAN /\ failed' \in BOOLEAN
          /\ broken' \in BOOLEAN
      BY <1>4, Zenon DEF TckReset, DtmResetEdge, Record
    <2>2. QED
      BY <1>1, <1>4, <2>1
         DEF TckReset, DtmResetEdge, dmVars, requestSynchronizer, TapState,
             Instruction, SUCCESS, Bit
  <1>5. ASSUME Clock PROVE TypeOK'
    <2>1. UNCHANGED <<dtmVars, reset, failed>> /\ broken' \in BOOLEAN
      BY <1>5 DEF Clock, Record
    <2>2. CASE CoreEdge
      BY <2>1, <2>2
         DEF CoreEdge, SynchronizeRequest, dtmVars, offered, responseSynchronizer
    <2>3. CASE PerformEdge
      <3>1. request.addr \in Addr
        BY DEF Message
      <3>2. dmResponse' \in Message
        BY <2>3, <3>1 DEF PerformEdge, Message, SUCCESS
      <3>3. QED
        BY <2>1, <2>3, <3>2
           DEF PerformEdge, SynchronizeRequest, Seen, Announced, Flip, Bit, dtmVars,
               offered, responseSynchronizer
    <2>4. CASE CoreResetEdge
      BY <1>1, <2>1, <2>4 DEF CoreResetEdge, Bit, dtmVars, offered, responseSynchronizer
    <2>5. QED
      BY <1>5, <2>2, <2>3, <2>4 DEF Clock
  <1>6. ASSUME ResetPin PROVE TypeOK'
    BY <1>6 DEF ResetPin, dtmVars, dmVars, history, offered, responseSynchronizer,
                requestSynchronizer
  <1>7. CASE UNCHANGED vars
    BY <1>7 DEF vars, dtmVars, dmVars, history, offered, responseSynchronizer,
                requestSynchronizer
  <1>8. QED
    BY <1>2, <1>3, <1>4, <1>5, <1>6, <1>7 DEF Next, Tck

\* Nothing reports a failure, so nothing ever reads one.
LEMMA SuccessStep ==
  ASSUME TypeOK, AnswersSucceed, [Next]_vars PROVE AnswersSucceed'
  <1> USE DEF AnswersSucceed
  <1>1. Response.op = SUCCESS
    BY DEF Response
  <1>2. NoMessage.op = SUCCESS
    BY DEF NoMessage, NOP, SUCCESS
  <1>3. CASE TckScan
    BY <1>1, <1>2, <1>3, ScanEffect
       DEF TckScan, dmVars, Offers, DropRequest, Keeps
  <1>4. CASE TckTrst \/ TckReset
    BY <1>2, <1>4 DEF TckTrst, TrstEdge, TckReset, DtmResetEdge, DropRequest, dmVars
  <1>5. CASE Clock
    <2>1. UNCHANGED response
      BY <1>5 DEF Clock, dtmVars
    <2>2. CASE CoreEdge
      BY <2>1, <2>2 DEF CoreEdge
    <2>3. CASE PerformEdge
      <3>1. dmResponse' = [addr |-> request.addr, op |-> SUCCESS]
        BY <2>3 DEF PerformEdge
      <3>2. QED
        BY <2>1, <3>1
    <2>4. CASE CoreResetEdge
      BY <1>2, <2>1, <2>4 DEF CoreResetEdge
    <2>5. QED
      BY <1>5, <2>2, <2>3, <2>4 DEF Clock
  <1>6. CASE ResetPin \/ UNCHANGED vars
    BY <1>6 DEF ResetPin, vars, dtmVars, dmVars
  <1>7. QED
    BY <1>3, <1>4, <1>5, <1>6 DEF Next, Tck

(***************************************************************************)
(* The ring, and what is known of a request on its way and of an answer.   *)
(***************************************************************************)
RingInv == OneInRing /\ Awaited /\ AnswerIsTrue

\* While nothing is awaited, the ring is quiet.
LEMMA RingQuiet ==
  ASSUME TypeOK, RingInv, ~broken, ~outstanding
  PROVE  Settled
  BY DEF TypeOK, DtmTypeOK, Bit, RingInv, OneInRing, Settled, Quiet

\* A settled link of which nothing is asked satisfies the invariant.
LEMMA SettledRing ==
  ASSUME TypeOK', Settled', request' = NoMessage
  PROVE  RingInv'
  BY DEF TypeOK, DtmTypeOK, Settled, Quiet, RingInv, OneInRing, Awaited, AnswerIsTrue

\* So does one on which a request has just been offered.
LEMMA OfferedRing ==
  ASSUME TypeOK, TypeOK', Settled, Offers, Synchronize, ~performed',
         UNCHANGED <<requestSynchronizer, responseToggle, dmResponse>>
  PROVE  RingInv'
  <1> USE DEF TypeOK, DtmTypeOK, Bit
  <1>1. OneInRing'
    BY DEF Offers, Synchronize, Settled, Quiet, OneInRing, Flip, requestSynchronizer
  <1>2. Awaited' /\ AnswerIsTrue'
    BY DEF Offers, Settled, Quiet, Awaited, AnswerIsTrue, Flip, requestSynchronizer
  <1>3. QED
    BY <1>1, <1>2 DEF RingInv

\* The history variable broken says when the invariant may be relied on.
LEMMA RecordCases ==
  ASSUME NEW d \in BOOLEAN, Record(d), ~broken'
  PROVE  \/ Settled' /\ request' = NoMessage
         \/ Settled /\ Offered
         \/ ~broken /\ ~d
  BY DEF Record

LEMMA ScanRing ==
  ASSUME TypeOK, TypeOK', RingInv, TckScan
  PROVE  RingInv'
  <1>1. SUFFICES ASSUME ~broken' PROVE RingInv'
    BY DEF RingInv, OneInRing, Awaited, AnswerIsTrue
  <1>2. UNCHANGED <<requestSynchronizer, responseToggle, dmResponse>>
    BY DEF TckScan, dmVars
  <1>3. Synchronize /\ (Offers \/ DropRequest \/ Keeps)
    BY ScanEffect DEF TckScan
  <1>4. performed' = (performed /\ ~Offered)
    BY DEF TckScan
  <1>5. CASE Settled' /\ request' = NoMessage
    BY <1>5, SettledRing
  <1>6. CASE Offers /\ Settled
    <2>1. Offered
      BY <1>6 DEF Offers, Offered, TypeOK, DtmTypeOK, Flip, Bit
    <2>2. QED
      BY <1>2, <1>3, <1>4, <1>6, <2>1, OfferedRing
  <1>7. CASE Settled /\ Offered
    BY <1>3, <1>6, <1>7 DEF Offered, DropRequest, Keeps, offered
  <1>8. CASE ~broken /\ ~(outstanding /\ request' = NoMessage)
    <2>1. CASE Offers
      BY <1>6, <1>8, <2>1, RingQuiet DEF Offers
    <2>2. CASE DropRequest
      <3>1. Settled
        BY <1>8, <2>2, RingQuiet DEF DropRequest
      <3>2. Settled' /\ request' = NoMessage
        BY <1>2, <1>3, <2>2, <3>1
           DEF DropRequest, Synchronize, Settled, Quiet, requestSynchronizer
      <3>3. QED
        BY <3>2, SettledRing
    <2>3. CASE Keeps
      <3> USE <1>2, <1>3, <1>8, <2>3
          DEF TypeOK, DtmTypeOK, Bit, RingInv, OneInRing, Synchronize, Keeps,
              offered, requestSynchronizer, Outstanding, Arrives
      <3>1. OneInRing'
        OBVIOUS
      <3>2. performed' = performed
        BY <1>4 DEF Offered
      <3>3. Awaited'
        BY <3>2 DEF Awaited
      <3>4. AnswerIsTrue'
        BY <3>2 DEF AnswerIsTrue, Awaited, Response, Answered
      <3>5. QED
        BY <3>1, <3>3, <3>4
    <2>4. QED
      BY <1>3, <2>1, <2>2, <2>3
  <1>9. QED
    <2>1. Record(outstanding /\ request' = NoMessage)
      BY DEF TckScan
    <2>2. (outstanding /\ request' = NoMessage) \in BOOLEAN
      OBVIOUS
    <2>3. QED
      BY <1>1, <1>5, <1>7, <1>8, <2>1, <2>2, RecordCases

LEMMA TrstRing ==
  ASSUME TypeOK, TypeOK', RingInv, TckTrst
  PROVE  RingInv'
  <1>1. SUFFICES ASSUME ~broken' PROVE RingInv'
    BY DEF RingInv, OneInRing, Awaited, AnswerIsTrue
  <1>2. DropRequest /\ Synchronize
        /\ UNCHANGED <<requestSynchronizer, responseToggle, dmResponse>>
    BY DEF TckTrst, TrstEdge, dmVars
  <1>3. CASE Settled
    <2>1. Settled' /\ request' = NoMessage
      BY <1>2, <1>3 DEF DropRequest, Synchronize, Settled, Quiet, requestSynchronizer
    <2>2. QED
      BY <2>1, SettledRing
  <1>4. CASE ~broken /\ ~outstanding
    BY <1>3, <1>4, RingQuiet
  <1>5. QED
    BY <1>1, <1>3, <1>4, SettledRing, RecordCases DEF TckTrst, TypeOK, DtmTypeOK

LEMMA ResetRing ==
  ASSUME TypeOK, TypeOK', RingInv, TckReset
  PROVE  RingInv'
  <1>1. SUFFICES ASSUME ~broken' PROVE RingInv'
    BY DEF RingInv, OneInRing, Awaited, AnswerIsTrue
  <1>2. ~Offered
    BY DEF TckReset, DtmResetEdge, Offered
  <1>3. QED
    BY <1>1, <1>2, SettledRing, RecordCases DEF TckReset

\* An edge of the core clock.
LEMMA ClockRing ==
  ASSUME TypeOK, TypeOK', RingInv, Clock
  PROVE  RingInv'
  <1>1. SUFFICES ASSUME ~broken' PROVE RingInv'
    BY DEF RingInv, OneInRing, Awaited, AnswerIsTrue
  <1>2. UNCHANGED <<offered, outstanding, responseSynchronizer, response>>
    BY DEF Clock, dtmVars
  <1>3. ~Offered
    BY <1>2 DEF Offered, offered
  <1>4. CASE Settled' /\ request' = NoMessage
    BY <1>4, SettledRing
  <1>5. CASE ~broken /\ ~reset
    <2> USE <1>2, <1>5
        DEF TypeOK, DtmTypeOK, Bit, RingInv, OneInRing, SynchronizeRequest, offered,
            responseSynchronizer, READ, WRITE
    <2>1. CASE CoreEdge
      <3>1. OneInRing'
        BY <2>1 DEF CoreEdge
      <3>2. Awaited' /\ AnswerIsTrue'
        BY <2>1 DEF CoreEdge, Awaited, AnswerIsTrue
      <3>3. QED
        BY <3>1, <3>2
    <2>2. CASE PerformEdge
      <3>1. outstanding /\ requestToggle # requestToggleSeen
            /\ requestToggleSync = requestToggle
        BY <2>2 DEF PerformEdge
      <3>2. OneInRing'
        BY <2>2, <3>1 DEF PerformEdge, Seen, Announced, Flip
      <3>3. requestToggle' = requestToggleSeen' /\ performed'
            /\ dmResponse'.addr = request'.addr
        BY <2>2, <3>1 DEF PerformEdge, Seen
      <3>4. Awaited' /\ AnswerIsTrue'
        BY <3>1, <3>3 DEF Awaited, AnswerIsTrue
      <3>5. QED
        BY <3>2, <3>4
    <2>3. QED
      BY <2>1, <2>2 DEF Clock
  <1>6. Record(FALSE) \/ Record(TRUE)
    BY DEF Clock
  <1>7. reset => Record(TRUE)
    BY DEF Clock
  <1>8. QED
    BY <1>1, <1>3, <1>4, <1>5, <1>6, <1>7, RecordCases

LEMMA RingStep == ASSUME TypeOK, TypeOK', RingInv, [Next]_vars PROVE RingInv'
  <1>1. CASE ResetPin \/ UNCHANGED vars
    BY <1>1 DEF ResetPin, vars, dtmVars, dmVars, history, offered, requestSynchronizer,
                responseSynchronizer, RingInv, OneInRing, Awaited, AnswerIsTrue
  <1>2. QED
    BY <1>1, ScanRing, TrstRing, ResetRing, ClockRing DEF Next, Tck

\* An error stands until the debugger clears it.
LEMMA ErrorStep ==
  ASSUME TypeOK, AnswersSucceed, ErrorsStick, [Next]_vars PROVE ErrorsStick'
  <1> USE DEF ErrorsStick
  <1>1. Sticky = stickyStatus
    BY DEF AnswersSucceed, Sticky
  <1>2. CASE TckScan
    <2>1. SUFFICES ASSUME failed' PROVE stickyStatus' # SUCCESS
      OBVIOUS
    <2>2. (failed \/ Fails) /\ ~ClearsErrors /\ ScanEdge
      BY <1>2, <2>1 DEF TckScan
    <2>3. failed => stickyStatus # SUCCESS
      OBVIOUS
    <2>4. CASE tap = "CAPTURE_DR"
      <3>1. stickyStatus' = CaptureSticky
        BY <2>2, <2>4
           DEF ScanEdge, WalkEdge, TapResetEdge, IrEdge, CaptureDrEdge, ShiftDrEdge,
               UpdateDrEdge
      <3>2. Fails => ir = "DMI" /\ CaptureStatus # SUCCESS
        BY <2>4 DEF Fails
      <3>3. CaptureStatus # SUCCESS => stickyStatus # SUCCESS \/ outstanding
        BY DEF CaptureStatus, AnswersSucceed
      <3>4. QED
        BY <1>1, <2>2, <2>3, <3>1, <3>2, <3>3 DEF CaptureSticky, BUSY, SUCCESS
    <2>5. CASE tap = "UPDATE_DR"
      <3>1. UpdateDrEdge
        BY <2>2, <2>5
           DEF ScanEdge, WalkEdge, TapResetEdge, IrEdge, CaptureDrEdge, ShiftDrEdge
      <3>2. CASE UpdateDtmcs
        <4>1. shift.clear = {}
          BY <2>2, <2>5, <3>2 DEF ClearsErrors, UpdateDtmcs
        <4>2. stickyStatus' = Sticky /\ ~Fails
          BY <3>2, <4>1 DEF UpdateDtmcs, Fails
        <4>3. QED
          BY <1>1, <2>2, <2>3, <4>2
      <3>3. CASE UpdateDmi
        <4>1. CASE MayOffer /\ Offer
          <5>1. requestToggle' # requestToggle
            BY <4>1 DEF Offer, Flip, TypeOK, DtmTypeOK, Bit
          <5>2. ~Fails
            BY <2>5, <5>1 DEF Fails
          <5>3. QED
            BY <2>2, <2>3, <4>1, <5>2 DEF MayOffer
        <4>2. CASE ~MayOffer
          <5>1. stickyStatus' = RefusedSticky
            BY <3>3, <4>2 DEF UpdateDmi
          <5>2. Fails => shift.dmi.op # NOP
            BY <2>5 DEF Fails
          <5>3. QED
            BY <1>1, <2>2, <2>3, <5>1, <5>2 DEF RefusedSticky, BUSY, FAILED, SUCCESS
        <4>3. QED
          BY <3>3, <4>1, <4>2 DEF UpdateDmi
      <3>4. CASE ir \notin {"DTMCS", "DMI"}
        BY <1>1, <2>2, <2>3, <2>5, <3>1, <3>4
           DEF UpdateDrEdge, UpdateDtmcs, UpdateDmi, TakeResponse, Fails
      <3>5. QED
        BY <3>1, <3>2, <3>3, <3>4 DEF UpdateDrEdge
    <2>6. CASE tap \notin {"CAPTURE_DR", "UPDATE_DR"}
      <3>1. ~Fails /\ tap # "TEST_LOGIC_RESET"
        BY <2>2, <2>6 DEF Fails, ClearsErrors
      <3>2. TakeResponse
        BY <2>2, <2>6, <3>1
           DEF ScanEdge, WalkEdge, TapResetEdge, IrEdge, CaptureDrEdge, ShiftDrEdge,
               UpdateDrEdge
      <3>3. QED
        BY <1>1, <2>2, <2>3, <3>1, <3>2 DEF TakeResponse
    <2>7. QED
      BY <2>4, <2>5, <2>6
  <1>3. CASE TckTrst \/ TckReset
    BY <1>3 DEF TckTrst, TckReset
  <1>4. CASE Clock \/ ResetPin \/ UNCHANGED vars
    BY <1>4 DEF Clock, ResetPin, vars, dtmVars, history
  <1>5. QED
    BY <1>2, <1>3, <1>4 DEF Next, Tck

(***************************************************************************)
(* The inductive invariant and what follows from it.                       *)
(***************************************************************************)
LEMMA BlankStep == ASSUME TypeOK, Blank, [Next]_vars PROVE Blank'
  <1> USE DEF Blank
  <1>1. CASE TckScan
    <2>1. CASE Offers
      BY <2>1 DEF Offers, NoMessage, NOP, READ, WRITE
    <2>2. CASE DropRequest
      BY <2>2 DEF DropRequest
    <2>3. CASE Keeps
      BY <2>3 DEF Keeps, offered, Outstanding, Response, Answered
    <2>4. QED
      BY <1>1, <2>1, <2>2, <2>3, ScanEffect DEF TckScan
  <1>2. CASE TckTrst \/ TckReset
    BY <1>2 DEF TckTrst, TrstEdge, DropRequest, TckReset, DtmResetEdge
  <1>3. CASE Clock \/ ResetPin \/ UNCHANGED vars
    BY <1>3 DEF Clock, ResetPin, vars, dtmVars, offered
  <1>4. QED
    BY <1>1, <1>2, <1>3 DEF Next, Tck

LEMMA Initially == Init => IInv
  <1> SUFFICES ASSUME Init PROVE IInv
    OBVIOUS
  <1> USE DEF Init, DtmInit
  <1>1. NoMessage.addr = 0 /\ NoMessage.op = SUCCESS
    BY DEF NoMessage, NOP, SUCCESS
  <1>2. TypeOK
    <2>1. /\ outstanding \in BOOLEAN /\ reset \in BOOLEAN /\ performed \in BOOLEAN
          /\ broken \in BOOLEAN /\ failed \in BOOLEAN
      BY Zenon
    <2>2. QED
      BY <2>1, WordTypes DEF TypeOK, DtmTypeOK, Bit, TapState, Instruction, SUCCESS
  <1>3. OneInRing /\ Awaited /\ AnswerIsTrue
    BY DEF OneInRing, Awaited, AnswerIsTrue
  <1>4. AnswersSucceed /\ Blank /\ ErrorsStick
    BY <1>1 DEF AnswersSucceed, Blank, ErrorsStick
  <1>5. QED
    BY <1>2, <1>3, <1>4 DEF IInv

\* Every part of the invariant holds of every behaviour: values in range, one
\* request in the ring, its answer the right one, errors standing.
THEOREM Inductive == Spec => []IInv
  <1>1. IInv /\ [Next]_vars => IInv'
    BY TypeStep, SuccessStep, RingStep, BlankStep, ErrorStep DEF IInv, RingInv
  <1>2. QED
    BY <1>1, Initially, PTL DEF Spec

\* Registers, synchronizers and words stay in range (the type invariant).
THEOREM LinkTypeCorrect == Spec => []TypeOK
  <1>1. IInv => TypeOK
    BY DEF IInv
  <1>2. QED
    BY <1>1, Inductive, PTL

\* Unless a reset broke it, at most one request or answer crosses between the
\* clock domains, and an answer is awaited exactly while one does.
THEOREM RingTheorem == Spec => []OneInRing
  <1>1. IInv => OneInRing
    BY DEF IInv
  <1>2. QED
    BY <1>1, Inductive, PTL

\* The answer a debugger finds is that of the request it made last, and that
\* request has been performed.
THEOREM TrueAnswers == Spec => []AnswerIsTrue
  <1>1. IInv => AnswerIsTrue
    BY DEF IInv
  <1>2. QED
    BY <1>1, Inductive, PTL

\* A failed scan leaves an error, also when the answer arrives in its cycle.
THEOREM StickyErrors == Spec => []ErrorsStick
  <1>1. IInv => ErrorsStick
    BY DEF IInv
  <1>2. QED
    BY <1>1, Inductive, PTL

\* A request is performed at most once, and it is the one that was offered.
THEOREM PerformedOnce == Spec => PerformsOnce
  <1>1. IInv /\ [Next]_vars =>
          [PerformEdge /\ ~reset /\ ~broken => ~performed /\ request.op \in {READ, WRITE}]_vars
    <2>1. SUFFICES ASSUME IInv, PerformEdge, ~broken
                   PROVE  ~performed /\ request.op \in {READ, WRITE}
      OBVIOUS
    <2>2. outstanding /\ requestToggle # requestToggleSeen
      BY <2>1 DEF IInv, TypeOK, DtmTypeOK, Bit, OneInRing, PerformEdge
    <2>3. QED
      BY <2>1, <2>2 DEF IInv, Awaited
  <1>2. QED
    BY <1>1, Inductive, PTL DEF Spec, PerformsOnce

\* Of a batch of requests, those after the first failure are not performed.
THEOREM NothingOfferedAfterError == Spec => NothingAfterError
  <1>1. IInv /\ [Next]_vars => [failed /\ ~reset => UNCHANGED requestToggle]_vars
    <2>1. SUFFICES ASSUME IInv, Next, failed, ~reset
                   PROVE  UNCHANGED requestToggle
      OBVIOUS
    <2>2. TypeOK /\ stickyStatus # SUCCESS
      BY <2>1 DEF IInv, ErrorsStick
    <2>3. CASE TckScan
      BY <2>2, <2>3, ScanEffect DEF TckScan, Offers, DropRequest, Keeps, offered
    <2>4. CASE TckTrst
      BY <2>4 DEF TckTrst, TrstEdge, DropRequest
    <2>5. CASE Clock \/ ResetPin
      BY <2>5 DEF Clock, ResetPin, dtmVars, offered
    <2>6. QED
      BY <2>1, <2>3, <2>4, <2>5 DEF Next, Tck, TckReset
  <1>2. QED
    BY <1>1, Inductive, PTL DEF Spec, NothingAfterError

(***************************************************************************)
(* Refinement: the link implements the atomic interface.                   *)
(***************************************************************************)
\* What a step of the link is to the debugger.
InterfaceStep == Interface!Next \/ UNCHANGED Interface!dmi

\* The phases of the interface, from the state of the ring.
LEMMA Phases ==
  ASSUME IInv, ~broken
  PROVE  /\ Settled => Phase = "idle"
         /\ requestToggle # requestToggleSeen => Phase = "made"
         /\ ~outstanding => Settled
  BY RingQuiet DEF IInv, RingInv, Phase, Settled, Quiet

\* A step that ends broken, or with nothing left of the request.
LEMMA BreakStep == ASSUME TypeOK', broken' PROVE InterfaceStep
  <1>1. request' \in Message /\ response'.addr \in {m.addr : m \in Message}
    BY DEF TypeOK, DtmTypeOK
  <1>2. Phase' = "broken"
    BY DEF Phase
  <1>3. QED
    BY <1>1, <1>2 DEF InterfaceStep, Interface!Next, Interface!Break

LEMMA ForgetStep ==
  ASSUME IInv', ~broken', Settled', request' = NoMessage PROVE InterfaceStep
  <1>1. Phase' = "idle"
    BY DEF Phase, Settled, Quiet
  <1>2. response'.addr = NoMessage.addr
    BY DEF IInv, Blank
  <1>3. QED
    BY <1>1, <1>2 DEF InterfaceStep, Interface!Next, Interface!Forget

\* A step that offers a request.
LEMMA MakeStep ==
  ASSUME IInv, IInv', Settled, Offers, Synchronize, ~broken',
         UNCHANGED <<requestSynchronizer, responseToggle, dmResponse>>
  PROVE  InterfaceStep
  <1>1. Phase \in {"idle", "broken"}
    BY DEF Phase, Settled, Quiet
  <1>2. Phase' = "made"
    BY DEF Phase, Settled, Quiet, Offers, Flip, IInv, TypeOK, DtmTypeOK, Bit,
           requestSynchronizer
  <1>3. request' \in Message \ {NoMessage}
    BY DEF Offers, NoMessage, NOP, READ, WRITE
  <1>4. response'.addr = response.addr
    BY DEF Offers, Response, Answered
  <1>5. QED
    BY <1>1, <1>2, <1>3, <1>4 DEF InterfaceStep, Interface!Next, Interface!Make

LEMMA ScanImplements ==
  ASSUME IInv, IInv', TckScan PROVE InterfaceStep
  <1>1. CASE broken'
    BY <1>1, BreakStep DEF IInv
  <1>2. CASE ~broken' /\ Settled' /\ request' = NoMessage
    BY <1>2, ForgetStep
  <1>3. UNCHANGED <<requestSynchronizer, responseToggle, dmResponse>>
    BY DEF TckScan, dmVars
  <1>4. Synchronize /\ (Offers \/ DropRequest \/ Keeps)
    BY ScanEffect DEF TckScan, IInv
  <1>5. CASE ~broken' /\ Settled /\ Offered
    BY <1>3, <1>4, <1>5, MakeStep DEF Offered, DropRequest, Keeps, offered
  <1>6. CASE ~broken' /\ ~broken /\ ~(outstanding /\ request' = NoMessage)
    <2>1. CASE Offers
      BY <1>3, <1>4, <1>6, <2>1, Phases, MakeStep DEF Offers
    <2>2. CASE DropRequest
      <3>1. Settled
        BY <1>6, <2>2, Phases DEF DropRequest
      <3>2. Settled' /\ request' = NoMessage
        BY <1>3, <1>4, <2>2, <3>1
           DEF DropRequest, Synchronize, Settled, Quiet, requestSynchronizer
      <3>3. QED
        BY <1>2, <1>6, <3>2
    <2>3. CASE Keeps /\ Answered
      <3>1. requestToggle = requestToggleSeen
        BY <1>6, <2>3
           DEF IInv, TypeOK, DtmTypeOK, Bit, OneInRing, Answered, Arrives
      <3>2. Phase = "performed" /\ Phase' = "idle"
        BY <1>3, <1>6, <2>3, <3>1
           DEF Phase, Keeps, offered, Outstanding, Answered, requestSynchronizer
      <3>3. response'.addr = request.addr
        BY <1>6, <2>3, <3>1 DEF IInv, Awaited, Keeps, Response, Answered
      <3>4. UNCHANGED request
        BY <2>3 DEF Keeps, offered
      <3>5. QED
        BY <3>2, <3>3, <3>4 DEF InterfaceStep, Interface!Next, Interface!Answer
    <2>4. CASE Keeps /\ ~Answered
      <3>1. outstanding' = outstanding /\ response'.addr = response.addr
        BY <2>4 DEF Keeps, Outstanding, Response, Answered, IInv, TypeOK, DtmTypeOK
      <3>2. Phase' = Phase
        BY <1>3, <1>6, <2>4, <3>1 DEF Phase, Keeps, offered, requestSynchronizer
      <3>3. UNCHANGED request
        BY <2>4 DEF Keeps, offered
      <3>4. QED
        BY <3>1, <3>2, <3>3 DEF InterfaceStep, Interface!dmi
    <2>5. QED
      BY <1>4, <2>1, <2>2, <2>3, <2>4
  <1>7. Record(outstanding /\ request' = NoMessage)
    BY DEF TckScan
  <1>8. QED
    BY <1>1, <1>2, <1>5, <1>6, <1>7 DEF Record

LEMMA ClockImplements ==
  ASSUME IInv, IInv', Clock PROVE InterfaceStep
  <1>1. CASE broken'
    BY <1>1, BreakStep DEF IInv
  <1>2. CASE ~broken' /\ Settled' /\ request' = NoMessage
    BY <1>2, ForgetStep
  <1>3. UNCHANGED <<offered, outstanding, response>>
    BY DEF Clock, dtmVars
  <1>4. CASE ~broken' /\ ~broken /\ PerformEdge
    <2>1. outstanding /\ requestToggle # requestToggleSeen
          /\ requestToggleSync = requestToggle
      BY <1>4 DEF IInv, TypeOK, DtmTypeOK, Bit, OneInRing, PerformEdge
    <2>2. Phase = "made" /\ Phase' = "performed"
      BY <1>3, <1>4, <2>1 DEF Phase, PerformEdge, Seen, offered
    <2>3. QED
      BY <1>3, <2>2 DEF InterfaceStep, Interface!Next, Interface!Perform, offered
  <1>5. CASE ~broken' /\ ~broken /\ CoreEdge
    BY <1>3, <1>5 DEF CoreEdge, Phase, InterfaceStep, Interface!dmi, offered
  <1>6. ~Offered
    BY <1>3 DEF Offered, offered
  <1>7. QED
    BY <1>1, <1>2, <1>4, <1>5, <1>6 DEF Clock, Record

\* The two clock domains, their synchronizers and the TAP implement an interface
\* that makes, performs and answers one request at a time.
THEOREM LinkRefinement == Spec => ImplementsDmi
  <1>1. Init => Interface!Init
    BY DEF Init, DtmInit, Interface!Init, Phase
  <1>2. IInv /\ IInv' /\ [Next]_vars => [Interface!Next]_(Interface!dmi)
    <2>1. SUFFICES ASSUME IInv, IInv', [Next]_vars PROVE InterfaceStep
      BY DEF InterfaceStep
    <2>2. CASE TckTrst
      <3>1. CASE broken'
        BY <2>1, <3>1, BreakStep DEF IInv
      <3>2. CASE ~broken'
        <4>1. DropRequest /\ Synchronize
              /\ UNCHANGED <<requestSynchronizer, responseToggle>>
          BY <2>2 DEF TckTrst, TrstEdge, dmVars
        <4>2. Settled => Settled'
          BY <4>1 DEF DropRequest, Synchronize, Settled, Quiet, requestSynchronizer
        <4>3. Settled' /\ request' = NoMessage
          BY <2>1, <2>2, <3>2, <4>1, <4>2, Phases
             DEF TckTrst, Record, Offered, DropRequest
        <4>4. QED
          BY <2>1, <3>2, <4>3, ForgetStep
      <3>3. QED
        BY <3>1, <3>2
    <2>3. CASE TckReset
      <3>1. ~Offered
        BY <2>3 DEF TckReset, DtmResetEdge, Offered
      <3>2. broken' \/ (Settled' /\ request' = NoMessage /\ ~broken')
        BY <2>3, <3>1 DEF TckReset, Record
      <3>3. QED
        BY <2>1, <3>2, BreakStep, ForgetStep DEF IInv
    <2>4. CASE ResetPin \/ UNCHANGED vars
      BY <2>4 DEF ResetPin, vars, dtmVars, dmVars, history, offered,
                  requestSynchronizer, Phase, InterfaceStep, Interface!dmi
    <2>5. QED
      BY <2>1, <2>2, <2>3, <2>4, ScanImplements, ClockImplements DEF Next, Tck
  <1>3. QED
    BY <1>1, <1>2, Inductive, PTL DEF Spec, ImplementsDmi, Interface!Spec

\* The two ends of the link agree about the request under way and its answer.
THEOREM ConsistentLink == Spec => []LinkConsistent
  <1>1. OneInRing /\ AnswerIsTrue => LinkConsistent
    BY DEF LinkConsistent
  <1>2. QED
    BY <1>1, RingTheorem, TrueAnswers, PTL

\* An error holds until the debugger clears it, and nothing is performed meanwhile.
THEOREM HeldErrors == Spec => ErrorsHold
  BY StickyErrors, NothingOfferedAfterError DEF ErrorsHold
=============================================================================
