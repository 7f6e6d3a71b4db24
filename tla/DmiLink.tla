------------------------------- MODULE DmiLink -------------------------------
(***************************************************************************)
(* The JTAG transport and the debug module's side of the DMI               *)
(* (DitDah32DebugModule.scala), in two clock domains without any relation: *)
(* a step is an edge of TCK or of the core clock, or a change of io.reset, *)
(* which either domain notices only on an edge of its own clock.  What a   *)
(* request does inside the debug module is left out; that it is performed  *)
(* is recorded.                                                            *)
(***************************************************************************)
EXTENDS JtagDtm

VARIABLES
  requestToggleMeta,   \* synchronizer of the request toggle
  requestToggleSync,
  requestToggleSeen,
  reset,               \* io.reset
  performed,           \* the request offered last was performed (history)
  broken,              \* a reset hit a request under way (history)
  failed               \* a scan failed, and no error was cleared since (history)

requestSynchronizer == <<requestToggleMeta, requestToggleSync, requestToggleSeen>>
dmVars == <<requestSynchronizer, responseToggle, dmResponse>>
history == <<performed, broken, failed>>
vars == <<dtmVars, dmVars, reset, history>>

Init ==
  /\ DtmInit
  /\ requestToggleMeta = 0 /\ requestToggleSync = 0 /\ requestToggleSeen = 0
  /\ responseToggle = 0 /\ dmResponse = NoMessage
  /\ reset = FALSE
  /\ performed = FALSE /\ broken = FALSE /\ failed = FALSE

(***************************************************************************)
(* Edges of the core clock.                                                *)
(***************************************************************************)
SynchronizeRequest ==
  /\ requestToggleMeta' = requestToggle
  /\ requestToggleSync' = requestToggleMeta

CoreEdge ==
  /\ SynchronizeRequest
  /\ requestToggleSync = requestToggleSeen
  /\ UNCHANGED <<requestToggleSeen, responseToggle, dmResponse, performed>>

\* The request is read and performed.  Mutants: the request is not marked as
\* seen; the answer is not announced.
SeenNever == UNCHANGED requestToggleSeen
Seen == requestToggleSeen' = requestToggleSync
AnnouncedNever == UNCHANGED responseToggle
Announced == responseToggle' = Flip(responseToggle)

PerformEdge ==
  /\ SynchronizeRequest
  /\ requestToggleSync # requestToggleSeen
  /\ Seen
  /\ Announced
  /\ dmResponse' = [addr |-> request.addr, op |-> SUCCESS]
  /\ performed' = TRUE

CoreResetEdge ==
  /\ requestToggleMeta' = 0 /\ requestToggleSync' = 0 /\ requestToggleSeen' = 0
  /\ responseToggle' = 0 /\ dmResponse' = NoMessage
  /\ UNCHANGED performed

(***************************************************************************)
(* Both domains.                                                           *)
(***************************************************************************)
Offered == requestToggle' # requestToggle /\ outstanding'

\* All toggles agree: no request or answer is on its way.
Quiet ==
  \A t \in {requestToggleMeta, requestToggleSync, requestToggleSeen, responseToggle,
            responseToggleMeta, responseToggleSync, responseToggleSeen} : t = requestToggle

Settled == Quiet /\ ~outstanding

\* disrupts: the step resets one side or makes it forget its request.
Record(disrupts) ==
  broken' = IF (Settled' /\ request' = NoMessage) \/ (Settled /\ Offered)
            THEN FALSE ELSE broken \/ disrupts

\* The debugger reads an error, or its request is refused.
Fails ==
  \/ tap = "CAPTURE_DR" /\ ir = "DMI" /\ CaptureStatus # SUCCESS
  \/ /\ tap = "UPDATE_DR" /\ ir = "DMI" /\ shift.dmi.op # NOP
     /\ requestToggle' = requestToggle

ClearsErrors ==
  \/ tap = "TEST_LOGIC_RESET"
  \/ tap = "UPDATE_DR" /\ ir = "DTMCS" /\ shift.clear # {}

TckScan ==
  /\ ~reset
  /\ UNCHANGED <<dmVars, reset>>
  /\ ScanEdge
  /\ performed' = (performed /\ ~Offered)
  /\ failed' = ((failed \/ Fails) /\ ~ClearsErrors)
  /\ Record(outstanding /\ request' = NoMessage)

TckTrst ==
  /\ ~reset
  /\ UNCHANGED <<dmVars, reset, performed>>
  /\ TrstEdge
  /\ failed' = FALSE
  /\ Record(outstanding)

TckReset ==
  /\ reset
  /\ UNCHANGED <<dmVars, reset, performed>>
  /\ DtmResetEdge
  /\ failed' = FALSE
  /\ Record(TRUE)

Tck == TckScan \/ TckTrst \/ TckReset

Clock ==
  /\ UNCHANGED <<dtmVars, reset, failed>>
  /\ \/ ~reset /\ (CoreEdge \/ PerformEdge) /\ Record(FALSE)
     \/ reset /\ CoreResetEdge /\ Record(TRUE)

ResetPin == reset' = ~reset /\ UNCHANGED <<dtmVars, dmVars, history>>

Next == Tck \/ Clock \/ ResetPin

Spec == Init /\ [][Next]_vars

\* Both clocks run.
FairSpec == Spec /\ WF_vars(Tck) /\ WF_vars(Clock)

(***************************************************************************)
(* Properties.                                                             *)
(***************************************************************************)
TypeOK ==
  /\ DtmTypeOK
  /\ requestToggleMeta \in Bit /\ requestToggleSync \in Bit
  /\ requestToggleSeen \in Bit /\ responseToggle \in Bit
  /\ dmResponse \in Message
  /\ reset \in BOOLEAN /\ performed \in BOOLEAN /\ broken \in BOOLEAN
  /\ failed \in BOOLEAN

\* The news of a request goes round the ring of toggles and synchronizer flops
\* of the two domains: at most one of them, the front of the news, differs from
\* its successor, and an answer is awaited exactly while it is under way.
OneInRing ==
  ~broken =>
    /\ requestToggle = responseToggleSeen => requestToggleMeta = responseToggleSeen
    /\ requestToggleMeta = responseToggleSeen => requestToggleSync = responseToggleSeen
    /\ requestToggleSync = responseToggleSeen => requestToggleSeen = responseToggleSeen
    /\ requestToggleSeen = responseToggleSeen => responseToggleMeta = responseToggleSeen
    /\ responseToggleMeta = responseToggleSeen => responseToggleSync = responseToggleSeen
    /\ responseToggle = requestToggleSeen
    /\ outstanding <=> requestToggle # responseToggleSeen

\* A request that was offered and is no longer awaited has been performed, and
\* the answer a debugger captures names it.
AnswerIsTrue ==
  ~broken /\ ~outstanding /\ request # NoMessage =>
    performed /\ response.addr = request.addr

\* The debug module performs a request at most once, and never one that was
\* withdrawn: what it reads is what the transport offered.
PerformsOnce ==
  [][PerformEdge /\ ~reset /\ ~broken => ~performed /\ request.op \in {READ, WRITE}]_vars

\* A scan that failed leaves an error until the debugger clears it, also when
\* the answer it was too early for comes in the same cycle ...
ErrorsStick == failed => stickyStatus # SUCCESS

\* ... and nothing is offered meanwhile: of a batch of requests, those after the
\* first failure are not performed.
NothingAfterError == [][failed /\ ~reset => UNCHANGED requestToggle]_vars

\* The two ends of the link agree about the request under way and the answer to it, unless
\* a reset of one side broke it.
LinkConsistent == OneInRing /\ AnswerIsTrue

\* After a failed scan the error holds, and nothing of the batch behind it is performed.
ErrorsHold == []ErrorsStick /\ NothingAfterError

\* Implements the atomic interface (module Dmi).
Phase == IF broken THEN "broken"
         ELSE IF requestToggle # requestToggleSeen THEN "made"
         ELSE IF outstanding THEN "performed" ELSE "idle"

Interface == INSTANCE Dmi WITH phase <- Phase, answer <- response.addr

ImplementsDmi == Interface!Spec

\* An answer comes, or a reset breaks the request: a debugger that keeps
\* clocking TCK does not read busy for ever.
RequestAnswered == outstanding /\ ~broken ~> ~outstanding \/ broken

\* After a reset in mid-request the toggles come to rest, unless a new request
\* is offered before they do.
LinkSettles == <>[]~reset => (broken ~> Settled \/ outstanding)

=============================================================================
