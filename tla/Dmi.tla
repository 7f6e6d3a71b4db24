--------------------------------- MODULE Dmi ---------------------------------
(***************************************************************************)
(* What the debug module interface promises a debugger: requests are       *)
(* performed one at a time, each exactly once and after it was made, and   *)
(* the answer the debugger gets is that of the request it made last.  Only *)
(* a reset may break this, until nothing is left of the broken request.    *)
(***************************************************************************)
EXTENDS Naturals

CONSTANT Message, NoMessage
VARIABLES
  phase,     \* of the request: "idle", "made", "performed"; or "broken"
  request,   \* the request made last
  answer     \* the address its answer names

dmi == <<phase, request, answer>>

Init == phase = "idle" /\ request = NoMessage /\ answer = NoMessage.addr

Make ==
  /\ phase \in {"idle", "broken"} /\ phase' = "made"
  /\ request' \in Message \ {NoMessage}
  /\ UNCHANGED answer

Perform == phase = "made" /\ phase' = "performed" /\ UNCHANGED <<request, answer>>

Answer ==
  /\ phase = "performed" /\ phase' = "idle"
  /\ answer' = request.addr
  /\ UNCHANGED request

\* A reset after which nothing is left of the request.
Forget == phase' = "idle" /\ request' = NoMessage /\ answer' = NoMessage.addr

\* A reset that leaves a request under way in one part of the interface only:
\* nothing is promised until it is forgotten or the next request is made.
Break ==
  /\ phase' = "broken"
  /\ request' \in Message /\ answer' \in {m.addr : m \in Message}

Next == Make \/ Perform \/ Answer \/ Forget \/ Break
Spec == Init /\ [][Next]_dmi
=============================================================================
