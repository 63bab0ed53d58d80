---------------------------- MODULE ClientSession ----------------------------
(***************************************************************************)
(* What a ControllerClient promises its subclass, whatever its threads    *)
(* do (spec.md, 4.1 and 5): it is created and starts listening; the       *)
(* documents the server sends wait in a FIFO channel, where a full buffer *)
(* may lose the newest; they are handed to the handlers one at a time,    *)
(* oldest first; once stop() has begun the client finishes closing, and  *)
(* nothing is handed to the handlers after it is closed.                   *)
(***************************************************************************)
EXTENDS Sequences

CONSTANTS
  Docs           \* the documents the server may send

VARIABLES
  phase,         \* "created", "listening", "closing" or "closed"
  pending,       \* documents sent and not yet handed over, oldest first
  delivered      \* the documents handed to the handlers, in order

vars == <<phase, pending, delivered>>

Init == phase = "created" /\ pending = << >> /\ delivered = << >>

Open ==
  /\ phase = "created" /\ phase' = "listening"
  /\ UNCHANGED <<pending, delivered>>

(* The server sends a document; it joins the end of the channel.  A      *)
(* document that is lost never enters it (a stuttering step).             *)
Send(d) ==
  /\ pending' = Append(pending, d)
  /\ UNCHANGED <<phase, delivered>>

(* The oldest pending document is handed to the handlers; stop() waits   *)
(* for a receive already under way, which may still deliver.              *)
Deliver ==
  /\ phase \in {"listening", "closing"} /\ pending # << >>
  /\ delivered' = Append(delivered, Head(pending))
  /\ pending' = Tail(pending)
  /\ UNCHANGED phase

BeginClose ==
  /\ phase = "listening" /\ phase' = "closing"
  /\ UNCHANGED <<pending, delivered>>

Finish ==
  /\ phase = "closing" /\ phase' = "closed"
  /\ UNCHANGED <<pending, delivered>>

Next == Open \/ (\E d \in Docs : Send(d)) \/ Deliver \/ BeginClose \/ Finish

Spec == Init /\ [][Next]_vars /\ WF_vars(Finish)

=============================================================================
