--------------------------- MODULE ClientTransport ---------------------------
(***************************************************************************)
(* The transport of mc_control::ControllerClient                           *)
(* (src/include/mc_control/ControllerClient.h; the implementation file is  *)
(* not in the repository, its behaviour is taken from spec.md, 4.1 and 5). *)
(*                                                                         *)
(* Two threads share the client: the caller's thread, which starts the     *)
(* receive thread, changes the timeout, sends requests and finally         *)
(* destroys the client (stop the loop, join the thread, close the          *)
(* sockets), and the receive thread, which loops while run_ is set:       *)
(* it blocks on the SUB socket with timeout_ as receive timeout, walks    *)
(* every frame it decodes, drops the frames it cannot decode, and on a    *)
(* timeout walks an empty document (the stale signal).  Each walk is      *)
(* bracketed by started() and stopped().  The server publishes frames;    *)
(* the SUB socket keeps at most QueueCap of them and drops the others.    *)
(* Time is counted in ticks while the receive thread waits.               *)
(***************************************************************************)
EXTENDS Integers, Sequences

CONSTANTS
  Frames,        \* frames the server may publish
  BadFrames,     \* those of them that do not decode
  TimeoutInit,   \* values of the constructor's timeout, in ticks (<= 0: none)
  TimeoutSet,    \* values the caller may pass to timeout(double)
  QueueCap,      \* frames the SUB socket buffers before dropping
  MaxFrames,     \* frames the server publishes in a behaviour
  MaxRequests    \* requests the caller sends in a behaviour

ASSUME /\ BadFrames \subseteq Frames /\ "empty" \notin Frames
       /\ TimeoutInit \subseteq Int /\ TimeoutSet \subseteq Int
       /\ QueueCap \in Nat \ {0} /\ MaxFrames \in Nat /\ MaxRequests \in Nat

VARIABLES
  run_,          \* ControllerClient::run_
  timeout_,      \* ControllerClient::timeout_
  rt,            \* receive thread: "none", "check", "recv", "walk" or "exit"
  doc,           \* the document the receive thread walks, "empty" when stale
  idle,          \* ticks since the last receive, timeout or start
  queue,         \* frames in the SUB socket, oldest first
  sent,          \* frames the server has published
  consumed,      \* frames the receive thread has taken or the socket dropped
  walked,        \* frames walked so far, in order (stale walks not recorded)
  main,          \* caller: "init", "running", "destroying", "stopping", "joined",
                 \* "closed"
  sockets,       \* "open" or "closed"
  requests       \* requests pushed on the PUSH socket

vars == <<run_, timeout_, rt, doc, idle, queue, sent, consumed, walked,
          main, sockets, requests>>

-----------------------------------------------------------------------------
(* The constructor: both sockets connected, run_ = true, timeout_ as      *)
(* given, the receive thread not started.                                  *)
Init ==
  /\ run_ = TRUE /\ timeout_ \in TimeoutInit
  /\ rt = "none" /\ doc = "empty" /\ idle = 0
  /\ queue = << >> /\ sent = 0 /\ consumed = 0 /\ walked = << >>
  /\ main = "init" /\ sockets = "open" /\ requests = 0

(* start(): the receive thread is spawned.                                 *)
start ==
  /\ main = "init"
  /\ main' = "running" /\ rt' = "check"
  /\ UNCHANGED <<run_, timeout_, doc, idle, queue, sent, consumed, walked,
                 sockets, requests>>

(* The server publishes a frame; a full SUB queue drops it.                *)
Publish(f) ==
  /\ sent < MaxFrames
  /\ sent' = sent + 1
  /\ IF Len(queue) < QueueCap
     THEN queue' = Append(queue, f) /\ UNCHANGED consumed
     ELSE consumed' = consumed + 1 /\ UNCHANGED queue
  /\ UNCHANGED <<run_, timeout_, rt, doc, idle, walked, main, sockets, requests>>

(* The loop condition "while(run_)".  run_ is a plain bool written by the *)
(* caller's thread; the loop body calls into nn_recv and the virtual      *)
(* handlers, so every pass loads it again.                                 *)
RtCheck ==
  /\ rt = "check"
  /\ rt' = IF run_ THEN "recv" ELSE "exit"
  /\ UNCHANGED <<run_, timeout_, doc, idle, queue, sent, consumed, walked,
                 main, sockets, requests>>

(* Mutant: the decode failure is not checked and the frame is walked.      *)
RtReceiveNoDecodeCheck ==
  /\ rt = "recv" /\ queue # << >>
  /\ queue' = Tail(queue) /\ consumed' = consumed + 1 /\ idle' = 0
  /\ rt' = "walk" /\ doc' = Head(queue)
  /\ UNCHANGED <<run_, timeout_, sent, walked, main, sockets, requests>>

(* Mutant: a frame that does not decode ends the loop.                     *)
RtReceiveBadExits ==
  /\ rt = "recv" /\ queue # << >>
  /\ queue' = Tail(queue) /\ consumed' = consumed + 1 /\ idle' = 0
  /\ IF Head(queue) \in BadFrames
     THEN rt' = "exit" /\ UNCHANGED doc
     ELSE rt' = "walk" /\ doc' = Head(queue)
  /\ UNCHANGED <<run_, timeout_, sent, walked, main, sockets, requests>>

(* Mutant: the socket hands over the newest buffered frame.               *)
RtReceiveLifo ==
  /\ rt = "recv" /\ queue # << >>
  /\ queue' = SubSeq(queue, 1, Len(queue) - 1) /\ consumed' = consumed + 1
  /\ idle' = 0
  /\ IF queue[Len(queue)] \in BadFrames
     THEN rt' = "check" /\ UNCHANGED doc
     ELSE rt' = "walk" /\ doc' = queue[Len(queue)]
  /\ UNCHANGED <<run_, timeout_, sent, walked, main, sockets, requests>>

(* A frame is received: decoded and walked, or dropped with a diagnostic  *)
(* when it does not decode; the loop goes on.                              *)
RtReceive ==
  /\ rt = "recv" /\ queue # << >>
  /\ queue' = Tail(queue) /\ consumed' = consumed + 1 /\ idle' = 0
  /\ IF Head(queue) \in BadFrames
     THEN rt' = "check" /\ UNCHANGED doc
     ELSE rt' = "walk" /\ doc' = Head(queue)
  /\ UNCHANGED <<run_, timeout_, sent, walked, main, sockets, requests>>

(* Time passes while the receive thread waits on an empty socket; only    *)
(* its relation to a positive timeout matters.                             *)
Tick ==
  /\ rt = "recv" /\ queue = << >>
  /\ timeout_ > 0 /\ idle < timeout_
  /\ idle' = idle + 1
  /\ UNCHANGED <<run_, timeout_, rt, doc, queue, sent, consumed, walked,
                 main, sockets, requests>>

(* Mutant: the stale signal waits for more than timeout_ ticks.            *)
RtTimeoutLate ==
  /\ rt = "recv" /\ queue = << >>
  /\ timeout_ > 0 /\ idle > timeout_
  /\ rt' = "walk" /\ doc' = "empty" /\ idle' = 0
  /\ UNCHANGED <<run_, timeout_, queue, sent, consumed, walked, main,
                 sockets, requests>>

(* "After timeout has elapsed without receiving messages from the SUB     *)
(* socket, pass an empty message to handle_gui_state.  If timeout <= 0,   *)
(* this is ignored."                                                        *)
RtTimeout ==
  /\ rt = "recv" /\ queue = << >>
  /\ timeout_ > 0 /\ idle >= timeout_
  /\ rt' = "walk" /\ doc' = "empty" /\ idle' = 0
  /\ UNCHANGED <<run_, timeout_, queue, sent, consumed, walked, main,
                 sockets, requests>>

(* Mutant: stop() has no wake mechanism; only a frame or the timeout ends *)
(* the blocking receive.                                                    *)
RtWakeNone ==
  /\ rt = "recv" /\ ~run_ /\ FALSE
  /\ rt' = "check"
  /\ UNCHANGED <<run_, timeout_, doc, idle, queue, sent, consumed, walked,
                 main, sockets, requests>>

(* stop() wakes the blocked receive, which returns to the loop condition. *)
RtWake ==
  /\ rt = "recv" /\ ~run_
  /\ rt' = "check"
  /\ UNCHANGED <<run_, timeout_, doc, idle, queue, sent, consumed, walked,
                 main, sockets, requests>>

(* handle_gui_state(doc), bracketed by started() and stopped().            *)
RtWalk ==
  /\ rt = "walk"
  /\ walked' = IF doc = "empty" THEN walked ELSE Append(walked, doc)
  /\ rt' = "check"
  /\ UNCHANGED <<run_, timeout_, doc, idle, queue, sent, consumed, main,
                 sockets, requests>>

(* timeout(double t): the new threshold; "no-op if <= 0".                  *)
SetTimeout(t) ==
  /\ main = "running"
  /\ timeout_' = IF t > 0 THEN t ELSE timeout_
  /\ UNCHANGED <<run_, rt, doc, idle, queue, sent, consumed, walked, main,
                 sockets, requests>>

(* send_request(id[, data]): one frame on the PUSH socket, fire and forget. *)
send_request ==
  /\ main = "running" /\ requests < MaxRequests
  /\ requests' = requests + 1
  /\ UNCHANGED <<run_, timeout_, rt, doc, idle, queue, sent, consumed, walked,
                 main, sockets>>

(* The client is destroyed.  C++ runs the subclass's destructor first and *)
(* ~ControllerClient, which the abstract base declares non-virtual, only   *)
(* after it; nothing tells the receive thread in between.                  *)
DestroySubclass ==
  /\ main = "running"
  /\ main' = "destroying"
  /\ UNCHANGED <<run_, timeout_, rt, doc, idle, queue, sent, consumed, walked,
                 sockets, requests>>

(* ~ControllerClient, first step: run_ = false.                            *)
Stop ==
  /\ main = "destroying"
  /\ run_' = FALSE /\ main' = "stopping"
  /\ UNCHANGED <<timeout_, rt, doc, idle, queue, sent, consumed, walked,
                 sockets, requests>>

(* Mutant: the destructor does not wait for the receive thread.            *)
JoinNoWait ==
  /\ main = "stopping"
  /\ main' = "joined"
  /\ UNCHANGED <<run_, timeout_, rt, doc, idle, queue, sent, consumed, walked,
                 sockets, requests>>

(* sub_th_.join(): returns once the receive thread has left its loop.     *)
Join ==
  /\ main = "stopping" /\ rt = "exit"
  /\ main' = "joined"
  /\ UNCHANGED <<run_, timeout_, rt, doc, idle, queue, sent, consumed, walked,
                 sockets, requests>>

(* Both sockets are closed after the join.                                 *)
Close ==
  /\ main = "joined"
  /\ sockets' = "closed" /\ main' = "closed"
  /\ UNCHANGED <<run_, timeout_, rt, doc, idle, queue, sent, consumed, walked,
                 requests>>

ReceiveThread == RtCheck \/ RtReceive \/ Tick \/ RtTimeout \/ RtWake \/ RtWalk

Next ==
  \/ start \/ ReceiveThread
  \/ \E f \in Frames : Publish(f)
  \/ \E t \in TimeoutSet : SetTimeout(t)
  \/ send_request \/ DestroySubclass \/ Stop \/ Join \/ Close

(* The receive thread and time are scheduled; once the destruction has  *)
(* begun it goes on.  Nothing forces the server to publish or the caller  *)
(* to destroy the client.                                                   *)
Fairness ==
  /\ WF_vars(RtCheck) /\ WF_vars(RtReceive) /\ WF_vars(Tick)
  /\ WF_vars(RtTimeout) /\ WF_vars(RtWake) /\ WF_vars(RtWalk)
  /\ WF_vars(Stop) /\ WF_vars(Join) /\ WF_vars(Close)

Spec == Init /\ [][Next]_vars /\ Fairness

-----------------------------------------------------------------------------
(* Properties                                                               *)

TypeOK ==
  /\ run_ \in BOOLEAN /\ timeout_ \in TimeoutInit \cup TimeoutSet
  /\ rt \in {"none", "check", "recv", "walk", "exit"}
  /\ doc \in Frames \cup {"empty"} /\ idle \in Nat
  /\ queue \in Seq(Frames) /\ Len(queue) <= QueueCap
  /\ sent \in 0..MaxFrames /\ consumed \in 0..sent
  /\ walked \in Seq(Frames \ BadFrames)
  /\ main \in {"init", "running", "destroying", "stopping", "joined", "closed"}
  /\ sockets \in {"open", "closed"} /\ requests \in 0..MaxRequests

(* spec.md 5: no handler invocation outlives the stop of the client.  The *)
(* client stops when it is destroyed, and the destruction begins with the *)
(* subclass's destructor, whose overrides a walk calls (started(),        *)
(* category(), the widget handlers, stopped()): no walk is made once the  *)
(* destruction has begun.                                                   *)
NoHandlerAfterDestruction == [][RtWalk => main \in {"init", "running"}]_vars

(* Once the destructor has started, it returns: the receive thread sees   *)
(* run_ = false within one wait (a frame, the timeout or the wake) and the *)
(* join and the close follow.                                               *)
StopTerminates == main = "stopping" ~> main = "closed"

(* Once start() has been called, every frame the SUB socket takes is      *)
(* eventually consumed while run_ holds: a frame that does not decode is   *)
(* dropped and the loop goes on.                                            *)
FramesKeepFlowing ==
  \A n \in 1..MaxFrames :
     (rt # "none" /\ sent >= n /\ consumed < n) ~> (consumed >= n \/ ~run_)

(* With a positive timeout the receive thread never waits for ever: a     *)
(* frame or the stale signal (an empty document) comes within timeout_.   *)
WaitEnds == (rt = "recv" /\ timeout_ > 0) ~> (rt = "walk" \/ ~run_)

(* The client implements the abstract session of ClientSession: the     *)
(* frames that decode are handed to the handlers in the order the server  *)
(* published them, some possibly lost to a full socket but never          *)
(* reordered or repeated, only while the client listens or stop() waits   *)
(* for the receive thread, and a stop that has begun completes.  A frame  *)
(* taken from the socket and not yet walked is still pending.  The        *)
(* subclass's destructor runs before stop() begins (DestroySubclass), so  *)
(* the session is still listening then.                                    *)
Session == INSTANCE ClientSession WITH
  phase <- CASE main = "init"                      -> "created"
             [] main \in {"running", "destroying"}  -> "listening"
             [] main \in {"stopping", "joined"}     -> "closing"
             [] main = "closed"                    -> "closed",
  pending <- (IF rt = "walk" /\ doc # "empty" THEN << doc >> ELSE << >>)
               \o SelectSeq(queue, LAMBDA f : f \notin BadFrames),
  delivered <- walked,
  Docs <- Frames \ BadFrames

SessionRefined == Session!Spec

=============================================================================
