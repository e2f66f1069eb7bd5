---------------------------- MODULE ControlStream ----------------------------
(* The control stream and the goroutines that share it (extension.go).      *)
(*                                                                          *)
(* connectionLoop dials, publishes the stream in e.stream, sends Hello and  *)
(* runs recvLoop.  Every stream has a pingLoop and a processor loop.  Each  *)
(* request received is handled by a goroutine of its own.  All of them send *)
(* with sendAgentMessage: e.stream is read under mu, and the message is     *)
(* sent under writeMu, possibly much later and on a stream that has ended.  *)
(* Shutdown leaves the receiver registry, cancels rootCtx and waits for the *)
(* goroutines counted by the WaitGroup.                                     *)
EXTENDS Naturals, FiniteSets

CONSTANTS
  MaxStreams,   \* streams with a goroutine left; ids of others are reused
  MaxRequests,  \* requests being handled; ids of others are reused
  MaxActive     \* requests being handled and heartbeats and batches being
                \* sent, at the same time

ASSUME StreamAssumption ==
  /\ MaxStreams \in Nat \ {0} /\ MaxRequests \in Nat /\ MaxActive \in Nat

Streams == 1..MaxStreams
Conn == <<"conn", 0>>
Ping(s) == <<"ping", s>>
Loop(s) == <<"loop", s>>
Req(r) == <<"req", r>>
Reqs == {Req(r) : r \in 1..MaxRequests}
Loops == {Loop(s) : s \in Streams}
Tickers == Loops \cup {Ping(s) : s \in Streams}
Procs == {Conn} \cup Tickers \cup Reqs

Free == <<"none", 0>>     \* writeMu is not held

VARIABLES
  pc,         \* where each goroutine is; "off" when it does not exist
  stream,     \* e.stream, 0 when nil
  own,        \* the stream of the connect call under way, 0 when there is none
  greeted,    \* connect is past Hello
  net,        \* each stream: "up", "stalled" (not read by the peer), "down"
  cancelled,  \* streams whose pingCtx and tsCtx are cancelled
  via,        \* the stream a sender read from e.stream; at the end of a
              \* request, the stream its response was delivered on, or 0
  writer,     \* the holder of writeMu
  asked,      \* the stream each request came on
  wg,         \* the WaitGroup's counter
  life        \* "new", "running" (Start was called), "stopping" (Shutdown
              \* waits), "stopped" (it has returned)

streamVars == <<pc, stream, own, greeted, net, cancelled, via, writer, asked,
                wg, life>>
link == <<stream, own, greeted, net, cancelled>>
sends == <<via, writer, asked>>

\* rootCtx is cancelled.
ctxDone == life \in {"stopping", "stopped"}

Sending == {"read", "lock", "send"}
Places == Sending \cup
  {"off", "wait", "dial", "recv", "unset", "close", "tick", "start", "store",
   "finish"}

StreamTypeOK ==
  /\ pc \in [Procs -> Places]
  /\ stream \in 0..MaxStreams /\ own \in 0..MaxStreams
  /\ greeted \in BOOLEAN
  /\ net \in [Streams -> {"up", "stalled", "down"}]
  /\ cancelled \subseteq Streams
  /\ via \in [Procs -> 0..MaxStreams]
  /\ writer \in Procs \cup {Free}
  /\ asked \in [Reqs -> 0..MaxStreams]
  /\ wg \in Nat
  /\ life \in {"new", "running", "stopping", "stopped"}

\* No goroutine runs: before Start.
StreamInit ==
  /\ pc = [g \in Procs |-> "off"]
  /\ stream = 0 /\ own = 0 /\ greeted = FALSE
  /\ net = [s \in Streams |-> "down"] /\ cancelled = {}
  /\ via = [g \in Procs |-> 0] /\ writer = Free
  /\ asked = [g \in Reqs |-> 0]
  /\ wg = 0 /\ life = "new"

Active == {g \in Tickers : pc[g] \in Sending} \cup {g \in Reqs : pc[g] # "off"}

Goto(g, from, to) == pc[g] = from /\ pc' = [pc EXCEPT ![g] = to]

-----------------------------------------------------------------------------
\* Mutant: connectionLoop is not counted.
StartUncounted ==
  /\ life = "new" /\ life' = "running"
  /\ Goto(Conn, "off", "wait")
  /\ UNCHANGED <<link, sends, wg>>

\* Start registers the receiver and starts connectionLoop.
Start ==
  /\ life = "new" /\ life' = "running"
  /\ Goto(Conn, "off", "wait")
  /\ wg' = wg + 1
  /\ UNCHANGED <<link, sends>>

\* connectionLoop between two calls of connect: rootCtx ends it.
LoopEnds ==
  /\ ctxDone /\ Goto(Conn, "wait", "off")
  /\ wg' = wg - 1
  /\ UNCHANGED <<link, sends, life>>

LoopConnects ==
  /\ ~ctxDone /\ Goto(Conn, "wait", "dial")
  /\ UNCHANGED <<link, sends, wg, life>>

DialFails ==
  /\ Goto(Conn, "dial", "wait")
  /\ UNCHANGED <<link, sends, wg, life>>

\* Nothing refers to the stream any more, so its id may stand for a new one.
Unused(s) ==
  /\ net[s] = "down" /\ pc[Ping(s)] = "off" /\ pc[Loop(s)] = "off"
  /\ \A g \in Procs : via[g] # s
  /\ \A g \in Reqs : asked[g] # s

\* The stream is opened and stored; its context is a child of rootCtx.
Dial(s) ==
  /\ Unused(s) /\ \A t \in Streams : Unused(t) => s <= t
  /\ Goto(Conn, "dial", "read")
  /\ stream' = s /\ own' = s /\ greeted' = FALSE
  /\ net' = [net EXCEPT ![s] = IF ctxDone THEN "down" ELSE "up"]
  /\ cancelled' = IF ctxDone THEN cancelled \cup {s} ELSE cancelled \ {s}
  /\ UNCHANGED <<sends, wg, life>>

-----------------------------------------------------------------------------
\* sendAgentMessage.  Without a stream the message is dropped and nil returned.
Sent(g) ==
  \/ /\ g = Conn /\ greeted
     /\ pc' = [pc EXCEPT ![g] = "recv"] /\ UNCHANGED <<greeted, wg>>
  \/ /\ g = Conn /\ ~greeted
     /\ greeted' = TRUE /\ wg' = wg + 1
     /\ pc' = [pc EXCEPT ![g] = "recv", ![Ping(own)] = "tick",
                         ![Loop(own)] = "tick"]
  \/ /\ g \in Tickers
     /\ pc' = [pc EXCEPT ![g] = "tick"] /\ UNCHANGED <<greeted, wg>>
  \/ /\ g \in Reqs
     /\ pc' = [pc EXCEPT ![g] = "finish"] /\ UNCHANGED <<greeted, wg>>

\* What follows when Send returns an error: connect and pingLoop return, the
\* processor loop sleeps, replies are only logged.
NotSent(g) ==
  pc' = [pc EXCEPT ![g] =
           CASE g = Conn -> IF greeted THEN "recv" ELSE "unset"
             [] g \in Loops -> "tick"
             [] g \in Reqs -> "finish"
             [] OTHER -> "off"]

ReadStream(g, from) ==
  /\ stream # 0 /\ Goto(g, from, "lock")
  /\ via' = [via EXCEPT ![g] = stream]
  /\ UNCHANGED <<link, writer, asked, wg, life>>

ReadNoStream(g, from) ==
  /\ stream = 0 /\ pc[g] = from /\ Sent(g)
  /\ UNCHANGED <<stream, own, net, cancelled, sends, life>>

LockWrite(g) ==
  /\ writer = Free /\ writer' = g
  /\ Goto(g, "lock", "send")
  /\ UNCHANGED <<link, via, asked, wg, life>>

\* A response that was delivered keeps its stream until the handler ends.
Send(g) ==
  /\ pc[g] = "send" /\ net[via[g]] = "up" /\ Sent(g)
  /\ writer' = Free
  /\ via' = IF g \in Reqs THEN via ELSE [via EXCEPT ![g] = 0]
  /\ UNCHANGED <<stream, own, net, cancelled, asked, life>>

\* Mutant: writeMu is not released on the error path.
SendFailsLocked(g) ==
  /\ pc[g] = "send" /\ net[via[g]] = "down" /\ NotSent(g)
  /\ via' = [via EXCEPT ![g] = 0]
  /\ UNCHANGED <<link, writer, asked, wg, life>>

SendFails(g) ==
  /\ pc[g] = "send" /\ net[via[g]] = "down" /\ NotSent(g)
  /\ writer' = Free /\ via' = [via EXCEPT ![g] = 0]
  /\ UNCHANGED <<link, asked, wg, life>>

-----------------------------------------------------------------------------
\* recvLoop: a command that is answered at once (a DemandSet or GetStatus with
\* a correlation id, GetConfig).  A slow reply holds up the loop.  A message
\* that was received before the stream ended may be returned after it.
RecvCommand ==
  /\ Goto(Conn, "recv", "read")
  /\ UNCHANGED <<link, sends, wg, life>>

\* Mutant: the handler's goroutine is not counted.
RecvRequestUncounted(g) ==
  /\ pc[Conn] = "recv"
  /\ Goto(g, "off", "start")
  /\ \A h \in Reqs : pc[h] = "off" => g[2] <= h[2]
  /\ Cardinality(Active) < MaxActive
  /\ asked' = [asked EXCEPT ![g] = own]
  /\ UNCHANGED <<link, via, writer, wg, life>>

\* A query or a config update: wg.Add, then a goroutine.
RecvRequest(g) ==
  /\ pc[Conn] = "recv"
  /\ Goto(g, "off", "start")
  /\ \A h \in Reqs : pc[h] = "off" => g[2] <= h[2]
  /\ Cardinality(Active) < MaxActive
  /\ asked' = [asked EXCEPT ![g] = own]
  /\ wg' = wg + 1
  /\ UNCHANGED <<link, via, writer, life>>

\* Recv fails and connect begins to return: pingCancel and tsCancel, ...
RecvFails ==
  /\ Goto(Conn, "recv", "unset") /\ net[own] = "down"
  /\ cancelled' = cancelled \cup {own}
  /\ UNCHANGED <<stream, own, greeted, net, sends, wg, life>>

\* ... then its deferred calls, last first: e.stream is cleared, ...
Unset ==
  /\ Goto(Conn, "unset", "close")
  /\ stream' = 0
  /\ UNCHANGED <<own, greeted, net, cancelled, sends, wg, life>>

\* ... the stream's context is cancelled and the connection closed.
Close ==
  /\ Goto(Conn, "close", "wait")
  /\ net' = [net EXCEPT ![own] = "down"]
  /\ cancelled' = cancelled \cup {own}
  /\ own' = 0 /\ greeted' = FALSE
  /\ UNCHANGED <<stream, sends, wg, life>>

-----------------------------------------------------------------------------
\* A heartbeat, or one batch of the processor loop with the wait for its ack
\* (IndexSync has its content): the message is built and e.stream read.
Ticks(g) ==
  /\ Cardinality(Active) < MaxActive
  /\ ReadStream(g, "tick") \/ ReadNoStream(g, "tick")

PingStops(s) ==
  /\ s \in cancelled /\ Goto(Ping(s), "tick", "off")
  /\ UNCHANGED <<link, sends, wg, life>>

LoopStops(s) ==
  /\ s \in cancelled /\ Goto(Loop(s), "tick", "off")
  /\ wg' = wg - 1
  /\ UNCHANGED <<link, sends, life>>

-----------------------------------------------------------------------------
\* The network, or the control plane, fails the stream or stops reading it.
Break(s) ==
  /\ net[s] # "down" /\ net' = [net EXCEPT ![s] = "down"]
  /\ UNCHANGED <<pc, stream, own, greeted, cancelled, sends, wg, life>>

Stall(s) ==
  /\ net[s] = "up" /\ net' = [net EXCEPT ![s] = "stalled"]
  /\ UNCHANGED <<pc, stream, own, greeted, cancelled, sends, wg, life>>

-----------------------------------------------------------------------------
\* Mutant: streams are not below rootCtx.
CancelRootOnly ==
  /\ life = "running" /\ life' = "stopping"
  /\ UNCHANGED <<pc, link, sends, wg>>

\* Shutdown leaves the receiver registry and cancels rootCtx, the parent of
\* every context here.
Cancel ==
  /\ life = "running" /\ life' = "stopping"
  /\ net' = [s \in Streams |-> "down"]
  /\ cancelled' = Streams
  /\ UNCHANGED <<pc, stream, own, greeted, sends, wg>>

\* Mutant: Shutdown does not wait.
WaitNot ==
  /\ life = "stopping" /\ life' = "stopped"
  /\ UNCHANGED <<pc, link, sends, wg>>

WaitReturns ==
  /\ life = "stopping" /\ wg = 0 /\ life' = "stopped"
  /\ UNCHANGED <<pc, link, sends, wg>>

=============================================================================
