----------------------------- MODULE QueryTunnel -----------------------------
(* The query tunnel: handleQueryRequest on top of the control stream.       *)
(*                                                                          *)
(* A handler takes one of MaxQueries slots or refuses, checks the target    *)
(* and the path, asks the local store, and sends one response.  Its slot is *)
(* released when it returns, on every path.                                 *)
EXTENDS ControlStream, Sequences

CONSTANTS
  MaxQueries,   \* maxConcurrentQueries
  Enabled,      \* targets with a query URL
  QueryInputs   \* what a query may be: [target, method, path]

ASSUME TunnelAssumption == MaxQueries \in Nat \ {0}

VARIABLES
  querySem      \* the handlers that hold a slot

tunnelVars == <<streamVars, querySem>>

-----------------------------------------------------------------------------
\* The allow-lists.  A path is the sequence of its segments, cleaned.
Starts(prefix, path) ==
  /\ Len(path) > Len(prefix)
  /\ SubSeq(path, 1, Len(prefix)) = prefix
Values(prefix, path) == Starts(prefix, path) /\ path[Len(path)] = "values"

isAllowedVMPath(path) ==
  \/ path \in {<<"api", "v1", e>> :
               e \in {"query", "query_range", "series", "labels", "metadata"}}
  \/ Values(<<"api", "v1", "label">>, path)
  \/ Starts(<<"api", "v1", "status">>, path)

isAllowedLokiPath(path) ==
  \/ path \in {<<"loki", "api", "v1", e>> :
               e \in {"query", "query_range", "labels", "series", "patterns"}}
  \/ path \in {<<"loki", "api", "v1", "index", e>> : e \in {"stats", "volume"}}
  \/ Values(<<"loki", "api", "v1", "label">>, path)

isAllowedTempoPath(path) ==
  \/ path \in {<<"api", "echo">>, <<"api", "search">>,
               <<"api", "search", "tags">>, <<"api", "v2", "search", "tags">>}
  \/ Starts(<<"api", "traces">>, path) \/ Starts(<<"api", "v2", "traces">>, path)
  \/ Values(<<"api", "search", "tag">>, path)
  \/ Values(<<"api", "v2", "search", "tag">>, path)

\* Any other target is VM, as for servers that do not set one.
Target(q) == IF q.target \in {"loki", "tempo"} THEN q.target ELSE "vm"

\* No method is GET.
Allowed(q) ==
  /\ q.method \in {"", "GET", "POST"}
  /\ CASE Target(q) = "loki" -> isAllowedLokiPath(q.path)
       [] Target(q) = "tempo" -> isAllowedTempoPath(q.path)
       [] OTHER -> isAllowedVMPath(q.path)

Runs(q) == Target(q) \in Enabled /\ Allowed(q)

-----------------------------------------------------------------------------
TunnelInit == StreamInit /\ querySem = {}

TunnelTypeOK == StreamTypeOK /\ querySem \subseteq Reqs

Rest == <<link, sends, wg, life>>

\* All slots are taken: 429.
Busy(g) ==
  /\ Cardinality(querySem) >= MaxQueries
  /\ Goto(g, "start", "read")
  /\ UNCHANGED <<querySem, Rest>>

TakeSlot(g) ==
  /\ Cardinality(querySem) < MaxQueries
  /\ querySem' = querySem \cup {g}

\* The target is disabled (503), the path is not allowed (403), or no request
\* can be built of it (500).
Refuse(g) ==
  /\ TakeSlot(g) /\ Goto(g, "start", "read")
  /\ UNCHANGED Rest

AskStore(g) ==
  /\ \E q \in QueryInputs : Runs(q)
  /\ TakeSlot(g) /\ Goto(g, "start", "store")
  /\ UNCHANGED Rest

\* Mutant: no response is sent when the store does not answer.
StoreReturnsSilent(g) ==
  /\ Goto(g, "store", "finish")
  /\ UNCHANGED <<querySem, Rest>>

\* The store answers, in full or too large (413), or it cannot be reached or
\* read (502), within queryTimeout or once rootCtx is cancelled.
StoreReturns(g) ==
  /\ Goto(g, "store", "read")
  /\ UNCHANGED <<querySem, Rest>>

\* The goroutine of a config update; ConfigApply has what it does.
UpdateApplied(g) ==
  /\ Goto(g, "start", "read")
  /\ UNCHANGED <<querySem, Rest>>

\* Mutant: a handler that returns early keeps its slot.
FinishKeepsSlot(g) ==
  /\ Goto(g, "finish", "off")
  /\ UNCHANGED querySem
  /\ wg' = wg - 1
  /\ via' = [via EXCEPT ![g] = 0] /\ asked' = [asked EXCEPT ![g] = 0]
  /\ UNCHANGED <<link, writer, life>>

\* The deferred calls: the slot is released, then wg.Done.
Finish(g) ==
  /\ Goto(g, "finish", "off")
  /\ querySem' = querySem \ {g}
  /\ wg' = wg - 1
  /\ via' = [via EXCEPT ![g] = 0] /\ asked' = [asked EXCEPT ![g] = 0]
  /\ UNCHANGED <<link, writer, life>>

-----------------------------------------------------------------------------
Sends(g) ==
  \/ ReadStream(g, "read") \/ ReadNoStream(g, "read")
  \/ LockWrite(g) \/ Send(g) \/ SendFails(g)

Connects ==
  \/ LoopEnds \/ LoopConnects \/ DialFails \/ \E s \in Streams : Dial(s)
  \/ RecvFails \/ Unset \/ Close

Pings(s) == Ticks(Ping(s)) \/ PingStops(s)
Processes(s) == Ticks(Loop(s)) \/ LoopStops(s)

Handles(g) ==
  \/ Busy(g) \/ Refuse(g) \/ AskStore(g) \/ StoreReturns(g)
  \/ UpdateApplied(g) \/ Finish(g)

StreamNext ==
  \/ Start \/ Connects
  \/ \E g \in Procs : Sends(g)
  \/ RecvCommand \/ \E g \in Reqs : RecvRequest(g)
  \/ \E s \in Streams : Pings(s) \/ Processes(s) \/ Break(s) \/ Stall(s)
  \/ Cancel \/ WaitReturns

TunnelNext ==
  \/ StreamNext /\ UNCHANGED querySem
  \/ \E g \in Reqs : Handles(g)

TunnelSpec == TunnelInit /\ [][TunnelNext]_tunnelVars

\* Runnable goroutines run, writeMu is granted to each waiter in turn, Send
\* returns once its stream is down, so does Recv after what was received before,
\* dials and store calls time out.
\* Nothing is assumed of the control plane, the network or the call of Shutdown.
Quietly(A) == A /\ UNCHANGED querySem
TunnelFairness ==
  /\ WF_tunnelVars(Quietly(Connects)) /\ SF_tunnelVars(Quietly(RecvFails))
  /\ \A s \in Streams : /\ WF_tunnelVars(Quietly(Pings(s)))
                        /\ WF_tunnelVars(Quietly(Processes(s)))
  /\ \A g \in Procs : /\ WF_tunnelVars(Quietly(Sends(g)))
                      /\ SF_tunnelVars(Quietly(LockWrite(g)))
  /\ \A g \in Reqs : WF_tunnelVars(Handles(g))
  /\ WF_tunnelVars(Quietly(WaitReturns))

-----------------------------------------------------------------------------
\* SlotsHeld.  A slot is held by a handler that is running, so no path out of
\* handleQueryRequest leaks one, and at most MaxQueries are held.
SlotsHeld ==
  /\ \A g \in querySem : pc[g] \in Sending \cup {"store", "finish"}
  /\ Cardinality(querySem) <= MaxQueries

\* Counted.  The WaitGroup counts exactly the goroutines Shutdown waits for.
Tracked == {g \in {Conn} \cup Loops \cup Reqs : pc[g] # "off"}
Counted == wg = Cardinality(Tracked)

\* AddsBeforeWait.  Once Shutdown waits, wg.Add is never called on a zero
\* counter: only a goroutine that is itself counted starts another one.
AddsBeforeWait ==
  [][(ctxDone /\ wg' > wg) => wg > 0]_tunnelVars

\* QuietAfterShutdown.  When Shutdown has returned no counted goroutine runs,
\* no stream is published and every stream is down, so that even the uncounted
\* pingLoops can deliver nothing.
QuietAfterShutdown ==
  life = "stopped" =>
    /\ Tracked = {} /\ querySem = {}
    /\ stream = 0 /\ \A s \in Streams : net[s] = "down"

\* ShutdownReturns.  Shutdown returns, unless the process is killed, even when
\* a send is stuck on a stream the control plane has stopped reading.
ShutdownReturns == (life = "stopping") ~> (life # "stopping")

\* Answered.  A request whose stream stays up is answered on that stream,
\* unless the agent shuts down or is killed.
Answered ==
  \A g \in Reqs, s \in Streams :
    (pc[g] = "start" /\ asked[g] = s)
      ~> (net[s] # "up" \/ life # "running" \/ (pc[g] = "finish" /\ via[g] = s))

\* Greets.  Hello is sent on a stream that stays up: a send that is stuck on
\* the stream before it does not hold writeMu for ever.
Greets ==
  \A s \in Streams :
    (own = s /\ ~greeted) ~> (greeted \/ net[s] # "up" \/ life # "running")

=============================================================================
