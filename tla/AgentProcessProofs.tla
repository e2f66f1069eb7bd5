-------------------------- MODULE AgentProcessProofs -------------------------
(* The control stream, the query tunnel and the resolve provider, alone and *)
(* in the life of the process, for any number of streams, requests, slots,  *)
(* environments, regions and attempts.                                      *)
(*                                                                          *)
(* The WaitGroup counts what Shutdown waits for, nothing counted is left    *)
(* when it has returned, no Add races the Wait, slots are neither leaked    *)
(* nor overdrawn, messages are sent one at a time, a stopping agent is held *)
(* up by nobody; and what a process resolves is of one region.              *)
EXTENDS AgentProcess, FiniteSetTheorems, TLAPS

\* The goroutines the WaitGroup is meant to count.
Waited == {Conn} \cup Loops \cup Reqs

LEMMA Distinct ==
  /\ Conn \notin Tickers /\ Conn \notin Reqs
  /\ \A s \in Streams : /\ Ping(s) \notin Waited /\ Loop(s) \notin Reqs
                        /\ Loop(s) # Conn /\ Ping(s) # Conn
                        /\ \A t \in Streams : /\ Ping(s) # Loop(t)
                                              /\ Loop(s) = Loop(t) => s = t
                                              /\ Ping(s) = Ping(t) => s = t
  /\ Tickers \cap Reqs = {}
  /\ Waited \subseteq Procs /\ Loops \subseteq Procs /\ Tickers \subseteq Procs
  /\ Reqs \subseteq Procs /\ Conn \in Procs
BY DEF Waited, Conn, Tickers, Loops, Reqs, Procs, Ping, Loop, Req

\* The loops of a stream are goroutines.
LEMMA StreamProcs == \A s \in Streams : Ping(s) \in Procs /\ Loop(s) \in Procs
BY DEF Procs, Tickers, Loops

LEMMA FiniteParts ==
  /\ IsFiniteSet(Reqs)
  /\ IsFiniteSet(Waited)
<1>1. IsFiniteSet(1..MaxRequests) /\ IsFiniteSet(Streams)
  BY FS_Interval, StreamAssumption DEF Streams, StreamAssumption
<1>2. IsFiniteSet(Reqs)
  <2>1. [r \in 1..MaxRequests |-> Req(r)] \in Surjection(1..MaxRequests, Reqs)
    BY DEF Surjection, Reqs
  <2> QED
    BY <1>1, <2>1, FS_Surjection
<1>3. IsFiniteSet(Loops)
  <2>1. [s \in Streams |-> Loop(s)] \in Surjection(Streams, Loops)
    BY DEF Surjection, Loops
  <2> QED
    BY <1>1, <2>1, FS_Surjection
<1>4. IsFiniteSet({Conn})
  BY FS_Singleton, Zenon
<1> QED
  BY <1>2, <1>3, <1>4, FS_Union, Zenon DEF Waited

-----------------------------------------------------------------------------
\* Where connectionLoop is, and what e.stream and its own stream then are.
ConnOK ==
  /\ pc[Conn] \in {"off", "wait", "dial", "recv", "unset", "close"} \cup Sending
  /\ pc[Conn] \in {"recv", "unset", "close"} \cup Sending => own # 0
  /\ pc[Conn] \in {"off", "wait", "dial", "close"} => stream = 0
  /\ own # 0 /\ ~greeted => pc[Ping(own)] = "off" /\ pc[Loop(own)] = "off"

\* Once rootCtx is cancelled every stream is down.
NetOK == ctxDone => \A s \in Streams : net[s] = "down"

\* All of StreamTypeOK but that wg is a number, which Counted gives.
Typed ==
  /\ pc \in [Procs -> Places]
  /\ stream \in 0..MaxStreams /\ own \in 0..MaxStreams
  /\ greeted \in BOOLEAN
  /\ net \in [Streams -> {"up", "stalled", "down"}]
  /\ cancelled \subseteq Streams
  /\ via \in [Procs -> 0..MaxStreams]
  /\ writer \in Procs \cup {Free}
  /\ asked \in [Reqs -> 0..MaxStreams]
  /\ life \in {"new", "running", "stopping", "stopped"}
  /\ querySem \subseteq Reqs

TInv == Typed /\ Counted /\ ConnOK /\ NetOK /\ SlotsHeld /\ QuietAfterShutdown

\* The stream of a connect call under way.
LEMMA OwnStream == Typed /\ own # 0 => own \in Streams
BY DEF Typed, Streams

\* A goroutine that moves, alone.
LEMMA GotoMoves ==
  ASSUME Typed, NEW g \in Procs, NEW from, NEW to \in Places, Goto(g, from, to)
  PROVE  /\ pc' \in [Procs -> Places] /\ pc[g] = from /\ pc'[g] = to
         /\ \A h \in Procs \ {g} : pc'[h] = pc[h]
BY DEF Typed, Goto

LEMMA TrackedCount ==
  ASSUME Typed
  PROVE  /\ IsFiniteSet(Tracked) /\ Cardinality(Tracked) \in Nat
         /\ \A g \in Waited : pc[g] # "off" => Cardinality(Tracked) > 0
         /\ Cardinality(Tracked) = 0 => Tracked = {}
<1>1. Tracked \subseteq Waited
  BY DEF Tracked, Waited
<1>2. IsFiniteSet(Tracked)
  BY <1>1, FiniteParts, FS_Subset
<1>3. Cardinality(Tracked) \in Nat
  BY <1>2, FS_CardinalityType
<1>4. Cardinality(Tracked) = 0 <=> Tracked = {}
  BY <1>2, FS_EmptySet
<1>5. \A g \in Waited : pc[g] # "off" => Tracked # {}
  BY DEF Tracked, Waited
<1> QED
  BY <1>2, <1>3, <1>4, <1>5

\* What a step may do to the goroutines that are counted.
Steady == (\A g \in Waited : pc'[g] = "off" <=> pc[g] = "off") /\ wg' = wg
Begins(g) ==
  /\ pc[g] = "off" /\ pc'[g] # "off" /\ wg' = wg + 1
  /\ \A h \in Waited \ {g} : pc'[h] = "off" <=> pc[h] = "off"
Finishes(g) ==
  /\ pc[g] # "off" /\ pc'[g] = "off" /\ wg' = wg - 1
  /\ \A h \in Waited \ {g} : pc'[h] = "off" <=> pc[h] = "off"

LEMMA CountedStep ==
  ASSUME Typed, Counted, Steady \/ \E g \in Waited : Begins(g) \/ Finishes(g)
  PROVE  Counted'
<1>1. IsFiniteSet(Tracked) /\ wg = Cardinality(Tracked) /\ wg \in Nat
  BY TrackedCount DEF Counted
<1>2. CASE Steady
  <2>1. Tracked' = Tracked
    BY <1>2 DEF Steady, Tracked, Waited
  <2> QED
    BY <1>2, <2>1 DEF Steady, Counted
<1>3. ASSUME NEW g \in Waited, Begins(g) PROVE Counted'
  <2>1. Tracked' = Tracked \cup {g} /\ g \notin Tracked
    BY <1>3 DEF Begins, Tracked, Waited
  <2>2. Cardinality(Tracked') = Cardinality(Tracked) + 1
    BY <1>1, <2>1, FS_AddElement
  <2> QED
    BY <1>1, <1>3, <2>2 DEF Begins, Counted
<1>4. ASSUME NEW g \in Waited, Finishes(g) PROVE Counted'
  <2>1. Tracked' = Tracked \ {g} /\ g \in Tracked
    BY <1>4 DEF Finishes, Tracked, Waited
  <2>2. Cardinality(Tracked') = Cardinality(Tracked) - 1
    BY <1>1, <2>1, FS_RemoveElement
  <2> QED
    BY <1>1, <1>4, <2>2 DEF Finishes, Counted
<1> QED
  BY <1>2, <1>3, <1>4

\* While a counted goroutine runs, Shutdown has not returned.
LEMMA Alive ==
  ASSUME TInv, NEW g \in Waited, pc[g] # "off"
  PROVE  life # "stopped" /\ wg > 0
<1>1. g \in Tracked
  BY DEF Tracked, Waited
<1> QED
  BY <1>1, TrackedCount DEF TInv, QuietAfterShutdown, Counted

\* Slots are untouched by steps in which no request moves.
LEMMA SlotsUntouched ==
  ASSUME TInv, querySem' = querySem, \A g \in Reqs : pc'[g] = pc[g]
  PROVE  SlotsHeld'
BY DEF TInv, Typed, SlotsHeld

-----------------------------------------------------------------------------
(* connectionLoop.                                                          *)

\* The steps of connectionLoop outside sendAgentMessage.
ConnStep ==
  \/ Start \/ LoopEnds \/ LoopConnects \/ DialFails \/ \E s \in Streams : Dial(s)
  \/ RecvCommand \/ RecvFails \/ Unset \/ Close

LEMMA ConnMoves ==
  ASSUME TInv, ConnStep
  PROVE  \E from \in Places, to \in Places : Goto(Conn, from, to)
BY DEF ConnStep, Start, LoopEnds, LoopConnects, DialFails, Dial, RecvCommand,
   RecvFails, Unset, Close, Places, Sending

LEMMA ConnPlaces ==
  ASSUME TInv
  PROVE  /\ Start => pc[Conn] = "off" /\ pc'[Conn] = "wait"
         /\ LoopEnds => pc[Conn] = "wait" /\ pc'[Conn] = "off"
         /\ LoopConnects => pc[Conn] = "wait" /\ pc'[Conn] = "dial"
         /\ DialFails => pc[Conn] = "dial" /\ pc'[Conn] = "wait"
         /\ \A s \in Streams : Dial(s) => pc[Conn] = "dial" /\ pc'[Conn] = "read"
         /\ RecvCommand => pc[Conn] = "recv" /\ pc'[Conn] = "read"
         /\ RecvFails => pc[Conn] = "recv" /\ pc'[Conn] = "unset"
         /\ Unset => pc[Conn] = "unset" /\ pc'[Conn] = "close"
         /\ Close => pc[Conn] = "close" /\ pc'[Conn] = "wait"
<1>1. ASSUME NEW from, NEW to, Goto(Conn, from, to)
      PROVE  pc[Conn] = from /\ pc'[Conn] = to
  BY <1>1, Distinct DEF TInv, Typed, Goto
<1> QED
  BY <1>1 DEF Start, LoopEnds, LoopConnects, DialFails, Dial, RecvCommand, RecvFails,
     Unset, Close

LEMMA ConnTyped ==
  ASSUME TInv, ConnStep, querySem' = querySem
  PROVE  Typed'
<1> USE DEF TInv, Typed
<1>1. pc' \in [Procs -> Places]
  BY ConnMoves, GotoMoves, Distinct
<1>2. CASE Start \/ LoopEnds \/ LoopConnects \/ DialFails \/ RecvCommand
  <2>1. UNCHANGED <<stream, own, greeted, net, cancelled, via, writer, asked>>
    BY <1>2 DEF Start, LoopEnds, LoopConnects, DialFails, RecvCommand, link, sends
  <2>2. life' \in {"new", "running", "stopping", "stopped"}
    BY <1>2 DEF Start, LoopEnds, LoopConnects, DialFails, RecvCommand
  <2> QED
    BY <1>1, <2>1, <2>2
<1>3. ASSUME NEW s \in Streams, Dial(s) PROVE Typed'
  <2>1. s \in 0..MaxStreams
    BY StreamAssumption DEF Streams, StreamAssumption
  <2>3. greeted' \in BOOLEAN
    BY <1>3, Zenon DEF Dial
  <2>2. net' \in [Streams -> {"up", "stalled", "down"}] /\ cancelled' \subseteq Streams
    BY <1>3 DEF Dial
  <2> QED
    BY <1>1, <1>3, <2>1, <2>2, <2>3 DEF Dial, sends
<1>4. CASE RecvFails \/ Unset \/ Close
  <2>1. own \in Streams
    BY <1>4 DEF ConnOK, RecvFails, Unset, Close, Goto, Streams
  <2>2. greeted' \in BOOLEAN
    BY <1>4, Zenon DEF RecvFails, Unset, Close
  <2>3. stream' \in 0..MaxStreams /\ own' \in 0..MaxStreams
    BY <1>4, StreamAssumption DEF RecvFails, Unset, Close, StreamAssumption
  <2>4. net' \in [Streams -> {"up", "stalled", "down"}] /\ cancelled' \subseteq Streams
    BY <1>4, <2>1, Zenon DEF RecvFails, Unset, Close
  <2> QED
    BY <1>1, <1>4, <2>2, <2>3, <2>4 DEF RecvFails, Unset, Close, sends
<1> QED
  BY <1>2, <1>3, <1>4 DEF ConnStep

LEMMA ConnTInv ==
  ASSUME TInv, ConnStep, querySem' = querySem
  PROVE  TInv'
<1>1. Typed /\ Counted /\ ConnOK /\ NetOK
  BY DEF TInv
<1>2. Typed'
  BY ConnTyped
<1>3. PICK from \in Places, to \in Places : Goto(Conn, from, to)
  BY ConnMoves
<1>4. /\ pc[Conn] = from /\ pc'[Conn] = to
      /\ \A h \in Procs \ {Conn} : pc'[h] = pc[h]
  BY <1>1, <1>3, GotoMoves, Distinct
<1>5. \A h \in Waited \ {Conn} : pc'[h] = pc[h]
  BY <1>4, Distinct
<1>6. Counted'
  <2>1. CASE Start
    <3>1. Begins(Conn)
      BY <1>5, <2>1, ConnPlaces DEF Start, Begins
    <3> QED
      BY <1>1, <3>1, CountedStep DEF Waited
  <2>2. CASE LoopEnds
    <3>1. Finishes(Conn)
      BY <1>5, <2>2, ConnPlaces DEF LoopEnds, Finishes
    <3> QED
      BY <1>1, <3>1, CountedStep DEF Waited
  <2>3. CASE ~Start /\ ~LoopEnds
    <3>1. pc[Conn] # "off" /\ pc'[Conn] # "off" /\ wg' = wg
      BY <2>3, ConnPlaces, Zenon DEF ConnStep, LoopConnects, DialFails, Dial, RecvCommand,
         RecvFails, Unset, Close
    <3> QED
      BY <1>1, <1>5, <3>1, CountedStep DEF Steady
  <2> QED
    BY <2>1, <2>2, <2>3
<1>7. ConnOK'
  <2>1. \A s \in Streams : pc'[Ping(s)] = pc[Ping(s)] /\ pc'[Loop(s)] = pc[Loop(s)]
    BY <1>4, Distinct, StreamProcs, Zenon
  <2>2. own \in Streams \cup {0} /\ own' \in Streams \cup {0}
    BY <1>1, <1>2 DEF Typed, Streams
  <2>3. CASE Start \/ LoopEnds \/ LoopConnects \/ DialFails \/ RecvCommand \/ RecvFails
    <3>1. UNCHANGED <<stream, own, greeted>>
      BY <2>3 DEF Start, LoopEnds, LoopConnects, DialFails, RecvCommand, RecvFails, link
    <3>2. \/ from \in {"off", "wait", "dial"} /\ to \in {"off", "wait", "dial"}
          \/ from = "recv" /\ to \in {"read", "unset"}
      BY <1>4, <2>3, ConnPlaces
    <3> QED
      BY <1>1, <1>4, <2>1, <2>2, <3>1, <3>2 DEF ConnOK, Sending
  <2>4. ASSUME NEW s \in Streams, Dial(s) PROVE ConnOK'
    <3>1. own' = s /\ pc[Ping(s)] = "off" /\ pc[Loop(s)] = "off"
      BY <2>4 DEF Dial, Unused
    <3>2. s # 0
      BY DEF Streams
    <3>3. pc'[Conn] = "read"
      BY <2>4, ConnPlaces
    <3> QED
      BY <2>1, <3>1, <3>2, <3>3 DEF ConnOK, Sending
  <2>5. CASE Unset
    BY <1>1, <2>1, <2>2, <2>5, ConnPlaces DEF Unset, ConnOK, Sending
  <2>6. CASE Close
    BY <1>1, <2>6, ConnPlaces, Zenon DEF Close, ConnOK, Sending
  <2> QED
    BY <2>3, <2>4, <2>5, <2>6 DEF ConnStep
<1>8. NetOK'
  BY <1>1 DEF ConnStep, Start, LoopEnds, LoopConnects, DialFails, Dial, RecvCommand,
     RecvFails, Unset, Close, link, NetOK, ctxDone, Typed
<1>9. SlotsHeld'
  BY <1>4, Distinct, SlotsUntouched
<1>10. life' # "stopped"
  <2>1. CASE Start
    BY <2>1 DEF Start
  <2>2. CASE ~Start
    <3>1. pc[Conn] # "off" /\ life' = life
      BY <2>2 DEF ConnStep, LoopEnds, LoopConnects, DialFails, Dial, RecvCommand,
         RecvFails, Unset, Close, Goto
    <3> QED
      BY <3>1, Alive DEF Waited
  <2> QED
    BY <2>1, <2>2
<1> QED
  BY <1>2, <1>6, <1>7, <1>8, <1>9, <1>10 DEF TInv, QuietAfterShutdown

-----------------------------------------------------------------------------
(* sendAgentMessage, by any of the goroutines.                              *)

SendStep(g) ==
  \/ \E from \in {"read", "tick"} : ReadStream(g, from) \/ ReadNoStream(g, from)
  \/ LockWrite(g) \/ Send(g) \/ SendFails(g)

\* The first message of a connect call is Hello, and starts the loops.
Hello(g) ==
  /\ g = Conn /\ ~greeted /\ greeted' = TRUE /\ wg' = wg + 1
  /\ pc' = [pc EXCEPT ![g] = "recv", ![Ping(own)] = "tick", ![Loop(own)] = "tick"]

\* Where a sender goes otherwise.
Next1(g) == IF g \in Reqs THEN {"lock", "send", "finish"}
            ELSE IF g = Conn THEN {"lock", "send", "recv", "unset"}
            ELSE IF g \in Loops THEN {"lock", "send", "tick"}
            ELSE {"lock", "send", "tick", "off"}

LEMMA SendMoves ==
  ASSUME TInv, NEW g \in Procs, SendStep(g)
  PROVE  /\ pc[g] \in Sending \cup {"tick"}
         /\ UNCHANGED <<stream, own, net, cancelled, asked, life>>
         /\ \/ Hello(g)
            \/ /\ UNCHANGED <<greeted, wg>>
               /\ \E to \in Next1(g) : pc' = [pc EXCEPT ![g] = to]
<1>1. UNCHANGED <<stream, own, net, cancelled, asked, life>>
  BY DEF SendStep, ReadStream, ReadNoStream, LockWrite, Send, SendFails, link, sends
<1>2. pc[g] \in Sending \cup {"tick"}
  BY DEF SendStep, ReadStream, ReadNoStream, LockWrite, Send, SendFails, Goto, Sending
<1>3. g \in Tickers \/ g \in Reqs \/ g = Conn
  BY DEF Procs
<1>4. CASE \E from \in {"read", "tick"} : ReadStream(g, from)
  <2>1. UNCHANGED <<greeted, wg>> /\ pc' = [pc EXCEPT ![g] = "lock"]
    BY <1>4 DEF ReadStream, Goto, link
  <2> QED
    BY <1>1, <1>2, <2>1, Zenon DEF Next1
<1>5. CASE LockWrite(g)
  <2>1. UNCHANGED <<greeted, wg>> /\ pc' = [pc EXCEPT ![g] = "send"]
    BY <1>5 DEF LockWrite, Goto, link
  <2> QED
    BY <1>1, <1>2, <2>1, Zenon DEF Next1
<1>6. CASE SendFails(g)
  <2>1. UNCHANGED <<greeted, wg>>
    BY <1>6 DEF SendFails, link
  <2>2. PICK to : /\ pc' = [pc EXCEPT ![g] = to]
                  /\ to = CASE g = Conn -> IF greeted THEN "recv" ELSE "unset"
                            [] g \in Loops -> "tick"
                            [] g \in Reqs -> "finish"
                            [] OTHER -> "off"
    BY <1>6, Zenon DEF SendFails, NotSent
  <2>3. to \in Next1(g)
    BY <1>3, <2>2, Distinct DEF Next1, Tickers
  <2> QED
    BY <1>1, <1>2, <2>1, <2>2, <2>3, Zenon
<1>7. CASE Sent(g)
  <2>1. CASE g = Conn
    BY <1>1, <1>2, <1>7, <2>1, Distinct DEF Sent, Hello, Next1
  <2>2. CASE g # Conn
    BY <1>1, <1>2, <1>7, <2>2, Distinct DEF Sent, Next1, Tickers
  <2> QED
    BY <2>1, <2>2
<1> QED
  BY <1>4, <1>5, <1>6, <1>7 DEF SendStep, ReadNoStream, Send

LEMMA SendTyped ==
  ASSUME TInv, NEW g \in Procs, SendStep(g), querySem' = querySem
  PROVE  Typed'
<1> USE DEF TInv, Typed
<1>1. UNCHANGED <<stream, own, net, cancelled, asked, life>>
  BY SendMoves
<1>2. greeted' \in BOOLEAN
  BY SendMoves, Zenon DEF Hello
<1>3. pc' \in [Procs -> Places]
  <2>1. CASE Hello(g)
    BY <2>1, Zenon DEF Hello, Places
  <2>2. CASE \E to \in Next1(g) : pc' = [pc EXCEPT ![g] = to]
    <3>1. Next1(g) \subseteq Places
      BY DEF Next1, Places, Sending
    <3> QED
      BY <2>2, <3>1
  <2> QED
    BY <2>1, <2>2, SendMoves
<1>4. via' \in [Procs -> 0..MaxStreams]
  BY StreamAssumption DEF SendStep, ReadStream, ReadNoStream, LockWrite, Send,
     SendFails, sends, StreamAssumption
<1>5. writer' \in Procs \cup {Free}
  BY DEF SendStep, ReadStream, ReadNoStream, LockWrite, Send, SendFails, sends
<1> QED
  BY <1>1, <1>2, <1>3, <1>4, <1>5

LEMMA SendTInv ==
  ASSUME TInv, NEW g \in Procs, SendStep(g), querySem' = querySem
  PROVE  TInv'
<1>1. Typed /\ Counted /\ ConnOK /\ NetOK /\ SlotsHeld
  BY DEF TInv
<1>2. Typed'
  BY SendTyped
<1>3. /\ pc[g] \in Sending \cup {"tick"} /\ pc[g] # "off"
      /\ UNCHANGED <<stream, own, net, cancelled, asked, life>>
  BY SendMoves DEF Sending
<1>4. NetOK'
  BY <1>1, <1>3 DEF NetOK, ctxDone
<1>5. CASE Hello(g)
  <2>1. g = Conn /\ own \in Streams /\ own # 0
    BY <1>1, <1>3, <1>5 DEF Hello, ConnOK, Typed, Streams, Sending
  <2>2. /\ pc[Loop(own)] = "off" /\ Loop(own) \in Procs /\ Ping(own) \in Procs
        /\ Loop(own) \in Waited
    BY <1>1, <1>5, <2>1, Distinct DEF ConnOK, Hello, Loops, Tickers, Waited, Procs
  <2>3. /\ pc'[Conn] = "recv" /\ pc'[Loop(own)] = "tick"
        /\ \A h \in Procs \ {Conn, Loop(own), Ping(own)} : pc'[h] = pc[h]
    <3>1. Conn # Ping(own) /\ Conn # Loop(own) /\ Ping(own) # Loop(own) /\ Conn \in Procs
      BY <2>1, Distinct
    <3>2. pc' = [pc EXCEPT ![Conn] = "recv", ![Ping(own)] = "tick", ![Loop(own)] = "tick"]
      BY <1>5, <2>1 DEF Hello
    <3>3. DOMAIN pc = Procs
      BY <1>1 DEF Typed
    <3> QED
      BY <2>2, <3>1, <3>2, <3>3
  <2>4. \A h \in Waited \ {Conn, Loop(own)} : pc'[h] = pc[h]
    BY <2>1, <2>3, Distinct
  <2>5. Begins(Loop(own))
    BY <1>3, <1>5, <2>1, <2>2, <2>3, <2>4, Zenon DEF Begins, Hello
  <2>6. Counted'
    BY <1>1, <2>2, <2>5, CountedStep
  <2>7. ConnOK'
    BY <1>3, <1>5, <2>1, <2>3 DEF ConnOK, Hello, Sending
  <2>8. SlotsHeld'
    <3>1. ASSUME NEW h \in Reqs PROVE pc'[h] = pc[h]
      BY <2>1, <2>3, Distinct DEF Waited
    <3> QED
      BY <3>1, SlotsUntouched
  <2>9. life' # "stopped"
    BY <1>3, <2>1, Alive DEF Waited
  <2> QED
    BY <1>2, <1>4, <2>6, <2>7, <2>8, <2>9 DEF TInv, QuietAfterShutdown
<1>6. CASE ~Hello(g)
  <2>1. PICK to \in Next1(g) : pc' = [pc EXCEPT ![g] = to]
    BY <1>6, SendMoves
  <2>2. UNCHANGED <<greeted, wg>>
    BY <1>6, SendMoves
  <2>3. pc'[g] = to /\ \A h \in Procs \ {g} : pc'[h] = pc[h]
    BY <1>1, <2>1 DEF Typed
  <2>4. g \in Waited => to # "off"
    BY Distinct DEF Next1, Waited
  <2>5. Steady
    BY <1>3, <2>2, <2>3, <2>4, Distinct DEF Steady
  <2>6. Counted'
    BY <1>1, <2>5, CountedStep
  <2>7. ConnOK'
    <3>1. CASE g = Conn
      <4>1. to \in {"lock", "send", "recv", "unset"} /\ own # 0
        BY <1>1, <1>3, <3>1, Distinct DEF Next1, ConnOK, Sending
      <4>2. own \in Streams
        BY <1>1, <4>1, OwnStream, Zenon
      <4>3. pc'[Ping(own)] = pc[Ping(own)] /\ pc'[Loop(own)] = pc[Loop(own)]
        BY <2>3, <3>1, <4>2, Distinct, StreamProcs, Zenon
      <4> QED
        BY <1>1, <1>3, <2>2, <2>3, <3>1, <4>1, <4>3 DEF ConnOK, Sending
    <3>2. CASE g # Conn
      <4>1. pc'[Conn] = pc[Conn]
        BY <2>3, <3>2, Distinct
      <4>2. ASSUME own # 0, ~greeted
            PROVE  pc'[Ping(own)] = "off" /\ pc'[Loop(own)] = "off"
        <5>1. own \in Streams
          BY <1>1, <4>2, OwnStream, Zenon
        <5>2. pc[Ping(own)] = "off" /\ pc[Loop(own)] = "off"
          BY <1>1, <4>2 DEF ConnOK
        <5>3. Ping(own) \in Procs /\ Loop(own) \in Procs
          BY <5>1, StreamProcs, Zenon
        <5> QED
          BY <1>3, <2>3, <5>2, <5>3
      <4> QED
        BY <1>1, <1>3, <2>2, <4>1, <4>2 DEF ConnOK
    <3> QED
      BY <3>1, <3>2
  <2>8. SlotsHeld'
    <3>1. ASSUME NEW h \in querySem PROVE pc'[h] \in Sending \cup {"store", "finish"}
      <4>1. h \in Reqs /\ h \in Procs /\ pc[h] \in Sending \cup {"store", "finish"}
        BY <1>1, <3>1, Distinct DEF Typed, SlotsHeld
      <4>2. CASE h = g
        BY <2>3, <4>1, <4>2 DEF Next1, Sending
      <4> QED
        BY <2>3, <4>1, <4>2
    <3> QED
      BY <1>1, <3>1 DEF SlotsHeld
  <2>9. QuietAfterShutdown'
    <3> SUFFICES ASSUME life' = "stopped"
                 PROVE  /\ Tracked' = {} /\ querySem' = {} /\ stream' = 0
                        /\ \A s \in Streams : net'[s] = "down"
      BY DEF QuietAfterShutdown
    <3>1. Tracked = {} /\ querySem = {} /\ stream = 0 /\ \A s \in Streams : net[s] = "down"
      BY <1>3 DEF TInv, QuietAfterShutdown
    <3>2. Tracked' = Tracked
      BY <2>5 DEF Steady, Tracked, Waited
    <3> QED
      BY <1>3, <3>1, <3>2
  <2> QED
    BY <1>2, <1>4, <2>6, <2>7, <2>8, <2>9 DEF TInv
<1> QED
  BY <1>5, <1>6

-----------------------------------------------------------------------------
(* Loops that stop.                                                         *)

LEMMA StopTInv ==
  ASSUME TInv, NEW s \in Streams, PingStops(s) \/ LoopStops(s), querySem' = querySem
  PROVE  TInv'
<1>1. Typed /\ Counted /\ ConnOK /\ NetOK
  BY DEF TInv
<1>2. Ping(s) \in Procs /\ Loop(s) \in Procs /\ Loop(s) \in Waited
  BY DEF Procs, Tickers, Loops, Waited
<1>3. PICK g \in {Ping(s), Loop(s)} : Goto(g, "tick", "off")
  BY DEF PingStops, LoopStops
<1>4. /\ pc' \in [Procs -> Places] /\ pc[g] = "tick" /\ pc'[g] = "off"
      /\ \A h \in Procs \ {g} : pc'[h] = pc[h]
  BY <1>1, <1>2, <1>3, GotoMoves DEF Places
<1>5. UNCHANGED <<stream, own, greeted, net, cancelled, via, writer, asked, life>>
  BY DEF PingStops, LoopStops, link, sends
<1>6. Typed'
  BY <1>1, <1>4, <1>5 DEF Typed
<1>7. Counted'
  <2>1. CASE PingStops(s)
    <3>1. Goto(Ping(s), "tick", "off") /\ wg' = wg
      BY <2>1 DEF PingStops
    <3>2. \A h \in Procs \ {Ping(s)} : pc'[h] = pc[h]
      BY <1>1, <1>2, <3>1, GotoMoves DEF Places
    <3>3. Steady
      BY <3>1, <3>2, Distinct DEF Steady
    <3> QED
      BY <1>1, <3>3, CountedStep
  <2>2. CASE LoopStops(s)
    <3>1. Goto(Loop(s), "tick", "off") /\ wg' = wg - 1
      BY <2>2 DEF LoopStops
    <3>2. /\ pc[Loop(s)] = "tick" /\ pc'[Loop(s)] = "off"
          /\ \A h \in Procs \ {Loop(s)} : pc'[h] = pc[h]
      BY <1>1, <1>2, <3>1, GotoMoves DEF Places
    <3>3. Finishes(Loop(s))
      BY <3>1, <3>2, Distinct DEF Finishes
    <3> QED
      BY <1>1, <1>2, <3>3, CountedStep
  <2> QED
    BY <2>1, <2>2
<1>8. pc'[Conn] = pc[Conn] /\ \A h \in Reqs : pc'[h] = pc[h]
  BY <1>4, Distinct DEF Loops, Tickers
<1>9. ConnOK'
  <2>1. ASSUME own # 0, ~greeted
        PROVE  pc'[Ping(own)] = "off" /\ pc'[Loop(own)] = "off"
    <3>1. own \in Streams
      BY <1>1, <2>1 DEF Typed, Streams
    <3>2. Ping(own) \in Procs /\ Loop(own) \in Procs
      BY <3>1, StreamProcs, Zenon
    <3> QED
      BY <1>1, <1>4, <2>1, <3>2 DEF ConnOK
  <2> QED
    BY <1>1, <1>5, <1>8, <2>1 DEF ConnOK
<1>10. NetOK'
  BY <1>1, <1>5 DEF NetOK, ctxDone
<1>11. SlotsHeld'
  BY <1>8, SlotsUntouched
<1>12. QuietAfterShutdown'
  <2>1. Tracked' \subseteq Tracked
    BY <1>4, Distinct DEF Tracked, Waited
  <2> QED
    BY <1>5, <2>1 DEF TInv, QuietAfterShutdown
<1> QED
  BY <1>6, <1>7, <1>9, <1>10, <1>11, <1>12 DEF TInv

-----------------------------------------------------------------------------
(* Requests.                                                                *)

\* A handler is started, runs and returns.
LEMMA RequestTInv ==
  ASSUME TInv, NEW g \in Reqs, (RecvRequest(g) /\ querySem' = querySem) \/ Handles(g)
  PROVE  TInv'
<1>1. Typed /\ Counted /\ ConnOK /\ NetOK /\ SlotsHeld
  BY DEF TInv
<1>2. g \in Procs /\ g \in Waited /\ g # Conn
  BY Distinct DEF Waited
<1>3. PICK from \in {"off", "start", "store", "finish"},
           to \in {"off", "start", "store", "read"} :
        /\ Goto(g, from, to)
        /\ from = "off" <=> to = "start"
        /\ from = "finish" <=> to = "off"
        /\ to = "start" => RecvRequest(g)
        /\ to = "off" => Finish(g)
        /\ to \notin {"start", "off"} => wg' = wg
  BY DEF RecvRequest, Handles, Busy, Refuse, AskStore, StoreReturns, UpdateApplied,
     Finish, Rest
<1>4. /\ pc' \in [Procs -> Places] /\ pc[g] = from /\ pc'[g] = to
      /\ \A h \in Procs \ {g} : pc'[h] = pc[h]
  BY <1>1, <1>2, <1>3, GotoMoves DEF Places, Sending
<1>5. UNCHANGED <<stream, own, greeted, net, cancelled, writer, life>>
  BY DEF RecvRequest, Handles, Busy, Refuse, AskStore, StoreReturns, UpdateApplied,
     Finish, Rest, link, sends
<1>6. via' \in [Procs -> 0..MaxStreams] /\ asked' \in [Reqs -> 0..MaxStreams]
  BY <1>1, StreamAssumption DEF RecvRequest, Handles, Busy, Refuse, AskStore,
     StoreReturns, UpdateApplied, Finish, Rest, link, sends, Typed, StreamAssumption
<1>7. \/ querySem' = querySem /\ to # "off"
      \/ querySem' = querySem \cup {g} /\ to \in {"store", "read"}
                                       /\ Cardinality(querySem) < MaxQueries
      \/ querySem' = querySem \ {g} /\ to = "off"
  BY <1>3, <1>4 DEF RecvRequest, Handles, Busy, Refuse, AskStore, StoreReturns,
     UpdateApplied, Finish, TakeSlot, Goto
<1>8. Typed'
  BY <1>1, <1>4, <1>5, <1>6, <1>7 DEF Typed
<1>9. Counted'
  <2>1. CASE to = "start"
    <3>1. Begins(g)
      BY <1>3, <1>4, <2>1, Distinct DEF RecvRequest, Begins
    <3> QED
      BY <1>1, <1>2, <3>1, CountedStep
  <2>2. CASE to = "off"
    <3>1. Finishes(g)
      BY <1>3, <1>4, <2>2, Distinct DEF Finish, Finishes
    <3> QED
      BY <1>1, <1>2, <3>1, CountedStep
  <2>3. CASE to \in {"store", "read"}
    <3>1. Steady
      BY <1>3, <1>4, <2>3, Distinct DEF Steady
    <3> QED
      BY <1>1, <3>1, CountedStep
  <2> QED
    BY <2>1, <2>2, <2>3
<1>10. ConnOK'
  <2>1. pc'[Conn] = pc[Conn]
    BY <1>2, <1>4, Distinct
  <2>2. \A s \in Streams : pc'[Ping(s)] = pc[Ping(s)] /\ pc'[Loop(s)] = pc[Loop(s)]
    <3>1. \A s \in Streams : /\ Ping(s) \in Tickers /\ Loop(s) \in Tickers
      BY DEF Tickers, Loops
    <3> QED
      BY <1>4, <3>1, Distinct
  <2>3. own \in Streams \cup {0}
    BY <1>1 DEF Typed, Streams
  <2> QED
    BY <1>1, <1>5, <2>1, <2>2, <2>3 DEF ConnOK
<1>11. NetOK'
  BY <1>1, <1>5 DEF NetOK, ctxDone
<1>12. SlotsHeld'
  <2>1. \A h \in querySem' : pc'[h] \in Sending \cup {"store", "finish"}
    <3> SUFFICES ASSUME NEW h \in querySem' PROVE pc'[h] \in Sending \cup {"store", "finish"}
      OBVIOUS
    <3>1. CASE h = g
      BY <1>1, <1>3, <1>4, <1>7, <3>1 DEF SlotsHeld, Sending
    <3>2. CASE h # g
      BY <1>1, <1>4, <1>7, <3>2, Distinct DEF SlotsHeld, Typed
    <3> QED
      BY <3>1, <3>2
  <2>2. IsFiniteSet(querySem) /\ Cardinality(querySem) \in Nat
    BY <1>1, FiniteParts, FS_Subset, FS_CardinalityType DEF Typed
  <2>3. Cardinality(querySem') <= MaxQueries
    <3>1. CASE querySem' = querySem \cup {g} /\ Cardinality(querySem) < MaxQueries
      <4>1. Cardinality(querySem \cup {g}) <= Cardinality(querySem) + 1
        BY <2>2, FS_AddElement
      <4>2. Cardinality(querySem \cup {g}) \in Nat
        BY <2>2, FS_AddElement, FS_CardinalityType
      <4> QED
        BY <2>2, <3>1, <4>1, <4>2, TunnelAssumption DEF TunnelAssumption
    <3>2. CASE querySem' = querySem \ {g}
      <4>1. Cardinality(querySem \ {g}) <= Cardinality(querySem)
        BY <2>2, querySem \ {g} \subseteq querySem, FS_Subset
      <4>2. Cardinality(querySem \ {g}) \in Nat
        BY <2>2, FS_RemoveElement, FS_CardinalityType
      <4> QED
        BY <1>1, <2>2, <3>2, <4>1, <4>2, TunnelAssumption DEF SlotsHeld, TunnelAssumption
    <3> QED
      BY <1>1, <1>7, <3>1, <3>2 DEF SlotsHeld
  <2> QED
    BY <2>1, <2>3 DEF SlotsHeld
<1>13. life' # "stopped"
  <2>1. CASE RecvRequest(g)
    BY <1>5, <2>1, Alive DEF RecvRequest, Waited
  <2>2. CASE Handles(g)
    <3>1. pc[g] # "off"
      BY <2>2 DEF Handles, Busy, Refuse, AskStore, StoreReturns, UpdateApplied, Finish, Goto
    <3> QED
      BY <1>2, <1>5, <3>1, Alive
  <2> QED
    BY <2>1, <2>2
<1> QED
  BY <1>8, <1>9, <1>10, <1>11, <1>12, <1>13, Zenon DEF TInv, QuietAfterShutdown

-----------------------------------------------------------------------------
(* The network, and Shutdown.                                               *)

LEMMA OutsideTInv ==
  ASSUME TInv, querySem' = querySem,
         (\E s \in Streams : Break(s) \/ Stall(s)) \/ Cancel \/ WaitReturns
  PROVE  TInv'
<1>1. Typed /\ Counted /\ ConnOK /\ NetOK /\ SlotsHeld /\ QuietAfterShutdown
  BY DEF TInv
<1>2. UNCHANGED <<pc, stream, own, greeted, via, writer, asked, wg>>
  BY DEF Break, Stall, Cancel, WaitReturns, link, sends
<1>3. /\ net' \in [Streams -> {"up", "stalled", "down"}] /\ cancelled' \subseteq Streams
      /\ life' \in {"new", "running", "stopping", "stopped"}
  BY <1>1 DEF Break, Stall, Cancel, WaitReturns, link, Typed
<1>4. Typed'
  BY <1>1, <1>2, <1>3 DEF Typed
<1>5. Counted' /\ ConnOK' /\ SlotsHeld'
  BY <1>1, <1>2 DEF Counted, Tracked, ConnOK, SlotsHeld
<1>6. NetOK'
  BY <1>1 DEF NetOK, ctxDone, Break, Stall, Cancel, WaitReturns, link, Typed
<1>7. QuietAfterShutdown'
  <2>1. CASE WaitReturns
    <3>1. Tracked = {}
      BY <1>1, <2>1, TrackedCount DEF WaitReturns, Counted
    <3>2. pc[Conn] = "off" /\ stream = 0
      BY <1>1, <3>1 DEF Tracked, ConnOK
    <3>3. querySem = {}
      BY <1>1, <3>1 DEF Tracked, SlotsHeld, Typed, Sending
    <3>4. Tracked' = Tracked
      BY <1>2 DEF Tracked
    <3>5. \A s \in Streams : net'[s] = "down"
      BY <1>1, <2>1 DEF WaitReturns, NetOK, ctxDone, link
    <3> QED
      BY <1>2, <3>1, <3>2, <3>3, <3>4, <3>5 DEF QuietAfterShutdown
  <2>2. CASE Cancel
    BY <2>2 DEF Cancel, QuietAfterShutdown
  <2>3. ASSUME NEW s \in Streams, Break(s) \/ Stall(s) PROVE QuietAfterShutdown'
    <3>1. life # "stopped" /\ life' = life
      BY <1>1, <2>3 DEF Break, Stall, QuietAfterShutdown
    <3> QED
      BY <3>1 DEF QuietAfterShutdown
  <2> QED
    BY <2>1, <2>2, <2>3
<1> QED
  BY <1>4, <1>5, <1>6, <1>7 DEF TInv

-----------------------------------------------------------------------------
(* The invariant, and what follows from it.                                 *)

LEMMA InitTInv == TunnelInit => TInv
<1> SUFFICES ASSUME TunnelInit PROVE TInv
  OBVIOUS
<1>1. Typed
  <2>1. 0 \in 0..MaxStreams
    BY StreamAssumption DEF StreamAssumption
  <2> QED
    BY <2>1, Zenon DEF TunnelInit, StreamInit, Typed, Places
<1>2. Tracked = {}
  <2>1. ASSUME NEW g \in Waited PROVE pc[g] = "off"
    BY Distinct DEF TunnelInit, StreamInit
  <2> QED
    BY <2>1 DEF Tracked, Waited
<1>3. Counted
  BY <1>2, FS_EmptySet DEF TunnelInit, StreamInit, Counted
<1>4. ConnOK
  BY Distinct DEF TunnelInit, StreamInit, ConnOK, Sending
<1>5. NetOK /\ QuietAfterShutdown
  BY DEF TunnelInit, StreamInit, NetOK, ctxDone, QuietAfterShutdown
<1>6. SlotsHeld
  BY FS_EmptySet, TunnelAssumption DEF TunnelInit, SlotsHeld, TunnelAssumption
<1> QED
  BY <1>1, <1>3, <1>4, <1>5, <1>6 DEF TInv

LEMMA NextTInv == TInv /\ [TunnelNext]_tunnelVars => TInv'
<1> SUFFICES ASSUME TInv, [TunnelNext]_tunnelVars PROVE TInv'
  OBVIOUS
<1>1. CASE UNCHANGED tunnelVars
  BY <1>1 DEF tunnelVars, streamVars, TInv, Typed, Counted, Tracked, ConnOK, NetOK,
     ctxDone, SlotsHeld, QuietAfterShutdown
<1>2. ASSUME NEW g \in Reqs, Handles(g) PROVE TInv'
  BY <1>2, RequestTInv
<1>3. CASE StreamNext /\ querySem' = querySem
  <2>1. CASE Start \/ Connects \/ RecvCommand
    BY <1>3, <2>1, ConnTInv DEF Connects, ConnStep
  <2>2. ASSUME NEW g \in Procs, Sends(g) PROVE TInv'
    BY <1>3, <2>2, SendTInv DEF Sends, SendStep
  <2>3. ASSUME NEW g \in Reqs, RecvRequest(g) PROVE TInv'
    BY <1>3, <2>3, RequestTInv
  <2>4. ASSUME NEW s \in Streams, Ticks(Ping(s)) \/ Ticks(Loop(s)) PROVE TInv'
    <3>1. Ping(s) \in Procs /\ Loop(s) \in Procs
      BY StreamProcs, Zenon
    <3> QED
      BY <1>3, <2>4, <3>1, SendTInv DEF Ticks, SendStep
  <2>5. ASSUME NEW s \in Streams, PingStops(s) \/ LoopStops(s) PROVE TInv'
    BY <1>3, <2>5, StopTInv
  <2>6. CASE (\E s \in Streams : Break(s) \/ Stall(s)) \/ Cancel \/ WaitReturns
    BY <1>3, <2>6, OutsideTInv
  <2> QED
    BY <1>3, <2>1, <2>2, <2>3, <2>4, <2>5, <2>6 DEF StreamNext, Pings, Processes
<1> QED
  BY <1>1, <1>2, <1>3 DEF TunnelNext

LEMMA TInvTyped == TInv => TunnelTypeOK
<1> SUFFICES ASSUME TInv PROVE TunnelTypeOK
  OBVIOUS
<1>1. wg \in Nat
  BY TrackedCount DEF TInv, Counted
<1> QED
  BY <1>1 DEF TInv, Typed, TunnelTypeOK, StreamTypeOK

\* No path out of handleQueryRequest leaks its slot of querySem, and at most
\* maxConcurrentQueries are held (query_handler.go).
THEOREM SlotsNeverLeak == TunnelSpec => []SlotsHeld
<1>1. TInv => SlotsHeld
  BY DEF TInv
<1> QED
  BY <1>1, InitTInv, NextTInv, PTL DEF TunnelSpec

\* e.wg counts exactly connectionLoop, the processor loops and the handlers
\* that run, through reconnects, failed sends and refusals (extension.go).
THEOREM WaitGroupIsExact == TunnelSpec => []Counted
<1>1. TInv => Counted
  BY DEF TInv
<1> QED
  BY <1>1, InitTInv, NextTInv, PTL DEF TunnelSpec

\* When Shutdown has returned, no goroutine it waits for is left, no stream is
\* published, no slot is held and every stream is down.
THEOREM NothingAfterShutdown == TunnelSpec => []QuietAfterShutdown
<1>1. TInv => QuietAfterShutdown
  BY DEF TInv
<1> QED
  BY <1>1, InitTInv, NextTInv, PTL DEF TunnelSpec

\* What connectionLoop, a handler or Shutdown does when wg.Add is called: one
\* of the goroutines that are counted is running.
LEMMA AddCovered ==
  ASSUME TInv, TunnelNext, ctxDone, wg' > wg PROVE wg > 0
<1>1. wg \in Nat
  BY TrackedCount DEF TInv, Counted
<1>2. ASSUME NEW g \in Procs, SendStep(g) PROVE wg > 0
  <2>1. Hello(g)
    BY <1>1, <1>2, SendMoves
  <2>2. pc[Conn] # "off"
    BY <1>2, <2>1, SendMoves, Zenon DEF Hello, Sending
  <2> QED
    BY <2>2, Alive DEF Waited
<1>3. ASSUME NEW g \in Reqs, RecvRequest(g) PROVE wg > 0
  BY <1>3, Alive DEF RecvRequest, Waited
<1>4. ASSUME NEW g \in Reqs, Handles(g) PROVE wg' = wg \/ wg' = wg - 1
  BY <1>4 DEF Handles, Busy, Refuse, AskStore, StoreReturns, UpdateApplied, Finish, Rest
<1>5. ~Start
  BY DEF Start, ctxDone
<1>6. CASE \/ Connects \/ RecvCommand \/ Cancel \/ WaitReturns
           \/ \E s \in Streams : PingStops(s) \/ LoopStops(s) \/ Break(s) \/ Stall(s)
  <2>1. wg' = wg \/ wg' = wg - 1
    BY <1>6 DEF Connects, LoopEnds, LoopConnects, DialFails, Dial, RecvFails, Unset,
       Close, RecvCommand, Cancel, WaitReturns, PingStops, LoopStops, Break, Stall
  <2> QED
    BY <1>1, <2>1
<1>7. CASE \E g \in Procs : Sends(g)
  BY <1>2, <1>7 DEF Sends, SendStep
<1>8. CASE \E s \in Streams : Ticks(Ping(s)) \/ Ticks(Loop(s))
  <2>1. \A s \in Streams : Ping(s) \in Procs /\ Loop(s) \in Procs
    BY StreamProcs, Zenon
  <2> QED
    BY <1>2, <1>8, <2>1 DEF Ticks, SendStep
<1>9. CASE \E g \in Reqs : Handles(g)
  BY <1>1, <1>4, <1>9
<1>10. CASE StreamNext
  BY <1>3, <1>5, <1>6, <1>7, <1>8, <1>10 DEF StreamNext, Pings, Processes
<1> QED
  BY <1>9, <1>10 DEF TunnelNext

\* wg.Add never races wg.Wait: once Shutdown has cancelled rootCtx, a goroutine
\* is started only while the counter is positive.
THEOREM NoLateAdd == TunnelSpec => AddsBeforeWait
<1>1. TInv /\ [TunnelNext]_tunnelVars => [(ctxDone /\ wg' > wg) => wg > 0]_tunnelVars
  BY AddCovered
<1> QED
  BY <1>1, InitTInv, NextTInv, PTL DEF TunnelSpec, AddsBeforeWait

-----------------------------------------------------------------------------
(* writeMu.                                                                 *)

\* OneWriter.  At most one goroutine is inside stream.Send, which must not be
\* called concurrently: it holds writeMu, and writeMu is held by nobody else
\* (sendAgentMessage).
OneWriter == \A g \in Procs : pc[g] = "send" <=> writer = g

LEMMA FreeIsNobody == Free \notin Procs
BY DEF Free, Procs, Conn, Tickers, Loops, Reqs, Ping, Loop, Req

\* A goroutine that is not sending moves, and does not begin to send.
LEMMA WriterKept ==
  ASSUME Typed, OneWriter, NEW g \in Procs, NEW to \in Places \ {"send"},
         pc[g] # "send", pc' = [pc EXCEPT ![g] = to], writer' = writer
  PROVE  OneWriter'
BY DEF Typed, OneWriter

LEMMA WriterSends ==
  ASSUME TInv, OneWriter, NEW g \in Procs, SendStep(g)
  PROVE  OneWriter'
<1>1. Typed /\ ConnOK
  BY DEF TInv
<1>2. Free \notin Procs
  BY FreeIsNobody
<1>3. CASE \E from \in {"read", "tick"} : ReadStream(g, from)
  BY <1>1, <1>3, WriterKept, Zenon DEF ReadStream, Goto, Places, Sending
<1>4. CASE LockWrite(g)
  BY <1>1, <1>2, <1>4 DEF LockWrite, Goto, Typed, OneWriter
<1>5. CASE /\ writer' = IF pc[g] = "send" THEN Free ELSE writer
           /\ pc'[g] # "send"
           /\ \A h \in Procs \ {g} : pc'[h] = "send" <=> pc[h] = "send"
  BY <1>1, <1>2, <1>5 DEF Typed, OneWriter
<1>6. ASSUME Sent(g) \/ NotSent(g)
      PROVE  /\ pc'[g] # "send"
             /\ \A h \in Procs \ {g} : pc'[h] = "send" <=> pc[h] = "send"
  <2>1. CASE NotSent(g)
    BY <1>1, <2>1 DEF NotSent, Typed
  <2>2. CASE Sent(g) /\ ~(g = Conn /\ ~greeted)
    BY <1>1, <2>2, Distinct DEF Sent, Typed
  <2>3. CASE Sent(g) /\ g = Conn /\ ~greeted
    <3>1. pc' = [pc EXCEPT ![g] = "recv", ![Ping(own)] = "tick", ![Loop(own)] = "tick"]
      BY <2>3, Distinct DEF Sent
    <3>2. pc[g] \in Sending
      BY <2>3, SendMoves, <1>1 DEF ConnOK, Sending
    <3>3. own \in Streams
      BY <1>1, <2>3, <3>2 DEF ConnOK, Typed, Streams
    <3>4. pc[Ping(own)] = "off" /\ pc[Loop(own)] = "off"
      BY <1>1, <2>3, <3>3 DEF ConnOK, Streams
    <3> QED
      BY <1>1, <2>3, <3>1, <3>3, <3>4, Distinct DEF Typed
  <2> QED
    BY <1>6, <2>1, <2>2, <2>3
<1>7. CASE \E from \in {"read", "tick"} : ReadNoStream(g, from)
  BY <1>5, <1>6, <1>7 DEF ReadNoStream, sends
<1>8. CASE Send(g) \/ SendFails(g)
  BY <1>5, <1>6, <1>8, Zenon DEF Send, SendFails
<1> QED
  BY <1>3, <1>4, <1>7, <1>8 DEF SendStep

LEMMA WriterStep ==
  ASSUME TInv, OneWriter, TunnelNext
  PROVE  OneWriter'
<1>1. Typed
  BY DEF TInv
<1>2. ASSUME NEW g \in Procs, NEW from \in Places \ {"send"},
             NEW to \in Places \ {"send"}, Goto(g, from, to), writer' = writer
      PROVE  OneWriter'
  BY <1>1, <1>2, WriterKept, Zenon DEF Goto
<1>3. CASE Start \/ Connects \/ RecvCommand
  BY <1>2, <1>3, Distinct DEF Start, Connects, RecvCommand, LoopEnds, LoopConnects,
     DialFails, Dial, RecvFails, Unset, Close, sends, Places, Sending
<1>4. ASSUME NEW g \in Procs, Sends(g) PROVE OneWriter'
  BY <1>4, WriterSends DEF Sends, SendStep
<1>5. ASSUME NEW g \in Reqs, RecvRequest(g) \/ Handles(g) PROVE OneWriter'
  <2>1. g \in Procs
    BY Distinct
  <2> QED
    BY <1>2, <1>5, <2>1, Zenon DEF RecvRequest, Handles, Busy, Refuse, AskStore,
       StoreReturns, UpdateApplied, Finish, Rest, sends, Places, Sending
<1>6. ASSUME NEW s \in Streams, Pings(s) \/ Processes(s) PROVE OneWriter'
  <2>1. Ping(s) \in Procs /\ Loop(s) \in Procs
    BY StreamProcs, Zenon
  <2>2. CASE Ticks(Ping(s)) \/ Ticks(Loop(s))
    BY <2>1, <2>2, WriterSends DEF Ticks, SendStep
  <2>3. CASE PingStops(s) \/ LoopStops(s)
    BY <1>2, <2>1, <2>3 DEF PingStops, LoopStops, sends, Places, Sending
  <2> QED
    BY <1>6, <2>2, <2>3 DEF Pings, Processes
<1>7. CASE UNCHANGED <<pc, writer>>
  BY <1>7 DEF OneWriter
<1> QED
  BY <1>3, <1>4, <1>5, <1>6, <1>7
  DEF TunnelNext, StreamNext, Break, Stall, Cancel, WaitReturns, sends

-----------------------------------------------------------------------------
(* What a stopping agent waits for.                                         *)

\* A goroutine that is about to send has a stream to send on.
Addressed == \A g \in Procs : pc[g] \in {"lock", "send"} => via[g] \in Streams

\* Once rootCtx is cancelled so are the contexts of every stream.
AllCancelled == ctxDone => cancelled = Streams

SInv == Addressed /\ AllCancelled

LEMMA FirstSInv == TunnelInit => SInv
BY DEF TunnelInit, StreamInit, SInv, Addressed, AllCancelled, ctxDone

\* A goroutine moves, not to writeMu, or leaves the places where it has a
\* stream to send on.
LEMMA AddressedKept ==
  ASSUME Typed, Addressed, NEW g \in Procs, NEW to \in Places \ {"lock", "send"},
         pc' = [pc EXCEPT ![g] = to], \A h \in Procs \ {g} : via'[h] = via[h]
  PROVE  Addressed'
BY DEF Typed, Addressed

LEMMA AddressedSends ==
  ASSUME TInv, Addressed, NEW g \in Procs, SendStep(g)
  PROVE  Addressed'
<1>1. Typed /\ ConnOK
  BY DEF TInv
<1>2. CASE \E from \in {"read", "tick"} : ReadStream(g, from)
  <2>1. /\ stream # 0 /\ pc' = [pc EXCEPT ![g] = "lock"]
        /\ via' = [via EXCEPT ![g] = stream]
    BY <1>2 DEF ReadStream, Goto
  <2>2. stream \in Streams
    BY <1>1, <2>1 DEF Typed, Streams
  <2> QED
    BY <1>1, <2>1, <2>2 DEF Typed, Addressed
<1>3. CASE LockWrite(g)
  <2>1. pc[g] = "lock" /\ pc' = [pc EXCEPT ![g] = "send"] /\ via' = via
    BY <1>3 DEF LockWrite, Goto
  <2> QED
    BY <1>1, <2>1 DEF Typed, Addressed
<1>4. CASE \/ \E from \in {"read", "tick"} : ReadNoStream(g, from)
           \/ Send(g) \/ SendFails(g)
  <2>1. \A h \in Procs \ {g} : via'[h] = via[h]
    BY <1>1, <1>4 DEF ReadNoStream, Send, SendFails, sends, Typed
  <2>2. pc'[g] \notin {"lock", "send"}
        /\ \A h \in Procs \ {g} : pc'[h] \in {"lock", "send"} => pc'[h] = pc[h]
    <3>1. CASE NotSent(g)
      BY <1>1, <3>1 DEF NotSent, Typed
    <3>2. CASE Sent(g) /\ ~(g = Conn /\ ~greeted)
      BY <1>1, <3>2, Distinct DEF Sent, Typed
    <3>3. CASE Sent(g) /\ g = Conn /\ ~greeted
      <4>1. pc' = [pc EXCEPT ![g] = "recv", ![Ping(own)] = "tick", ![Loop(own)] = "tick"]
        BY <3>3, Distinct DEF Sent
      <4>2. pc[g] \in Sending
        BY <3>3, SendMoves, <1>1 DEF ConnOK, Sending
      <4>3. own \in Streams
        BY <1>1, <3>3, <4>2 DEF ConnOK, Typed, Streams
      <4> QED
        BY <1>1, <3>3, <4>1, <4>3, Distinct DEF Typed
    <3> QED
      BY <1>4, <3>1, <3>2, <3>3 DEF ReadNoStream, Send, SendFails
  <2> QED
    BY <2>1, <2>2 DEF Addressed
<1> QED
  BY <1>2, <1>3, <1>4 DEF SendStep

LEMMA AddressedStep ==
  ASSUME TInv, Addressed, TunnelNext
  PROVE  Addressed'
<1>1. Typed
  BY DEF TInv
<1>2. ASSUME NEW g \in Procs, NEW from, NEW to \in Places \ {"lock", "send"},
             Goto(g, from, to), \A h \in Procs \ {g} : via'[h] = via[h]
      PROVE  Addressed'
  BY <1>1, <1>2, AddressedKept, Zenon DEF Goto
<1>3. CASE Start \/ Connects \/ RecvCommand
  <2>1. via' = via
    BY <1>3 DEF Start, Connects, RecvCommand, LoopEnds, LoopConnects, DialFails, Dial,
       RecvFails, Unset, Close, sends
  <2>2. \E from \in Places, to \in Places \ {"lock", "send"} : Goto(Conn, from, to)
    BY <1>3 DEF Start, Connects, RecvCommand, LoopEnds, LoopConnects, DialFails, Dial,
       RecvFails, Unset, Close, Places, Sending
  <2> QED
    BY <1>2, <2>1, <2>2, Distinct
<1>4. ASSUME NEW g \in Procs, Sends(g) PROVE Addressed'
  BY <1>4, AddressedSends DEF Sends, SendStep
<1>5. ASSUME NEW g \in Reqs, RecvRequest(g) \/ Handles(g) PROVE Addressed'
  <2>1. g \in Procs
    BY Distinct
  <2>2. \A h \in Procs \ {g} : via'[h] = via[h]
    BY <1>1, <1>5, <2>1 DEF RecvRequest, Handles, Busy, Refuse, AskStore, StoreReturns,
       UpdateApplied, Finish, Rest, sends, Typed
  <2>3. \E from \in Places, to \in Places \ {"lock", "send"} : Goto(g, from, to)
    BY <1>5 DEF RecvRequest, Handles, Busy, Refuse, AskStore, StoreReturns,
       UpdateApplied, Finish, Places, Sending
  <2> QED
    BY <1>2, <2>1, <2>2, <2>3
<1>6. ASSUME NEW s \in Streams, Pings(s) \/ Processes(s) PROVE Addressed'
  <2>1. Ping(s) \in Procs /\ Loop(s) \in Procs
    BY StreamProcs, Zenon
  <2>2. CASE Ticks(Ping(s)) \/ Ticks(Loop(s))
    BY <2>1, <2>2, AddressedSends DEF Ticks, SendStep
  <2>3. CASE PingStops(s) \/ LoopStops(s)
    BY <1>2, <2>1, <2>3 DEF PingStops, LoopStops, sends, Places, Sending
  <2> QED
    BY <1>6, <2>2, <2>3 DEF Pings, Processes
<1>7. CASE UNCHANGED <<pc, via>>
  BY <1>7 DEF Addressed
<1> QED
  BY <1>3, <1>4, <1>5, <1>6, <1>7
  DEF TunnelNext, StreamNext, Break, Stall, Cancel, WaitReturns, sends

LEMMA CancelledStep ==
  ASSUME TInv, AllCancelled, TunnelNext
  PROVE  AllCancelled'
<1>1. cancelled \subseteq Streams
  BY DEF TInv, Typed
<1>2. CASE Start
  BY <1>2 DEF Start, AllCancelled, ctxDone
<1>3. ASSUME NEW s \in Streams, Dial(s) PROVE AllCancelled'
  BY <1>1, <1>3 DEF Dial, AllCancelled, ctxDone
<1>4. CASE RecvFails \/ Close
  <2>1. own \in Streams
    BY <1>4 DEF TInv, Typed, ConnOK, RecvFails, Close, Goto, Streams
  <2> QED
    BY <1>1, <1>4, <2>1 DEF RecvFails, Close, AllCancelled, ctxDone
<1>5. CASE Cancel
  BY <1>5 DEF Cancel, AllCancelled
<1>6. CASE WaitReturns
  BY <1>6 DEF WaitReturns, AllCancelled, ctxDone, link
<1>7. CASE UNCHANGED <<cancelled, life>>
  BY <1>7 DEF AllCancelled, ctxDone
<1>8. ASSUME NEW g \in Procs, SendStep(g) PROVE UNCHANGED <<cancelled, life>>
  BY <1>8, SendMoves
<1>9. ASSUME NEW g \in Reqs, RecvRequest(g) \/ Handles(g)
      PROVE  UNCHANGED <<cancelled, life>>
  BY <1>9 DEF RecvRequest, Handles, Busy, Refuse, AskStore, StoreReturns,
     UpdateApplied, Finish, Rest, link
<1>10. LoopEnds \/ LoopConnects \/ DialFails \/ Unset \/ RecvCommand
         => UNCHANGED <<cancelled, life>>
  BY DEF LoopEnds, LoopConnects, DialFails, Unset, RecvCommand, link
<1>11. ASSUME NEW s \in Streams, Pings(s) \/ Processes(s) \/ Break(s) \/ Stall(s)
       PROVE  UNCHANGED <<cancelled, life>>
  <2>1. Ping(s) \in Procs /\ Loop(s) \in Procs
    BY StreamProcs, Zenon
  <2>2. CASE Ticks(Ping(s)) \/ Ticks(Loop(s))
    BY <1>8, <2>1, <2>2 DEF Ticks, SendStep
  <2>3. CASE PingStops(s) \/ LoopStops(s) \/ Break(s) \/ Stall(s)
    BY <2>3 DEF PingStops, LoopStops, Break, Stall, link
  <2> QED
    BY <1>11, <2>2, <2>3 DEF Pings, Processes
<1>12. ASSUME NEW g \in Procs, Sends(g) PROVE UNCHANGED <<cancelled, life>>
  BY <1>8, <1>12 DEF Sends, SendStep
<1> QED
  BY <1>2, <1>3, <1>4, <1>5, <1>6, <1>7, <1>9, <1>10, <1>11, <1>12
  DEF TunnelNext, StreamNext, Connects

LEMMA SInvStep == TInv /\ SInv /\ TunnelNext => SInv'
BY AddressedStep, CancelledStep DEF SInv

-----------------------------------------------------------------------------
(* In the life of the process: a stop, a kill and a start find everything   *)
(* as it was at first.                                                      *)

LInv == TInv /\ OneWriter /\ SInv /\ (boot # "up" => TunnelInit)

LEMMA FirstWriter == TunnelInit => OneWriter
BY FreeIsNobody DEF TunnelInit, StreamInit, OneWriter

LEMMA InitLInv == Init => LInv
<1>1. Init => TunnelInit
  BY DEF Init
<1> QED
  BY <1>1, InitTInv, FirstWriter, FirstSInv DEF LInv

LEMMA NextLInv == LInv /\ [Next]_vars => LInv'
<1>1. (TunnelInit => TInv /\ OneWriter /\ SInv)'
  BY InitTInv, FirstWriter, FirstSInv, PTL
<1> SUFFICES ASSUME LInv, [Next]_vars PROVE LInv'
  OBVIOUS
<1>2. CASE UNCHANGED tunnelVars /\ (boot' # "up" => boot # "up")
  <2>1. TInv' /\ (TunnelInit => TunnelInit')
    BY <1>2, NextTInv DEF LInv, tunnelVars, streamVars, TunnelInit, StreamInit
  <2>2. OneWriter' /\ SInv'
    BY <1>2 DEF LInv, OneWriter, SInv, Addressed, AllCancelled, ctxDone, tunnelVars, streamVars
  <2> QED
    BY <1>2, <2>1, <2>2 DEF LInv
<1>3. CASE (Loads \/ CCChanges) /\ UNCHANGED tunnelVars
  <2>1. boot' = boot \/ boot # "up"
    BY <1>3 DEF Loads, CCChanges, Launch, Loaded, Retrieving, RetrievePinned,
       Retrieve, RetrieveFails, Resolve, LookupAnswers, LookupOdd, LookupFails
  <2> QED
    BY <1>2, <1>3, <2>1
<1>4. CASE StartProcess
  <2>1. TunnelNext /\ boot' = "up"
    BY <1>4 DEF StartProcess, TunnelNext, StreamNext
  <2> QED
    BY <2>1, NextTInv, WriterStep, SInvStep DEF LInv
<1>5. CASE Ends
  BY <1>1, <1>5 DEF Ends, LInv, TunnelInit, StreamInit
<1>6. CASE boot = "up" /\ TunnelNext /\ UNCHANGED resolveVars
  BY <1>6, NextTInv, WriterStep, SInvStep DEF LInv, resolveVars
<1>7. CASE UNCHANGED vars
  BY <1>2, <1>7 DEF vars, resolveVars
<1> QED
  BY <1>3, <1>4, <1>5, <1>6, <1>7 DEF Next, Exit, Killed

\* sendAgentMessage: Hello, heartbeats, batches, replies and responses are sent
\* one at a time, each by the holder of writeMu, and writeMu is released on
\* every path out of Send, a failed one included.
THEOREM SendsOneAtATime == Spec => []OneWriter
<1>1. LInv => OneWriter
  BY DEF LInv
<1> QED
  BY <1>1, InitLInv, NextLInv, PTL DEF Spec

\* Released(g).  Where a goroutine may have to wait, what it waits for has come:
\* writeMu is free, the stream it sends on or receives from is down, the
\* context of its ticker is cancelled.
Released(g) ==
  /\ pc[g] = "lock" => writer = Free
  /\ pc[g] = "send" => via[g] \in Streams /\ net[via[g]] = "down"
  /\ g = Conn /\ pc[g] = "recv" => own \in Streams /\ net[own] = "down"
  /\ \A s \in Streams : g \in {Ping(s), Loop(s)} /\ pc[g] = "tick" => s \in cancelled

\* NobodyIsStuck.  Once Shutdown has cancelled rootCtx, every goroutine can go
\* on, or waits for writeMu behind one that can, even where a send was stuck
\* on a stream the control plane has stopped reading.
NobodyIsStuck ==
  ctxDone =>
    \A g \in Procs :
      \/ Released(g)
      \/ pc[g] = "lock" /\ writer \in Procs /\ pc[writer] = "send" /\ Released(writer)

\* ShutdownIsNotHeldUp.  In every life of the process: cancelling rootCtx ends
\* every wait of the goroutines that share the control stream, those on a
\* stream dialled while Shutdown was under way included, so that wg.Wait in
\* Shutdown waits for no goroutine that cannot end.
THEOREM ShutdownIsNotHeldUp == Spec => []NobodyIsStuck
<1>1. LInv => NobodyIsStuck
  <2> SUFFICES ASSUME LInv, ctxDone, NEW g \in Procs
               PROVE  \/ Released(g)
                      \/ /\ pc[g] = "lock" /\ writer \in Procs /\ pc[writer] = "send"
                         /\ Released(writer)
    BY DEF NobodyIsStuck
  <2>1. /\ Typed /\ ConnOK /\ OneWriter /\ Addressed /\ cancelled = Streams
        /\ \A s \in Streams : net[s] = "down"
    BY DEF LInv, TInv, NetOK, SInv, AllCancelled
  <2>2. pc[Conn] = "recv" => own \in Streams
    BY <2>1 DEF ConnOK, Typed, Streams
  <2>3. \A h \in Procs : pc[h] # "lock" => Released(h)
    BY <2>1, <2>2 DEF Released, Addressed
  <2>4. CASE pc[g] = "lock" /\ writer \in Procs
    <3>1. pc[writer] = "send"
      BY <2>1, <2>4 DEF OneWriter
    <3> QED
      BY <2>3, <2>4, <3>1
  <2>5. CASE pc[g] = "lock" /\ writer \notin Procs
    <3>1. writer = Free
      BY <2>1, <2>5 DEF Typed
    <3> QED
      BY <2>1, <2>5, <3>1 DEF Released
  <2> QED
    BY <2>3, <2>4, <2>5
<1> QED
  BY <1>1, InitLInv, NextLInv, PTL DEF Spec

-----------------------------------------------------------------------------
(* The resolve provider.                                                    *)

\* What was derived was derived from the one region that is memoised.
FromMemo ==
  \A k \in DOMAIN got : got[k] # "pinned" => once = "ok" /\ got[k] = vals

\* Nothing is left of a load when the process is down or up.
Forgotten == boot \in {"down", "up"} => env = NoEnv /\ once = "no" /\ got = <<>>

\* The lookup began for a key that is not pinned.
Needed == once # "no" => ~(env.wanted \subseteq env.pinned)

VInv ==
  /\ ResolveTypeOK /\ FromMemo /\ Forgotten /\ Needed
  /\ once = "ok" => vals \in Regions \cup {Domain}
  /\ once = "busy" => "region" \notin env.pinned

LEMMA InitVInv == Init => VInv
BY ResolveAssumption DEF ResolveAssumption, Init, ResolveInit, VInv,
   ResolveTypeOK, FromMemo, Forgotten, Needed

\* Forgetting what was resolved, on an error or when the config is in use.
LEMMA ForgetVInv ==
  ASSUME boot' \in {"down", "up"}, Forget PROVE VInv'
BY ResolveAssumption DEF ResolveAssumption, Forget, VInv, ResolveTypeOK,
   FromMemo, Forgotten, Needed

\* A key that has been retrieved.
LEMMA StoreVInv ==
  ASSUME VInv, NEW k, NEW v, Store(k, v), boot = "loading",
         v = "pinned" \/ (once = "ok" /\ v = vals),
         UNCHANGED <<boot, env, cc, result>>
  PROVE  VInv'
<1>1. /\ DOMAIN got' = DOMAIN got \cup {k}
      /\ \A j \in DOMAIN got' : got'[j] = IF j = k THEN v ELSE got[j]
  BY DEF Store
<1>2. v \in Regions \cup {Domain, "pinned"}
  BY DEF VInv
<1>3. ResolveTypeOK'
  BY <1>1, <1>2 DEF VInv, ResolveTypeOK, result
<1>4. FromMemo'
  BY <1>1 DEF VInv, FromMemo, result
<1> QED
  BY <1>3, <1>4 DEF VInv, Forgotten, Needed, result

LEMMA LoadsVInv == ASSUME VInv, Loads PROVE VInv'
<1>1. CASE Launch
  BY <1>1 DEF Launch, VInv, ResolveTypeOK, FromMemo, Forgotten, Needed, result
<1>2. CASE Loaded
  BY <1>2 DEF Loaded, VInv, ResolveTypeOK, FromMemo, Forgotten, Needed, result
<1>3. ASSUME NEW k \in env.wanted,
             RetrievePinned(k) \/ Retrieve(k) \/ RetrieveFails(k) \/ Resolve(k)
      PROVE  VInv'
  <2>1. CASE RetrievePinned(k)
    BY <2>1, StoreVInv DEF RetrievePinned, Retrieving
  <2>2. CASE Retrieve(k)
    BY <2>2, StoreVInv DEF Retrieve, Retrieving
  <2>3. CASE RetrieveFails(k)
    BY <2>3, ForgetVInv DEF RetrieveFails, LoadFails
  <2>4. CASE Resolve(k)
    <3>1. /\ boot = "loading" /\ once = "no" /\ UNCHANGED <<boot, env, cc, got>>
          /\ ~(env.wanted \subseteq env.pinned)
      BY <1>3, <2>4 DEF Resolve, Retrieving
    <3>2. /\ once' \in {"err", "ok", "busy"}
          /\ attempt' \in {attempt, 1} /\ vals' \in {vals, Domain}
          /\ once' = "ok" => vals' = Domain
          /\ once' = "busy" => "region" \notin env.pinned
      BY <2>4 DEF Resolve
    <3>3. ResolveTypeOK'
      BY <3>1, <3>2, ResolveAssumption DEF ResolveAssumption, VInv, ResolveTypeOK
    <3>4. FromMemo'
      BY <3>1 DEF VInv, FromMemo
    <3> QED
      BY <3>1, <3>2, <3>3, <3>4 DEF VInv, Forgotten, Needed
  <2> QED
    BY <1>3, <2>1, <2>2, <2>3, <2>4
<1>4. CASE LookupAnswers \/ LookupOdd \/ LookupFails
  <2>1. /\ once = "busy" /\ once' \in {"busy", "ok", "err"}
        /\ UNCHANGED <<boot, env, cc, got>>
        /\ vals' = vals \/ vals' \in Regions
        /\ once' = "ok" => vals' \in Regions
    BY <1>4 DEF LookupAnswers, LookupOdd, LookupFails
  <2>2. attempt' \in 0..resolveRetries
    BY <1>4, ResolveAssumption DEF ResolveAssumption, VInv, ResolveTypeOK,
       LookupAnswers, LookupOdd, LookupFails
  <2>3. ResolveTypeOK'
    BY <2>1, <2>2 DEF VInv, ResolveTypeOK
  <2>4. FromMemo'
    BY <2>1 DEF VInv, FromMemo
  <2> QED
    BY <2>1, <2>3, <2>4 DEF VInv, Forgotten, Needed
<1> QED
  BY <1>1, <1>2, <1>3, <1>4, Zenon DEF Loads

LEMMA NextVInv == VInv /\ [Next]_vars => VInv'
<1> SUFFICES ASSUME VInv, [Next]_vars PROVE VInv'
  OBVIOUS
<1>1. CASE Loads
  BY <1>1, LoadsVInv
<1>2. CASE CCChanges
  BY <1>2 DEF CCChanges, VInv, ResolveTypeOK, FromMemo, Forgotten, Needed, result
<1>3. CASE StartProcess
  BY <1>3, ForgetVInv DEF StartProcess
<1>4. CASE Ends
  BY <1>4 DEF Ends, VInv, ResolveTypeOK, FromMemo, Forgotten, Needed, result
<1>5. CASE UNCHANGED resolveVars
  BY <1>5 DEF resolveVars, VInv, ResolveTypeOK, FromMemo, Forgotten, Needed
<1> QED
  BY <1>1, <1>2, <1>3, <1>4, <1>5 DEF Next, Exit, Killed, vars

\* Every endpoint a process derives is of one region, whatever control-center
\* does while the config is loaded (sync.Once in provider.go).
THEOREM ResolvesOnce == Spec => []OneRegion
<1>1. VInv => OneRegion
  BY DEF VInv, FromMemo, OneRegion
<1> QED
  BY <1>1, InitVInv, NextVInv, PTL DEF Spec

\* A process whose endpoints or region are pinned by its environment never asks
\* control-center, and with every endpoint pinned it resolves nothing.
THEOREM PinnedNeverAsks == Spec => []PinnedIsOffline
<1>1. VInv => PinnedIsOffline
  BY DEF VInv, Needed, PinnedIsOffline
<1> QED
  BY <1>1, InitVInv, NextVInv, PTL DEF Spec

\* Over every start, shutdown and kill of the process: the state is well typed,
\* slots are held only by handlers that run, the WaitGroup is exact and nothing
\* is left when Shutdown has returned, so that a new process starts clean.
THEOREM EveryLifeIsSafe ==
  Spec => [](TypeOK /\ SlotsHeld /\ Counted /\ QuietAfterShutdown)
<1>1. LInv /\ VInv => TypeOK /\ SlotsHeld /\ Counted /\ QuietAfterShutdown
  BY TInvTyped DEF LInv, TInv, VInv, TypeOK
<1> QED
  BY <1>1, InitLInv, NextLInv, InitVInv, NextVInv, PTL DEF Spec

=============================================================================
