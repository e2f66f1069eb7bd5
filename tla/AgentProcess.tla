---------------------------- MODULE AgentProcess -----------------------------
(* The life of the agent process: its config is loaded through the resolve  *)
(* provider, the control stream runs until Shutdown or a kill, and the      *)
(* supervisor starts the process again.                                     *)
EXTENDS QueryTunnel, ResolveProvider

vars == <<tunnelVars, resolveVars>>

Init == TunnelInit /\ ResolveInit

TypeOK == TunnelTypeOK /\ ResolveTypeOK

\* The components are built from the config; what the provider holds is not
\* used again.
StartProcess ==
  /\ boot = "loaded" /\ boot' = "up" /\ Forget
  /\ Start /\ UNCHANGED querySem

\* Shutdown has returned and the process exits, or it is killed (os.Exit after
\* a config update included).
Ends ==
  /\ boot = "up" /\ boot' = "down"
  /\ pc' = [g \in Procs |-> "off"]
  /\ stream' = 0 /\ own' = 0 /\ greeted' = FALSE
  /\ net' = [s \in Streams |-> "down"] /\ cancelled' = {}
  /\ via' = [g \in Procs |-> 0] /\ writer' = Free
  /\ asked' = [g \in Reqs |-> 0] /\ wg' = 0 /\ life' = "new"
  /\ querySem' = {}
  /\ UNCHANGED <<env, cc, result, got>>

Exit == life = "stopped" /\ Ends
Killed == life # "stopped" /\ Ends

Next ==
  \/ (Loads \/ CCChanges) /\ UNCHANGED tunnelVars
  \/ StartProcess \/ Exit \/ Killed
  \/ boot = "up" /\ TunnelNext /\ UNCHANGED resolveVars

Spec == Init /\ [][Next]_vars

\* The supervisor restarts the process, and loading goes on: lookups time out.
Fairness ==
  /\ TunnelFairness
  /\ WF_vars(Loads /\ UNCHANGED tunnelVars)
  /\ WF_vars(StartProcess) /\ WF_vars(Exit)

FairSpec == Spec /\ Fairness

-----------------------------------------------------------------------------
\* What is pinned needs no lookup; the rest needs the tenant and its region.
CanLoad ==
  \/ env.wanted \subseteq env.pinned
  \/ /\ env.tenant /\ env.wanted \ env.pinned \subseteq Endpoints
     /\ "region" \in env.pinned \/ cc \in Regions

\* ComesUp.  It is not so that loading fails again and again, or never ends,
\* although control-center answers and the environment is in order: a memoised
\* error lasts only as long as its process.
ComesUp == []<>(boot = "up" \/ (boot = "loading" /\ ~CanLoad))

=============================================================================
