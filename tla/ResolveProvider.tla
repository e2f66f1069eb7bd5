--------------------------- MODULE ResolveProvider ---------------------------
(* The ${leansignal:<key>} config provider: endpoints from the environment  *)
(* or derived from the tenant's region, which control-center is asked for   *)
(* once per process (resolveprovider/provider.go).                          *)
(*                                                                          *)
(* The collector retrieves the keys its config refers to before it starts   *)
(* anything.  An error ends the process.                                    *)
EXTENDS Naturals

CONSTANTS
  Regions,         \* regions control-center may answer
  Domain,          \* the region LEANSIGNAL_DOMAIN names
  NoRegion,
  resolveRetries,
  Envs             \* environments: [tenant : the slug is set,
                   \*   pinned : keys with a variable of their own,
                   \*   wanted : keys the config refers to]

ASSUME ResolveAssumption ==
  /\ Domain \notin Regions /\ NoRegion \notin Regions \cup {Domain}
  /\ resolveRetries \in Nat \ {0}

\* The keys deriveEndpoints knows.
Endpoints == {"region", "api", "grpc", "dataplane", "loki", "tempo"}

VARIABLES
  boot,     \* "down", "loading", "loaded" or "up" (the config is in use)
  env,      \* the process's environment, while its config is loaded
  cc,       \* what control-center does meanwhile: fail, answer a region, or
            \* answer an api_url of another form ("odd")
  once,     \* the sync.Once: "no", "busy", "ok", "err"
  attempt,  \* the loop variable of resolveRegion
  vals,     \* the region of p.vals
  got       \* what has been retrieved for each key: "pinned" or a region

NoEnv == [tenant |-> FALSE, pinned |-> {}, wanted |-> {}]

resolveVars == <<boot, env, cc, once, attempt, vals, got>>
result == <<once, attempt, vals>>

ResolveTypeOK ==
  /\ boot \in {"down", "loading", "loaded", "up"}
  /\ env \in Envs \cup {NoEnv} /\ cc \in Regions \cup {"fail", "odd"}
  /\ once \in {"no", "busy", "ok", "err"} /\ attempt \in 0..resolveRetries
  /\ vals \in Regions \cup {Domain, NoRegion}
  /\ \A k \in DOMAIN got : got[k] \in Regions \cup {Domain, "pinned"}

ResolveInit ==
  /\ boot = "down" /\ env = NoEnv /\ cc = "fail"
  /\ once = "no" /\ attempt = 0 /\ vals = NoRegion /\ got = <<>>

-----------------------------------------------------------------------------
\* The supervisor starts the process.
Launch ==
  /\ boot = "down" /\ boot' = "loading"
  /\ env' \in Envs /\ cc' \in Regions \cup {"fail", "odd"}
  /\ UNCHANGED <<result, got>>

Store(k, v) ==
  got' = [j \in DOMAIN got \cup {k} |-> IF j = k THEN v ELSE got[j]]

\* The process ends with the error, and what it resolved with it.
Forget ==
  /\ env' = NoEnv /\ cc' = "fail"
  /\ once' = "no" /\ attempt' = 0 /\ vals' = NoRegion /\ got' = <<>>
LoadFails == boot' = "down" /\ Forget

Retrieving(k) == boot = "loading" /\ k \in env.wanted \ DOMAIN got

RetrievePinned(k) ==
  /\ Retrieving(k) /\ k \in env.pinned
  /\ Store(k, "pinned")
  /\ UNCHANGED <<boot, env, cc, result>>

\* Mutant: the region is looked up again for every key.
RetrieveEach(k) ==
  /\ Retrieving(k) /\ k \notin env.pinned /\ once = "ok"
  /\ k \in Endpoints /\ Store(k, vals)
  /\ once' = "no" /\ attempt' = 0 /\ vals' = NoRegion
  /\ UNCHANGED <<boot, env, cc>>

Retrieve(k) ==
  /\ Retrieving(k) /\ k \notin env.pinned /\ once = "ok"
  /\ k \in Endpoints /\ Store(k, vals)
  /\ UNCHANGED <<boot, env, cc, result>>

\* Mutant: the memoised error outlives the process.
RetrieveFailsForGood(k) ==
  /\ Retrieving(k) /\ k \notin env.pinned
  /\ once = "err" \/ (once = "ok" /\ k \notin Endpoints)
  /\ boot' = "down" /\ env' = NoEnv /\ cc' = "fail"
  /\ UNCHANGED <<result, got>>

\* The memoised error, or a key there is no endpoint for.
RetrieveFails(k) ==
  /\ Retrieving(k) /\ k \notin env.pinned
  /\ once = "err" \/ (once = "ok" /\ k \notin Endpoints)
  /\ LoadFails

\* Mutant: the lookup is made before the override is considered.
ResolveEagerly(k) ==
  /\ Retrieving(k) /\ once = "no"
  /\ \/ ~env.tenant /\ once' = "err" /\ UNCHANGED <<attempt, vals>>
     \/ env.tenant /\ once' = "busy" /\ attempt' = 1 /\ UNCHANGED vals
  /\ UNCHANGED <<boot, env, cc, got>>

\* resolve, inside once.Do, up to the lookup.
Resolve(k) ==
  /\ Retrieving(k) /\ k \notin env.pinned /\ once = "no"
  /\ \/ ~env.tenant /\ once' = "err" /\ UNCHANGED <<attempt, vals>>
     \/ /\ env.tenant /\ "region" \in env.pinned
        /\ once' = "ok" /\ vals' = Domain /\ UNCHANGED attempt
     \/ /\ env.tenant /\ "region" \notin env.pinned
        /\ once' = "busy" /\ attempt' = 1 /\ UNCHANGED vals
  /\ UNCHANGED <<boot, env, cc, got>>

-----------------------------------------------------------------------------
\* One attempt of resolveRegion.
LookupAnswers ==
  /\ once = "busy" /\ cc \in Regions
  /\ once' = "ok" /\ vals' = cc /\ attempt' = 0
  /\ UNCHANGED <<boot, env, cc, got>>

\* An unexpected api_url is not retried.
LookupOdd ==
  /\ once = "busy" /\ cc = "odd"
  /\ once' = "err" /\ attempt' = 0
  /\ UNCHANGED <<boot, env, cc, vals, got>>

\* Out of reach, an HTTP error, or no such tenant.
LookupFails ==
  /\ once = "busy" /\ cc = "fail"
  /\ \/ attempt < resolveRetries /\ attempt' = attempt + 1 /\ UNCHANGED once
     \/ attempt = resolveRetries /\ once' = "err" /\ attempt' = 0
  /\ UNCHANGED <<boot, env, cc, vals, got>>

Loaded ==
  /\ boot = "loading" /\ DOMAIN got = env.wanted
  /\ boot' = "loaded"
  /\ UNCHANGED <<env, cc, result, got>>

\* Control-center fails, recovers, or has the tenant moved.
CCChanges ==
  /\ boot = "loading"
  /\ cc' \in (Regions \cup {"fail", "odd"}) \ {cc}
  /\ UNCHANGED <<boot, env, result, got>>

Loads ==
  \/ Launch \/ Loaded
  \/ \E k \in env.wanted :
       RetrievePinned(k) \/ Retrieve(k) \/ RetrieveFails(k) \/ Resolve(k)
  \/ LookupAnswers \/ LookupOdd \/ LookupFails

-----------------------------------------------------------------------------
\* OneRegion.  All endpoints a process derives are those of one region, even
\* when the tenant moves while the config is being loaded.
OneRegion ==
  \A j, k \in DOMAIN got : got[j] # "pinned" /\ got[k] # "pinned" => got[j] = got[k]

\* PinnedIsOffline.  Control-center is not asked, and need not be reachable,
\* when every key in use or the region itself is pinned; with every key pinned
\* not even the tenant is needed.
PinnedIsOffline ==
  /\ "region" \in env.pinned \/ env.wanted \subseteq env.pinned => once # "busy"
  /\ env.wanted \subseteq env.pinned => once = "no"

=============================================================================
