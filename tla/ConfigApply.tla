----------------------------- MODULE ConfigApply -----------------------------
(* Remote config updates: handleUpdateConfig and configManager.Apply.       *)
(*                                                                          *)
(* UpdateConfig commands run in goroutines of their own and take configMu.  *)
(* Apply stages the candidate beside the file, validates the merged config, *)
(* backs the file up, renames the candidate into place and syncs the        *)
(* directory.  After the reply the process exits, 4 s later, for its        *)
(* supervisor to restart it on the new config.  The process may be killed,  *)
(* and the machine may lose power, between any two of these steps.  Renames *)
(* reach the disk in the order they were made, with the sync of their       *)
(* directory at the latest, and a power loss undoes those that have not.    *)
EXTENDS Naturals, FiniteSets

CONSTANTS
  Files,         \* the file: sources of the collector
  Versions,      \* contents of a config file that Apply stages
  Refused,       \* what Apply refuses before it stages it: not YAML, empty,
                 \* too large, or for a path that is no config file
  Torn,          \* a file that was truncated and not yet written
  Valid,         \* the merged configs `validate` accepts
  Updates,       \* UpdateConfig commands
  NoUpdate,
  WriteEnabled,  \* remote_config_write
  MaxFaults

Configs == [Files -> Versions]
Requests == [file : Files, content : Versions \cup {Refused}, skip : BOOLEAN]

ASSUME ConfigAssumption ==
  /\ Valid \subseteq Configs /\ Valid # {}
  /\ Refused \notin Versions /\ Torn \notin Versions
  /\ NoUpdate \notin Updates
  /\ WriteEnabled \in BOOLEAN /\ MaxFaults \in Nat

VARIABLES
  disk,      \* the config files
  durable,   \* the config files as a power loss would leave them
  bak,       \* the <path>.bak files
  staged,    \* updates whose candidate file exists
  up,        \* the agent process runs
  stopping,  \* rootCtx is cancelled
  running,   \* the config the process was started with
  owner,     \* the holder of configMu
  pc,        \* where each update is
  req,       \* each update's request
  reply,     \* each update's CommandResult
  armed,     \* a goroutine waits reloadDelay to restart the process
  acked,     \* history: the contents last reported as written, and synced
  faults

vars == <<disk, durable, bak, staged, up, stopping, running, owner, pc, req,
          reply, armed, acked, faults>>
files == <<disk, durable, bak>>
process == <<up, stopping, running, armed>>

Steps == {"queued", "locked", "staged", "validated", "backing", "backed",
          "renamed", "synced", "unsynced"}

\* "unsure": reported as written although the directory was not synced.
\* "lost": the process ended before there was an answer.
Places == Steps \cup {"new", "done", "unsure", "lost"}

TypeOK ==
  /\ disk \in Configs /\ durable \in Configs /\ running \in Configs
  /\ acked \in Configs
  /\ bak \in [Files -> Versions \cup {Torn}]
  /\ staged \subseteq Updates
  /\ up \in BOOLEAN /\ stopping \in BOOLEAN /\ armed \in BOOLEAN
  /\ owner \in Updates \cup {NoUpdate}
  /\ pc \in [Updates -> Places]
  /\ req \in [Updates -> Requests]
  /\ reply \in [Updates -> {"none", "ok", "error"}]
  /\ faults \in 0..MaxFaults

Init ==
  /\ disk \in Valid /\ durable = disk /\ running = disk
  /\ acked = disk
  /\ bak = disk /\ staged = {}
  /\ up = TRUE /\ stopping = FALSE /\ armed = FALSE
  /\ owner = NoUpdate
  /\ pc = [u \in Updates |-> "new"]
  /\ req \in [Updates -> Requests]
  /\ reply = [u \in Updates |-> "none"]
  /\ faults = 0

-----------------------------------------------------------------------------
File(u) == req[u].file
Content(u) == req[u].content

Goto(u, from, to) == up /\ pc[u] = from /\ pc' = [pc EXCEPT ![u] = to]
Fault == faults < MaxFaults /\ faults' = faults + 1

\* The reply is sent and configMu released.
Answer(u, result) ==
  /\ reply' = [reply EXCEPT ![u] = result]
  /\ owner' = NoUpdate

\* Mutant: the candidate of a refused update is kept.
RefuseKeeping(u, from) ==
  /\ Goto(u, from, "done")
  /\ Answer(u, "error")
  /\ UNCHANGED <<files, staged, process, req, acked>>

\* Mutant: the early return of a refused update keeps configMu.
RefuseLocked(u, from) ==
  /\ Goto(u, from, "done")
  /\ reply' = [reply EXCEPT ![u] = "error"]
  /\ staged' = staged \ {u}
  /\ UNCHANGED <<files, process, owner, req, acked>>

\* Apply returns an error; its deferred call removes the candidate.
Refuse(u, from) ==
  /\ Goto(u, from, "done")
  /\ Answer(u, "error")
  /\ staged' = staged \ {u}
  /\ UNCHANGED <<files, process, req, acked>>

Receive(u) ==
  /\ ~stopping /\ Goto(u, "new", "queued")
  /\ UNCHANGED <<files, staged, process, owner, req, reply, acked, faults>>

\* Mutant: updates are not serialised.
LockNoMutex(u) ==
  /\ Goto(u, "queued", "locked")
  /\ owner' = u
  /\ UNCHANGED <<files, staged, process, req, reply, acked, faults>>

Lock(u) ==
  /\ owner = NoUpdate /\ owner' = u
  /\ Goto(u, "queued", "locked")
  /\ UNCHANGED <<files, staged, process, req, reply, acked, faults>>

Acceptable(u) == WriteEnabled /\ Content(u) # Refused

RefuseEarly(u) == ~Acceptable(u) /\ Refuse(u, "locked") /\ UNCHANGED faults

Stage(u) ==
  /\ Acceptable(u) /\ Goto(u, "locked", "staged")
  /\ staged' = staged \cup {u}
  /\ UNCHANGED <<files, process, owner, req, reply, acked, faults>>

StageFails(u) == Acceptable(u) /\ Fault /\ Refuse(u, "locked")

\* `validate` reads the other files as they are now.
Merged(u) == [disk EXCEPT ![File(u)] = Content(u)]

Validate(u) ==
  /\ ~stopping /\ Merged(u) \in Valid
  /\ Goto(u, "staged", "validated")
  /\ UNCHANGED <<files, staged, process, owner, req, reply, acked, faults>>

\* The config is not valid, or the validator is killed with rootCtx.
ValidateRefuses(u) ==
  /\ stopping \/ Merged(u) \notin Valid
  /\ Refuse(u, "staged") /\ UNCHANGED faults

\* The validator times out or does not start.
ValidateFails(u) == ~stopping /\ Fault /\ Refuse(u, "staged")

\* os.WriteFile truncates the backup, then writes it.
BackupStarts(u) ==
  /\ Goto(u, "validated", "backing")
  /\ bak' = [bak EXCEPT ![File(u)] = Torn]
  /\ UNCHANGED <<disk, durable, staged, process, owner, req, reply, acked, faults>>

BackupEnds(u) ==
  /\ Goto(u, "backing", "backed")
  /\ bak' = [bak EXCEPT ![File(u)] = disk[File(u)]]
  /\ UNCHANGED <<disk, durable, staged, process, owner, req, reply, acked, faults>>

\* The backup cannot be opened or written: a warning, and on.
BackupFails(u) ==
  /\ Fault
  /\ Goto(u, "validated", "backed") \/ Goto(u, "backing", "backed")
  /\ UNCHANGED <<files, staged, process, owner, req, reply, acked>>

Rename(u) ==
  /\ Goto(u, "backed", "renamed")
  /\ disk' = [disk EXCEPT ![File(u)] = Content(u)]
  /\ staged' = staged \ {u}
  /\ UNCHANGED <<durable, bak, process, owner, req, reply, acked, faults>>

RenameFails(u) == Fault /\ Refuse(u, "backed")

\* Mutant: the directory is not synced.
SyncDirNot(u) ==
  /\ Goto(u, "renamed", "synced")
  /\ UNCHANGED <<files, staged, process, owner, req, reply, acked, faults>>

\* The config files are in one directory: all renames so far become durable.
SyncDir(u) ==
  /\ Goto(u, "renamed", "synced")
  /\ durable' = disk
  /\ UNCHANGED <<disk, bak, staged, process, owner, req, reply, acked, faults>>

\* The directory cannot be opened or synced.  The error is ignored.
SyncDirFails(u) ==
  /\ Fault /\ Goto(u, "renamed", "unsynced")
  /\ UNCHANGED <<files, staged, process, owner, req, reply, acked>>

\* Success is reported and, unless skip_reload, the restart is scheduled; a
\* goroutine started when rootCtx is already cancelled returns at once.
Reply(u) ==
  /\ \/ /\ Goto(u, "synced", "done")
        /\ acked' = [acked EXCEPT ![File(u)] = Content(u)]
     \/ Goto(u, "unsynced", "unsure") /\ UNCHANGED acked
  /\ Answer(u, "ok")
  /\ armed' = (armed \/ (~req[u].skip /\ ~stopping))
  /\ UNCHANGED <<files, staged, up, stopping, running, req, faults>>

-----------------------------------------------------------------------------
\* The process ends.  Updates it had not answered will not be; their
\* candidates stay behind.
Ends ==
  /\ up /\ up' = FALSE
  /\ armed' = FALSE /\ stopping' = FALSE /\ owner' = NoUpdate
  /\ pc' = [u \in Updates |-> IF pc[u] \in Steps THEN "lost" ELSE pc[u]]
  /\ UNCHANGED <<bak, staged, running, req, reply, acked>>

\* Mutant: the process is signalled and does not reload.
ReloadIgnored ==
  /\ armed /\ armed' = FALSE
  /\ UNCHANGED <<files, staged, up, stopping, running, owner, pc, req, reply,
                 acked, faults>>

\* restartForConfig: os.Exit once reloadDelay is over.
Reload == armed /\ Ends /\ UNCHANGED <<disk, durable, faults>>

Killed == Fault /\ Ends /\ UNCHANGED <<disk, durable>>

\* The system writes the directory back by itself.
WriteBack ==
  /\ durable # disk /\ durable' = disk
  /\ UNCHANGED <<disk, bak, staged, process, owner, pc, req, reply, acked, faults>>

\* What was not yet written back is undone.
PowerLoss ==
  /\ Fault /\ Ends
  /\ disk' = durable /\ UNCHANGED durable

\* Shutdown cancels rootCtx, which also releases the reload goroutine, and
\* waits for the handlers.
Shutdown ==
  /\ up /\ ~stopping
  /\ Fault
  /\ stopping' = TRUE /\ armed' = FALSE
  /\ UNCHANGED <<files, staged, up, running, owner, pc, req, reply, acked>>

Exit ==
  /\ stopping /\ \A u \in Updates : pc[u] \notin Steps
  /\ Ends /\ UNCHANGED <<disk, durable, faults>>

\* The supervisor starts the process again, if its config can be loaded.
Start ==
  /\ ~up /\ disk \in Valid
  /\ up' = TRUE /\ running' = disk
  /\ UNCHANGED <<files, staged, stopping, owner, pc, req, reply, armed, acked, faults>>

-----------------------------------------------------------------------------
Handle(u) ==
  \/ Lock(u) \/ RefuseEarly(u) \/ Stage(u)
  \/ Validate(u) \/ ValidateRefuses(u)
  \/ BackupStarts(u) \/ BackupEnds(u)
  \/ Rename(u) \/ SyncDir(u) \/ Reply(u)

Fails(u) == StageFails(u) \/ ValidateFails(u) \/ BackupFails(u)
            \/ RenameFails(u) \/ SyncDirFails(u)

Next ==
  \/ \E u \in Updates : Receive(u) \/ Handle(u) \/ Fails(u)
  \/ Reload \/ Killed \/ WriteBack \/ PowerLoss \/ Shutdown \/ Exit \/ Start

Spec == Init /\ [][Next]_vars

\* Handlers run, configMu is granted to each waiter in turn, the timer fires,
\* and the supervisor starts the process again.
Fairness ==
  /\ \A u \in Updates : WF_vars(Handle(u)) /\ SF_vars(Lock(u))
  /\ WF_vars(Reload) /\ WF_vars(Exit) /\ WF_vars(Start)

-----------------------------------------------------------------------------
\* OnDiskValid.  The config on disk is one that `validate` accepted as a whole,
\* whatever updates overlap and wherever the process or the machine stops:
\* the agent can always be started again.
OnDiskValid == disk \in Valid

\* Every file of the config c is as last reported and synced, or as an update
\* left it that was not answered or not synced.
Replacing == {"renamed", "synced", "unsynced", "unsure", "lost"}

HoldsAcked(c) ==
  \A f \in Files :
    \/ c[f] = acked[f]
    \/ \E u \in Updates : File(u) = f /\ c[f] = Content(u) /\ pc[u] \in Replacing

\* AckedIsDurable.  What was reported as written after a successful sync of the
\* directory stays on disk and survives a power loss, until an update replaces
\* it.  The exception is commit's: it ignores a directory that cannot be opened
\* or synced, success is reported, and a power loss can undo that rename.
AckedIsDurable == HoldsAcked(disk) /\ HoldsAcked(durable)

\* NoLitter.  A candidate file outlives its update only when the process ended
\* under it: every path out of Apply removes it or renames it.
NoLitter == \A u \in staged : pc[u] \in Steps \cup {"lost"}

\* ReloadApplies.  Once a restart is scheduled the process comes to run the
\* config that is on disk.
ReloadApplies == armed ~> (up /\ running = disk)

\* AnsweredUnlessEnded.  Every UpdateConfig that is received is answered, or the
\* process ends under it: no path through handleUpdateConfig keeps configMu or
\* returns without a CommandResult.  The restart of an earlier update is one
\* way for the process to end while a later update is being validated.
AnsweredUnlessEnded ==
  \A u \in Updates :
    (pc[u] = "queued") ~> (reply[u] # "none" \/ pc[u] = "lost")

=============================================================================
