-------------------------- MODULE ConfigApplyProofs --------------------------
(* For any number of files, updates and faults: the config on disk is valid *)
(* at every moment, what was acknowledged survives, candidates are removed, *)
(* success is reported of what is in place, a new config is not left        *)
(* unnoticed, and a snapshot shows one config.                              *)
EXTENDS ConfigSnapshot, TLAPS

Critical == Steps \ {"queued"}

\* An update past the lock holds configMu.
Mutex == \A u \in Updates : pc[u] \in Critical => owner = u

\* A validated candidate stays valid until it is renamed into place: no other
\* file changes under it.
Checked ==
  \A u \in Updates :
    pc[u] \in {"validated", "backing", "backed"} => Merged(u) \in Valid

\* A power loss falls back to a valid config as well.
DurableValid == durable \in Valid

\* What is staged was accepted by the early checks.
Accepted ==
  \A u \in Updates : pc[u] \in Critical \ {"locked"} => Content(u) \in Versions

IInv == TypeOK /\ Mutex /\ Checked /\ Accepted /\ OnDiskValid /\ DurableValid

LEMMA InitIInv == Init => IInv
<1> SUFFICES ASSUME Init PROVE IInv
  OBVIOUS
<1> USE ConfigAssumption DEF ConfigAssumption
<1>1. disk \in Configs /\ disk \in Valid
  BY DEF Init
<1>2. /\ up \in BOOLEAN /\ stopping \in BOOLEAN /\ armed \in BOOLEAN
  BY Zenon DEF Init
<1>3. /\ bak \in [Files -> Versions \cup {Torn}]
      /\ owner \in Updates \cup {NoUpdate}
      /\ pc \in [Updates -> Places]
      /\ reply \in [Updates -> {"none", "ok", "error"}]
      /\ faults \in 0..MaxFaults
  BY <1>1 DEF Init, Configs, Places
<1>4. TypeOK
  BY <1>1, <1>2, <1>3 DEF Init, TypeOK
<1> QED
  BY <1>1, <1>4 DEF Init, IInv, Mutex, Checked, Accepted, OnDiskValid,
                    DurableValid, Critical, Steps

\* The type of a state in which u has moved from one step to another.
LEMMA GotoType ==
  ASSUME TypeOK, NEW u \in Updates, NEW from, NEW to \in Steps \cup {"done", "unsure"},
         Goto(u, from, to)
  PROVE  /\ pc' \in [Updates -> Places]
         /\ pc'[u] = to
         /\ \A v \in Updates \ {u} : pc'[v] = pc[v]
BY DEF TypeOK, Goto, Places

\* An update that is refused leaves configMu and the config files alone.
LEMMA RefuseIInv ==
  ASSUME IInv, NEW u \in Updates, NEW from \in Critical, Refuse(u, from),
         faults' \in 0..MaxFaults
  PROVE  IInv'
<1> USE DEF IInv
<1>1. /\ pc' \in [Updates -> Places]
      /\ pc'[u] = "done"
      /\ \A v \in Updates \ {u} : pc'[v] = pc[v]
  BY GotoType DEF Refuse
<1>2. TypeOK'
  <2>1. owner' \in Updates \cup {NoUpdate} /\ staged' \subseteq Updates
    BY DEF Refuse, Answer, TypeOK
  <2>2. reply' \in [Updates -> {"none", "ok", "error"}]
    BY DEF Refuse, Answer, TypeOK
  <2> QED
    BY <1>1, <2>1, <2>2 DEF Refuse, files, process, TypeOK
<1>3. owner = u /\ \A v \in Updates \ {u} : pc[v] \notin Critical
  BY DEF Refuse, Goto, Mutex
<1>4. Mutex'
  BY <1>1, <1>3 DEF Mutex, Critical, Steps
<1>5. Checked' /\ Accepted'
  BY <1>1, <1>3 DEF Checked, Accepted, Critical, Steps
<1>6. OnDiskValid' /\ DurableValid'
  BY DEF Refuse, files, OnDiskValid, DurableValid
<1> QED
  BY <1>2, <1>4, <1>5, <1>6

\* The process ends, on disk contents that are valid.
LEMMA EndsIInv ==
  ASSUME IInv, Ends, disk' \in Valid, durable' \in Valid, faults' \in 0..MaxFaults,
         acked' = acked
  PROVE  IInv'
<1> USE DEF IInv
<1>1. /\ pc' \in [Updates -> Places]
      /\ \A v \in Updates : pc'[v] \notin Steps
  BY DEF Ends, TypeOK, Steps, Places
<1>2. /\ up' \in BOOLEAN /\ stopping' \in BOOLEAN /\ armed' \in BOOLEAN
  BY Zenon DEF Ends
<1>3. disk' \in Configs /\ durable' \in Configs
  BY ConfigAssumption DEF ConfigAssumption
<1>4. TypeOK'
  BY <1>1, <1>2, <1>3 DEF Ends, TypeOK
<1> QED
  BY <1>1, <1>4 DEF Mutex, Checked, Accepted, OnDiskValid, DurableValid, Critical, Steps

\* A step of the holder of configMu that leaves the config files alone.
LEMMA HoldIInv ==
  ASSUME IInv, NEW u \in Updates, NEW from \in Critical, NEW to \in Critical,
         Goto(u, from, to),
         Content(u) \in Versions,
         to \in {"validated", "backing", "backed"} => Merged(u) \in Valid,
         bak' \in [Files -> Versions \cup {Torn}], staged' \subseteq Updates,
         faults' \in 0..MaxFaults,
         UNCHANGED <<disk, durable, process, owner, req, reply, acked>>
  PROVE  IInv'
<1> USE DEF IInv
<1>1. /\ pc' \in [Updates -> Places]
      /\ pc'[u] = to
      /\ \A v \in Updates \ {u} : pc'[v] = pc[v]
  BY GotoType DEF Critical
<1>2. TypeOK'
  BY <1>1 DEF TypeOK, process
<1>3. Mutex'
  BY <1>1 DEF Goto, Mutex
<1>4. Checked' /\ Accepted'
  BY <1>1 DEF Checked, Accepted, Merged, File, Content
<1>5. OnDiskValid' /\ DurableValid'
  BY DEF OnDiskValid, DurableValid
<1> QED
  BY <1>2, <1>3, <1>4, <1>5

LEMMA RenameIInv ==
  ASSUME IInv, NEW u \in Updates, Rename(u)
  PROVE  IInv'
<1> USE DEF IInv
<1>1. /\ pc' \in [Updates -> Places]
      /\ pc'[u] = "renamed"
      /\ \A v \in Updates \ {u} : pc'[v] = pc[v]
  BY GotoType DEF Rename, Steps
<1>2. disk' = Merged(u) /\ disk' \in Valid
  BY Zenon DEF Rename, Goto, Merged, Checked
<1>3. disk' \in Configs
  BY <1>2, ConfigAssumption DEF ConfigAssumption
<1>4. TypeOK'
  BY <1>1, <1>3 DEF Rename, process, TypeOK
<1>5. owner = u /\ \A v \in Updates \ {u} : pc[v] \notin Critical
  BY DEF Rename, Goto, Mutex, Critical, Steps
<1>6. Mutex' /\ Checked' /\ Accepted'
  BY <1>1, <1>5 DEF Rename, Goto, Content, Mutex, Checked, Accepted, Critical, Steps
<1> QED
  BY <1>2, <1>4, <1>6 DEF Rename, OnDiskValid, DurableValid

LEMMA SyncIInv ==
  ASSUME IInv, NEW u \in Updates, SyncDir(u)
  PROVE  IInv'
<1> USE DEF IInv
<1>1. /\ pc' \in [Updates -> Places]
      /\ pc'[u] = "synced"
      /\ \A v \in Updates \ {u} : pc'[v] = pc[v]
  BY GotoType DEF SyncDir, Steps
<1>2. TypeOK'
  BY <1>1 DEF SyncDir, process, TypeOK
<1>3. owner = u /\ \A v \in Updates \ {u} : pc[v] \notin Critical
  BY DEF SyncDir, Goto, Mutex, Critical, Steps
<1>4. Mutex' /\ Checked' /\ Accepted'
  BY <1>1, <1>3 DEF SyncDir, Goto, Content, Mutex, Checked, Accepted, Critical, Steps
<1> QED
  BY <1>2, <1>4 DEF SyncDir, OnDiskValid, DurableValid

LEMMA ReplyIInv ==
  ASSUME IInv, NEW u \in Updates, Reply(u)
  PROVE  IInv'
<1> USE DEF IInv
<1>1. /\ pc' \in [Updates -> Places]
      /\ pc'[u] \in {"done", "unsure"}
      /\ \A v \in Updates \ {u} : pc'[v] = pc[v]
  BY GotoType DEF Reply
<1>2. armed' \in BOOLEAN
  BY DEF Reply, TypeOK
<1>3. reply' \in [Updates -> {"none", "ok", "error"}] /\ owner' \in Updates \cup {NoUpdate}
  BY DEF Reply, Answer, TypeOK
<1>4. acked' \in Configs
  <2>1. Content(u) \in Versions
    BY DEF Reply, Goto, Accepted, Critical, Steps
  <2>2. CASE acked' = [acked EXCEPT ![File(u)] = Content(u)]
    BY <2>1, <2>2, Zenon DEF TypeOK, Configs
  <2>3. CASE acked' = acked
    BY <2>3 DEF TypeOK
  <2> QED
    BY <2>2, <2>3 DEF Reply
<1>5. TypeOK'
  BY <1>1, <1>2, <1>3, <1>4 DEF Reply, files, TypeOK
<1>6. owner = u /\ \A v \in Updates \ {u} : pc[v] \notin Critical
  BY DEF Reply, Goto, Mutex, Critical, Steps
<1>7. Mutex' /\ Checked' /\ Accepted'
  BY <1>1, <1>6 DEF Mutex, Checked, Accepted, Critical, Steps
<1> QED
  BY <1>5, <1>7 DEF Reply, files, OnDiskValid, DurableValid

\* A step before the lock, by an update that then holds configMu if it must.
LEMMA LockIInv ==
  ASSUME IInv, NEW u \in Updates, Receive(u) \/ Lock(u)
  PROVE  IInv'
<1> USE DEF IInv
<1>1. /\ pc' \in [Updates -> Places]
      /\ pc'[u] \in {"queued", "locked"}
      /\ \A v \in Updates \ {u} : pc'[v] = pc[v]
  BY GotoType DEF Receive, Lock, Steps
<1>2. TypeOK'
  BY <1>1 DEF Receive, Lock, files, process, TypeOK
<1>3. Mutex'
  <2>1. CASE Receive(u)
    <3>1. pc'[u] = "queued"
      BY <2>1, GotoType DEF Receive, Steps
    <3> QED
      BY <1>1, <2>1, <3>1 DEF Receive, Mutex, Critical
  <2>2. CASE Lock(u)
    <3>1. \A v \in Updates : pc[v] \notin Critical
      BY <2>2, ConfigAssumption DEF Lock, Mutex, ConfigAssumption
    <3> QED
      BY <1>1, <2>2, <3>1 DEF Lock, Mutex
  <2> QED
    BY <2>1, <2>2
<1>4. Checked' /\ Accepted'
  BY <1>1 DEF Receive, Lock, files, Checked, Accepted, Merged, File, Content,
              Critical, Steps
<1>5. OnDiskValid' /\ DurableValid'
  BY DEF Receive, Lock, files, OnDiskValid, DurableValid
<1> QED
  BY <1>2, <1>3, <1>4, <1>5

\* The steps of an update that holds configMu and leaves the config files alone.
LEMMA ApplyIInv ==
  ASSUME IInv, NEW u \in Updates,
         \/ Stage(u) \/ Validate(u)
         \/ BackupStarts(u) \/ BackupEnds(u) \/ BackupFails(u) \/ SyncDirFails(u)
  PROVE  IInv'
<1> USE DEF IInv
<1>1. CASE Stage(u)
  <2>1. Content(u) \in Versions
    BY <1>1 DEF Stage, Acceptable, TypeOK, Requests, Content
  <2>2. Goto(u, "locked", "staged") /\ staged' \subseteq Updates
    BY <1>1 DEF Stage, TypeOK
  <2> QED
    BY <1>1, <2>1, <2>2, HoldIInv DEF Stage, files, TypeOK, Critical, Steps
<1>2. CASE Validate(u)
  <2>1. Content(u) \in Versions
    BY <1>2 DEF Validate, Goto, Accepted, Critical, Steps
  <2> QED
    BY <1>2, <2>1, HoldIInv DEF Validate, files, TypeOK, Critical, Steps
<1>3. CASE BackupStarts(u)
  <2>1. Content(u) \in Versions /\ Merged(u) \in Valid
    BY <1>3 DEF BackupStarts, Goto, Accepted, Checked, Critical, Steps
  <2>2. bak' \in [Files -> Versions \cup {Torn}]
    BY <1>3, Zenon DEF BackupStarts, TypeOK
  <2> QED
    BY <1>3, <2>1, <2>2, HoldIInv DEF BackupStarts, TypeOK, Critical, Steps
<1>4. CASE BackupEnds(u)
  <2>1. Content(u) \in Versions /\ Merged(u) \in Valid
    BY <1>4 DEF BackupEnds, Goto, Accepted, Checked, Critical, Steps
  <2>2. bak' \in [Files -> Versions \cup {Torn}]
    BY <1>4 DEF BackupEnds, TypeOK, File, Requests, Configs
  <2> QED
    BY <1>4, <2>1, <2>2, HoldIInv DEF BackupEnds, TypeOK, Critical, Steps
<1>5. CASE BackupFails(u)
  <2>1. faults' \in 0..MaxFaults
    BY <1>5, ConfigAssumption DEF BackupFails, Fault, TypeOK, ConfigAssumption
  <2>2. PICK from \in {"validated", "backing"} : Goto(u, from, "backed")
    BY <1>5 DEF BackupFails
  <2>3. Content(u) \in Versions /\ Merged(u) \in Valid
    BY <2>2 DEF Goto, Accepted, Checked, Critical, Steps
  <2> QED
    BY <1>5, <2>1, <2>2, <2>3, HoldIInv DEF BackupFails, files, TypeOK, Critical, Steps
<1>6. CASE SyncDirFails(u)
  <2>1. faults' \in 0..MaxFaults
    BY <1>6, ConfigAssumption DEF SyncDirFails, Fault, TypeOK, ConfigAssumption
  <2>2. Content(u) \in Versions
    BY <1>6 DEF SyncDirFails, Goto, Accepted, Critical, Steps
  <2> QED
    BY <1>6, <2>1, <2>2, HoldIInv DEF SyncDirFails, files, TypeOK, Critical, Steps
<1> QED
  BY <1>1, <1>2, <1>3, <1>4, <1>5, <1>6

\* The ways in which an update is refused.
LEMMA RefusalIInv ==
  ASSUME IInv, NEW u \in Updates,
         \/ RefuseEarly(u) \/ StageFails(u)
         \/ ValidateRefuses(u) \/ ValidateFails(u) \/ RenameFails(u)
  PROVE  IInv'
<1>1. faults' \in 0..MaxFaults
  BY ConfigAssumption DEF IInv, TypeOK, ConfigAssumption, Fault, RefuseEarly,
     StageFails, ValidateRefuses, ValidateFails, RenameFails
<1>2. PICK from \in {"locked", "staged", "backed"} : Refuse(u, from)
  BY DEF RefuseEarly, StageFails, ValidateRefuses, ValidateFails, RenameFails
<1> QED
  BY <1>1, <1>2, RefuseIInv DEF Critical, Steps

\* The process ends, stops or starts, or the directory is written back.
LEMMA ProcessIInv ==
  ASSUME IInv, Reload \/ Killed \/ WriteBack \/ PowerLoss \/ Shutdown \/ Exit \/ Start
  PROVE  IInv'
<1> USE DEF IInv
<1>1. CASE Reload \/ Killed \/ PowerLoss \/ Exit
  <2>1. faults' \in 0..MaxFaults
    BY <1>1, ConfigAssumption DEF TypeOK, ConfigAssumption, Fault, Reload,
       Killed, PowerLoss, Exit
  <2>2. Ends /\ disk' \in Valid /\ durable' \in Valid
    BY <1>1 DEF Reload, Killed, PowerLoss, Exit, OnDiskValid, DurableValid
  <2>3. acked' = acked
    BY <2>2 DEF Ends
  <2> QED
    BY <2>1, <2>2, <2>3, EndsIInv
<1>2. CASE Shutdown
  <2>1. stopping' \in BOOLEAN /\ armed' \in BOOLEAN
    BY <1>2, Zenon DEF Shutdown
  <2>2. faults' \in 0..MaxFaults
    BY <1>2, ConfigAssumption DEF TypeOK, ConfigAssumption, Fault, Shutdown
  <2>3. TypeOK'
    BY <1>2, <2>1, <2>2 DEF Shutdown, files, TypeOK
  <2> QED
    BY <1>2, <2>3 DEF Shutdown, files, Mutex, Checked, Accepted, Merged, File,
       Content, OnDiskValid, DurableValid
<1>3. CASE Start
  <2>1. up' \in BOOLEAN
    BY <1>3 DEF Start
  <2>2. TypeOK'
    BY <1>3, <2>1 DEF Start, files, TypeOK
  <2> QED
    BY <1>3, <2>2 DEF Start, files, Mutex, Checked, Accepted, Merged, File,
       Content, OnDiskValid, DurableValid
<1>4. CASE WriteBack
  <2>1. TypeOK'
    BY <1>4 DEF WriteBack, process, TypeOK
  <2> QED
    BY <1>4, <2>1 DEF WriteBack, Mutex, Checked, Accepted, Merged, File,
       Content, OnDiskValid, DurableValid
<1> QED
  BY <1>1, <1>2, <1>3, <1>4

LEMMA NextIInv == IInv /\ [Next]_vars => IInv'
<1> SUFFICES ASSUME IInv, [Next]_vars PROVE IInv'
  OBVIOUS
<1>1. CASE UNCHANGED vars
  BY <1>1 DEF vars, IInv, TypeOK, Mutex, Checked, Accepted, Merged, File, Content,
     OnDiskValid, DurableValid
<1>2. CASE \E u \in Updates : Receive(u) \/ Handle(u) \/ Fails(u)
  <2>1. PICK u \in Updates : Receive(u) \/ Handle(u) \/ Fails(u)
    BY <1>2
  <2> QED
    BY <2>1, LockIInv, ApplyIInv, RefusalIInv, RenameIInv, SyncIInv, ReplyIInv
       DEF Handle, Fails
<1>3. CASE Reload \/ Killed \/ WriteBack \/ PowerLoss \/ Shutdown \/ Exit \/ Start
  BY <1>3, ProcessIInv
<1> QED
  BY <1>1, <1>2, <1>3 DEF Next

\* ValidOnDisk.  The agent's config files always form a config that `validate`
\* accepts as a whole, however many updates overlap and wherever the process
\* or the machine stops in handleUpdateConfig.
THEOREM ValidOnDisk == Spec => []OnDiskValid
<1>1. IInv => OnDiskValid
  BY DEF IInv
<1> QED
  BY InitIInv, NextIInv, <1>1, PTL DEF Spec

\* ConfigTypeCorrect.  Every reachable state of the update handlers is well
\* typed: no file of the config set is ever torn or unparsed.
THEOREM ConfigTypeCorrect == Spec => []TypeOK
<1>1. IInv => TypeOK
  BY DEF IInv
<1> QED
  BY InitIInv, NextIInv, <1>1, PTL DEF Spec

-----------------------------------------------------------------------------
(* What was acknowledged is durable, and no candidate is left behind.       *)

\* The holder's own content is where it has put it.
Landed ==
  \A u \in Updates :
    /\ pc[u] \in {"renamed", "synced", "unsynced"} => disk[File(u)] = Content(u)
    /\ pc[u] = "synced" => durable[File(u)] = Content(u)

WithCandidate == {"staged", "validated", "backing", "backed", "lost"}

Candidates == \A u \in staged : pc[u] \in WithCandidate

DInv == Landed /\ HoldsAcked(disk) /\ HoldsAcked(durable) /\ Candidates

LEMMA InitDInv == Init => DInv
BY DEF Init, DInv, Landed, HoldsAcked, Candidates

\* A config still holds what was acknowledged after a step that changes neither
\* it nor the history, and in which no update that replaced a file is forgotten.
LEMMA StillHolds ==
  ASSUME NEW c, HoldsAcked(c), UNCHANGED <<req, acked>>,
         \A u \in Updates : pc[u] \in Replacing => pc'[u] \in Replacing
  PROVE  \A f \in Files :
           \/ c[f] = acked'[f]
           \/ \E u \in Updates : /\ File(u)' = f /\ c[f] = Content(u)'
                                 /\ pc'[u] \in Replacing
<1>1. \A u \in Updates : File(u)' = File(u) /\ Content(u)' = Content(u)
  BY DEF File, Content
<1> QED
  BY <1>1, Zenon DEF HoldsAcked

\* A step of an update that leaves the config files alone.
LEMMA QuietDInv ==
  ASSUME IInv, DInv, NEW u \in Updates,
         NEW from \in {"new", "queued", "locked", "staged", "validated", "backing", "backed"},
         NEW to \in {"queued", "locked", "staged", "validated", "backing", "backed", "done"},
         Goto(u, from, to),
         staged' \subseteq staged \cup {u},
         u \in staged' => to \in WithCandidate,
         UNCHANGED <<disk, durable, req, acked>>
  PROVE  DInv'
<1> USE DEF DInv
<1>1. /\ pc[u] = from /\ pc'[u] = to
      /\ \A v \in Updates \ {u} : pc'[v] = pc[v]
  BY GotoType, Zenon DEF IInv, Goto, Steps
<1>2. Landed'
  BY <1>1 DEF Landed, File, Content
<1>3. \A v \in Updates : pc[v] \in Replacing => pc'[v] \in Replacing
  BY <1>1 DEF Replacing
<1>4. HoldsAcked(disk)' /\ HoldsAcked(durable)'
  BY <1>3, StillHolds DEF HoldsAcked
<1>5. Candidates'
  BY <1>1 DEF Candidates, IInv, TypeOK
<1> QED
  BY <1>2, <1>4, <1>5

LEMMA RenameDInv ==
  ASSUME IInv, DInv, NEW u \in Updates, Rename(u)
  PROVE  DInv'
<1> USE DEF DInv
<1>1. /\ pc[u] = "backed" /\ pc'[u] = "renamed"
      /\ \A v \in Updates \ {u} : pc'[v] = pc[v]
  BY GotoType, Zenon DEF IInv, Rename, Goto, Steps
<1>2. /\ \A v \in Updates \ {u} : pc[v] \notin Critical
  BY <1>1 DEF IInv, Mutex, Critical, Steps
<1>3. File(u) \in Files /\ disk \in [Files -> Versions]
  BY DEF IInv, TypeOK, Requests, Configs, File
<1>4. disk'[File(u)] = Content(u) /\ \A f \in Files \ {File(u)} : disk'[f] = disk[f]
  BY <1>3 DEF Rename
<1>5. durable' = durable /\ req' = req /\ acked' = acked /\ staged' = staged \ {u}
  BY DEF Rename
<1>6. Landed'
  BY <1>1, <1>2, <1>4, <1>5 DEF Landed, File, Content, Critical, Steps
<1>7. \A v \in Updates : pc[v] \in Replacing => pc'[v] \in Replacing
  BY <1>1 DEF Replacing
<1>8. HoldsAcked(disk)'
  <2> SUFFICES ASSUME NEW f \in Files
               PROVE  \/ disk'[f] = acked'[f]
                      \/ \E v \in Updates : /\ File(v)' = f /\ disk'[f] = Content(v)'
                                            /\ pc'[v] \in Replacing
    BY Zenon DEF HoldsAcked
  <2>1. CASE f = File(u)
    BY <2>1, <1>1, <1>4, <1>5 DEF File, Content, Replacing
  <2>2. CASE f # File(u)
    BY <2>2, <1>4, <1>5, <1>7, StillHolds
  <2> QED
    BY <2>1, <2>2
<1>9. HoldsAcked(durable)'
  BY <1>5, <1>7, StillHolds DEF HoldsAcked
<1>10. Candidates'
  BY <1>1, <1>5 DEF Candidates, IInv, TypeOK
<1> QED
  BY <1>6, <1>8, <1>9, <1>10

\* What was renamed reaches the disk.
LEMMA WrittenBack ==
  ASSUME IInv, DInv, durable' = disk, UNCHANGED <<disk, req, acked, staged>>,
         \A u \in Updates : \/ pc'[u] = pc[u]
                            \/ pc[u] = "renamed" /\ pc'[u] = "synced"
  PROVE  DInv'
<1> USE DEF DInv
<1>1. Landed'
  BY DEF Landed, File, Content
<1>2. \A u \in Updates : pc[u] \in Replacing => pc'[u] \in Replacing
  BY DEF Replacing
<1>3. HoldsAcked(disk)' /\ HoldsAcked(durable)'
  BY <1>2, StillHolds DEF HoldsAcked
<1>4. Candidates'
  BY DEF Candidates, WithCandidate, IInv, TypeOK
<1> QED
  BY <1>1, <1>3, <1>4

LEMMA SyncDInv ==
  ASSUME IInv, DInv, NEW u \in Updates, SyncDir(u)
  PROVE  DInv'
<1>1. /\ pc[u] = "renamed" /\ pc'[u] = "synced"
      /\ \A v \in Updates \ {u} : pc'[v] = pc[v]
  BY GotoType, Zenon DEF IInv, SyncDir, Goto, Steps
<1>2. durable' = disk /\ UNCHANGED <<disk, req, acked, staged>>
  BY DEF SyncDir
<1> QED
  BY <1>1, <1>2, WrittenBack

LEMMA SyncFailsDInv ==
  ASSUME IInv, DInv, NEW u \in Updates, SyncDirFails(u)
  PROVE  DInv'
<1> USE DEF DInv
<1>1. /\ pc[u] = "renamed" /\ pc'[u] = "unsynced"
      /\ \A v \in Updates \ {u} : pc'[v] = pc[v]
  BY GotoType, Zenon DEF IInv, SyncDirFails, Goto, Steps
<1>2. UNCHANGED <<disk, durable, req, acked, staged>>
  BY DEF SyncDirFails, files
<1>3. Landed'
  BY <1>1, <1>2 DEF Landed, File, Content
<1>4. \A v \in Updates : pc[v] \in Replacing => pc'[v] \in Replacing
  BY <1>1 DEF Replacing
<1>5. HoldsAcked(disk)' /\ HoldsAcked(durable)'
  BY <1>2, <1>4, StillHolds DEF HoldsAcked
<1>6. Candidates'
  BY <1>1, <1>2 DEF Candidates, WithCandidate, IInv, TypeOK
<1> QED
  BY <1>3, <1>5, <1>6

\* Success is reported of a content that is in place; after a successful sync
\* it is durable.
LEMMA ReplyDInv ==
  ASSUME IInv, DInv, NEW u \in Updates, Reply(u)
  PROVE  DInv'
<1> USE DEF DInv
<1>1. /\ pc'[u] = IF pc[u] = "synced" THEN "done" ELSE "unsure"
      /\ pc[u] \in {"synced", "unsynced"}
      /\ \A v \in Updates \ {u} : pc'[v] = pc[v]
  BY GotoType, Zenon DEF IInv, Reply, Goto, Steps
<1>2. UNCHANGED <<disk, durable, req, staged>>
  BY DEF Reply, files
<1>3. Landed'
  BY <1>1, <1>2 DEF Landed, File, Content
<1>4. Candidates'
  BY <1>1, <1>2 DEF Candidates, WithCandidate, IInv, TypeOK
<1>5. CASE pc[u] = "unsynced"
  <2>1. acked' = acked
    BY <1>5 DEF Reply, Goto
  <2>2. \A v \in Updates : pc[v] \in Replacing => pc'[v] \in Replacing
    BY <1>1, <1>5 DEF Replacing
  <2>3. HoldsAcked(disk)' /\ HoldsAcked(durable)'
    BY <1>2, <2>1, <2>2, StillHolds DEF HoldsAcked
  <2> QED
    BY <1>3, <1>4, <2>3
<1>6. CASE pc[u] = "synced"
  <2>1. File(u) \in Files /\ acked \in [Files -> Versions]
    BY DEF IInv, TypeOK, Requests, Configs, File
  <2>2. acked'[File(u)] = Content(u) /\ \A f \in Files \ {File(u)} : acked'[f] = acked[f]
    BY <1>6, <2>1 DEF Reply, Goto
  <2>3. disk[File(u)] = Content(u) /\ durable[File(u)] = Content(u)
    BY <1>6 DEF Landed
  <2>4. \A v \in Updates : File(v) # File(u) => pc'[v] = pc[v]
    BY <1>1
  <2>5. HoldsAcked(disk)' /\ HoldsAcked(durable)'
    BY <1>2, <2>2, <2>3, <2>4 DEF HoldsAcked, File, Content
  <2> QED
    BY <1>3, <1>4, <2>5
<1> QED
  BY <1>1, <1>5, <1>6

\* The process ends; a power loss puts the durable files in place.
LEMMA EndsDInv ==
  ASSUME IInv, DInv, Ends, disk' = disk \/ disk' = durable, durable' = durable
  PROVE  DInv'
<1> USE DEF DInv
<1>1. \A u \in Updates :
        pc'[u] = IF pc[u] \in Steps THEN "lost" ELSE pc[u]
  BY DEF Ends
<1>2. UNCHANGED <<req, acked, staged>>
  BY DEF Ends
<1>3. Landed'
  BY <1>1 DEF Landed, Steps
<1>4. \A u \in Updates : pc[u] \in Replacing => pc'[u] \in Replacing
  BY <1>1 DEF Replacing, Steps
<1>5. HoldsAcked(disk)' /\ HoldsAcked(durable)'
  BY <1>2, <1>4, StillHolds DEF HoldsAcked
<1>6. Candidates'
  BY <1>1, <1>2 DEF Candidates, WithCandidate, IInv, TypeOK
<1> QED
  BY <1>3, <1>5, <1>6

LEMMA HandleDInv ==
  ASSUME IInv, DInv, NEW u \in Updates, Receive(u) \/ Handle(u) \/ Fails(u)
  PROVE  DInv'
<1>1. CASE Rename(u) \/ SyncDir(u) \/ SyncDirFails(u) \/ Reply(u)
  BY <1>1, RenameDInv, SyncDInv, SyncFailsDInv, ReplyDInv
<1>2. CASE Receive(u) \/ Lock(u)
  <2>1. UNCHANGED <<disk, durable, req, acked, staged>>
    BY <1>2 DEF Receive, Lock, files
  <2>2. u \notin staged
    BY <1>2 DEF Receive, Lock, Goto, DInv, Candidates, WithCandidate
  <2> QED
    BY <1>2, <2>1, <2>2, QuietDInv DEF Receive, Lock
<1>3. CASE Stage(u) \/ Validate(u) \/ BackupStarts(u) \/ BackupEnds(u) \/ BackupFails(u)
  <2>1. UNCHANGED <<disk, durable, req, acked>> /\ staged' \subseteq staged \cup {u}
    BY <1>3 DEF Stage, Validate, BackupStarts, BackupEnds, BackupFails, files
  <2>2. PICK from \in {"locked", "staged", "validated", "backing"},
             to \in {"staged", "validated", "backing", "backed"} : Goto(u, from, to)
    BY <1>3, Zenon DEF Stage, Validate, BackupStarts, BackupEnds, BackupFails
  <2> QED
    BY <2>1, <2>2, QuietDInv DEF WithCandidate
<1>4. CASE \/ RefuseEarly(u) \/ StageFails(u)
           \/ ValidateRefuses(u) \/ ValidateFails(u) \/ RenameFails(u)
  <2>1. PICK from \in {"locked", "staged", "backed"} : Refuse(u, from)
    BY <1>4 DEF RefuseEarly, StageFails, ValidateRefuses, ValidateFails, RenameFails
  <2>2. /\ Goto(u, from, "done") /\ staged' = staged \ {u}
        /\ UNCHANGED <<disk, durable, req, acked>>
    BY <2>1 DEF Refuse, files
  <2> QED
    BY <2>2, QuietDInv
<1> QED
  BY <1>1, <1>2, <1>3, <1>4 DEF Handle, Fails

LEMMA NextDInv == IInv /\ DInv /\ [Next]_vars => DInv'
<1> SUFFICES ASSUME IInv, DInv, [Next]_vars PROVE DInv'
  OBVIOUS
<1>1. CASE \E u \in Updates : Receive(u) \/ Handle(u) \/ Fails(u)
  BY <1>1, HandleDInv
<1>2. CASE Reload \/ Killed \/ PowerLoss \/ Exit
  BY <1>2, EndsDInv DEF Reload, Killed, PowerLoss, Exit
<1>3. CASE Shutdown \/ Start \/ UNCHANGED vars
  <2>1. UNCHANGED <<disk, durable, req, acked, pc, staged>>
    BY <1>3 DEF Shutdown, Start, vars, files
  <2> QED
    BY <2>1 DEF DInv, Landed, HoldsAcked, Candidates, File, Content
<1>4. CASE WriteBack
  BY <1>4, WrittenBack DEF WriteBack
<1> QED
  BY <1>1, <1>2, <1>3, <1>4 DEF Next

\* AckedSurvives.  What handleUpdateConfig reported as written after commit had
\* synced the directory is on disk after any kill or power loss, until an update
\* replaces it, be it one that is not answered or whose sync fails.
THEOREM AckedSurvives == Spec => []AckedIsDurable
<1>1. DInv => AckedIsDurable
  BY DEF DInv, AckedIsDurable
<1> QED
  BY InitIInv, NextIInv, InitDInv, NextDInv, <1>1, PTL DEF Spec

\* CandidatesRemoved.  Every return from Apply removes its candidate file or
\* has renamed it; only the end of the process leaves one behind.
THEOREM CandidatesRemoved == Spec => []NoLitter
<1>1. DInv => NoLitter
  BY DEF DInv, Candidates, WithCandidate, NoLitter, Steps
<1> QED
  BY InitIInv, NextIInv, InitDInv, NextDInv, <1>1, PTL DEF Spec

-----------------------------------------------------------------------------
(* What an update owes: configMu, a true answer, and a restart.             *)

\* LockIsHeld.  configMu is held by an update that is being applied, in a
\* process that runs: no path through handleUpdateConfig leaves it locked.
LockIsHeld == owner # NoUpdate => up /\ pc[owner] \in Critical

\* Due(u).  The update u has replaced its file and need not restart the process
\* yet, or at all.
Due(u) ==
  \/ pc[u] \in {"renamed", "synced", "unsynced"}
  \/ pc[u] \in {"done", "unsure"} /\ req[u].skip

\* Noticed.  A process that is neither stopping nor about to be restarted runs
\* the config on disk, but for files written by an update that is still being
\* answered or that asked for no reload (skip_reload).
Noticed ==
  up /\ ~stopping /\ ~armed =>
    \A f \in Files :
      \/ running[f] = disk[f]
      \/ \E u \in Updates : File(u) = f /\ disk[f] = Content(u) /\ Due(u)

OInv == LockIsHeld /\ Noticed

LEMMA InitOInv == Init => OInv
BY Zenon DEF Init, OInv, LockIsHeld, Noticed

\* A step that writes no config file, and after which what was due is due.
LEMMA StillNoticed ==
  ASSUME Noticed, up' => up, ~stopping' => ~stopping, ~armed' => ~armed,
         UNCHANGED <<disk, running, req>>,
         up' /\ ~stopping' /\ ~armed' => \A u \in Updates : Due(u) => Due(u)'
  PROVE  Noticed'
<1> SUFFICES ASSUME up', ~stopping', ~armed', NEW f \in Files
             PROVE  \/ running'[f] = disk'[f]
                    \/ \E u \in Updates : /\ File(u)' = f /\ disk'[f] = Content(u)'
                                          /\ Due(u)'
  BY Zenon DEF Noticed
<1>1. \/ running[f] = disk[f]
      \/ \E u \in Updates : File(u) = f /\ disk[f] = Content(u) /\ Due(u)
  BY Zenon DEF Noticed
<1>2. \A u \in Updates : File(u)' = File(u) /\ Content(u)' = Content(u)
  BY DEF File, Content
<1> QED
  BY <1>1, <1>2, Zenon

\* A step of an update that holds configMu, or waits for it, and goes on.
LEMMA GoesOnOInv ==
  ASSUME IInv, OInv, NEW u \in Updates,
         NEW from \in {"new", "queued", "locked", "staged", "validated", "backing", "renamed"},
         NEW to \in Steps, Goto(u, from, to),
         from = "renamed" => to \in {"synced", "unsynced"},
         \/ owner' = owner /\ (from \in Critical => to \in Critical)
         \/ owner' = u /\ to \in Critical,
         UNCHANGED <<disk, up, stopping, armed, running, req>>
  PROVE  OInv'
<1>1. /\ pc[u] = from /\ pc'[u] = to /\ up
      /\ \A v \in Updates \ {u} : pc'[v] = pc[v]
  BY GotoType, Zenon DEF IInv, Goto
<1>2. owner \in Updates \cup {NoUpdate} /\ NoUpdate \notin Updates
  BY ConfigAssumption DEF IInv, TypeOK, ConfigAssumption
<1>3. LockIsHeld'
  BY <1>1, <1>2 DEF OInv, LockIsHeld
<1>5. \A v \in Updates : Due(v) => Due(v)'
  BY <1>1 DEF Due, Steps
<1>6. Noticed'
  BY <1>5, StillNoticed DEF OInv
<1> QED
  BY <1>3, <1>6 DEF OInv

LEMMA RefuseOInv ==
  ASSUME IInv, OInv, NEW u \in Updates, NEW from \in {"locked", "staged", "backed"},
         Refuse(u, from)
  PROVE  OInv'
<1>1. /\ pc[u] = from /\ pc'[u] = "done"
      /\ \A v \in Updates \ {u} : pc'[v] = pc[v]
  BY GotoType, Zenon DEF IInv, Refuse, Goto
<1>2. /\ owner' = NoUpdate
      /\ UNCHANGED <<disk, up, stopping, armed, running, req>>
  BY DEF Refuse, Answer, files, process
<1>3. LockIsHeld'
  BY <1>2 DEF LockIsHeld
<1>5. \A v \in Updates : Due(v) => Due(v)'
  BY <1>1, <1>2 DEF Due
<1>6. Noticed'
  BY <1>2, <1>5, StillNoticed DEF OInv
<1> QED
  BY <1>3, <1>6 DEF OInv

\* The file is replaced: from here on a restart is due.
LEMMA RenameOInv ==
  ASSUME IInv, OInv, NEW u \in Updates, Rename(u)
  PROVE  OInv'
<1>1. /\ pc[u] = "backed" /\ pc'[u] = "renamed" /\ up
      /\ \A v \in Updates \ {u} : pc'[v] = pc[v]
  BY GotoType, Zenon DEF IInv, Rename, Goto, Steps
<1>2. UNCHANGED <<up, stopping, armed, running, req, owner>>
  BY DEF Rename, process
<1>3. owner \in Updates \cup {NoUpdate} /\ NoUpdate \notin Updates
  BY ConfigAssumption DEF IInv, TypeOK, ConfigAssumption
<1>4. File(u) \in Files /\ disk \in [Files -> Versions]
  BY DEF IInv, TypeOK, Requests, Configs, File
<1>5. disk'[File(u)] = Content(u) /\ \A f \in Files \ {File(u)} : disk'[f] = disk[f]
  BY <1>4 DEF Rename
<1>6. LockIsHeld'
  BY <1>1, <1>2, <1>3 DEF OInv, LockIsHeld, Critical, Steps
<1>8. \A v \in Updates : /\ File(v)' = File(v) /\ Content(v)' = Content(v)
                         /\ Due(v) => Due(v)'
  BY <1>1, <1>2 DEF File, Content, Due
<1>9. Due(u)'
  BY <1>1 DEF Due
<1>10. Noticed'
  BY <1>2, <1>5, <1>8, <1>9 DEF OInv, Noticed
<1> QED
  BY <1>6, <1>10 DEF OInv

LEMMA ReplyOInv ==
  ASSUME IInv, OInv, NEW u \in Updates, Reply(u)
  PROVE  OInv'
<1>1. /\ pc[u] \in {"synced", "unsynced"} /\ pc'[u] \in {"done", "unsure"}
      /\ \A v \in Updates \ {u} : pc'[v] = pc[v]
  BY GotoType DEF IInv, Reply, Goto
<1>2. /\ owner' = NoUpdate
      /\ armed' = (armed \/ (~req[u].skip /\ ~stopping))
      /\ UNCHANGED <<disk, up, stopping, running, req>>
  BY Zenon DEF Reply, Answer, files
<1>3. LockIsHeld'
  BY <1>2 DEF LockIsHeld
<1>5. ~armed' => ~armed
  BY <1>2, Zenon
<1>6. ASSUME ~stopping', ~armed', NEW v \in Updates, Due(v) PROVE Due(v)'
  <2>1. CASE v = u
    <3>1. req[u].skip
      BY <1>2, <1>6, Zenon
    <3> QED
      BY <1>1, <1>2, <2>1, <3>1, Zenon DEF Due
  <2>2. CASE v # u
    BY <1>1, <1>2, <1>6, <2>2, Zenon DEF Due
  <2> QED
    BY <2>1, <2>2
<1>7. Noticed'
  BY <1>2, <1>5, <1>6, StillNoticed, Zenon DEF OInv
<1> QED
  BY <1>3, <1>7 DEF OInv

LEMMA HandleOInv ==
  ASSUME IInv, OInv, NEW u \in Updates, Receive(u) \/ Handle(u) \/ Fails(u)
  PROVE  OInv'
<1>1. CASE Rename(u) \/ Reply(u)
  BY <1>1, RenameOInv, ReplyOInv
<1>2. CASE Receive(u) \/ Lock(u)
  <2>1. UNCHANGED <<disk, up, stopping, armed, running, req>>
    BY <1>2 DEF Receive, Lock, files, process
  <2> QED
    BY <1>2, <2>1, GoesOnOInv DEF Receive, Lock, Critical, Steps
<1>3. CASE \/ Stage(u) \/ Validate(u) \/ BackupStarts(u) \/ BackupEnds(u)
           \/ BackupFails(u) \/ SyncDir(u) \/ SyncDirFails(u)
  <2>1. UNCHANGED <<disk, up, stopping, armed, running, req, owner>>
    BY <1>3 DEF Stage, Validate, BackupStarts, BackupEnds, BackupFails, SyncDir,
       SyncDirFails, files, process
  <2>2. PICK from \in {"locked", "staged", "validated", "backing", "renamed"},
             to \in {"staged", "validated", "backing", "backed", "synced", "unsynced"} :
          Goto(u, from, to) /\ (from = "renamed" => to \in {"synced", "unsynced"})
    BY <1>3, Zenon DEF Stage, Validate, BackupStarts, BackupEnds, BackupFails, SyncDir,
       SyncDirFails
  <2> QED
    BY <2>1, <2>2, GoesOnOInv DEF Critical, Steps
<1>4. CASE \/ RefuseEarly(u) \/ StageFails(u)
           \/ ValidateRefuses(u) \/ ValidateFails(u) \/ RenameFails(u)
  BY <1>4, RefuseOInv DEF RefuseEarly, StageFails, ValidateRefuses, ValidateFails,
     RenameFails
<1> QED
  BY <1>1, <1>2, <1>3, <1>4 DEF Handle, Fails

LEMMA NextOInv == IInv /\ OInv /\ [Next]_vars => OInv'
<1> SUFFICES ASSUME IInv, OInv, [Next]_vars PROVE OInv'
  OBVIOUS
<1>1. CASE \E u \in Updates : Receive(u) \/ Handle(u) \/ Fails(u)
  BY <1>1, HandleOInv
<1>2. CASE Ends
  BY <1>2, Zenon DEF Ends, OInv, LockIsHeld, Noticed
<1>3. CASE Shutdown
  BY <1>3, Zenon DEF Shutdown, OInv, LockIsHeld, Noticed
<1>4. CASE Start
  <2>1. Noticed'
    BY <1>4, Zenon DEF Start, Noticed, files
  <2>2. LockIsHeld'
    BY <1>4, Zenon DEF Start, OInv, LockIsHeld
  <2> QED
    BY <2>1, <2>2 DEF OInv
<1>5. CASE WriteBack \/ UNCHANGED vars
  <2>1. UNCHANGED <<disk, up, stopping, armed, running, req, pc, owner>>
    BY <1>5 DEF WriteBack, process, vars
  <2>2. LockIsHeld'
    BY <2>1, Zenon DEF OInv, LockIsHeld
  <2>3. Noticed'
    BY <2>1, StillNoticed DEF OInv, Due
  <2> QED
    BY <2>2, <2>3 DEF OInv
<1> QED
  BY <1>1, <1>2, <1>3, <1>4, <1>5 DEF Next, Reload, Killed, PowerLoss, Exit

\* NoOrphanedLock.  configMu is never left locked: whoever waits for it waits
\* for an update that is being applied.
THEOREM NoOrphanedLock == Spec => []LockIsHeld
<1>1. OInv => LockIsHeld
  BY DEF OInv
<1> QED
  BY InitIInv, NextIInv, InitOInv, NextOInv, <1>1, PTL DEF Spec

\* TrueReport.  When success is reported of an update ("config validated and
\* written"), its file holds its content, and the files as they are at that
\* moment form a config that `validate` accepted.
TrueReport ==
  \A u \in Updates :
    reply[u] # "ok" /\ reply'[u] = "ok" =>
      /\ disk[File(u)] = Content(u) /\ disk' = disk
      /\ disk \in Valid

\* ReportsAreTrue.  No update that overlaps comes between the rename and the
\* report of handleUpdateConfig, and none is reported that was refused: configMu
\* is held from the validation to the CommandResult.
THEOREM ReportsAreTrue == Spec => [][TrueReport]_vars
<1>1. IInv /\ DInv /\ [Next]_vars => [TrueReport]_vars
  <2> SUFFICES ASSUME IInv, DInv, Next, NEW u \in Updates, reply[u] # "ok", reply'[u] = "ok"
               PROVE  disk[File(u)] = Content(u) /\ disk' = disk /\ disk \in Valid
    BY Zenon DEF TrueReport
  <2>1. ASSUME NEW v \in Updates, Handle(v) \/ Fails(v) PROVE Reply(u)
    <3>1. CASE Reply(v)
      <4>1. reply' = [reply EXCEPT ![v] = "ok"]
        BY <3>1 DEF Reply, Answer
      <4>2. v = u
        BY <4>1 DEF IInv, TypeOK
      <4> QED
        BY <3>1, <4>2
    <3>2. ASSUME NEW from \in {"locked", "staged", "backed"}, Refuse(v, from)
          PROVE  FALSE
      <4>1. reply' = [reply EXCEPT ![v] = "error"]
        BY <3>2 DEF Refuse, Answer
      <4> QED
        BY <4>1 DEF IInv, TypeOK
    <3>3. reply' # reply
      OBVIOUS
    <3> QED
      BY <2>1, <3>1, <3>2, <3>3 DEF Handle, Fails, Lock, Stage, Validate, BackupStarts,
         BackupEnds, BackupFails, Rename, SyncDir, SyncDirFails, RefuseEarly,
         StageFails, ValidateRefuses, ValidateFails, RenameFails
  <2>2. reply' # reply
    OBVIOUS
  <2>3. Reply(u)
    BY <2>1, <2>2 DEF Next, Receive, Reload, Killed, WriteBack, PowerLoss, Shutdown,
       Exit, Start, Ends
  <2>4. pc[u] \in {"synced", "unsynced"} /\ disk' = disk
    BY <2>3 DEF Reply, Goto, files
  <2> QED
    BY <2>4 DEF DInv, Landed, IInv, OnDiskValid
<1> QED
  BY InitIInv, NextIInv, InitDInv, NextDInv, <1>1, PTL DEF Spec

\* NoConfigUnnoticed.  When handleUpdateConfig has reported a config as written
\* and was not asked to skip the reload, the process runs it or is on its way
\* to a restart: no order of overlapping updates loses the reload.
THEOREM NoConfigUnnoticed == Spec => []Noticed
<1>1. OInv => Noticed
  BY DEF OInv
<1> QED
  BY InitIInv, NextIInv, InitOInv, NextOInv, <1>1, PTL DEF Spec

-----------------------------------------------------------------------------
(* Snapshots.                                                               *)

\* Until the first write the files are as they were; after one write they
\* differ in one file, and what was read of it is its old or its new content.
SInv ==
  /\ at \in Nat /\ writes \in 0..2
  /\ writes = 0 => /\ disk = before
                   /\ \A f \in DOMAIN snap : snap[f] = disk[f]
  /\ writes = 1 => \E g \in Files :
                     /\ \A f \in Files \ {g} : before[f] = disk[f]
                     /\ \A f \in DOMAIN snap : snap[f] \in {before[f], disk[f]}
  /\ DOMAIN snap \subseteq Files
  /\ at = 0 => writes = 0 /\ snap = <<>>

LEMMA InitSInv == SnapInit => SInv
BY DEF SnapInit, SInv

\* A file that cannot be read changes nothing but the count of faults.
LEMMA ReadFailsIInv ==
  ASSUME IInv, DInv, ReadFails
  PROVE  IInv' /\ DInv'
<1>1. UNCHANGED <<disk, durable, bak, staged, up, stopping, running, owner, pc,
                  req, reply, armed, acked>>
  BY DEF ReadFails, files, process
<1>2. faults' \in 0..MaxFaults
  BY ConfigAssumption DEF ReadFails, Fault, IInv, TypeOK, ConfigAssumption
<1>3. TypeOK'
  BY <1>1, <1>2 DEF IInv, TypeOK
<1>4. Mutex' /\ Checked' /\ Accepted' /\ OnDiskValid' /\ DurableValid'
  BY <1>1 DEF IInv, Mutex, Checked, Accepted, Merged, File, Content, OnDiskValid,
              DurableValid
<1>5. DInv'
  BY <1>1 DEF DInv, Landed, HoldsAcked, Candidates, File, Content
<1> QED
  BY <1>3, <1>4, <1>5 DEF IInv

LEMMA SnapStepIInv == IInv /\ DInv /\ [SnapNext]_allVars => IInv' /\ DInv'
<1> SUFFICES ASSUME IInv, DInv, [SnapNext]_allVars PROVE IInv' /\ DInv'
  OBVIOUS
<1>1. CASE ReadFails
  BY <1>1, ReadFailsIInv
<1>2. CASE [Next]_vars
  BY <1>2, NextIInv, NextDInv
<1> QED
  BY <1>1, <1>2 DEF SnapNext, ReadSource, SnapshotSent, Updating, allVars

\* A step of the updates changes one file at most, unless the process ends.
LEMMA OneFileAtATime ==
  ASSUME IInv, Next, up'
  PROVE  \E g \in Files : \A f \in Files \ {g} : disk'[f] = disk[f]
<1>1. CASE \E u \in Updates : Rename(u)
  <2>1. PICK u \in Updates : Rename(u)
    BY <1>1
  <2>2. File(u) \in Files /\ disk \in [Files -> Versions]
    BY DEF IInv, TypeOK, Requests, Configs, File
  <2> QED
    BY <2>1, <2>2 DEF Rename
<1>2. CASE disk' = disk
  <2>1. Files # {}
    <3>1. PICK c \in Seq(Files) : Len(c) > 0
      BY SnapshotAssumption DEF SnapshotAssumption
    <3> QED
      BY <3>1
  <2> QED
    BY <1>2, <2>1
<1>3. ~Ends
  BY DEF Ends
<1>4. CASE \E u \in Updates : Receive(u) \/ Handle(u) \/ Fails(u)
  <2>1. PICK u \in Updates : Receive(u) \/ Handle(u) \/ Fails(u)
    BY <1>4
  <2>2. Rename(u) \/ disk' = disk
    BY <2>1, ZenonT(40) DEF Handle, Fails, Receive, Lock, RefuseEarly, Stage, StageFails,
       Validate, ValidateRefuses, ValidateFails, BackupStarts, BackupEnds,
       BackupFails, RenameFails, SyncDir, SyncDirFails, Reply, Refuse, files
  <2> QED
    BY <1>1, <1>2, <2>2
<1>5. CASE Shutdown \/ Start \/ WriteBack
  BY <1>2, <1>5, Zenon DEF Shutdown, Start, WriteBack, files
<1> QED
  BY <1>3, <1>4, <1>5 DEF Next, Reload, Killed, PowerLoss, Exit

LEMMA SnapStepSInv == IInv /\ SInv /\ [SnapNext]_allVars => SInv'
<1> SUFFICES ASSUME IInv, SInv, [SnapNext]_allVars PROVE SInv'
  OBVIOUS
<1>1. CASE UNCHANGED allVars
  BY <1>1 DEF allVars, vars, snapVars, SInv
<1>2. CASE ReadSource \/ ReadFails
  <2>1. at' \in Nat /\ at' # 0 /\ disk' = disk
    BY <1>2 DEF ReadSource, ReadFails, NextSource, SInv, vars, files
  <2>2. Sources[at + 1] \in Files
    <3>1. at < Len(Sources)
      BY <1>2 DEF ReadSource, ReadFails, NextSource
    <3>2. at \in Nat
      BY DEF SInv
    <3>3. Sources \in Seq(Files)
      BY SnapshotAssumption DEF SnapshotAssumption
    <3>4. at + 1 \in 1..Len(Sources)
      BY <3>1, <3>2, <3>3
    <3> QED
      BY <3>3, <3>4
  <2>3. \/ snap' = snap
        \/ snap' = Holding(Sources[at + 1], disk[Sources[at + 1]])
    BY <1>2 DEF ReadSource, ReadFails
  <2>4. /\ DOMAIN snap' \subseteq DOMAIN snap \cup {Sources[at + 1]}
        /\ \A f \in DOMAIN snap' : snap'[f] = disk[f] \/ (f \in DOMAIN snap /\ snap'[f] = snap[f])
    BY <2>3 DEF Holding
  <2>5. CASE at = 0
    <3>1. before' = disk /\ writes' = 0 /\ writes = 0
      BY <1>2, <2>5 DEF ReadSource, ReadFails, NextSource, SInv
    <3> QED
      BY <2>1, <2>2, <2>4, <3>1 DEF SInv
  <2>6. CASE at # 0
    <3>1. before' = before /\ writes' = writes
      BY <1>2, <2>6 DEF ReadSource, ReadFails, NextSource
    <3> QED
      BY <2>1, <2>2, <2>4, <3>1 DEF SInv
  <2> QED
    BY <2>5, <2>6
<1>3. CASE Forgotten
  BY <1>3 DEF Forgotten, SInv
<1>4. CASE Updating /\ ~Forgotten
  <2>1. Next /\ up' /\ at # 0 /\ UNCHANGED <<at, snap, before>>
    BY <1>4 DEF Updating
  <2>2. writes' = IF disk' # disk /\ writes < 2 THEN writes + 1 ELSE writes
    BY <1>4 DEF Updating
  <2>3. CASE disk' = disk
    BY <2>1, <2>2, <2>3 DEF SInv
  <2>4. CASE disk' # disk
    <3>1. writes' # 0 /\ writes' \in 0..2
      BY <2>2, <2>4 DEF SInv
    <3>2. ASSUME writes' = 1
          PROVE  \E g \in Files :
                     /\ \A f \in Files \ {g} : before[f] = disk'[f]
                     /\ \A f \in DOMAIN snap : snap[f] \in {before[f], disk'[f]}
      <4>1. writes = 0
        BY <2>2, <2>4, <3>2 DEF SInv
      <4>2. PICK g \in Files : \A f \in Files \ {g} : disk'[f] = disk[f]
        BY <2>1, OneFileAtATime
      <4> QED
        BY <4>1, <4>2 DEF SInv
    <3> QED
      BY <2>1, <3>1, <3>2 DEF SInv
  <2> QED
    BY <2>3, <2>4
<1> QED
  BY <1>1, <1>2, <1>3, <1>4 DEF SnapNext, SnapshotSent

\* SnapshotIsOneConfig.  Beside any number of updates, a snapshot that at most
\* one of them overtakes shows the files of one config that was on disk.  The
\* reads of Snapshot and their failures leave the guarantees of the updates as
\* they are: a valid config on disk, what was synced and acknowledged durable,
\* no candidate left behind.
THEOREM SnapshotIsOneConfig ==
  SnapSpec => [](OneConfigSnapshot /\ OnDiskValid /\ AckedIsDurable /\ NoLitter)
<1>1. SInv => OneConfigSnapshot
  <2> SUFFICES ASSUME SInv, writes < 2
               PROVE  \E c \in {before, disk} : \A f \in DOMAIN snap : snap[f] = c[f]
    BY DEF OneConfigSnapshot
  <2>1. CASE writes = 0
    BY <2>1 DEF SInv
  <2>2. CASE writes = 1
    <3>1. PICK g \in Files :
            /\ \A f \in Files \ {g} : before[f] = disk[f]
            /\ \A f \in DOMAIN snap : snap[f] \in {before[f], disk[f]}
      BY <2>2 DEF SInv
    <3>2. CASE g \in DOMAIN snap /\ snap[g] # disk[g]
      <4>1. \A f \in DOMAIN snap : snap[f] = before[f]
        BY <3>1, <3>2 DEF SInv
      <4> QED
        BY <4>1
    <3>3. CASE ~(g \in DOMAIN snap /\ snap[g] # disk[g])
      <4>1. \A f \in DOMAIN snap : snap[f] = disk[f]
        BY <3>1, <3>3 DEF SInv
      <4> QED
        BY <4>1
    <3> QED
      BY <3>2, <3>3
  <2> QED
    BY <2>1, <2>2 DEF SInv
<1>2. IInv /\ DInv => OnDiskValid /\ AckedIsDurable /\ NoLitter
  BY DEF IInv, DInv, AckedIsDurable, Candidates, WithCandidate, NoLitter, Steps
<1> QED
  BY InitIInv, InitDInv, InitSInv, SnapStepIInv, SnapStepSInv, <1>1, <1>2, PTL DEF SnapSpec

=============================================================================
