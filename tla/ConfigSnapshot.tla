--------------------------- MODULE ConfigSnapshot ----------------------------
(* GetConfig beside the updates of ConfigApply.  Snapshot runs in recvLoop, *)
(* without configMu: it reads the config files one after the other while    *)
(* updates that were received before go on replacing them.                  *)
EXTENDS ConfigApply, Sequences

CONSTANTS
  Sources      \* the file: sources in the order of the --config flags

ASSUME SnapshotAssumption ==
  /\ Sources \in Seq(Files) /\ Len(Sources) > 0

VARIABLES
  at,       \* how many sources Snapshot has read; 0 when none is being taken
  snap,     \* what it has read: for each file it could read, its content
  before,   \* history: the config on disk when the first was read
  writes    \* history: updates renamed into place since then, two at most

snapVars == <<at, snap, before, writes>>
allVars == <<vars, snapVars>>

SnapInit == at = 0 /\ snap = <<>> /\ before = disk /\ writes = 0

\* The process is not stopping when recvLoop takes the command.
NextSource ==
  /\ up /\ at < Len(Sources) /\ at' = at + 1
  /\ IF at = 0 THEN ~stopping /\ before' = disk /\ writes' = 0
               ELSE UNCHANGED <<before, writes>>

Holding(f, content) ==
  [g \in DOMAIN snap \cup {f} |-> IF g = f THEN content ELSE snap[g]]

\* Mutant: while a file is being updated its backup is read.
ReadSourceBackup ==
  /\ NextSource
  /\ LET f == Sources[at + 1]
     IN  snap' = Holding(f, IF owner # NoUpdate THEN bak[f] ELSE disk[f])
  /\ UNCHANGED vars

ReadSource ==
  /\ NextSource
  /\ LET f == Sources[at + 1] IN snap' = Holding(f, disk[f])
  /\ UNCHANGED vars

\* The file cannot be read: its entry carries the error.
ReadFails ==
  /\ NextSource /\ Fault
  /\ UNCHANGED <<snap, files, staged, process, owner, pc, req, reply, acked>>

Forgotten == at' = 0 /\ snap' = <<>> /\ before' = disk' /\ writes' = 0

SnapshotSent == up /\ at = Len(Sources) /\ UNCHANGED vars /\ Forgotten

\* Updates go on; recvLoop receives none meanwhile.
Updating ==
  /\ Next
  /\ at # 0 => \A u \in Updates : pc[u] = "new" => pc'[u] = "new"
  /\ IF ~up' \/ at = 0 THEN Forgotten
     ELSE /\ UNCHANGED <<at, snap, before>>
          /\ writes' = IF disk' # disk /\ writes < 2 THEN writes + 1 ELSE writes

SnapNext == ReadSource \/ ReadFails \/ SnapshotSent \/ Updating

SnapSpec == Init /\ SnapInit /\ [][SnapNext]_allVars

\* OneConfigSnapshot.  A snapshot shows files of one config: the one that was on
\* disk when it was begun or the one that is on disk now, unless two updates
\* were renamed into place while it was read.
OneConfigSnapshot ==
  (at = Len(Sources) /\ writes < 2) =>
    \E c \in {before, disk} : \A f \in DOMAIN snap : snap[f] = c[f]

=============================================================================
