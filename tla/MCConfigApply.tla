---------------------------- MODULE MCConfigApply ----------------------------
EXTENDS ConfigSnapshot

CONSTANTS main, overlay, old, new, u1, u2

TwoFiles == {main, overlay}
TwoVersions == {old, new}
TwoUpdates == {u1, u2}

\* Each file may be changed, but the new versions do not go together.
NotBothNew ==
  {c \in [TwoFiles -> TwoVersions] : \E f \in TwoFiles : c[f] = old}

MainFirst == <<main, overlay>>

\* Both files are old at the start, and one update at least is for main.
MCInit ==
  /\ Init /\ SnapInit
  /\ req[u1].file = main /\ \A f \in TwoFiles : disk[f] = old

\* Updates are handled as before, whether or not a snapshot is being taken.
MCSpec == MCInit /\ [][SnapNext]_allVars /\ Fairness

=============================================================================
