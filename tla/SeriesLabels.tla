---------------------------- MODULE SeriesLabels -----------------------------
(* The label views of a resource and of a series: Prometheus labels         *)
(* (internal/promnaming/labels.go), Loki's stream labels and the trace      *)
(* filter's resource labels.                                                *)
(*                                                                          *)
(* Attributes are a sequence of [key, value] in the order of the message.   *)
(* The tokens of a key are runs of letters, single digits, "_" and others.  *)
EXTENDS Selectors

CONSTANTS
  Letters, Digits,               \* tokens kept by NormalizeLabelName
  promotedResourceAttributes     \* keys Loki makes stream labels of

SERVICE_NAME == <<"service", ".", "name">>
SERVICE_NAMESPACE == <<"service", ".", "namespace">>
SERVICE_INSTANCE == <<"service", ".", "instance", ".", "id">>
HOST_NAME == <<"host", ".", "name">>

NormalizeLabelName(label) ==
  LET l == [i \in DOMAIN label |->
              IF label[i] \in Letters \cup Digits THEN label[i] ELSE "_"]
  IN  IF l = <<>> THEN l
      ELSE IF l[1] \in Digits THEN <<"key", "_">> \o l
      ELSE IF l[1] = "_" /\ ~(Len(l) > 1 /\ l[2] = "_") THEN <<"key">> \o l
      ELSE l

\* Attributes as a map, name[i] being the label of the i-th; of two with one
\* label the later wins.
Labels(attrs, name) ==
  [k \in {name[i] : i \in DOMAIN attrs} |->
     LET last == CHOOSE i \in DOMAIN attrs :
                   name[i] = k /\ \A j \in DOMAIN attrs : name[j] = k => j <= i
     IN  attrs[last].value]

Normalized(attrs) ==
  Labels(attrs, [i \in DOMAIN attrs |-> NormalizeLabelName(attrs[i].key)])

\* first's entries where both have one.
Over(first, second) ==
  [k \in DOMAIN first \cup DOMAIN second |->
     IF k \in DOMAIN first THEN first[k] ELSE second[k]]

\* Map.Get: the first attribute with this very key.
getAttrAsString(attrs, key) ==
  LET at == {i \in DOMAIN attrs : attrs[i].key = key}
  IN  IF at = {} THEN <<>>
      ELSE attrs[CHOOSE i \in at : \A j \in at : i <= j].value

jobLabelFromResource(res) ==
  LET name == getAttrAsString(res, SERVICE_NAME)
      ns == getAttrAsString(res, SERVICE_NAMESPACE)
  IN  IF name = <<>> \/ ns = <<>> THEN name ELSE ns \o <<"/">> \o name

instanceLabelFromResource(res) ==
  LET id == getAttrAsString(res, SERVICE_INSTANCE)
  IN  IF id # <<>> THEN id ELSE getAttrAsString(res, HOST_NAME)

Synthesized(res) ==
  LET all == [k \in {<<"job">>, <<"instance">>} |->
                IF k = <<"job">> THEN jobLabelFromResource(res)
                ELSE instanceLabelFromResource(res)]
  IN  [k \in {j \in DOMAIN all : all[j] # <<>>} |-> all[k]]

\* Mutant: job and instance are set even if they are there.
addSynthesizedJobInstanceAlways(labels, res) == Over(Synthesized(res), labels)

\* Only labels that are not there already are added.
addSynthesizedJobInstance(labels, res) == Over(labels, Synthesized(res))

BuildSeriesLabels(res, point, extra) ==
  Over(Normalized(extra),
       addSynthesizedJobInstance(Over(Normalized(point), Normalized(res)), res))

ResourceLabelMap(res) == addSynthesizedJobInstance(Normalized(res), res)

-----------------------------------------------------------------------------
\* Mutant: only the first dot is replaced.
UnderscoredOnce(key) ==
  [i \in DOMAIN key |->
     IF key[i] = "." /\ \A j \in 1..(i - 1) : key[j] # "." THEN "_" ELSE key[i]]

Underscored(key) == [i \in DOMAIN key |-> IF key[i] = "." THEN "_" ELSE key[i]]

\* What holds of the list in the code (streamlabels.go) and of the tokens.
ASSUME LabelsAssumption ==
  /\ Letters \cap Digits = {} /\ {".", "_"} \cap (Letters \cup Digits) = {}
  /\ \A a \in promotedResourceAttributes :
       /\ a \in Seq(Letters \cup Digits \cup {".", "_"})
       /\ a # <<>> /\ a[1] \in Letters
       /\ \A b \in promotedResourceAttributes : Underscored(a) = Underscored(b) => a = b

\* The log filter's view of a resource, as Loki has it.
streamLabels(res) ==
  LET promoted == {a \in promotedResourceAttributes :
                     \E i \in DOMAIN res : res[i].key = a}
      found == [k \in {Underscored(a) : a \in promoted} |->
                  getAttrAsString(res, CHOOSE a \in promoted : Underscored(a) = k)]
      default == [k \in {Underscored(SERVICE_NAME)} |-> <<"unknown_service">>]
  IN  Over(found, default)

\* The trace filter's.
resourceLabels(res) ==
  Labels(res, [i \in DOMAIN res |-> <<"resource", ".">> \o res[i].key])

=============================================================================
