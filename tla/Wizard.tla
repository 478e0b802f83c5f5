------------------------------- MODULE Wizard -------------------------------
(***************************************************************************)
(* A template's wizard: what a manifest must satisfy to be imported, how   *)
(* the page checks a form step by step and previews the configuration, and *)
(* how the server turns the saved values into the configuration it stores. *)
(*                                                                         *)
(* A value is one of a few JSON primitives.  A manifest declares one port, *)
(* one variable and one volume and two resource profiles; a wizard step    *)
(* has one field, mapped to one path.  A JSON Schema is the types that     *)
(* each property admits and, for the keywords that speak of the object as  *)
(* a whole, "exclusive": not all fields together.                          *)
(***************************************************************************)
EXTENDS Naturals, Sequences

CONSTANTS Fields,     \* the wizard's fields, a sequence in their order
          Manifests   \* manifests that someone imports

VARIABLES manifest,   \* the published manifest the page shows
          form,       \* what the form holds, field by field
          step,       \* the step shown; after the last comes the review
          notice,     \* what the review says of the last save
          stored      \* the draft: its values and desired configuration

vars == <<manifest, form, step, notice, stored>>

Absent == "absent"
NotStored == [saved |-> FALSE]
FieldIds == {Fields[i] : i \in DOMAIN Fields}

\* The values: two profile identifiers, a Vault reference, another text and the
\* empty one, a size below the volume's minimum and one that is not.
Profiles == {"starter", "large"}
Strings == Profiles \cup {"text", "vault", "empty"}
Numbers == {"below", "enough"}
Booleans == {"true", "false"}
Primitives == Strings \cup Numbers \cup Booleans \cup {"null"}
TypeOf(value) == CASE value \in Strings -> "string"
                   [] value \in Numbers -> "number"
                   [] value \in Booleans -> "boolean"
                   [] OTHER -> "null"

FieldTypes == {"text", "number", "boolean", "select", "secret"}
Toggles == {"backups", "health", "port"}
Paths == Toggles \cup {"profile", "parameter", "environment", "volume"}

Present(values) == {f \in FieldIds : values[f] # Absent}

-----------------------------------------------------------------------------
(* What serviceTemplateManifestSchema accepts.                             *)

IsValidMappingPath(m, path) ==
  CASE path = "backups" -> m.backups
    [] path = "health" -> m.health
    [] OTHER -> path \in Paths

\* A secret field feeds a secret variable and nothing else does.
SecretsMatch(m, f) ==
  m.type[f] = "secret" <=> m.path[f] = "environment" /\ m.variable = "secret"

VariableMatches(m, f) ==
  \/ m.type[f] = IF m.variable = "string" THEN "text" ELSE m.variable
  \/ m.type[f] = "select" /\ \A v \in m.options[f] : TypeOf(v) \in {m.variable, "null"}

AcceptedField(m, f) ==
  /\ m.type[f] = "secret" => m.default[f] = Absent
  /\ m.type[f] = "select" <=> m.options[f] # {}
  /\ IsValidMappingPath(m, m.path[f])
  /\ SecretsMatch(m, f)
  /\ m.path[f] = "profile" => /\ m.type[f] = "select"
                              /\ m.options[f] \subseteq Profiles
                              /\ "string" \in m.schema[f]
  /\ m.path[f] = "volume" => m.type[f] = "number"
  /\ m.path[f] \in Toggles => m.type[f] = "boolean"
  /\ m.path[f] = "environment" /\ m.variable # "secret" => VariableMatches(m, f)

Accepted(m) ==
  /\ m.variable = "secret" => m.preset = Absent
  /\ \A f \in FieldIds : AcceptedField(m, f)

SchemaAccepts(m, values) == m.exclusive => Present(values) # FieldIds

-----------------------------------------------------------------------------
(* The server.                                                             *)

\* A default stands in for a field that is not supplied; null is supplied.
MutWithDefaults(m, values) ==
  [f \in FieldIds |-> IF values[f] \in {Absent, "null"} THEN m.default[f] ELSE values[f]]
WithDefaults(m, values) ==
  [f \in FieldIds |-> IF values[f] = Absent THEN m.default[f] ELSE values[f]]

ValidWizardValues(m, values) ==
  /\ \A f \in FieldIds :
       /\ m.required[f] => values[f] # Absent
       /\ values[f] # Absent => TypeOf(values[f]) \in m.schema[f]
       /\ m.type[f] = "secret" => values[f] \in {Absent, "vault"}
  /\ SchemaAccepts(m, values)

CanApply(m, path, value) ==
  CASE path = "profile" -> value \in Profiles
    [] path \in Toggles -> value \in Booleans
    [] path = "volume" -> value = "enough"
    [] path = "environment" -> m.variable = "secret" => value = "vault"
    [] OTHER -> TRUE

\* The configuration before the mappings are applied.
Base(m) ==
  [path \in Paths |->
     CASE path = "profile" -> "starter"
       [] path = "environment" -> m.preset
       [] path = "volume" -> "enough"
       [] path = "health" -> IF m.health THEN "true" ELSE "false"
       [] path \in {"backups", "port"} -> "false"
       [] OTHER -> Absent]

\* The mappings are applied in their order: the last one of a path stays.
Last(m, values, path) ==
  LET at == {i \in DOMAIN Fields : m.path[Fields[i]] = path
                                     /\ values[Fields[i]] # Absent}
  IN IF at = {} THEN Absent ELSE Fields[CHOOSE i \in at : \A j \in at : j <= i]

Mapped(m, values) ==
  [path \in Paths |->
     LET f == Last(m, values, path) IN IF f = Absent THEN Base(m)[path] ELSE values[f]]

\* buildDesiredConfiguration; a refusal stores nothing.
BuildDesiredConfiguration(m, supplied) ==
  LET values == WithDefaults(m, supplied) IN
  IF /\ ValidWizardValues(m, values)
     /\ \A f \in Present(values) : CanApply(m, m.path[f], values[f])
  THEN [saved |-> TRUE, values |-> values, desired |-> Mapped(m, values)]
  ELSE NotStored

-----------------------------------------------------------------------------
(* The page.                                                               *)

SecretAt(m, f) ==
  m.type[f] = "secret" \/ (m.path[f] = "environment" /\ m.variable = "secret")

\* The types the page's validator admits: the field's own type goes over the
\* schema's, and what the mapped path asks for over both.
AdmittedTypes(m, f) ==
  CASE SecretAt(m, f) \/ m.path[f] = "profile" -> {"string"}
    [] m.path[f] \in Toggles -> {"boolean"}
    [] m.path[f] = "volume" -> {"number"}
    [] m.path[f] = "environment" -> {m.variable} \cup (m.schema[f] \cap {"null"})
    [] m.type[f] \in {"number", "boolean"} -> {m.type[f]}
    [] OTHER -> m.schema[f]

\* No error is shown at the field.
FieldValid(m, f, values) ==
  IF values[f] = Absent THEN ~m.required[f]
  ELSE /\ TypeOf(values[f]) \in AdmittedTypes(m, f)
       /\ m.options[f] = {} \/ m.path[f] = "profile" \/ values[f] \in m.options[f]
       /\ m.path[f] = "profile" => values[f] \in Profiles
       /\ m.path[f] = "volume" => values[f] = "enough"
       /\ SecretAt(m, f) => values[f] = "vault"

Control(m, f) ==
  LET type == IF m.type[f] \in {"number", "boolean"} THEN {m.type[f]} ELSE m.schema[f]
  IN IF type = {"boolean"} THEN "checkbox"
     ELSE IF m.options[f] # {} THEN "select"
     ELSE IF type = {"number"} THEN "number" ELSE "text"

\* What a control can be set to.
Entries(m, f) ==
  CASE Control(m, f) = "checkbox" -> Booleans
    [] Control(m, f) = "select" -> m.options[f] \cup {Absent}
    [] Control(m, f) = "number" -> Numbers \cup {Absent}
    [] OTHER -> Strings

\* The form library reads a control that has no value when it is shown.
Shown(m, i, values) ==
  [values EXCEPT ![Fields[i]] =
     CASE @ = Absent /\ Control(m, Fields[i]) = "checkbox" -> "false"
       [] @ = Absent /\ Control(m, Fields[i]) = "text" -> "empty"
       [] OTHER -> @]

\* desiredConfiguration of the page, with secrets masked.
Preview(m, values) ==
  [path \in Paths |->
     LET f == Last(m, values, path) IN
     IF f = Absent THEN Base(m)[path]
     ELSE IF m.type[f] = "secret" THEN "[secret]" ELSE values[f]]

Review == Len(Fields) + 1

InitialValues(m, saved) ==
  [f \in FieldIds |-> IF saved # NotStored /\ saved.values[f] # Absent THEN saved.values[f]
                 ELSE m.default[f]]

Init ==
  /\ manifest \in {m \in Manifests : Accepted(m)}
  /\ form = Shown(manifest, 1, InitialValues(manifest, NotStored))
  /\ step = 1
  /\ notice = "none"
  /\ stored = NotStored

Enter ==
  /\ step # Review
  /\ \E value \in Entries(manifest, Fields[step]) :
       form' = [form EXCEPT ![Fields[step]] = value]
  /\ UNCHANGED <<manifest, step, notice, stored>>

\* Only the fields of the step that is left are asked.
ContinueAllowed == FieldValid(manifest, Fields[step], form)

Continue ==
  /\ step # Review
  /\ ContinueAllowed
  /\ step' = step + 1
  /\ form' = IF step + 1 = Review THEN form ELSE Shown(manifest, step + 1, form)
  /\ UNCHANGED <<manifest, notice, stored>>

\* Back, or "Edit configuration" on the review.
Back ==
  /\ step > 1
  /\ step' = step - 1
  /\ form' = Shown(manifest, step - 1, form)
  /\ notice' = "none"
  /\ UNCHANGED <<manifest, stored>>

\* What the resolver hands to the save: an error of the object as a whole has
\* no field to be shown at, so that the form counts as valid, but its values
\* are withheld.
Resolved(m, values) ==
  IF SchemaAccepts(m, values) THEN values ELSE [f \in FieldIds |-> Absent]

SaveDraft ==
  LET sent == Resolved(manifest, form)
      built == BuildDesiredConfiguration(manifest, sent) IN
  /\ step = Review
  /\ \A f \in FieldIds : FieldValid(manifest, f, form)
  /\ IF built = NotStored
     THEN notice' = "refused" /\ UNCHANGED <<form, stored>>
     ELSE notice' = "saved" /\ form' = sent /\ stored' = built
  /\ UNCHANGED <<manifest, step>>

\* The page is left and opened again.
Resume ==
  /\ form' = Shown(manifest, 1, InitialValues(manifest, stored))
  /\ step' = 1
  /\ notice' = "none"
  /\ UNCHANGED <<manifest, stored>>

Next ==
  \/ Enter \/ Continue \/ Back \/ SaveDraft \/ Resume

Spec == Init /\ [][Next]_vars

-----------------------------------------------------------------------------
(* Properties.                                                             *)

Configuration == [Paths -> Primitives \cup {Absent}]

TypeOK ==
  /\ Accepted(manifest)
  /\ form \in [FieldIds -> Primitives \cup {Absent}]
  /\ step \in 1 .. Review
  /\ notice \in {"none", "saved", "refused"}
  /\ stored \in {NotStored} \cup [saved : {TRUE}, values : [FieldIds -> Primitives \cup {Absent}],
                                  desired : Configuration]

Masked(desired) ==
  [path \in Paths |-> IF path = "environment" /\ manifest.variable = "secret"
                         /\ desired[path] # Absent
                      THEN "[secret]" ELSE desired[path]]
\* The step that saves: nothing else stays on the review.
Saving == step = Review /\ step' = Review /\ notice' = "saved"
DefaultCleared == \E f \in FieldIds : form[f] = Absent /\ manifest.default[f] # Absent

\* Page and server compute the same configuration, each with its own code: the
\* draft that is stored is the one that was reviewed.  Two exceptions: a field
\* with a default was cleared, or the schema refuses the form as a whole.
PreviewIsStored ==
  [][Saving /\ ~DefaultCleared /\ SchemaAccepts(manifest, form)
       => Masked(stored'.desired) = Preview(manifest, form)]_vars

\* "Review desired configuration.  This saves a draft only.": the review that
\* stands beside "Deployment draft saved" is the draft that was saved.
StoredAsReviewed == notice = "saved" => Masked(stored.desired) = Preview(manifest, form)

=============================================================================
