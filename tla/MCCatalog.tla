----------------------------- MODULE MCCatalog -----------------------------
(***************************************************************************)
(* What tenants work with, side by side: projects and environments, the    *)
(* drafts kept in them, the page that composes a draft, and the workers    *)
(* among which a reservation is placed.  They share no state here: what    *)
(* one reads of another's documents are refusals that may happen or not.   *)
(* "part" picks one.                                                       *)
(*                                                                         *)
(* The tree and the drafts are each checked at two sizes: with one of two  *)
(* projects (then each document changes once) or environments used up; and *)
(* with one tab, or with one draft of a published template.                *)
(***************************************************************************)
EXTENDS Reservations, Sequences, TLC

CONSTANTS o1, e1, e2, w1, w2, i1, k1, c1, east, west, any, p1, p2, t1, t2, d1, d2,
          Projects, TreeEnvironments, Slugs, Types, Handlers,   \* of the tree
          Manifests, Contents, Drafts, Tabs, Values,            \* of the drafts
          MaxVersion, None,
          Fields, Imports    \* of the wizard: its fields in order, and manifests
VARIABLES project, treeEnvironment, open,
          templates, drafts, tabs, requests, lost,
          manifest, form, step, notice, stored, part

ASSUME DraftsAssumption == MaxVersion \in Nat /\ None \notin Drafts /\ "first" \in Contents
ASSUME FieldsAssumption == Fields \in Seq(STRING)

\* ------------------- two fields and manifests for them --------------------
Steps == <<"f", "g">>

\* An author matches a field's type and its schema, and picks a path freely.
Kinds ==
  LET Kind(type, default, options, schema) ==
        [type |-> type, default |-> default, options |-> options, schema |-> schema]
  IN { Kind("text", "absent", {}, {"string", "null"}),
       Kind("text", "text", {}, {"string"}),
       Kind("secret", "absent", {}, {"string"}),
       Kind("number", "enough", {}, {"number"}),
       Kind("number", "absent", {}, {"number", "null"}),
       Kind("boolean", "true", {}, {"boolean"}),
       Kind("boolean", "absent", {}, {"boolean"}),
       Kind("select", "starter", {"starter", "large"}, {"string"}),
       Kind("select", "text", {"text", "null"}, {"string", "null"}),
       Kind("select", "absent", {"enough", "null"}, {"number", "null"}) }
FirstFields ==
  {[path |-> path, required |-> required] @@ kind :
     kind \in Kinds, required \in BOOLEAN,
     path \in {"backups", "health", "port", "profile", "parameter", "environment",
               "volume", "unknown"}}
SecondFields ==
  { [type |-> "text", default |-> "absent", options |-> {}, schema |-> {"string"},
     path |-> "parameter", required |-> FALSE],
    [type |-> "select", default |-> "large", options |-> {"starter", "large"},
     schema |-> {"string"}, path |-> "profile", required |-> TRUE] }
Rest ==
  {[variable |-> variable, preset |-> IF variable = "string" THEN "text" ELSE "absent",
    backups |-> variable # "number", health |-> variable # "boolean",
    exclusive |-> exclusive] :
     variable \in {"string", "number", "boolean", "secret"}, exclusive \in BOOLEAN}
ManifestOf(first, second, rest) ==
  [key \in {"type", "default", "options", "schema", "path", "required"} |->
     [f \in {"f", "g"} |-> IF f = "f" THEN first[key] ELSE second[key]]] @@ rest
WizardManifests ==
  {ManifestOf(first, second, rest) :
     first \in FirstFields, second \in SecondFields, rest \in Rest}
\* The manifest that the page shows while another part is checked.
Plain ==
  LET field == CHOOSE f \in SecondFields : f.type = "text"
  IN ManifestOf([field EXCEPT !.default = "text"], field, CHOOSE r \in Rest : ~r.exclusive)

-----------------------------------------------------------------------------
Tree == INSTANCE TenantTree WITH
          Environments <- TreeEnvironments, environment <- treeEnvironment
Catalog == INSTANCE ServiceDrafts
Page == INSTANCE Wizard WITH Manifests <- Imports

\* Workers in two regions come and go while a handler places a reservation in
\* an environment that is created, moved and deleted.
Placement ==
  LET Body(pin) ==
        [env |-> e1, amount |-> "cpu" :> 1 @@ "transfer" :> 0, pin |-> pin]
  IN {Body(any), Body(w2)}
Quotas == {"cpu" :> 2 @@ "transfer" :> 1 @@ "services" :> 2 @@ "environments" :> 1}
OneCore == {"cpu" :> 1}
Owner == e1 :> o1
Site == w1 :> east @@ w2 :> west

\* What zod makes of a manifest: a field has a default or none, and a list of
\* options when it is a select.
ASSUME ImportsAssumption ==
  \A m \in Imports :
    /\ \A f \in Page!FieldIds : /\ m.default[f] \in Page!Primitives \cup {Page!Absent}
                               /\ m.options[f] \subseteq Page!Primitives
    /\ m.preset \in Page!Primitives \cup {Page!Absent}

treeVars == <<project, treeEnvironment, open>>
draftVars == <<templates, drafts, tabs, requests, lost>>
pageVars == <<manifest, form, step, notice, stored>>
mcVars == <<vars, treeVars, draftVars, pageVars, part>>

Parts == {"one tab", "one draft", "one project", "one environment", "page",
          "placement"}

StartOf(document, used) == IF used THEN [document EXCEPT !.state = "deleted"] ELSE document
MCInit ==
  /\ part \in Parts
  /\ templates = [m \in Manifests |->
       IF part = "one draft"
       THEN [state |-> "published", content |-> "first", publishedAt |-> TRUE]
       ELSE [state |-> "absent", content |-> None, publishedAt |-> FALSE]]
  /\ drafts = [d \in Drafts |->
       IF part = "one draft" /\ d = d2 THEN [Catalog!NoDraft EXCEPT !.status = "abandoned"]
       ELSE Catalog!NoDraft]
  /\ tabs = [t \in Tabs |-> [Catalog!EmptyTab(None) EXCEPT !.stage = "closed"]]
  /\ requests = [t \in Tabs |-> Catalog!NoRequest]
  /\ lost = {}
  /\ project = [p \in Projects |->
       StartOf([state |-> "absent", slug |-> None, version |-> 0],
               part = "one project" /\ p = p2)]
  /\ treeEnvironment = [e \in TreeEnvironments |->
       StartOf([state |-> "absent", project |-> None, slug |-> None,
                default |-> None, version |-> 0],
               part = "one environment" /\ e = e2)]
  /\ open = [h \in Handlers |-> Tree!Idle]
  /\ Page!Init
  /\ part # "page" => manifest = Plain
  /\ Init
  /\ part # "placement" =>
       /\ entitlement[o1].validUntil = 1
       /\ environment[e1] = [status |-> "absent", region |-> east]

MCNext ==
  /\ UNCHANGED part
  /\ \/ /\ part \in {"one tab", "one draft"}
        /\ Catalog!Next
        /\ part = "one tab" => tabs'[t2] = tabs[t2]
        /\ part = "one draft" => templates' = templates
        /\ UNCHANGED <<vars, treeVars, pageVars>>
     \/ /\ part \in {"one project", "one environment"}
        /\ Tree!Next
        /\ part = "one project" =>
             /\ \A p \in Projects : project'[p].version <= 1
             /\ \A e \in TreeEnvironments : treeEnvironment'[e].version <= 1
        /\ UNCHANGED <<vars, draftVars, pageVars>>
     \/ /\ part = "page"
        /\ Page!Next
        /\ UNCHANGED <<vars, treeVars, draftVars>>
     \/ /\ part = "placement"
        /\ Next
        /\ UNCHANGED <<treeVars, draftVars, pageVars>>
MCSpec == MCInit /\ [][MCNext]_mcVars

\* The other parts keep the state a part starts in, so its types are only looked
\* at where it is taken.
TypesOK ==
  CASE part \in {"one project", "one environment"} -> Tree!TypeOK
    [] part \in {"one tab", "one draft"} -> Catalog!TypeOK
    [] part = "page" -> Page!TypeOK
    [] OTHER -> TypeOK
NoOrphans == Tree!NoOrphans
UpdateSawWhatItChanges == Tree!UpdateSawWhatItChanges
BuiltFromTemplate == Catalog!BuiltFromTemplate
OneDraftPerTab == Catalog!OneDraftPerTab
SaveSawWhatItChanges == Catalog!SaveSawWhatItChanges
PreviewIsStored == Page!PreviewIsStored
StoredAsReviewed == Page!StoredAsReviewed

Symmetry == Permutations(Values) \cup Permutations(Slugs) \cup Permutations(Handlers)
=============================================================================
