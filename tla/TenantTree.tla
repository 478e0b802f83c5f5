----------------------------- MODULE TenantTree -----------------------------
(***************************************************************************)
(* The projects of an organization and the environments in them: create,   *)
(* update against the version its author saw, and delete only when empty.  *)
(*                                                                         *)
(* Each operation runs in a snapshot transaction, split where the snapshot *)
(* is taken and where it commits.  A commit aborts the open transactions   *)
(* that write a document it wrote: the driver runs an update again with    *)
(* its input; running another one again is a new Begin.  What the models   *)
(* of reservations and workers decide, if a region has workers and if an   *)
(* environment holds reservations, is a refusal that may happen or not.    *)
(***************************************************************************)
EXTENDS Naturals

CONSTANTS Projects,      \* identities of projects documents
          Environments,  \* identities of environments documents
          Slugs,         \* slugs people choose
          Types,         \* types an environment can be the default of
          Handlers,      \* requests in flight
          MaxVersion,    \* bound on the version of a document
          None           \* no project, slug or default

VARIABLES project,       \* the projects documents
          environment,   \* the environments documents
          open           \* per handler: what its author saw, or its transaction

vars == <<project, environment, open>>

States == {"absent", "active", "deleted"}
Project == [state : States, slug : Slugs \cup {None}, version : Nat]
Environment == [state : States, project : Projects \cup {None}, slug : Slugs \cup {None},
                default : Types \cup {None}, version : Nat]

\* "sees..." is a client that holds what a GET returned; the others are open
\* transactions.  "seen" is the document the author of an update saw.
Idle == [op |-> "idle"]
Open ==
  {Idle}
    \cup [op : {"createProject"}, slug : Slugs]
    \cup [op : {"seesProject"}, project : Projects, seen : Project]
    \cup [op : {"updateProject"}, project : Projects, seen : Project, slug : Slugs]
    \cup [op : {"deleteProject"}, project : Projects]
    \cup [op : {"createEnvironment"}, project : Projects, slug : Slugs,
          default : Types \cup {None}]
    \cup [op : {"seesEnvironment"}, environment : Environments, seen : Environment]
    \cup [op : {"updateEnvironment"}, environment : Environments,
          seen : Environment, slug : Slugs, default : Types \cup {None}]
    \cup [op : {"deleteEnvironment"}, environment : Environments]

TypeOK ==
  /\ project \in [Projects -> Project]
  /\ environment \in [Environments -> Environment]
  /\ open \in [Handlers -> Open]

Init ==
  /\ project = [p \in Projects |-> [state |-> "absent", slug |-> None, version |-> 0]]
  /\ environment = [e \in Environments |->
       [state |-> "absent", project |-> None, slug |-> None, default |-> None,
        version |-> 0]]
  /\ open = [h \in Handlers |-> Idle]

-----------------------------------------------------------------------------
(* Documents and transactions.                                             *)

ActiveProject(p) == project[p].state = "active"
ActiveEnvironment(e) == environment[e].state = "active"

\* The partial unique indexes of active documents.
ProjectSlugFree(p, slug) ==
  \A q \in Projects \ {p} : ActiveProject(q) => project[q].slug # slug
EnvironmentFree(e, p, slug, default) ==
  \A f \in Environments \ {e} :
     ActiveEnvironment(f) /\ environment[f].project = p =>
        /\ environment[f].slug # slug
        /\ default = None \/ environment[f].default # default

\* The projects and the environments a transaction writes.
MutCreateWritesProject(t) == FALSE
CreateWritesProject(t) == t.op = "createEnvironment"
WritesProject(t, p) ==
  \/ t.op \in {"updateProject", "deleteProject"} /\ t.project = p
  \/ CreateWritesProject(t) /\ t.project = p
WritesEnvironment(t, e) ==
  t.op \in {"updateEnvironment", "deleteEnvironment"} /\ t.environment = e

\* An update that meets a write conflict is run again with the same input.
MutRerun(t) == [op |-> "rerun", input |-> t]
Rerun(t) ==
  CASE t.op = "updateProject" ->
         [op |-> "seesProject", project |-> t.project, seen |-> t.seen]
    [] t.op = "updateEnvironment" ->
         [op |-> "seesEnvironment", environment |-> t.environment, seen |-> t.seen]
    [] OTHER -> Idle

\* A commit of h that wrote project p ends h and aborts the other writers of p.
EndProjectWriters(h, p) ==
  open' = [k \in Handlers |-> IF k = h THEN Idle
                              ELSE IF WritesProject(open[k], p) THEN Rerun(open[k])
                              ELSE open[k]]
EndEnvironmentWriters(h, e) ==
  open' = [k \in Handlers |-> IF k = h THEN Idle
                              ELSE IF WritesEnvironment(open[k], e) THEN Rerun(open[k])
                              ELSE open[k]]

Begin(h, t) ==
  /\ open' = [open EXCEPT ![h] = t]
  /\ UNCHANGED <<project, environment>>

\* A refusal, an index that is taken, a write conflict, a crash, or a client
\* that goes away.
Abort(h) ==
  /\ open[h] # Idle
  /\ Begin(h, Idle)

-----------------------------------------------------------------------------
(* Projects.                                                               *)

BeginCreateProject(h, slug) ==
  /\ open[h] = Idle
  /\ Begin(h, [op |-> "createProject", slug |-> slug])

CommitCreateProject(h, p) ==
  /\ open[h].op = "createProject"
  /\ project[p].state = "absent"
  /\ ProjectSlugFree(p, open[h].slug)
  /\ project' = [project EXCEPT ![p] =
       [state |-> "active", slug |-> open[h].slug, version |-> 0]]
  /\ open' = [open EXCEPT ![h] = Idle]
  /\ UNCHANGED environment

\* getProject or listProjects hands out the document with its version.
SeeProject(h, p) ==
  /\ open[h] = Idle
  /\ ActiveProject(p)
  /\ Begin(h, [op |-> "seesProject", project |-> p, seen |-> project[p]])

\* The filter of updateProject: active, and the version in the body.
MutSameVersion(document, seen) == seen.version <= MaxVersion
SameVersion(document, seen) == document.version = seen.version

BeginUpdateProject(h, slug) ==
  LET t == open[h] IN
  /\ t.op = "seesProject"
  /\ ActiveProject(t.project)
  /\ SameVersion(project[t.project], t.seen)
  /\ Begin(h, [op |-> "updateProject", project |-> t.project,
               seen |-> t.seen, slug |-> slug])

CommitUpdateProject(h) ==
  LET t == open[h] IN
  /\ t.op = "updateProject"
  /\ project[t.project].version < MaxVersion
  /\ ProjectSlugFree(t.project, t.slug)
  /\ project' = [project EXCEPT ![t.project].slug = t.slug,
                                ![t.project].version = @ + 1]
  /\ EndProjectWriters(h, t.project)
  /\ UNCHANGED environment

Empty(p) == \A e \in Environments :
               ~(ActiveEnvironment(e) /\ environment[e].project = p)

BeginDeleteProject(h, p) ==
  /\ open[h] = Idle
  /\ ActiveProject(p)
  /\ Empty(p)
  /\ Begin(h, [op |-> "deleteProject", project |-> p])

CommitDeleteProject(h) ==
  LET p == open[h].project IN
  /\ open[h].op = "deleteProject"
  /\ project' = [project EXCEPT ![p].state = "deleted"]
  /\ EndProjectWriters(h, p)
  /\ UNCHANGED environment

-----------------------------------------------------------------------------
(* Environments.                                                           *)

BeginCreateEnvironment(h, p, slug, default) ==
  /\ open[h] = Idle
  /\ ActiveProject(p)
  /\ Begin(h, [op |-> "createEnvironment", project |-> p, slug |-> slug,
               default |-> default])

\* Creating also increments environmentRevision of the project, and not its
\* version: an update of the project that its author composes stays valid.
CommitCreateEnvironment(h, e) ==
  LET t == open[h] IN
  /\ t.op = "createEnvironment"
  /\ environment[e].state = "absent"
  /\ EnvironmentFree(e, t.project, t.slug, t.default)
  /\ environment' = [environment EXCEPT ![e] =
       [state |-> "active", project |-> t.project, slug |-> t.slug,
        default |-> t.default, version |-> 0]]
  /\ EndProjectWriters(h, t.project)
  /\ UNCHANGED project

SeeEnvironment(h, e) ==
  /\ open[h] = Idle
  /\ ActiveEnvironment(e)
  /\ Begin(h, [op |-> "seesEnvironment", environment |-> e,
               seen |-> environment[e]])

BeginUpdateEnvironment(h, slug, default) ==
  LET t == open[h] IN
  /\ t.op = "seesEnvironment"
  /\ ActiveEnvironment(t.environment)
  /\ ActiveProject(environment[t.environment].project)
  /\ SameVersion(environment[t.environment], t.seen)
  /\ Begin(h, [op |-> "updateEnvironment", environment |-> t.environment,
               seen |-> t.seen, slug |-> slug, default |-> default])

CommitUpdateEnvironment(h) ==
  LET t == open[h]
      e == t.environment IN
  /\ t.op = "updateEnvironment"
  /\ environment[e].version < MaxVersion
  /\ EnvironmentFree(e, environment[e].project, t.slug, t.default)
  /\ environment' = [environment EXCEPT ![e].slug = t.slug,
                                        ![e].default = t.default,
                                        ![e].version = @ + 1]
  /\ EndEnvironmentWriters(h, e)
  /\ UNCHANGED project

BeginDeleteEnvironment(h, e) ==
  /\ open[h] = Idle
  /\ ActiveEnvironment(e)
  /\ ActiveProject(environment[e].project)
  /\ Begin(h, [op |-> "deleteEnvironment", environment |-> e])

CommitDeleteEnvironment(h) ==
  LET e == open[h].environment IN
  /\ open[h].op = "deleteEnvironment"
  /\ environment' = [environment EXCEPT ![e].state = "deleted"]
  /\ EndEnvironmentWriters(h, e)
  /\ UNCHANGED project

Defaults == Types \cup {None}

Next ==
  \E h \in Handlers :
    \/ Abort(h)
    \/ \E slug \in Slugs : BeginCreateProject(h, slug) \/ BeginUpdateProject(h, slug)
    \/ \E p \in Projects : \/ CommitCreateProject(h, p)
                           \/ SeeProject(h, p)
                           \/ BeginDeleteProject(h, p)
    \/ CommitUpdateProject(h) \/ CommitDeleteProject(h)
    \/ \E slug \in Slugs, default \in Defaults :
         \/ \E p \in Projects : BeginCreateEnvironment(h, p, slug, default)
         \/ BeginUpdateEnvironment(h, slug, default)
    \/ \E e \in Environments : \/ CommitCreateEnvironment(h, e)
                               \/ SeeEnvironment(h, e)
                               \/ BeginDeleteEnvironment(h, e)
    \/ CommitUpdateEnvironment(h) \/ CommitDeleteEnvironment(h)

Spec == Init /\ [][Next]_vars

-----------------------------------------------------------------------------
(* Properties.                                                             *)

\* Nothing active is left in a deleted project: creating an environment and
\* deleting the project it goes into read different documents, and conflict
\* only because the creation writes the project.
NoOrphans ==
  \A e \in Environments :
     ActiveEnvironment(e) => ActiveProject(environment[e].project)

\* What an update overwrites is exactly what its author saw: two authors never
\* overwrite each other unseen, though each read, request and transaction may
\* be far apart.
UpdateSawWhatItChanges ==
  [][\A h \in Handlers :
       LET t == open[h] IN
       /\ t.op = "updateProject" /\ open'[h] = Idle /\ project' # project
          => project[t.project] = t.seen
       /\ t.op = "updateEnvironment" /\ open'[h] = Idle /\ environment' # environment
          => environment[t.environment] = t.seen]_vars

=============================================================================
