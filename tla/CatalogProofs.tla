--------------------------- MODULE CatalogProofs ---------------------------
(***************************************************************************)
(* Theorems about what MCCatalog puts side by side.                        *)
(*                                                                         *)
(* The tree of projects and environments: nothing active hangs on a        *)
(* deleted project, and an update overwrites what its author saw.  Both    *)
(* rest on what an open transaction may rely on: the documents that it     *)
(* writes are as they were in its snapshot, because whoever writes one of  *)
(* them first ends it.                                                     *)
(*                                                                         *)
(* Drafts: they rest on what a tab, and a save that may arrive late, know  *)
(* of the draft they name, and on what a tab that got every reply can      *)
(* still have under way.                                                   *)
(*                                                                         *)
(* The page: the order of the wizard's fields decides which value a path   *)
(* gets, on the page and on the server alike.                              *)
(***************************************************************************)
EXTENDS MCCatalog, ReservationSnapshotProofs, WellFoundedInduction

-----------------------------------------------------------------------------
(* The tree.                                                               *)


\* What the transaction t relies on.
Relies(t) ==
  /\ t.op = "createEnvironment" => Tree!ActiveProject(t.project)
  /\ t.op = "deleteProject" => Tree!Empty(t.project)
  /\ t.op = "updateProject" => project[t.project] = t.seen
  /\ t.op = "updateEnvironment" => treeEnvironment[t.environment] = t.seen
  /\ t.op \in {"updateEnvironment", "deleteEnvironment"}
       => Tree!ActiveEnvironment(t.environment)

\* What was seen of a document was active, is not later than the document, and
\* is the document as long as that is active with the same version.
StillSeen(document, seen) ==
  /\ document.state # "absent"
  /\ seen.state = "active"
  /\ seen.version <= document.version
  /\ document.state = "active" /\ document.version = seen.version => document = seen

Sees(t) ==
  /\ t.op \in {"seesProject", "updateProject"}
       => StillSeen(project[t.project], t.seen)
  /\ t.op \in {"seesEnvironment", "updateEnvironment"}
       => StillSeen(treeEnvironment[t.environment], t.seen)

InProject == \A e \in TreeEnvironments :
            Tree!ActiveEnvironment(e) => treeEnvironment[e].project \in Projects

TreeInv ==
  /\ Tree!TypeOK /\ InProject /\ Tree!NoOrphans
  /\ \A h \in Handlers : Relies(open[h]) /\ Sees(open[h])

-----------------------------------------------------------------------------
(* A transaction is told by its operation.                                 *)

LEMMA OpenShape ==
  ASSUME NEW t \in Tree!Open
  PROVE  /\ t.op \in {"seesProject", "updateProject"}
              => t.project \in Projects /\ t.seen \in Tree!Project
         /\ t.op = "updateProject" => t.slug \in Slugs
         /\ t.op = "createProject" => t.slug \in Slugs
         /\ t.op = "deleteProject" => t.project \in Projects
         /\ t.op = "createEnvironment" => /\ t.project \in Projects
                                          /\ t.slug \in Slugs
                                          /\ t.default \in Types \cup {None}
         /\ t.op \in {"seesEnvironment", "updateEnvironment"}
              => t.environment \in TreeEnvironments /\ t.seen \in Tree!Environment
         /\ t.op = "updateEnvironment" => /\ t.slug \in Slugs
                                          /\ t.default \in Types \cup {None}
         /\ t.op = "deleteEnvironment" => t.environment \in TreeEnvironments
BY DEF Tree!Open, Tree!Idle

\* Running an update again goes back to what its author saw.
LEMMA RerunShape ==
  ASSUME NEW t \in Tree!Open
  PROVE  /\ Tree!Rerun(t) \in Tree!Open
         /\ t.op = "updateProject" =>
              Tree!Rerun(t) = [op |-> "seesProject", project |-> t.project, seen |-> t.seen]
         /\ t.op = "updateEnvironment" =>
              Tree!Rerun(t) = [op |-> "seesEnvironment", environment |-> t.environment,
                          seen |-> t.seen]
         /\ t.op \notin {"updateProject", "updateEnvironment"} => Tree!Rerun(t) = Tree!Idle
<1>1. CASE t.op = "updateProject"
  <2>1. t.project \in Projects /\ t.seen \in Tree!Project
    BY <1>1, OpenShape
  <2>. QED BY <1>1, <2>1 DEF Tree!Rerun, Tree!Open
<1>2. CASE t.op = "updateEnvironment"
  <2>1. t.environment \in TreeEnvironments /\ t.seen \in Tree!Environment
    BY <1>2, OpenShape
  <2>. QED BY <1>2, <2>1 DEF Tree!Rerun, Tree!Open
<1>3. CASE t.op \notin {"updateProject", "updateEnvironment"}
  BY <1>3 DEF Tree!Rerun, Tree!Open
<1>. QED BY <1>1, <1>2, <1>3

\* What is left of the open transactions when h has written project p.
LEMMA ProjectWritersEnded ==
  ASSUME Tree!TypeOK, NEW h \in Handlers, NEW p, Tree!EndProjectWriters(h, p)
  PROVE  /\ open' \in [Handlers -> Tree!Open]
         /\ \A k \in Handlers :
              \/ open'[k] = Tree!Idle
              \/ open'[k] = open[k] /\ ~Tree!WritesProject(open[k], p)
              \/ /\ open[k].op = "updateProject"
                 /\ open'[k] = [op |-> "seesProject", project |-> open[k].project,
                                seen |-> open[k].seen]
<1>1. \A k \in Handlers : open[k] \in Tree!Open /\ Tree!Rerun(open[k]) \in Tree!Open
  BY RerunShape DEF Tree!TypeOK
<1>2. Tree!Idle \in Tree!Open
  BY DEF Tree!Open
<1>3. open' \in [Handlers -> Tree!Open]
  BY <1>1, <1>2 DEF Tree!EndProjectWriters
<1>4. ASSUME NEW k \in Handlers, Tree!WritesProject(open[k], p), k # h
      PROVE  \/ open'[k] = Tree!Idle
             \/ /\ open[k].op = "updateProject"
                /\ open'[k] = [op |-> "seesProject", project |-> open[k].project,
                               seen |-> open[k].seen]
  <2>1. open'[k] = Tree!Rerun(open[k])
    BY <1>4 DEF Tree!EndProjectWriters
  <2>2. open[k].op \in {"updateProject", "deleteProject", "createEnvironment"}
    BY <1>4 DEF Tree!WritesProject, Tree!CreateWritesProject
  <2>. QED BY <1>1, <2>1, <2>2, RerunShape
<1>. QED BY <1>3, <1>4 DEF Tree!EndProjectWriters

\* The same for the transactions that write environment e.
LEMMA EnvironmentWritersEnded ==
  ASSUME Tree!TypeOK, NEW h \in Handlers, NEW e, Tree!EndEnvironmentWriters(h, e)
  PROVE  /\ open' \in [Handlers -> Tree!Open]
         /\ \A k \in Handlers :
              \/ open'[k] = Tree!Idle
              \/ open'[k] = open[k] /\ ~Tree!WritesEnvironment(open[k], e)
              \/ /\ open[k].op = "updateEnvironment"
                 /\ open'[k] = [op |-> "seesEnvironment",
                                environment |-> open[k].environment,
                                seen |-> open[k].seen]
<1>1. \A k \in Handlers : open[k] \in Tree!Open /\ Tree!Rerun(open[k]) \in Tree!Open
  BY RerunShape DEF Tree!TypeOK
<1>2. Tree!Idle \in Tree!Open
  BY DEF Tree!Open
<1>3. open' \in [Handlers -> Tree!Open]
  BY <1>1, <1>2 DEF Tree!EndEnvironmentWriters
<1>4. ASSUME NEW k \in Handlers, Tree!WritesEnvironment(open[k], e), k # h
      PROVE  \/ open'[k] = Tree!Idle
             \/ /\ open[k].op = "updateEnvironment"
                /\ open'[k] = [op |-> "seesEnvironment",
                               environment |-> open[k].environment,
                               seen |-> open[k].seen]
  <2>1. open'[k] = Tree!Rerun(open[k])
    BY <1>4 DEF Tree!EndEnvironmentWriters
  <2>2. open[k].op \in {"updateEnvironment", "deleteEnvironment"}
    BY <1>4 DEF Tree!WritesEnvironment
  <2>. QED BY <1>1, <2>1, <2>2, RerunShape
<1>. QED BY <1>3, <1>4 DEF Tree!EndEnvironmentWriters

-----------------------------------------------------------------------------
(* One lemma for what begins, and one for each commit.                     *)

\* Taking a snapshot, seeing a document or giving up changes no document.
LEMMA BeginKeeps ==
  ASSUME TreeInv, NEW h \in Handlers, NEW t \in Tree!Open,
         Relies(t), Sees(t), Tree!Begin(h, t)
  PROVE  TreeInv'
<1>1. Tree!TypeOK'
  BY DEF TreeInv, Tree!TypeOK, Tree!Begin
<1>2. (InProject /\ Tree!NoOrphans)'
  BY DEF TreeInv, Tree!Begin, InProject, Tree!NoOrphans, Tree!ActiveEnvironment,
         Tree!ActiveProject
<1>3. ASSUME NEW k \in Handlers
      PROVE  (Relies(open[k]) /\ Sees(open[k]))'
  <2>1. open'[k] = t \/ open'[k] = open[k]
    BY DEF Tree!Begin, TreeInv, Tree!TypeOK
  <2>. QED BY <2>1 DEF Tree!Begin, TreeInv, Relies, Sees, StillSeen, Tree!Empty,
               Tree!ActiveEnvironment, Tree!ActiveProject
<1>. QED BY <1>1, <1>2, <1>3 DEF TreeInv

\* What exists of a project is not created again.
LEMMA CreateProjectKeeps ==
  ASSUME TreeInv, NEW h \in Handlers, NEW p \in Projects, Tree!CommitCreateProject(h, p)
  PROVE  TreeInv'
<1>1. Tree!TypeOK'
  <2>1. open[h] \in Tree!Open /\ open[h].slug \in Slugs
    BY OpenShape DEF TreeInv, Tree!TypeOK, Tree!CommitCreateProject
  <2>. QED BY <2>1 DEF TreeInv, Tree!TypeOK, Tree!CommitCreateProject, Tree!Project,
                       Tree!States, Tree!Open
<1>2. (InProject /\ Tree!NoOrphans)'
  BY DEF TreeInv, Tree!TypeOK, Tree!CommitCreateProject, InProject, Tree!NoOrphans,
         Tree!ActiveEnvironment, Tree!ActiveProject
<1>3. ASSUME NEW k \in Handlers
      PROVE  (Relies(open[k]) /\ Sees(open[k]))'
  <2>1. open'[k] = Tree!Idle \/ open'[k] = open[k]
    BY DEF Tree!CommitCreateProject, TreeInv, Tree!TypeOK
  <2>2. ASSUME NEW q \in Projects, q # p
        PROVE  project'[q] = project[q]
    BY <2>2 DEF Tree!CommitCreateProject, TreeInv, Tree!TypeOK
  <2>3. project[p].state = "absent" /\ project'[p].state = "active"
    BY DEF Tree!CommitCreateProject, TreeInv, Tree!TypeOK
  <2>4. open[k] \in Tree!Open /\ Relies(open[k]) /\ Sees(open[k])
    BY DEF TreeInv, Tree!TypeOK
  <2>5. CASE open'[k] = Tree!Idle
    BY <2>5 DEF Tree!Idle, Relies, Sees
  <2>6. CASE open'[k] = open[k]
    <3>1. open[k].op \in {"seesProject", "updateProject", "createEnvironment"}
             => open[k].project \in Projects /\ open[k].project # p
      BY <2>3, <2>4, OpenShape DEF Relies, Sees, StillSeen, Tree!ActiveProject
    <3>2. treeEnvironment' = treeEnvironment
      BY DEF Tree!CommitCreateProject
    <3>. QED BY <2>2, <2>4, <2>6, <3>1, <3>2 DEF Relies, Sees, StillSeen, Tree!Empty,
                 Tree!ActiveEnvironment, Tree!ActiveProject
  <2>. QED BY <2>1, <2>5, <2>6
<1>. QED BY <1>1, <1>2, <1>3 DEF TreeInv

\* A write of project p that ends the other writers of p, and after which p is
\* deleted or has a later version, takes nothing from the other transactions.
LEMMA ProjectWritten ==
  ASSUME TreeInv, NEW h \in Handlers, NEW p \in Projects,
         Tree!EndProjectWriters(h, p), treeEnvironment' = treeEnvironment,
         project' \in [Projects -> Tree!Project],
         \A q \in Projects : q # p => project'[q] = project[q],
         project'[p].state # "absent",
         project'[p].version >= project[p].version,
         project'[p].state = "active" => project'[p].version > project[p].version
  PROVE  Tree!TypeOK' /\ \A k \in Handlers : (Relies(open[k]) /\ Sees(open[k]))'
<1>1. Tree!TypeOK
  BY DEF TreeInv
<1>2. Tree!TypeOK'
  BY <1>1, ProjectWritersEnded DEF Tree!TypeOK
<1>3. project[p] \in Tree!Project /\ project'[p] \in Tree!Project
  BY <1>1 DEF Tree!TypeOK
<1>4. ASSUME NEW q \in Projects, NEW seen \in Tree!Project, StillSeen(project[q], seen)
      PROVE  StillSeen(project'[q], seen)
  BY <1>3, <1>4 DEF StillSeen, Tree!Project
<1>5. ASSUME NEW k \in Handlers
      PROVE  (Relies(open[k]) /\ Sees(open[k]))'
  <2>1. open[k] \in Tree!Open /\ Relies(open[k]) /\ Sees(open[k])
    BY DEF TreeInv, Tree!TypeOK
  <2>2. open[k].op \in {"seesProject", "updateProject"} =>
          StillSeen(project'[open[k].project], open[k].seen)
    BY <2>1, <1>4, OpenShape DEF Sees
  <2>3. CASE open'[k] = Tree!Idle
    BY <2>3 DEF Tree!Idle, Relies, Sees
  <2>4. CASE open'[k] = open[k] /\ ~Tree!WritesProject(open[k], p)
    <3>1. open[k].op \in {"updateProject", "createEnvironment", "deleteProject"} =>
            open[k].project \in Projects /\ open[k].project # p
      BY <2>1, <2>4, OpenShape DEF Tree!WritesProject, Tree!CreateWritesProject
    <3>2. Relies(open[k])'
      BY <2>1, <2>4, <3>1 DEF Relies, Tree!ActiveProject, Tree!ActiveEnvironment,
                              Tree!Empty
    <3>. QED BY <2>1, <2>2, <2>4, <3>2 DEF Sees
  <2>5. CASE /\ open[k].op = "updateProject"
             /\ open'[k] = [op |-> "seesProject", project |-> open[k].project,
                            seen |-> open[k].seen]
    BY <2>2, <2>5 DEF Relies, Sees
  <2>. QED BY <1>1, <2>3, <2>4, <2>5, ProjectWritersEnded
<1>. QED BY <1>2, <1>5

\* An updated project stays active, with the next version.
LEMMA UpdateProjectKeeps ==
  ASSUME TreeInv, NEW h \in Handlers, Tree!CommitUpdateProject(h)
  PROVE  TreeInv'
<1>. DEFINE p == open[h].project
<1>1. p \in Projects /\ open[h].slug \in Slugs /\ project[p] \in Tree!Project
  BY OpenShape DEF TreeInv, Tree!TypeOK, Tree!CommitUpdateProject
<1>2. project' = [project EXCEPT ![p].slug = open[h].slug, ![p].version = @ + 1]
  BY DEF Tree!CommitUpdateProject
<1>3. /\ project' \in [Projects -> Tree!Project]
      /\ project'[p] = [project[p] EXCEPT !.slug = open[h].slug, !.version = @ + 1]
      /\ \A q \in Projects : q # p => project'[q] = project[q]
  BY <1>1, <1>2 DEF TreeInv, Tree!TypeOK, Tree!Project
<1>4. /\ project'[p].state = project[p].state
      /\ project'[p].version = project[p].version + 1
  BY <1>1, <1>3 DEF Tree!Project
<1>5. treeEnvironment' = treeEnvironment /\ Tree!EndProjectWriters(h, p)
  BY DEF Tree!CommitUpdateProject
<1>6. (InProject /\ Tree!NoOrphans)'
  BY <1>3, <1>4, <1>5 DEF TreeInv, InProject, Tree!NoOrphans, Tree!ActiveEnvironment,
                          Tree!ActiveProject
<1>7. project[p].state # "absent"
  BY DEF TreeInv, Sees, StillSeen, Tree!CommitUpdateProject
<1>8. /\ project'[p].state # "absent"
      /\ project'[p].version > project[p].version
      /\ project'[p].version >= project[p].version
  BY <1>1, <1>4, <1>7 DEF Tree!Project
<1>9. Tree!TypeOK' /\ \A k \in Handlers : (Relies(open[k]) /\ Sees(open[k]))'
  BY <1>1, <1>3, <1>5, <1>8, ProjectWritten
<1>. QED BY <1>6, <1>9 DEF TreeInv

\* The project to delete has no active environment any more.
LEMMA DeleteProjectKeeps ==
  ASSUME TreeInv, NEW h \in Handlers, Tree!CommitDeleteProject(h)
  PROVE  TreeInv'
<1>. DEFINE p == open[h].project
<1>1. p \in Projects /\ project[p] \in Tree!Project /\ Tree!Empty(p)
  BY OpenShape DEF TreeInv, Tree!TypeOK, Tree!CommitDeleteProject, Relies
<1>2. project' = [project EXCEPT ![p].state = "deleted"]
  BY DEF Tree!CommitDeleteProject
<1>3. /\ project' \in [Projects -> Tree!Project]
      /\ project'[p] = [project[p] EXCEPT !.state = "deleted"]
      /\ \A q \in Projects : q # p => project'[q] = project[q]
  BY <1>1, <1>2 DEF TreeInv, Tree!TypeOK, Tree!Project, Tree!States
<1>4. /\ project'[p].state = "deleted"
      /\ project'[p].version = project[p].version
  BY <1>1, <1>3 DEF Tree!Project
<1>5. treeEnvironment' = treeEnvironment /\ Tree!EndProjectWriters(h, p)
  BY DEF Tree!CommitDeleteProject
<1>6. (InProject /\ Tree!NoOrphans)'
  BY <1>1, <1>3, <1>5 DEF TreeInv, InProject, Tree!NoOrphans, Tree!Empty,
                          Tree!ActiveEnvironment,
                          Tree!ActiveProject
<1>. QED BY <1>1, <1>3, <1>4, <1>5, <1>6, ProjectWritten DEF TreeInv, Tree!Project

\* The project that the environment goes into is active, and a deletion of it
\* that is open at the same time is ended.
LEMMA CreateEnvironmentKeeps ==
  ASSUME TreeInv, NEW h \in Handlers, NEW e \in TreeEnvironments,
         Tree!CommitCreateEnvironment(h, e)
  PROVE  TreeInv'
<1>. DEFINE p == open[h].project
            created == [state |-> "active", project |-> p, slug |-> open[h].slug,
                        default |-> open[h].default, version |-> 0]
<1>1. p \in Projects /\ Tree!ActiveProject(p) /\ created \in Tree!Environment
  BY OpenShape DEF TreeInv, Tree!TypeOK, Tree!CommitCreateEnvironment, Relies,
                   Tree!Environment, Tree!States
<1>2. project' = project /\ treeEnvironment' = [treeEnvironment EXCEPT ![e] = created]
  BY DEF Tree!CommitCreateEnvironment
<1>3. treeEnvironment'[e] = created /\ treeEnvironment[e].state = "absent"
  BY <1>2 DEF TreeInv, Tree!TypeOK, Tree!CommitCreateEnvironment
<1>4. \A f \in TreeEnvironments : f # e => treeEnvironment'[f] = treeEnvironment[f]
  BY <1>2 DEF TreeInv, Tree!TypeOK
<1>5. Tree!TypeOK /\ Tree!EndProjectWriters(h, p)
  BY DEF TreeInv, Tree!CommitCreateEnvironment
<1>6. Tree!TypeOK'
  BY <1>1, <1>2, <1>5, ProjectWritersEnded DEF Tree!TypeOK
<1>7. (InProject /\ Tree!NoOrphans)'
  BY <1>1, <1>2, <1>3, <1>4
  DEF TreeInv, InProject, Tree!NoOrphans, Tree!ActiveEnvironment, Tree!ActiveProject
<1>8. ASSUME NEW k \in Handlers
      PROVE  (Relies(open[k]) /\ Sees(open[k]))'
  <2>1. open[k] \in Tree!Open /\ Relies(open[k]) /\ Sees(open[k])
    BY DEF TreeInv, Tree!TypeOK
  <2>2. CASE open'[k] = Tree!Idle
    BY <2>2 DEF Tree!Idle, Relies, Sees
  <2>3. CASE open'[k] = open[k] /\ ~Tree!WritesProject(open[k], p)
    <3>1. open[k].op = "deleteProject" => open[k].project # p
      BY <2>3 DEF Tree!WritesProject
    <3>2. open[k].op \in {"seesEnvironment", "updateEnvironment", "deleteEnvironment"} =>
            open[k].environment \in TreeEnvironments /\ open[k].environment # e
      BY <2>1, <1>3, OpenShape DEF Relies, Sees, StillSeen, Tree!ActiveEnvironment
    <3>3. open[k].op = "deleteProject" => Tree!Empty(open[k].project)'
      BY <2>1, <2>3, <3>1, <1>3, <1>4 DEF Relies, Tree!Empty, Tree!ActiveEnvironment
    <3>. QED BY <2>1, <2>3, <3>2, <3>3, <1>2, <1>4
             DEF Relies, Sees, Tree!ActiveEnvironment, Tree!ActiveProject
  <2>4. CASE /\ open[k].op = "updateProject"
             /\ open'[k] = [op |-> "seesProject", project |-> open[k].project,
                            seen |-> open[k].seen]
    BY <2>1, <2>4, <1>2 DEF Relies, Sees
  <2>. QED BY <2>2, <2>3, <2>4, <1>5, ProjectWritersEnded
<1>. QED BY <1>6, <1>7, <1>8 DEF TreeInv

\* The same for a write of environment e: it stays where it is, and it does not
\* become active.
LEMMA EnvironmentWritten ==
  ASSUME TreeInv, NEW h \in Handlers, NEW e \in TreeEnvironments,
         Tree!EndEnvironmentWriters(h, e), project' = project,
         treeEnvironment' \in [TreeEnvironments -> Tree!Environment],
         \A f \in TreeEnvironments : f # e => treeEnvironment'[f] = treeEnvironment[f],
         treeEnvironment'[e].project = treeEnvironment[e].project,
         treeEnvironment'[e].state # "absent",
         treeEnvironment'[e].version >= treeEnvironment[e].version,
         treeEnvironment'[e].state = "active" =>
           /\ treeEnvironment[e].state = "active"
           /\ treeEnvironment'[e].version > treeEnvironment[e].version
  PROVE  TreeInv'
<1>1. Tree!TypeOK
  BY DEF TreeInv
<1>2. Tree!TypeOK'
  BY <1>1, EnvironmentWritersEnded DEF Tree!TypeOK
<1>3. treeEnvironment[e] \in Tree!Environment /\ treeEnvironment'[e] \in Tree!Environment
  BY <1>1 DEF Tree!TypeOK
<1>4. \A f \in TreeEnvironments :
        /\ Tree!ActiveEnvironment(f)' => Tree!ActiveEnvironment(f)
        /\ treeEnvironment'[f].project = treeEnvironment[f].project
  BY DEF Tree!ActiveEnvironment
<1>5. (InProject /\ Tree!NoOrphans)'
  BY <1>4 DEF TreeInv, InProject, Tree!NoOrphans, Tree!ActiveEnvironment,
              Tree!ActiveProject
<1>6. ASSUME NEW f \in TreeEnvironments, NEW seen \in Tree!Environment,
             StillSeen(treeEnvironment[f], seen)
      PROVE  StillSeen(treeEnvironment'[f], seen)
  BY <1>3, <1>6 DEF StillSeen, Tree!Environment
<1>7. ASSUME NEW k \in Handlers
      PROVE  (Relies(open[k]) /\ Sees(open[k]))'
  <2>1. open[k] \in Tree!Open /\ Relies(open[k]) /\ Sees(open[k])
    BY DEF TreeInv, Tree!TypeOK
  <2>2. open[k].op \in {"seesEnvironment", "updateEnvironment"} =>
          StillSeen(treeEnvironment'[open[k].environment], open[k].seen)
    BY <2>1, <1>6, OpenShape DEF Sees
  <2>3. CASE open'[k] = Tree!Idle
    BY <2>3 DEF Tree!Idle, Relies, Sees
  <2>4. CASE open'[k] = open[k] /\ ~Tree!WritesEnvironment(open[k], e)
    <3>1. open[k].op \in {"updateEnvironment", "deleteEnvironment"} =>
            open[k].environment \in TreeEnvironments /\ open[k].environment # e
      BY <2>1, <2>4, OpenShape DEF Tree!WritesEnvironment
    <3>2. open[k].op = "deleteProject" => Tree!Empty(open[k].project)'
      BY <2>1, <2>4, <1>4 DEF Relies, Tree!Empty, Tree!ActiveEnvironment
    <3>3. Relies(open[k])'
      BY <2>1, <2>4, <3>1, <3>2 DEF Relies, Tree!ActiveProject, Tree!ActiveEnvironment
    <3>. QED BY <2>1, <2>2, <2>4, <3>3 DEF Sees
  <2>5. CASE /\ open[k].op = "updateEnvironment"
             /\ open'[k] = [op |-> "seesEnvironment",
                            environment |-> open[k].environment,
                            seen |-> open[k].seen]
    BY <2>2, <2>5 DEF Relies, Sees
  <2>. QED BY <1>1, <2>3, <2>4, <2>5, EnvironmentWritersEnded
<1>. QED BY <1>2, <1>5, <1>7 DEF TreeInv

\* An updated environment stays where it is, with the next version.
LEMMA UpdateEnvironmentKeeps ==
  ASSUME TreeInv, NEW h \in Handlers, Tree!CommitUpdateEnvironment(h)
  PROVE  TreeInv'
<1>. DEFINE t == open[h]
            e == open[h].environment
<1>1. /\ e \in TreeEnvironments /\ treeEnvironment[e] \in Tree!Environment
      /\ t.slug \in Slugs /\ t.default \in Types \cup {None}
      /\ treeEnvironment[e].state = "active"
  BY OpenShape DEF TreeInv, Tree!TypeOK, Tree!CommitUpdateEnvironment, Relies,
                   Tree!ActiveEnvironment
<1>2. treeEnvironment' = [treeEnvironment EXCEPT ![e].slug = t.slug,
                                         ![e].default = t.default,
                                         ![e].version = @ + 1]
  BY DEF Tree!CommitUpdateEnvironment
<1>3. /\ treeEnvironment' \in [TreeEnvironments -> Tree!Environment]
      /\ treeEnvironment'[e] = [treeEnvironment[e] EXCEPT !.slug = t.slug, !.default = t.default,
                                                  !.version = @ + 1]
      /\ \A f \in TreeEnvironments : f # e => treeEnvironment'[f] = treeEnvironment[f]
  BY <1>1, <1>2 DEF TreeInv, Tree!TypeOK, Tree!Environment
<1>4. /\ treeEnvironment'[e].state = treeEnvironment[e].state
      /\ treeEnvironment'[e].project = treeEnvironment[e].project
      /\ treeEnvironment'[e].version = treeEnvironment[e].version + 1
  BY <1>1, <1>3 DEF Tree!Environment
<1>5. project' = project /\ Tree!EndEnvironmentWriters(h, e)
  BY DEF Tree!CommitUpdateEnvironment
<1>6. /\ treeEnvironment'[e].state = "active"
      /\ treeEnvironment'[e].version > treeEnvironment[e].version
      /\ treeEnvironment'[e].version >= treeEnvironment[e].version
  BY <1>1, <1>4 DEF Tree!Environment
<1>. QED BY <1>1, <1>3, <1>4, <1>5, <1>6, EnvironmentWritten

\* A deleted environment stays where it was, and is active nowhere.
LEMMA DeleteEnvironmentKeeps ==
  ASSUME TreeInv, NEW h \in Handlers, Tree!CommitDeleteEnvironment(h)
  PROVE  TreeInv'
<1>. DEFINE e == open[h].environment
<1>1. e \in TreeEnvironments /\ treeEnvironment[e] \in Tree!Environment
  BY OpenShape DEF TreeInv, Tree!TypeOK, Tree!CommitDeleteEnvironment
<1>2. treeEnvironment' = [treeEnvironment EXCEPT ![e].state = "deleted"]
  BY DEF Tree!CommitDeleteEnvironment
<1>3. /\ treeEnvironment' \in [TreeEnvironments -> Tree!Environment]
      /\ treeEnvironment'[e] = [treeEnvironment[e] EXCEPT !.state = "deleted"]
      /\ \A f \in TreeEnvironments : f # e => treeEnvironment'[f] = treeEnvironment[f]
  BY <1>1, <1>2 DEF TreeInv, Tree!TypeOK, Tree!Environment, Tree!States
<1>4. /\ treeEnvironment'[e].state = "deleted"
      /\ treeEnvironment'[e].project = treeEnvironment[e].project
      /\ treeEnvironment'[e].version = treeEnvironment[e].version
  BY <1>1, <1>3 DEF Tree!Environment
<1>5. project' = project /\ Tree!EndEnvironmentWriters(h, e)
  BY DEF Tree!CommitDeleteEnvironment
<1>. QED BY <1>1, <1>3, <1>4, <1>5, EnvironmentWritten DEF Tree!Environment

-----------------------------------------------------------------------------
(* The invariant.                                                          *)

\* At the start nothing exists and no request is open.
LEMMA TreeInit ==
  ASSUME Tree!Init
  PROVE  TreeInv
<1>1. Tree!TypeOK
  BY DEF Tree!Init, Tree!TypeOK, Tree!Project, Tree!Environment, Tree!States, Tree!Open
<1>. QED BY <1>1 DEF Tree!Init, TreeInv, InProject, Tree!NoOrphans,
                     Tree!ActiveEnvironment, Tree!ActiveProject,
             Relies, Sees, Tree!Idle

\* Every step that begins something begins it with a right to do so.
LEMMA BeginSteps ==
  ASSUME TreeInv, NEW h \in Handlers,
         \/ Tree!Abort(h)
         \/ \E slug \in Slugs : Tree!BeginCreateProject(h, slug) \/ Tree!BeginUpdateProject(h, slug)
         \/ \E p \in Projects : Tree!SeeProject(h, p) \/ Tree!BeginDeleteProject(h, p)
         \/ \E slug \in Slugs, default \in Tree!Defaults :
              \/ \E p \in Projects : Tree!BeginCreateEnvironment(h, p, slug, default)
              \/ Tree!BeginUpdateEnvironment(h, slug, default)
         \/ \E e \in TreeEnvironments : \/ Tree!SeeEnvironment(h, e)
                                        \/ Tree!BeginDeleteEnvironment(h, e)
  PROVE  TreeInv'
<1>1. Tree!TypeOK /\ open[h] \in Tree!Open /\ Relies(open[h]) /\ Sees(open[h])
  BY DEF TreeInv, Tree!TypeOK
<1>2. CASE Tree!Abort(h)
  BY <1>2, BeginKeeps DEF Tree!Abort, Tree!Idle, Tree!Open, Relies, Sees
<1>3. ASSUME NEW slug \in Slugs, Tree!BeginCreateProject(h, slug)
      PROVE  TreeInv'
  BY <1>3, BeginKeeps DEF Tree!BeginCreateProject, Tree!Open, Relies, Sees
<1>4. ASSUME NEW slug \in Slugs, Tree!BeginUpdateProject(h, slug)
      PROVE  TreeInv'
  <2>. DEFINE t == [op |-> "updateProject", project |-> open[h].project,
                    seen |-> open[h].seen, slug |-> slug]
  <2>1. t \in Tree!Open /\ Tree!Begin(h, t)
    BY <1>1, <1>4, OpenShape DEF Tree!BeginUpdateProject, Tree!Open
  <2>2. Relies(t) /\ Sees(t)
    BY <1>1, <1>4 DEF Tree!BeginUpdateProject, Tree!SameVersion, Relies, Sees,
                      StillSeen,
                      Tree!ActiveProject
  <2>. QED BY <2>1, <2>2, BeginKeeps
<1>5. ASSUME NEW p \in Projects, Tree!SeeProject(h, p)
      PROVE  TreeInv'
  <2>. DEFINE t == [op |-> "seesProject", project |-> p, seen |-> project[p]]
  <2>1. t \in Tree!Open /\ Tree!Begin(h, t) /\ project[p] \in Tree!Project
    BY <1>1, <1>5 DEF Tree!SeeProject, Tree!Open, Tree!TypeOK
  <2>2. Relies(t) /\ Sees(t)
    BY <2>1, <1>5 DEF Tree!SeeProject, Relies, Sees, StillSeen, Tree!ActiveProject,
                      Tree!Project
  <2>. QED BY <2>1, <2>2, BeginKeeps
<1>6. ASSUME NEW p \in Projects, Tree!BeginDeleteProject(h, p)
      PROVE  TreeInv'
  BY <1>6, BeginKeeps DEF Tree!BeginDeleteProject, Tree!Open, Relies, Sees
<1>7. ASSUME NEW p \in Projects, NEW slug \in Slugs, NEW default \in Tree!Defaults,
             Tree!BeginCreateEnvironment(h, p, slug, default)
      PROVE  TreeInv'
  BY <1>7, BeginKeeps DEF Tree!BeginCreateEnvironment, Tree!Open, Relies, Sees,
                          Tree!Defaults
<1>8. ASSUME NEW slug \in Slugs, NEW default \in Tree!Defaults,
             Tree!BeginUpdateEnvironment(h, slug, default)
      PROVE  TreeInv'
  <2>. DEFINE t == [op |-> "updateEnvironment", environment |-> open[h].environment,
                    seen |-> open[h].seen, slug |-> slug, default |-> default]
  <2>1. t \in Tree!Open /\ Tree!Begin(h, t)
    BY <1>1, <1>8, OpenShape DEF Tree!BeginUpdateEnvironment, Tree!Open, Tree!Defaults
  <2>2. Relies(t) /\ Sees(t)
    BY <1>1, <1>8 DEF Tree!BeginUpdateEnvironment, Tree!SameVersion, Relies, Sees,
                      StillSeen,
                      Tree!ActiveEnvironment
  <2>. QED BY <2>1, <2>2, BeginKeeps
<1>9. ASSUME NEW e \in TreeEnvironments, Tree!SeeEnvironment(h, e)
      PROVE  TreeInv'
  <2>. DEFINE t == [op |-> "seesEnvironment", environment |-> e, seen |-> treeEnvironment[e]]
  <2>1. t \in Tree!Open /\ Tree!Begin(h, t) /\ treeEnvironment[e] \in Tree!Environment
    BY <1>1, <1>9 DEF Tree!SeeEnvironment, Tree!Open, Tree!TypeOK
  <2>2. Relies(t) /\ Sees(t)
    BY <2>1, <1>9 DEF Tree!SeeEnvironment, Relies, Sees, StillSeen,
                      Tree!ActiveEnvironment,
                      Tree!Environment
  <2>. QED BY <2>1, <2>2, BeginKeeps
<1>10. ASSUME NEW e \in TreeEnvironments, Tree!BeginDeleteEnvironment(h, e)
       PROVE  TreeInv'
  BY <1>10, BeginKeeps DEF Tree!BeginDeleteEnvironment, Tree!Open, Relies, Sees
<1>. QED BY <1>2, <1>3, <1>4, <1>5, <1>6, <1>7, <1>8, <1>9, <1>10

\* Every step keeps what the open transactions rely on.
LEMMA TreeStep ==
  ASSUME TreeInv, [Tree!Next]_(Tree!vars)
  PROVE  TreeInv'
<1>1. CASE UNCHANGED Tree!vars
  BY <1>1 DEF Tree!vars, TreeInv, Tree!TypeOK, InProject, Tree!NoOrphans,
              Tree!ActiveEnvironment, Tree!ActiveProject,
              Relies, Sees, StillSeen, Tree!Empty
<1>2. CASE Tree!Next
  BY <1>2, BeginSteps, CreateProjectKeeps, UpdateProjectKeeps, DeleteProjectKeeps,
     CreateEnvironmentKeeps, UpdateEnvironmentKeeps,
          DeleteEnvironmentKeeps DEF Tree!Next
<1>. QED BY <1>1, <1>2

\* What the open transactions rely on holds in every state.
THEOREM TreeInvariant == Tree!Spec => []TreeInv
BY TreeInit, TreeStep, PTL DEF Tree!Spec

\* However many requests overlap, no active environment is left in a project
\* that is deleted (createEnvironment, deleteProject).
THEOREM NothingOrphaned == Tree!Spec => []NoOrphans
<1>1. TreeInv => NoOrphans
  BY DEF TreeInv, NoOrphans
<1>. QED BY <1>1, TreeInvariant, PTL

\* While open transactions can rely on what they write, an update overwrites what
\* its author saw.
LEMMA UpdatesSeen == []TreeInv => UpdateSawWhatItChanges
<1>. DEFINE Safe ==
       \A h \in Handlers :
         LET t == open[h] IN
         /\ t.op = "updateProject" /\ open'[h] = Tree!Idle /\ project' # project
            => project[t.project] = t.seen
         /\ t.op = "updateEnvironment" /\ open'[h] = Tree!Idle /\ treeEnvironment' # treeEnvironment
            => treeEnvironment[t.environment] = t.seen
<1>1. TreeInv => [Safe]_(Tree!vars)
  BY DEF TreeInv, Relies
<1>. QED BY <1>1, PTL DEF UpdateSawWhatItChanges, Tree!UpdateSawWhatItChanges

\* However many authors there are, and however late their updates commit, what an
\* update overwrites is the document that its author saw.
THEOREM NoUpdateLost == Tree!Spec => UpdateSawWhatItChanges
BY TreeInvariant, UpdatesSeen, PTL

-----------------------------------------------------------------------------
(* Drafts.                                                                 *)

\* What a tab or a save knows of the draft it names: the template version it was
\* made for, a version it has had and, while it has that version, its values.
KnowsDraft(x) ==
  x.existing # None =>
    /\ drafts[x.existing].status # "absent"
    /\ drafts[x.existing].status = "active" =>
         /\ drafts[x.existing].manifest = x.manifest
         /\ x.version <= drafts[x.existing].version
         /\ x.version = drafts[x.existing].version /\ x.based # None
              => drafts[x.existing].values = x.based

\* A save that is done has made the next version of what it named.
KnowsSaved(r) ==
  r.stage = "saved" /\ r.existing # None =>
    /\ r.version < MaxVersion
    /\ drafts[r.existing].status = "active" =>
         /\ r.version < drafts[r.existing].version
         /\ drafts[r.existing].version = r.version + 1
              => drafts[r.existing].values = r.values

\* A save that a tab waits for is the one that the tab has sent, and an answer
\* stays for a tab that waits.
Belongs(r, x) ==
  /\ r.stage \in {"saved", "refused"} => x.stage = "saving"
  /\ r.stage \in {"sent", "loaded", "saved"} /\ x.stage = "saving" =>
       r.existing = x.existing /\ r.manifest = x.manifest

\* The manifest of a version that someone has read is there to stay.
StaysStored(m, content) ==
  /\ m \in Manifests
  /\ templates[m].state # "absent"
  /\ templates[m].content = content

DraftFits(d) ==
  drafts[d].status = "active" =>
    /\ StaysStored(drafts[d].manifest, drafts[d].content)
    /\ drafts[d].creator \in Tabs
TabFits(t) ==
  /\ tabs[t].stage # "closed" => tabs[t].manifest \in Manifests
  /\ KnowsDraft(tabs[t])
RequestFits(t) ==
  /\ requests[t].stage \in {"sent", "loaded"} => requests[t].manifest \in Manifests
  /\ requests[t].stage = "loaded" =>
       StaysStored(requests[t].manifest, requests[t].content)
  /\ KnowsDraft(requests[t])
  /\ KnowsSaved(requests[t])
  /\ Belongs(requests[t], tabs[t])

DraftInv ==
  /\ Catalog!TypeOK
  /\ \A d \in Drafts : DraftFits(d)
  /\ \A t \in Tabs : TabFits(t) /\ RequestFits(t)

\* At the start there is no template, no draft and no open page.
LEMMA DraftInit ==
  ASSUME Catalog!Init
  PROVE  DraftInv
<1>1. Catalog!TypeOK
  BY DraftsAssumption DEF Catalog!Init, Catalog!TypeOK, Catalog!Template, Catalog!Draft,
     Catalog!Tab, Catalog!Request, Catalog!NoDraft, Catalog!EmptyTab, Catalog!NoRequest
<1>. QED BY <1>1 DEF DraftInv, DraftFits, TabFits, RequestFits, KnowsDraft, KnowsSaved,
     Belongs, StaysStored, Catalog!Init, Catalog!NoDraft, Catalog!EmptyTab, Catalog!NoRequest

\* A version that was read is not replaced by another manifest.
LEMMA UpsertKeeps ==
  ASSUME DraftInv, NEW m \in Manifests, NEW c \in Contents,
         NEW state \in {"draft", "published", "deprecated"},
         Catalog!UpsertTemplate(m, c, state)
  PROVE  DraftInv'
<1>1. /\ templates \in [Manifests -> Catalog!Template]
      /\ templates[m] \in Catalog!Template
  BY DEF DraftInv, Catalog!TypeOK
<1>. DEFINE new == [state |-> state, content |-> c,
                    publishedAt |-> templates[m].publishedAt \/ state = "published"]
<1>2. new \in Catalog!Template
  BY <1>1 DEF Catalog!Template
<1>3. templates' = [templates EXCEPT ![m] = new]
  BY DEF Catalog!UpsertTemplate, Catalog!Stored
<1>4. UNCHANGED <<drafts, tabs, requests, lost>>
  BY DEF Catalog!UpsertTemplate
<1>5. templates[m].state # "absent" => templates[m].content = c
  BY DEF Catalog!UpsertTemplate
<1>6. Catalog!TypeOK'
  BY <1>1, <1>2, <1>3, <1>4 DEF DraftInv, Catalog!TypeOK
<1>7. \A n, content : StaysStored(n, content) => StaysStored(n, content)'
  BY <1>1, <1>3, <1>5 DEF StaysStored
<1>. QED BY <1>4, <1>6, <1>7 DEF DraftInv, DraftFits, TabFits, RequestFits, KnowsDraft,
     KnowsSaved

\* A step of a tab and its save, which leaves the documents.
LEMMA TabStep ==
  ASSUME DraftInv, NEW t \in Tabs, NEW tab, NEW request,
         UNCHANGED <<templates, drafts>>, lost' \subseteq Tabs,
         tabs' = [tabs EXCEPT ![t] = tab], tab \in Catalog!Tab,
         requests' = [requests EXCEPT ![t] = request], request \in Catalog!Request,
         tab.stage # "closed" => tab.manifest \in Manifests,
         KnowsDraft(tab),
         request.stage \in {"sent", "loaded"} => request.manifest \in Manifests,
         request.stage = "loaded" => StaysStored(request.manifest, request.content),
         KnowsDraft(request), KnowsSaved(request),
         \/ Belongs(request, tab)
         \/ request = requests[t] /\ tabs[t].stage # "saving" /\ tab.stage # "saving"
  PROVE  DraftInv'
<1>1. Catalog!TypeOK'
  BY DEF DraftInv, Catalog!TypeOK
<1>2. /\ tabs'[t] = tab /\ requests'[t] = request
      /\ \A u \in Tabs : u # t => tabs'[u] = tabs[u] /\ requests'[u] = requests[u]
  BY DEF DraftInv, Catalog!TypeOK
<1>3. /\ \A x, y : y = x /\ KnowsDraft(x) => KnowsDraft(y)'
      /\ \A x, y : y = x /\ KnowsSaved(x) => KnowsSaved(y)'
  BY DEF KnowsDraft, KnowsSaved
<1>4. ASSUME NEW d \in Drafts
      PROVE  DraftFits(d)'
  BY DEF DraftInv, DraftFits, StaysStored
<1>5. ASSUME NEW u \in Tabs
      PROVE  TabFits(u)'
  BY <1>2, <1>3 DEF DraftInv, TabFits
<1>6. ASSUME NEW u \in Tabs
      PROVE  RequestFits(u)'
  <2>1. CASE u # t
    BY <1>2, <1>3, <2>1 DEF DraftInv, RequestFits, StaysStored, Belongs
  <2>2. CASE u = t
    <3>1. (KnowsDraft(requests[t]) /\ KnowsSaved(requests[t]))'
      BY <1>2, <1>3
    <3>2. Belongs(request, tab)
      BY DEF DraftInv, RequestFits, Belongs
    <3>. QED BY <1>2, <2>2, <3>1, <3>2 DEF RequestFits, StaysStored, Belongs
  <2>. QED BY <2>1, <2>2
<1>. QED BY <1>1, <1>4, <1>5, <1>6 DEF DraftInv

\* What an answer leaves of a save: nothing, a refusal or the values stored.
LEMMA AnswerFits ==
  ASSUME DraftInv, NEW t \in Tabs, requests[t].stage \in {"sent", "loaded"},
         NEW stage \in {"saved", "refused"}, Catalog!Answer(t, stage)
  PROVE  /\ requests' = [requests EXCEPT ![t] = requests'[t]]
         /\ requests'[t] \in Catalog!Request
         /\ requests'[t].stage \in {"none", "refused", "saved"}
         /\ requests'[t].stage # "none" => tabs[t].stage = "saving"
         /\ requests'[t].stage # "saved" => requests'[t].existing = None
         /\ requests'[t].stage = "saved" =>
              stage = "saved" /\ requests'[t] = [requests[t] EXCEPT !.stage = "saved",
                                                                    !.content = None]
<1>1. requests[t] \in Catalog!Request /\ requests \in [Tabs -> Catalog!Request]
  BY DEF DraftInv, Catalog!TypeOK
<1>. DEFINE answer == IF tabs[t].stage # "saving" THEN Catalog!NoRequest
                      ELSE IF stage = "refused"
                      THEN [Catalog!NoRequest EXCEPT !.stage = "refused"]
                      ELSE [requests[t] EXCEPT !.stage = stage, !.content = None]
<1>2. requests' = [requests EXCEPT ![t] = answer]
  BY DEF Catalog!Answer
<1>3. requests'[t] = answer
  BY <1>1, <1>2
<1>4. answer \in Catalog!Request
  <2>1. [requests[t] EXCEPT !.stage = "saved", !.content = None] \in Catalog!Request
    BY <1>1 DEF Catalog!Request
  <2>2. /\ Catalog!NoRequest \in Catalog!Request
        /\ [Catalog!NoRequest EXCEPT !.stage = "refused"] \in Catalog!Request
    BY DraftsAssumption DEF Catalog!Request, Catalog!NoRequest
  <2>. QED BY <2>1, <2>2
<1>5. /\ Catalog!NoRequest.stage = "none" /\ Catalog!NoRequest.existing = None
      /\ [Catalog!NoRequest EXCEPT !.stage = "refused"].stage = "refused"
      /\ [Catalog!NoRequest EXCEPT !.stage = "refused"].existing = None
      /\ [requests[t] EXCEPT !.stage = "saved", !.content = None].stage = "saved"
  BY <1>1 DEF Catalog!NoRequest, Catalog!Request
<1>. HIDE DEF answer
<1>6. /\ requests' = [requests EXCEPT ![t] = requests'[t]]
      /\ requests'[t] \in Catalog!Request
  BY <1>2, <1>3, <1>4
<1>. QED BY <1>3, <1>5, <1>6 DEF answer

\* The steps of a tab, and of the server before it writes.
LEMMA TabSteps ==
  ASSUME DraftInv, NEW t \in Tabs,
         \/ \E m \in Manifests : Catalog!OpenWizard(t, m)
         \/ Catalog!Fetch(t) \/ Catalog!FetchFails(t)
         \/ \E values \in Values : Catalog!Save(t, values)
         \/ Catalog!Saved(t) \/ Catalog!SaveRefused(t) \/ Catalog!SaveFails(t)
         \/ Catalog!LoadTemplate(t) \/ Catalog!Refuse(t)
  PROVE  DraftInv'
<1>. DEFINE r == requests[t]
            x == tabs[t]
            noRequest == Catalog!NoRequest
<1>1. /\ TabFits(t) /\ RequestFits(t)
      /\ tabs \in [Tabs -> Catalog!Tab] /\ x \in Catalog!Tab
      /\ requests \in [Tabs -> Catalog!Request] /\ r \in Catalog!Request
      /\ drafts \in [Drafts -> Catalog!Draft]
      /\ templates \in [Manifests -> Catalog!Template]
      /\ lost \subseteq Tabs /\ tabs = [tabs EXCEPT ![t] = x]
      /\ requests = [requests EXCEPT ![t] = r]
  BY DEF DraftInv, Catalog!TypeOK
<1>2. /\ noRequest \in Catalog!Request /\ noRequest.stage = "none"
      /\ KnowsDraft(noRequest) /\ KnowsSaved(noRequest)
  BY DraftsAssumption DEF Catalog!Request, Catalog!NoRequest, KnowsDraft, KnowsSaved
<1>3. \A m \in Manifests \cup {None} :
        /\ Catalog!EmptyTab(m) \in Catalog!Tab /\ Catalog!EmptyTab(m).manifest = m
        /\ KnowsDraft(Catalog!EmptyTab(m))
  BY DraftsAssumption DEF Catalog!Tab, Catalog!EmptyTab, KnowsDraft
<1>4. ASSUME NEW m \in Manifests, Catalog!OpenWizard(t, m)
      PROVE  DraftInv'
  BY <1>1, <1>3, <1>4, TabStep DEF Catalog!OpenWizard, Catalog!EmptyTab, RequestFits
<1>5. CASE Catalog!Fetch(t)
  <2>1. PICK d \in Catalog!Pick(t) : Catalog!Show(t, d)
    BY <1>5 DEF Catalog!Fetch
  <2>2. /\ UNCHANGED <<templates, drafts, requests, lost>>
        /\ x.stage \in {"fetching", "editing"}
        /\ d = None \/ /\ d \in Drafts /\ drafts[d] \in Catalog!Draft
                       /\ drafts[d].status = "active" /\ drafts[d].manifest = x.manifest
    BY <1>1, <1>5, <2>1 DEF Catalog!Fetch, Catalog!Pick, Catalog!Candidates
  <2>. DEFINE tab == [stage |-> "editing", manifest |-> x.manifest, existing |-> d,
                      version |-> IF d = None THEN 0 ELSE drafts[d].version,
                      based |-> IF d = None THEN None
                                ELSE IF x.existing # d THEN drafts[d].values
                                ELSE IF x.version = drafts[d].version THEN x.based
                                ELSE None]
  <2>3. tabs' = [tabs EXCEPT ![t] = tab]
    BY <2>1 DEF Catalog!Show
  <2>4. tab \in Catalog!Tab
    BY <1>1, <2>2, DraftsAssumption DEF Catalog!Tab, Catalog!Draft
  <2>5. KnowsDraft(tab)
    BY <1>1, <2>2 DEF KnowsDraft, TabFits, Catalog!Draft
  <2>6. tab.stage = "editing" /\ tab.manifest \in Manifests
    BY <1>1, <2>2 DEF TabFits
  <2>. HIDE DEF tab
  <2>. QED BY <1>1, <2>2, <2>3, <2>4, <2>5, <2>6, TabStep DEF RequestFits
<1>6. CASE Catalog!FetchFails(t)
  <2>1. /\ tabs' = [tabs EXCEPT ![t] = Catalog!EmptyTab(x.manifest)]
        /\ UNCHANGED <<templates, drafts, requests, lost>> /\ x.stage = "fetching"
    BY <1>6 DEF Catalog!FetchFails
  <2>2. x.manifest \in Manifests /\ Catalog!EmptyTab(x.manifest).stage = "fetching"
    BY <1>1, <2>1 DEF TabFits, Catalog!EmptyTab
  <2>. QED BY <1>1, <1>3, <2>1, <2>2, TabStep DEF RequestFits
<1>7. ASSUME NEW values \in Values, Catalog!Save(t, values)
      PROVE  DraftInv'
  <2>. DEFINE tab == [x EXCEPT !.stage = "saving"]
              sent == [stage |-> "sent", manifest |-> x.manifest, existing |-> x.existing,
                       version |-> x.version, based |-> x.based, values |-> values,
                       content |-> None]
  <2>1. /\ tabs' = [tabs EXCEPT ![t] = tab] /\ requests' = [requests EXCEPT ![t] = sent]
        /\ UNCHANGED <<templates, drafts, lost>> /\ x.stage # "closed"
    BY <1>7 DEF Catalog!Save
  <2>2. tab \in Catalog!Tab /\ sent \in Catalog!Request
    BY <1>1 DEF Catalog!Tab, Catalog!Request
  <2>3. KnowsDraft(tab) /\ KnowsDraft(sent) /\ KnowsSaved(sent) /\ Belongs(sent, tab)
    BY <1>1 DEF KnowsDraft, KnowsSaved, Belongs, TabFits, Catalog!Tab
  <2>4. /\ tab.manifest \in Manifests /\ sent.manifest \in Manifests
        /\ sent.stage = "sent"
    BY <1>1, <2>1 DEF TabFits, Catalog!Tab
  <2>. HIDE DEF tab, sent
  <2>. QED BY <1>1, <2>1, <2>2, <2>3, <2>4, TabStep
<1>8. CASE Catalog!Saved(t)
  <2>. DEFINE version == IF r.existing = None THEN 0 ELSE r.version + 1
              based == IF r.existing = None THEN None ELSE r.values
              tab == [x EXCEPT !.stage = "fetching", !.version = version, !.based = based]
  <2>1. /\ tabs' = [tabs EXCEPT ![t] = tab]
        /\ requests' = [requests EXCEPT ![t] = noRequest]
        /\ UNCHANGED <<templates, drafts, lost>> /\ r.stage = "saved"
    BY <1>8 DEF Catalog!Saved, Catalog!AfterSave
  <2>2. r.existing # None => r.version + 1 \in 0 .. MaxVersion
    BY <1>1, <2>1, DraftsAssumption DEF RequestFits, KnowsSaved, Catalog!Request
  <2>3. version \in 0 .. MaxVersion /\ based \in Values \cup {None}
    BY <1>1, <2>2, DraftsAssumption DEF Catalog!Request
  <2>4. x.stage = "saving" /\ r.existing = x.existing /\ r.manifest = x.manifest
    BY <1>1, <2>1 DEF RequestFits, Belongs
  <2>5. ASSUME NEW v, NEW c, v = version, c = based
        PROVE  DraftInv'
    <3>. DEFINE new == [x EXCEPT !.stage = "fetching", !.version = v, !.based = c]
    <3>1. /\ new \in Catalog!Tab /\ new.stage = "fetching" /\ new.manifest = x.manifest
          /\ new.existing = x.existing /\ new.version = v /\ new.based = c
      BY <1>1, <2>3, <2>5 DEF Catalog!Tab
    <3>2. tabs' = [tabs EXCEPT ![t] = new]
      BY <2>1, <2>5
    <3>. HIDE DEF new, noRequest
    <3>3. KnowsDraft(new) /\ new.manifest \in Manifests /\ Belongs(noRequest, new)
      BY <1>1, <1>2, <2>1, <2>4, <2>5, <3>1
      DEF KnowsDraft, KnowsSaved, Belongs, TabFits, RequestFits, Catalog!Draft,
          Catalog!Request
    <3>. QED BY <1>1, <1>2, <2>1, <3>1, <3>2, <3>3, TabStep
  <2>. QED BY <2>5
<1>9. ASSUME Catalog!SaveRefused(t) \/ Catalog!SaveFails(t)
      PROVE  DraftInv'
  <2>. DEFINE tab == [x EXCEPT !.stage = "editing"]
              request == IF r.stage \in {"saved", "refused"} THEN noRequest ELSE r
  <2>1. /\ tabs' = [tabs EXCEPT ![t] = tab]
        /\ requests' = [requests EXCEPT ![t] = request]
        /\ UNCHANGED <<templates, drafts>> /\ lost' \subseteq Tabs
        /\ x.stage # "closed"
    BY <1>1, <1>9 DEF Catalog!SaveRefused, Catalog!SaveFails, RequestFits, Belongs
  <2>2. tab \in Catalog!Tab /\ request \in Catalog!Request
    BY <1>1, <1>2 DEF Catalog!Tab
  <2>3. /\ KnowsDraft(tab) /\ KnowsDraft(request) /\ KnowsSaved(request) /\ Belongs(request, tab)
        /\ request.stage \in {"sent", "loaded"} => request = r
    BY <1>1, <1>2 DEF KnowsDraft, KnowsSaved, Belongs, TabFits, RequestFits,
                      Catalog!Tab,
                      Catalog!Request
  <2>4. tab.stage = "editing" /\ tab.manifest = x.manifest
    BY <1>1 DEF Catalog!Tab
  <2>. HIDE DEF tab, request
  <2>. QED BY <1>1, <2>1, <2>2, <2>3, <2>4, TabStep DEF TabFits, RequestFits
<1>10. CASE Catalog!LoadTemplate(t)
  <2>. DEFINE loaded == [r EXCEPT !.stage = "loaded",
                                  !.content = templates[r.manifest].content]
  <2>1. /\ requests' = [requests EXCEPT ![t] = loaded]
        /\ UNCHANGED <<templates, drafts, tabs, lost>> /\ r.stage = "sent"
        /\ Catalog!Loadable(r.manifest)
    BY <1>1, <1>10 DEF Catalog!LoadTemplate
  <2>2. r.manifest \in Manifests /\ templates[r.manifest] \in Catalog!Template
    BY <1>1, <2>1 DEF RequestFits
  <2>3. loaded \in Catalog!Request
    BY <1>1, <2>2 DEF Catalog!Request, Catalog!Template
  <2>4. /\ loaded.stage = "loaded" /\ loaded.manifest = r.manifest
        /\ StaysStored(loaded.manifest, loaded.content)
    BY <1>1, <2>1, <2>2 DEF StaysStored, Catalog!Loadable, Catalog!Request
  <2>5. KnowsDraft(loaded) /\ KnowsSaved(loaded) /\ Belongs(loaded, x)
    BY <1>1, <2>1 DEF KnowsDraft, KnowsSaved, Belongs, RequestFits, Catalog!Request
  <2>. HIDE DEF loaded
  <2>. QED BY <1>1, <2>1, <2>2, <2>3, <2>4, <2>5, TabStep DEF TabFits
<1>11. CASE Catalog!Refuse(t)
  <2>1. /\ requests' = [requests EXCEPT ![t] = requests'[t]]
        /\ requests'[t] \in Catalog!Request
        /\ requests'[t].stage \in {"none", "refused"} /\ requests'[t].existing = None
        /\ requests'[t].stage # "none" => x.stage = "saving"
    BY <1>11, AnswerFits DEF Catalog!Refuse
  <2>2. UNCHANGED <<templates, drafts, tabs, lost>>
    BY <1>11 DEF Catalog!Refuse
  <2>3. PICK request : request = requests'[t]
    OBVIOUS
  <2>4. KnowsDraft(request) /\ KnowsSaved(request) /\ Belongs(request, x)
    BY <2>1, <2>3 DEF KnowsDraft, KnowsSaved, Belongs
  <2>. QED BY <1>1, <2>1, <2>2, <2>3, <2>4, TabStep DEF TabFits
<1>. QED BY <1>4, <1>5, <1>6, <1>7, <1>8, <1>9, <1>10, <1>11

\* A write of draft d, which gets a later version or is new or abandoned: what
\* is known of d stays true.
LEMMA DraftWritten ==
  ASSUME DraftInv, NEW d \in Drafts, NEW draft \in Catalog!Draft,
         UNCHANGED templates, drafts' = [drafts EXCEPT ![d] = draft],
         draft.status # "absent",
         draft.status = "active" =>
           /\ StaysStored(draft.manifest, draft.content)
           /\ draft.creator \in Tabs
           /\ drafts[d].status # "absent" =>
                /\ drafts[d].status = "active"
                /\ draft.manifest = drafts[d].manifest
                /\ drafts[d].version < draft.version
  PROVE  /\ drafts' \in [Drafts -> Catalog!Draft]
         /\ drafts'[d] = draft
         /\ \A e \in Drafts : DraftFits(e)'
         /\ \A x \in Catalog!Tab \cup Catalog!Request : KnowsDraft(x) => KnowsDraft(x)'
         /\ \A r \in Catalog!Request : KnowsDraft(r) /\ KnowsSaved(r) => KnowsSaved(r)'
<1>1. drafts \in [Drafts -> Catalog!Draft]
  BY DEF DraftInv, Catalog!TypeOK
<1>2. drafts'[d] = draft /\ \A e \in Drafts : e # d => drafts'[e] = drafts[e]
  BY <1>1
<1>3. \A e \in Drafts : DraftFits(e)'
  BY <1>2 DEF DraftInv, DraftFits, StaysStored
<1>4. \A x \in Catalog!Tab \cup Catalog!Request : KnowsDraft(x) => KnowsDraft(x)'
  BY <1>1, <1>2 DEF KnowsDraft, Catalog!Tab, Catalog!Request, Catalog!Draft
<1>5. \A r \in Catalog!Request : KnowsDraft(r) /\ KnowsSaved(r) => KnowsSaved(r)'
  BY <1>1, <1>2 DEF KnowsDraft, KnowsSaved, Catalog!Request, Catalog!Draft
<1>. QED BY <1>1, <1>2, <1>3, <1>4, <1>5

\* The same with the save of tab t, which is answered.
LEMMA AnsweredStep ==
  ASSUME DraftInv, NEW t \in Tabs, NEW request \in Catalog!Request,
         UNCHANGED <<templates, tabs, lost>>, drafts' \in [Drafts -> Catalog!Draft],
         \A e \in Drafts : DraftFits(e)',
         \A x \in Catalog!Tab \cup Catalog!Request : KnowsDraft(x) => KnowsDraft(x)',
         \A r \in Catalog!Request : KnowsDraft(r) /\ KnowsSaved(r) => KnowsSaved(r)',
         requests' = [requests EXCEPT ![t] = request],
         request.stage \notin {"sent", "loaded"},
         KnowsDraft(request)', KnowsSaved(request)', Belongs(request, tabs[t])
  PROVE  DraftInv'
<1>1. /\ tabs \in [Tabs -> Catalog!Tab] /\ requests \in [Tabs -> Catalog!Request]
      /\ requests'[t] = request
      /\ \A u \in Tabs : u # t => requests'[u] = requests[u]
  BY DEF DraftInv, Catalog!TypeOK
<1>2. Catalog!TypeOK'
  BY <1>1 DEF DraftInv, Catalog!TypeOK
<1>3. \A u \in Tabs : KnowsDraft(tabs[u])'
  <2>. SUFFICES ASSUME NEW u \in Tabs PROVE KnowsDraft(tabs[u])'
    OBVIOUS
  <2>1. PICK x \in Catalog!Tab : x = tabs[u]
    BY <1>1
  <2>2. KnowsDraft(x)' /\ tabs'[u] = x
    BY <2>1 DEF DraftInv, TabFits
  <2>. QED BY <2>2 DEF KnowsDraft
<1>4. \A u \in Tabs : KnowsDraft(requests[u])' /\ KnowsSaved(requests[u])'
  <2>. SUFFICES ASSUME NEW u \in Tabs
                PROVE  KnowsDraft(requests[u])' /\ KnowsSaved(requests[u])'
    OBVIOUS
  <2>1. CASE u = t
    BY <1>1, <2>1 DEF KnowsDraft, KnowsSaved
  <2>2. CASE u # t
    <3>1. PICK r \in Catalog!Request : r = requests[u]
      BY <1>1
    <3>2. KnowsDraft(r)' /\ KnowsSaved(r)' /\ requests'[u] = r
      BY <1>1, <2>2, <3>1 DEF DraftInv, RequestFits
    <3>. QED BY <3>2 DEF KnowsDraft, KnowsSaved
  <2>. QED BY <2>1, <2>2
<1>5. ASSUME NEW u \in Tabs
      PROVE  TabFits(u)' /\ RequestFits(u)'
  BY <1>1, <1>3, <1>4 DEF DraftInv, TabFits, RequestFits, Belongs, StaysStored
<1>. QED BY <1>2, <1>5 DEF DraftInv

\* A new draft has the manifest that its version still has.
LEMMA CreateKeeps ==
  ASSUME DraftInv, NEW t \in Tabs, NEW d \in Drafts, Catalog!CreateDraft(t, d)
  PROVE  DraftInv'
<1>. DEFINE r == requests[t]
            draft == [status |-> "active", manifest |-> r.manifest, content |-> r.content,
                      values |-> r.values, version |-> 0, creator |-> t]
<1>1. /\ r \in Catalog!Request /\ RequestFits(t) /\ drafts[d].status = "absent"
      /\ r.stage = "loaded" /\ r.existing = None
      /\ UNCHANGED <<templates, tabs, lost>>
      /\ Catalog!Answer(t, "saved") /\ drafts' = [drafts EXCEPT ![d] = draft]
  BY DEF DraftInv, Catalog!TypeOK, Catalog!CreateDraft
<1>2. draft \in Catalog!Draft
  BY <1>1, DraftsAssumption DEF Catalog!Request, Catalog!Draft
<1>3. StaysStored(draft.manifest, draft.content)
  BY <1>1 DEF RequestFits
<1>. HIDE DEF draft
<1>4. draft.status = "active" /\ draft.creator = t
  BY DEF draft
<1>5. PICK request : request = requests'[t]
  OBVIOUS
<1>6. /\ requests' = [requests EXCEPT ![t] = request] /\ request \in Catalog!Request
      /\ request.stage \in {"none", "refused", "saved"}
      /\ request.stage # "none" => tabs[t].stage = "saving"
      /\ request.stage # "saved" => request.existing = None
      /\ request.stage = "saved" =>
           request = [r EXCEPT !.stage = "saved", !.content = None]
  BY <1>1, <1>5, AnswerFits
<1>7. /\ request.existing = None
      /\ request.stage = "saved" => request.manifest = r.manifest
  BY <1>1, <1>6 DEF Catalog!Request
<1>8. KnowsDraft(request)' /\ KnowsSaved(request)'
  BY <1>7 DEF KnowsDraft, KnowsSaved
<1>9. Belongs(request, tabs[t])
  BY <1>1, <1>6, <1>7 DEF Belongs, RequestFits
<1>. QED BY <1>1, <1>2, <1>3, <1>4, <1>6, <1>8, <1>9, DraftWritten, AnsweredStep

\* The draft has the version that the save names, so it takes the next one.
LEMMA UpdateKeeps ==
  ASSUME DraftInv, NEW t \in Tabs, Catalog!UpdateDraft(t)
  PROVE  DraftInv'
<1>. DEFINE r == requests[t]
            d == r.existing
            draft == [drafts[d] EXCEPT !.values = r.values, !.content = r.content,
                                       !.version = r.version + 1]
<1>1. /\ r \in Catalog!Request /\ RequestFits(t) /\ d \in Drafts
      /\ drafts \in [Drafts -> Catalog!Draft] /\ drafts[d] \in Catalog!Draft
      /\ DraftFits(d)
      /\ drafts[d].status = "active" /\ drafts[d].version = r.version
      /\ r.version < MaxVersion /\ r.stage = "loaded" /\ d # None
      /\ UNCHANGED <<templates, tabs, lost>> /\ Catalog!Answer(t, "saved")
  BY DEF DraftInv, Catalog!TypeOK, Catalog!UpdateDraft, Catalog!Accepts, Catalog!Request
<1>2. drafts' = [drafts EXCEPT ![d] = draft]
  BY <1>1 DEF Catalog!UpdateDraft
<1>3. /\ draft.status = "active" /\ draft.manifest = drafts[d].manifest
      /\ draft.content = r.content /\ draft.values = r.values
      /\ draft.version = r.version + 1 /\ draft.creator = drafts[d].creator
  BY <1>1 DEF Catalog!Draft
<1>4. r.version + 1 \in 0 .. MaxVersion
  BY <1>1, DraftsAssumption DEF Catalog!Request
<1>5. draft \in Catalog!Draft
  BY <1>1, <1>4 DEF Catalog!Request, Catalog!Draft
<1>. HIDE DEF draft
<1>6. r.version \in Nat /\ r.manifest = drafts[d].manifest
  BY <1>1, DraftsAssumption DEF Catalog!Request, RequestFits, KnowsDraft
<1>7. StaysStored(draft.manifest, draft.content)
  BY <1>1, <1>3, <1>6 DEF RequestFits
<1>8. draft.creator \in Tabs /\ drafts[d].version < draft.version
  BY <1>1, <1>3, <1>6 DEF DraftFits
<1>9. PICK request : request = requests'[t]
  OBVIOUS
<1>10. /\ requests' = [requests EXCEPT ![t] = request] /\ request \in Catalog!Request
       /\ request.stage \in {"none", "refused", "saved"}
       /\ request.stage # "none" => tabs[t].stage = "saving"
       /\ request.stage # "saved" => request.existing = None
       /\ request.stage = "saved" =>
            request = [r EXCEPT !.stage = "saved", !.content = None]
  BY <1>1, <1>9, AnswerFits
<1>11. request.stage = "saved" =>
        /\ request.existing = d /\ request.manifest = r.manifest
        /\ request.version = r.version /\ request.values = r.values
  BY <1>1, <1>10 DEF Catalog!Request
<1>12. drafts'[d] = draft
  BY <1>1, <1>2
<1>13. KnowsDraft(request)' /\ KnowsSaved(request)'
  BY <1>1, <1>3, <1>6, <1>10, <1>11, <1>12 DEF KnowsDraft, KnowsSaved
<1>14. Belongs(request, tabs[t])
  BY <1>1, <1>10, <1>11 DEF Belongs, RequestFits
<1>. QED BY <1>1, <1>2, <1>3, <1>7, <1>5, <1>8, <1>10, <1>13, <1>14,
     DraftWritten, AnsweredStep

\* Nothing is known of an abandoned draft but that it was there.
LEMMA AbandonKeeps ==
  ASSUME DraftInv, NEW d \in Drafts, Catalog!AbandonDraft(d)
  PROVE  DraftInv'
<1>. DEFINE draft == [Catalog!NoDraft EXCEPT !.status = "abandoned"]
<1>1. draft \in Catalog!Draft /\ draft.status = "abandoned"
  BY DraftsAssumption DEF Catalog!NoDraft, Catalog!Draft
<1>2. /\ drafts' = [drafts EXCEPT ![d] = draft]
      /\ UNCHANGED <<templates, tabs, requests, lost>>
  BY DEF Catalog!AbandonDraft
<1>. HIDE DEF draft
<1>3. /\ drafts' \in [Drafts -> Catalog!Draft] /\ \A e \in Drafts : DraftFits(e)'
      /\ \A x \in Catalog!Tab \cup Catalog!Request : KnowsDraft(x) => KnowsDraft(x)'
      /\ \A r \in Catalog!Request : KnowsDraft(r) /\ KnowsSaved(r) => KnowsSaved(r)'
  BY <1>1, <1>2, DraftWritten
<1>4. Catalog!TypeOK'
  BY <1>2, <1>3 DEF DraftInv, Catalog!TypeOK
<1>5. ASSUME NEW t \in Tabs
      PROVE  TabFits(t)' /\ RequestFits(t)'
  <2>1. PICK x \in Catalog!Tab, r \in Catalog!Request : x = tabs[t] /\ r = requests[t]
    BY DEF DraftInv, Catalog!TypeOK
  <2>2. KnowsDraft(x)' /\ KnowsDraft(r)' /\ KnowsSaved(r)'
    BY <1>3, <2>1 DEF DraftInv, TabFits, RequestFits
  <2>3. (KnowsDraft(tabs[t]) /\ KnowsDraft(requests[t]) /\ KnowsSaved(requests[t]))'
    BY <1>2, <2>1, <2>2 DEF KnowsDraft, KnowsSaved
  <2>. QED BY <1>2, <2>3 DEF DraftInv, TabFits, RequestFits, StaysStored, Belongs
<1>. QED BY <1>3, <1>4, <1>5 DEF DraftInv

\* Every step keeps what tabs and saves know.
LEMMA DraftsStep ==
  ASSUME DraftInv, [Catalog!Next]_(Catalog!vars)
  PROVE  DraftInv'
<1>1. CASE UNCHANGED Catalog!vars
  BY <1>1 DEF Catalog!vars, DraftInv, Catalog!TypeOK, DraftFits, TabFits, RequestFits,
              KnowsDraft, KnowsSaved, Belongs, StaysStored
<1>2. CASE Catalog!Next
  BY <1>2, UpsertKeeps, TabSteps, CreateKeeps, UpdateKeeps,
       AbandonKeeps DEF Catalog!Next
<1>. QED BY <1>1, <1>2

\* What tabs and saves know holds in every state.
LEMMA DraftInvariant == Catalog!Spec => []DraftInv
BY DraftInit, DraftsStep, PTL DEF Catalog!Spec

\* The versions of drafts stay stored.
LEMMA DraftsBuilt == DraftInv => BuiltFromTemplate
BY DEF DraftInv, DraftFits, StaysStored, BuiltFromTemplate, Catalog!BuiltFromTemplate

\* Whatever is imported, deprecated or withdrawn while a save is under way, a
\* draft was built from the manifest that its version has (createServiceDraft,
\* upsertServiceTemplateManifest).
THEOREM DraftsAreBuilt == Catalog!Spec => []BuiltFromTemplate
BY DraftsBuilt, DraftInvariant, PTL

\* While tabs and saves know their drafts, a save overwrites what its form was
\* filled with.
LEMMA SavesSeen ==
  []DraftInv /\ [][Catalog!Next]_(Catalog!vars) => SaveSawWhatItChanges
<1>. DEFINE Safe ==
       \A t \in Tabs :
         LET r == requests[t] IN
         /\ r.stage = "loaded" /\ r.existing # None /\ r.based # None
         /\ requests'[t].stage # "loaded" /\ drafts' # drafts
         => drafts[r.existing].values = r.based
<1>1. DraftInv /\ [Catalog!Next]_(Catalog!vars) => [Safe]_(Catalog!vars)
  <2>. SUFFICES ASSUME DraftInv, Catalog!Next,
                       NEW t \in Tabs, requests[t].stage = "loaded",
                       requests[t].existing # None, requests[t].based # None,
                       requests'[t].stage # "loaded", drafts' # drafts
                PROVE  drafts[requests[t].existing].values = requests[t].based
    OBVIOUS
  <2>1. requests \in [Tabs -> Catalog!Request] /\ RequestFits(t)
    BY DEF DraftInv, Catalog!TypeOK
  <2>2. \/ \E u \in Tabs : \/ Catalog!UpdateDraft(u)
                          \/ \E d \in Drafts : Catalog!CreateDraft(u, d)
        \/ \E d \in Drafts : Catalog!AbandonDraft(d)
    BY DEF Catalog!Next, Catalog!UpsertTemplate, Catalog!OpenWizard, Catalog!Fetch,
       Catalog!FetchFails, Catalog!Save, Catalog!Saved, Catalog!SaveRefused,
       Catalog!SaveFails, Catalog!LoadTemplate, Catalog!Refuse
  <2>3. \A u \in Tabs : Catalog!Answer(u, "saved") => u = t
    BY <2>1 DEF Catalog!Answer
  <2>4. ~ \E d \in Drafts : Catalog!AbandonDraft(d)
    BY DEF Catalog!AbandonDraft
  <2>5. Catalog!UpdateDraft(t)
    BY <2>2, <2>3, <2>4 DEF Catalog!UpdateDraft, Catalog!CreateDraft
  <2>. QED BY <2>1, <2>5 DEF Catalog!UpdateDraft, Catalog!Accepts, RequestFits,
                             KnowsDraft
<1>. QED BY <1>1, PTL DEF SaveSawWhatItChanges, Catalog!SaveSawWhatItChanges

\* However late a save arrives, it overwrites the values that its form was filled
\* with (updateServiceDraft).
THEOREM SavesOverwriteSeen == Catalog!Spec => SaveSawWhatItChanges
BY DraftInvariant, SavesSeen, PTL DEF Catalog!Spec

\* A tab that got all replies so far.  Its save is there while it waits; and when
\* it shows a form without a draft, it has made none.
MadeBy(t) == {d \in Drafts : drafts[d].status = "active" /\ drafts[d].creator = t}
Informed(t) ==
  /\ \A d \in MadeBy(t) : /\ tabs[t].stage # "closed"
                        /\ drafts[d].manifest = tabs[t].manifest
  /\ \A d, e \in MadeBy(t) : d = e
  /\ requests[t].stage # "none" => tabs[t].stage = "saving"
  /\ /\ tabs[t].stage \in {"editing", "saving"} /\ tabs[t].existing = None
     /\ requests[t].stage # "saved"
     => MadeBy(t) = {}

OneInv ==
  /\ DraftInv
  /\ \A t \in Tabs \ lost : Informed(t)

\* At the start no tab has made a draft.
LEMMA OneInit ==
  ASSUME Catalog!Init
  PROVE  OneInv
BY DraftInit DEF OneInv, Informed, MadeBy, Catalog!Init, Catalog!NoDraft,
                 Catalog!EmptyTab,
   Catalog!NoRequest

\* A step that takes nobody else's draft, tab and save.
LEMMA OthersInformed ==
  ASSUME NEW u \in Tabs, Informed(u), MadeBy(u)' \subseteq MadeBy(u),
         \A d \in MadeBy(u)' : drafts'[d].manifest = drafts[d].manifest,
         tabs'[u] = tabs[u], requests'[u] = requests[u]
  PROVE  Informed(u)'
BY DEF Informed

\* The steps of a tab, and of the server before it writes.
LEMMA OneTabStep ==
  ASSUME OneInv, NEW t \in Tabs,
         \/ \E m \in Manifests : Catalog!OpenWizard(t, m)
         \/ Catalog!Fetch(t) \/ Catalog!FetchFails(t)
         \/ \E values \in Values : Catalog!Save(t, values)
         \/ Catalog!Saved(t) \/ Catalog!SaveRefused(t) \/ Catalog!SaveFails(t)
         \/ Catalog!LoadTemplate(t) \/ Catalog!Refuse(t),
         NEW u \in Tabs \ lost'
  PROVE  Informed(u)'
<1>1. /\ tabs \in [Tabs -> Catalog!Tab] /\ requests \in [Tabs -> Catalog!Request]
      /\ lost \subseteq Tabs /\ TabFits(t) /\ RequestFits(t)
      /\ tabs[t] \in Catalog!Tab /\ requests[t] \in Catalog!Request
  BY DEF OneInv, DraftInv, Catalog!TypeOK
<1>2. drafts' = drafts /\ lost \subseteq lost'
  BY DEF Catalog!OpenWizard, Catalog!Fetch, Catalog!FetchFails, Catalog!Save,
     Catalog!Saved, Catalog!SaveRefused, Catalog!SaveFails, Catalog!LoadTemplate,
     Catalog!Refuse
<1>3. Informed(u) /\ MadeBy(u)' = MadeBy(u)
  BY <1>2 DEF OneInv, MadeBy
<1>4. CASE u # t
  <2>1. tabs'[u] = tabs[u] /\ requests'[u] = requests[u]
    BY <1>1, <1>4 DEF Catalog!OpenWizard, Catalog!Fetch, Catalog!Show,
                      Catalog!FetchFails,
       Catalog!Save, Catalog!Saved, Catalog!SaveRefused, Catalog!SaveFails,
       Catalog!LoadTemplate, Catalog!Refuse, Catalog!Answer
  <2>. QED BY <1>2, <1>3, <2>1, OthersInformed
<1>5. CASE u = t
  <2>1. ASSUME NEW m \in Manifests, Catalog!OpenWizard(t, m)
        PROVE  Informed(u)'
    BY <1>1, <1>2, <1>3, <1>5, <2>1 DEF Informed, Catalog!OpenWizard, Catalog!EmptyTab
  <2>2. CASE Catalog!Fetch(t)
    <3>1. PICK d \in Catalog!Pick(t) : Catalog!Show(t, d)
      BY <2>2 DEF Catalog!Fetch
    <3>2. tabs[t].stage \in {"fetching", "editing"} /\ requests' = requests
      BY <2>2 DEF Catalog!Fetch
    <3>3. d = None => MadeBy(t) = {}
      <4>1. d = None => Catalog!Candidates(t) = {}
        BY DraftsAssumption, <3>1 DEF Catalog!Pick, Catalog!Candidates
      <4>2. MadeBy(t) \subseteq Catalog!Candidates(t)
        BY <1>3, <1>5 DEF Informed, MadeBy, Catalog!Candidates
      <4>. QED BY <4>1, <4>2
    <3>4. /\ tabs'[t].stage = "editing" /\ tabs'[t].manifest = tabs[t].manifest
          /\ tabs'[t].existing = d
      BY <1>1, <3>1 DEF Catalog!Show
    <3>. QED BY <1>2, <1>3, <1>5, <3>2, <3>3, <3>4 DEF Informed
  <2>3. CASE Catalog!FetchFails(t)
    BY <1>1, <1>2, <1>3, <1>5, <2>3 DEF Informed, Catalog!FetchFails, Catalog!EmptyTab
  <2>4. ASSUME NEW values \in Values, Catalog!Save(t, values)
        PROVE  Informed(u)'
    <3>1. /\ tabs'[t].stage = "saving" /\ tabs'[t].manifest = tabs[t].manifest
          /\ tabs'[t].existing = tabs[t].existing /\ tabs[t].stage = "editing"
          /\ requests'[t].stage = "sent" /\ requests[t].stage = "none"
      BY <1>1, <2>4 DEF Catalog!Save, Catalog!NoRequest, Catalog!Tab
    <3>. QED BY <1>2, <1>3, <1>5, <3>1 DEF Informed
  <2>5. CASE Catalog!Saved(t)
    <3>1. /\ tabs'[t].stage = "fetching" /\ tabs'[t].manifest = tabs[t].manifest
          /\ requests'[t] = Catalog!NoRequest /\ Catalog!NoRequest.stage = "none"
      BY <1>1, <2>5 DEF Catalog!Saved, Catalog!AfterSave, Catalog!NoRequest, Catalog!Tab
    <3>. QED BY <1>2, <1>3, <1>5, <3>1 DEF Informed
  <2>6. CASE Catalog!SaveRefused(t)
    <3>1. /\ tabs'[t].stage = "editing" /\ tabs'[t].manifest = tabs[t].manifest
          /\ tabs'[t].existing = tabs[t].existing /\ requests[t].stage = "refused"
          /\ requests'[t] = Catalog!NoRequest /\ Catalog!NoRequest.stage = "none"
      BY <1>1, <2>6 DEF Catalog!SaveRefused, Catalog!NoRequest, Catalog!Tab
    <3>. QED BY <1>2, <1>3, <1>5, <3>1 DEF Informed
  <2>7. CASE Catalog!SaveFails(t)
    BY <1>5, <2>7 DEF Catalog!SaveFails
  <2>8. CASE Catalog!LoadTemplate(t)
    <3>1. /\ tabs' = tabs /\ requests[t].stage = "sent" /\ requests'[t].stage = "loaded"
      BY <1>1, <2>8 DEF Catalog!LoadTemplate, Catalog!Request
    <3>. QED BY <1>2, <1>3, <1>5, <3>1 DEF Informed
  <2>9. CASE Catalog!Refuse(t)
    <3>1. /\ tabs' = tabs /\ requests[t].stage \in {"sent", "loaded"}
          /\ requests'[t].stage = "refused"
      BY <1>1, <1>3, <1>5, <2>9 DEF Catalog!Refuse, Catalog!Answer, Catalog!NoRequest,
         Informed
    <3>. QED BY <1>2, <1>3, <1>5, <3>1 DEF Informed
  <2>. QED BY <2>1, <2>2, <2>3, <2>4, <2>5, <2>6, <2>7, <2>8, <2>9
<1>. QED BY <1>4, <1>5

\* A POST is sent by a form without a draft, and such a form's tab has made none.
LEMMA OneCreateStep ==
  ASSUME OneInv, NEW t \in Tabs, NEW d \in Drafts, Catalog!CreateDraft(t, d),
         NEW u \in Tabs \ lost'
  PROVE  Informed(u)'
<1>1. /\ drafts \in [Drafts -> Catalog!Draft] /\ requests \in [Tabs -> Catalog!Request]
      /\ requests[t] \in Catalog!Request /\ RequestFits(t)
      /\ UNCHANGED <<templates, tabs, lost>>
      /\ requests[t].stage = "loaded" /\ requests[t].existing = None
      /\ drafts[d].status = "absent" /\ Informed(u) /\ Catalog!Answer(t, "saved")
  BY DEF OneInv, DraftInv, Catalog!TypeOK, Catalog!CreateDraft
<1>2. /\ drafts'[d].status = "active" /\ drafts'[d].creator = t
      /\ drafts'[d].manifest = requests[t].manifest
      /\ \A e \in Drafts : e # d => drafts'[e] = drafts[e]
  BY <1>1 DEF Catalog!CreateDraft
<1>3. CASE u # t
  <2>1. MadeBy(u)' \subseteq MadeBy(u) /\ d \notin MadeBy(u)'
    BY <1>2, <1>3 DEF MadeBy
  <2>2. requests'[u] = requests[u] /\ tabs'[u] = tabs[u]
    BY <1>1, <1>3 DEF Catalog!Answer
  <2>3. \A e \in MadeBy(u)' : drafts'[e] = drafts[e]
    BY <1>2, <2>1 DEF MadeBy
  <2>. QED BY <1>1, <2>1, <2>2, <2>3, OthersInformed
<1>4. CASE u = t
  <2>1. /\ tabs[t].stage = "saving" /\ tabs[t].existing = None
        /\ tabs[t].manifest = requests[t].manifest
    BY <1>1, <1>4 DEF Informed, RequestFits, Belongs
  <2>2. MadeBy(t) = {}
    BY <1>1, <1>4, <2>1 DEF Informed
  <2>3. MadeBy(t)' = {d}
    BY <1>2, <2>2 DEF MadeBy
  <2>4. requests'[t].stage = "saved"
    BY <1>1, <2>1 DEF Catalog!Answer, Catalog!Request
  <2>. QED BY <1>1, <1>2, <1>4, <2>1, <2>3, <2>4 DEF Informed
<1>. QED BY <1>3, <1>4

\* An update makes no draft and leaves each with the tab that made it.
LEMMA OneUpdateStep ==
  ASSUME OneInv, NEW t \in Tabs, Catalog!UpdateDraft(t), NEW u \in Tabs \ lost'
  PROVE  Informed(u)'
<1>. DEFINE d == requests[t].existing
<1>1. /\ drafts \in [Drafts -> Catalog!Draft] /\ requests \in [Tabs -> Catalog!Request]
      /\ requests[t] \in Catalog!Request /\ RequestFits(t) /\ d \in Drafts
      /\ UNCHANGED <<templates, tabs, lost>> /\ requests[t].stage = "loaded"
      /\ Informed(u) /\ Catalog!Answer(t, "saved") /\ d # None
  BY DEF OneInv, DraftInv, Catalog!TypeOK, Catalog!UpdateDraft, Catalog!Request
<1>2. /\ drafts'[d].status = drafts[d].status /\ drafts'[d].creator = drafts[d].creator
      /\ drafts'[d].manifest = drafts[d].manifest
      /\ \A e \in Drafts : e # d => drafts'[e] = drafts[e]
  BY <1>1 DEF Catalog!UpdateDraft, Catalog!Draft
<1>3. /\ MadeBy(u)' = MadeBy(u)
      /\ \A e \in MadeBy(u)' : drafts'[e].manifest = drafts[e].manifest
  BY <1>2 DEF MadeBy
<1>4. CASE u # t
  <2>1. requests'[u] = requests[u] /\ tabs'[u] = tabs[u]
    BY <1>1, <1>4 DEF Catalog!Answer
  <2>. QED BY <1>1, <1>3, <2>1, OthersInformed
<1>5. CASE u = t
  <2>1. tabs[t].stage = "saving"
    BY <1>1, <1>5 DEF Informed
  <2>2. requests'[t].stage = "saved"
    BY <1>1, <2>1 DEF Catalog!Answer, Catalog!Request
  <2>. QED BY <1>1, <1>3, <1>5, <2>1, <2>2 DEF Informed
<1>. QED BY <1>4, <1>5

\* Every step keeps the informed tabs informed, or loses their reply.
LEMMA OneStep ==
  ASSUME OneInv, [Catalog!Next]_(Catalog!vars)
  PROVE  OneInv'
<1>1. DraftInv'
  BY DraftsStep DEF OneInv
<1>2. SUFFICES ASSUME NEW u \in Tabs \ lost'
               PROVE  Informed(u)'
  BY <1>1, <1>2 DEF OneInv
<1>3. CASE /\ UNCHANGED <<tabs, requests, lost>>
           /\ \A d \in Drafts : drafts'[d] = drafts[d] \/ drafts'[d].status # "active"
  <2>1. /\ MadeBy(u)' \subseteq MadeBy(u) /\ \A d \in MadeBy(u)' : drafts'[d] = drafts[d]
    BY <1>3 DEF MadeBy
  <2>2. Informed(u) /\ tabs'[u] = tabs[u] /\ requests'[u] = requests[u]
    BY <1>3 DEF OneInv
  <2>. QED BY <2>1, <2>2, OthersInformed
<1>4. ASSUME NEW d \in Drafts, Catalog!AbandonDraft(d)
      PROVE  Informed(u)'
  BY <1>3, <1>4
  DEF OneInv, DraftInv, Catalog!TypeOK, Catalog!AbandonDraft, Catalog!NoDraft
<1>5. ASSUME NEW m \in Manifests, NEW c \in Contents,
             NEW state \in {"draft", "published", "deprecated"},
             Catalog!UpsertTemplate(m, c, state)
      PROVE  Informed(u)'
  BY <1>3, <1>5 DEF Catalog!UpsertTemplate
<1>6. CASE UNCHANGED Catalog!vars
  BY <1>3, <1>6 DEF Catalog!vars
<1>. QED BY <1>4, <1>5, <1>6, OneTabStep, OneCreateStep, OneUpdateStep DEF Catalog!Next

\* In every state a tab is informed or has lost a reply.
LEMMA OneInvariant == Catalog!Spec => []OneInv
BY OneInit, OneStep, PTL DEF Catalog!Spec

\* A tab that is informed has made one draft at most.
LEMMA OneEach == OneInv => OneDraftPerTab
<1>. SUFFICES ASSUME OneInv, NEW d \in Drafts, NEW e \in Drafts, d # e,
                     drafts[d].status = "active", drafts[e].status = "active",
                     drafts[d].creator = drafts[e].creator,
                     drafts[d].creator \notin lost
              PROVE  FALSE
  BY DEF OneDraftPerTab, Catalog!OneDraftPerTab
<1>1. drafts[d].creator \in Tabs
  BY DEF OneInv, DraftInv, DraftFits
<1>2. d \in MadeBy(drafts[d].creator) /\ e \in MadeBy(drafts[d].creator)
  BY DEF MadeBy
<1>. QED BY <1>1, <1>2 DEF OneInv, Informed

\* A tab that gets the replies to its saves makes one draft, however the saves,
\* the lists and other tabs interleave (the wizard's saveDraft).
THEOREM TabsMakeOneDraft == Catalog!Spec => []OneDraftPerTab
BY OneEach, OneInvariant, PTL

-----------------------------------------------------------------------------
(* The page.                                                               *)

\* A set of positions has a last one.
LEMMA LastExists ==
  ASSUME NEW n \in Nat, NEW S, S \subseteq 1 .. n, S # {}
  PROVE  \E i \in S : \A j \in S : j <= i
<1>. DEFINE T == {n - i : i \in S}
            Less == OpToRel(<, Nat)
<1>1. \A i \in S : i \in Nat /\ i <= n /\ n - i \in Nat
  OBVIOUS
<1>2. T \subseteq Nat /\ T # {}
  BY <1>1
<1>3. IsWellFoundedOn(Less, Nat)
  BY NatLessThanWellFounded
<1>. HIDE DEF Less
<1>4. PICK x \in T : \A y \in T : <<y, x>> \notin Less
  BY <1>2, <1>3, WFMin
<1>5. \A y \in T : ~(y < x)
  BY <1>2, <1>4 DEF Less, OpToRel
<1>6. PICK i \in S : x = n - i
  OBVIOUS
<1>7. ASSUME NEW j \in S PROVE j <= i
  BY <1>1, <1>5, <1>6
<1>. QED BY <1>7

\* The field whose value a path gets is one that is mapped to the path.
LEMMA LastIsMapped ==
  ASSUME NEW m, NEW values, NEW path, Page!Last(m, values, path) # Page!Absent
  PROVE  /\ Page!Last(m, values, path) \in Page!FieldIds
         /\ m.path[Page!Last(m, values, path)] = path
         /\ values[Page!Last(m, values, path)] # Page!Absent
<1>. DEFINE at == {i \in DOMAIN Fields : m.path[Fields[i]] = path
                                           /\ values[Fields[i]] # Page!Absent}
            last == CHOOSE i \in at : \A j \in at : j <= i
<1>1. at # {} /\ Page!Last(m, values, path) = Fields[last]
  BY DEF Page!Last
<1>2. Len(Fields) \in Nat /\ at \subseteq 1 .. Len(Fields)
  BY FieldsAssumption
<1>3. \E i \in at : \A j \in at : j <= i
  BY <1>1, <1>2, LastExists
<1>4. last \in at
  BY <1>3
<1>. QED BY <1>1, <1>4 DEF Page!FieldIds

\* Only accepted manifests are shown, and the form has a value for every field.
PageInv ==
  /\ Page!Accepted(manifest)
  /\ form = [f \in Page!FieldIds |-> form[f]]

\* Both hold when the page is opened.
LEMMA PageInit == Page!Init => PageInv
BY DEF Page!Init, PageInv, Page!Shown, Page!InitialValues

\* Every step of the page keeps both.
LEMMA PageStep ==
  ASSUME PageInv, [Page!Next]_(Page!vars)
  PROVE  PageInv'
<1>1. CASE UNCHANGED Page!vars
  BY <1>1 DEF Page!vars, PageInv
<1>2. CASE Page!Enter
  BY <1>2 DEF PageInv, Page!Enter
<1>3. CASE Page!Continue
  BY <1>3 DEF PageInv, Page!Continue, Page!Shown
<1>4. CASE Page!Back
  BY <1>4 DEF PageInv, Page!Back, Page!Shown
<1>5. CASE Page!SaveDraft
  BY <1>5 DEF PageInv, Page!SaveDraft, Page!Resolved
<1>6. CASE Page!Resume
  BY <1>6 DEF PageInv, Page!Resume, Page!Shown, Page!InitialValues
<1>. QED BY <1>1, <1>2, <1>3, <1>4, <1>5, <1>6 DEF Page!Next

\* Both hold in every state of the page.
LEMMA PageInvariant == Page!Spec => []PageInv
BY PageInit, PageStep, PTL DEF Page!Spec

\* What the server builds of a form in which no default was cleared is what the
\* page shows of it, with secrets masked.
LEMMA BuiltAsPreviewed ==
  ASSUME PageInv, ~Page!DefaultCleared
  PROVE  /\ Page!WithDefaults(manifest, form) = form
         /\ Page!Masked(Page!Mapped(manifest, form)) = Page!Preview(manifest, form)
<1>1. Page!WithDefaults(manifest, form) = form
  BY DEF PageInv, Page!WithDefaults, Page!DefaultCleared
<1>2. ASSUME NEW path \in Page!Paths
      PROVE  Page!Masked(Page!Mapped(manifest, form))[path]
               = Page!Preview(manifest, form)[path]
  <2>. DEFINE f == Page!Last(manifest, form, path)
              desired == Page!Mapped(manifest, form)
              secret == path = "environment" /\ manifest.variable = "secret"
  <2>1. /\ desired[path] = IF f = Page!Absent THEN Page!Base(manifest)[path] ELSE form[f]
        /\ Page!Masked(desired)[path] =
             IF secret /\ desired[path] # Page!Absent THEN "[secret]" ELSE desired[path]
        /\ Page!Preview(manifest, form)[path] =
             IF f = Page!Absent THEN Page!Base(manifest)[path]
             ELSE IF manifest.type[f] = "secret" THEN "[secret]" ELSE form[f]
    BY DEF Page!Mapped, Page!Masked, Page!Preview
  <2>2. CASE f = Page!Absent
    <3>1. secret => Page!Base(manifest)[path] = Page!Absent
      BY DEF PageInv, Page!Accepted, Page!Base
    <3>. QED BY <2>1, <2>2, <3>1
  <2>3. CASE f # Page!Absent
    <3>1. f \in Page!FieldIds /\ manifest.path[f] = path /\ form[f] # Page!Absent
      BY <2>3, LastIsMapped
    <3>2. manifest.type[f] = "secret" <=> secret
      BY <3>1 DEF PageInv, Page!Accepted, Page!AcceptedField, Page!SecretsMatch
    <3>. QED BY <2>1, <2>3, <3>1, <3>2
  <2>. QED BY <2>2, <2>3
<1>. QED BY <1>1, <1>2 DEF Page!Masked, Page!Preview

\* While the page shows an accepted manifest and a form for it, a save stores what
\* is reviewed.
LEMMA SavesReviewed == []PageInv /\ [][Page!Next]_(Page!vars) => PreviewIsStored
<1>. DEFINE Safe == /\ Page!Saving /\ ~Page!DefaultCleared
                    /\ Page!SchemaAccepts(manifest, form)
                    => Page!Masked(stored'.desired) = Page!Preview(manifest, form)
<1>1. PageInv /\ [Page!Next]_(Page!vars) => [Safe]_(Page!vars)
  <2>. SUFFICES ASSUME PageInv, Page!Next, Page!Saving, ~Page!DefaultCleared,
                       Page!SchemaAccepts(manifest, form)
                PROVE  Page!Masked(stored'.desired) = Page!Preview(manifest, form)
    OBVIOUS
  <2>1. Page!SaveDraft /\ notice' = "saved"
    BY FieldsAssumption DEF Page!Next, Page!Saving, Page!Enter, Page!Continue,
                            Page!Back,
       Page!Resume, Page!Review
  <2>2. /\ stored' = Page!BuildDesiredConfiguration(manifest, form)
        /\ stored' # Page!NotStored
    BY <2>1 DEF Page!SaveDraft, Page!Resolved
  <2>3. stored'.desired = Page!Mapped(manifest, form)
    BY <2>2, BuiltAsPreviewed DEF Page!BuildDesiredConfiguration
  <2>. QED BY <2>3, BuiltAsPreviewed
<1>. QED BY <1>1, PTL DEF PreviewIsStored, Page!PreviewIsStored

\* Whatever manifest was imported, and however the form was filled, left and opened
\* again, the draft that is stored is the one that was reviewed, unless a field
\* with a default was cleared or the schema refuses the form as a whole
\* (buildDesiredConfiguration, desiredConfiguration).
THEOREM StoredAsPreviewed == Page!Spec => PreviewIsStored
BY PageInvariant, SavesReviewed, PTL DEF Page!Spec

-----------------------------------------------------------------------------
(* The types of the page.                                                  *)

Forms == [Page!FieldIds -> Page!Primitives \cup {Page!Absent}]

\* The manifest is one that was imported, which says what its defaults, its
\* options and its preset are.
PageTyped == manifest \in Imports /\ Page!TypeOK

\* Showing a control, filling a form, and putting defaults in it.
LEMMA FormTypes ==
  ASSUME NEW m \in Imports, NEW values \in Forms
  PROVE  /\ \A i : Page!Shown(m, i, values) \in Forms
         /\ Page!WithDefaults(m, values) \in Forms
         /\ Page!Resolved(m, values) \in Forms
<1>1. ASSUME NEW i PROVE Page!Shown(m, i, values) \in Forms
  <2>1. \A f \in Page!FieldIds :
          Page!Shown(m, i, values)[f] \in {values[f], "false", "empty"}
    BY DEF Forms, Page!Shown
  <2>2. Page!Shown(m, i, values) = [f \in Page!FieldIds |-> Page!Shown(m, i, values)[f]]
    BY DEF Forms, Page!Shown
  <2>. QED BY <2>1, <2>2 DEF Forms, Page!Primitives, Page!Strings, Page!Booleans
<1>2. Page!WithDefaults(m, values) \in Forms
  BY ImportsAssumption DEF Forms, Page!WithDefaults
<1>. QED BY <1>1, <1>2 DEF Forms, Page!Resolved

\* A form starts as the draft, or as the defaults.
LEMMA InitialTypes ==
  ASSUME NEW m \in Imports, NEW saved, saved = Page!NotStored \/ saved.values \in Forms
  PROVE  Page!InitialValues(m, saved) \in Forms
BY ImportsAssumption DEF Forms, Page!InitialValues

\* Controls give primitives.
LEMMA EntryTypes ==
  ASSUME NEW m \in Imports, NEW f \in Page!FieldIds, NEW value \in Page!Entries(m, f)
  PROVE  value \in Page!Primitives \cup {Page!Absent}
BY ImportsAssumption DEF Page!Entries, Page!Primitives, Page!Strings, Page!Numbers, Page!Booleans

\* The configuration has a primitive or nothing at every path.
LEMMA MappedTypes ==
  ASSUME NEW m \in Imports, NEW values \in Forms
  PROVE  Page!Mapped(m, values) \in Page!Configuration
<1>1. ASSUME NEW path \in Page!Paths
      PROVE  Page!Base(m)[path] \in Page!Primitives \cup {Page!Absent}
  <2>1. Page!Base(m)[path] \in {m.preset, "starter", "enough", "true", "false", Page!Absent}
    BY DEF Page!Base
  <2>2. m.preset \in Page!Primitives \cup {Page!Absent}
    BY ImportsAssumption
  <2>. QED BY <2>1, <2>2 DEF Page!Primitives, Page!Strings, Page!Profiles, Page!Numbers,
                             Page!Booleans
<1>2. ASSUME NEW path \in Page!Paths, Page!Last(m, values, path) # Page!Absent
      PROVE  values[Page!Last(m, values, path)] \in Page!Primitives \cup {Page!Absent}
  BY <1>2, LastIsMapped DEF Forms
<1>. QED BY <1>1, <1>2 DEF Page!Mapped, Page!Configuration

\* What is built of a form is a draft or nothing.
LEMMA BuiltTypes ==
  ASSUME NEW m \in Imports, NEW values \in Forms,
         Page!BuildDesiredConfiguration(m, values) # Page!NotStored
  PROVE  Page!BuildDesiredConfiguration(m, values)
           \in [saved : {TRUE}, values : Forms, desired : Page!Configuration]
<1>1. Page!BuildDesiredConfiguration(m, values)
        = [saved |-> TRUE, values |-> Page!WithDefaults(m, values),
           desired |-> Page!Mapped(m, Page!WithDefaults(m, values))]
  BY DEF Page!BuildDesiredConfiguration
<1>2. Page!WithDefaults(m, values) \in Forms
  BY FormTypes
<1>. QED BY <1>1, <1>2, MappedTypes

\* The page starts with a manifest that can be imported.
LEMMA PageInitTypes ==
  ASSUME Page!Init
  PROVE  PageTyped
<1>1. manifest \in Imports /\ Page!Accepted(manifest)
  BY DEF Page!Init
<1>2. form \in Forms
  BY <1>1, InitialTypes, FormTypes DEF Page!Init
<1>3. step \in 1 .. Page!Review
  BY FieldsAssumption DEF Page!Init, Page!Review
<1>. QED BY <1>1, <1>2, <1>3 DEF Page!Init, PageTyped, Page!TypeOK, Forms

\* Every step of the page keeps its types.
LEMMA PageStepTypes ==
  ASSUME PageTyped, [Page!Next]_(Page!vars)
  PROVE  PageTyped'
<1>1. /\ manifest \in Imports /\ Page!Accepted(manifest) /\ form \in Forms
      /\ stored = Page!NotStored \/ stored.values \in Forms
  BY DEF PageTyped, Page!TypeOK, Forms
<1>2. step \in 1 .. Page!Review /\ Len(Fields) \in Nat /\ Page!Review = Len(Fields) + 1
  BY FieldsAssumption DEF PageTyped, Page!TypeOK, Page!Review
<1>3. /\ step # Page!Review => Fields[step] \in Page!FieldIds
      /\ Page!Review' = Page!Review
  BY <1>2 DEF Page!FieldIds, Page!Review
<1>. SUFFICES /\ manifest' = manifest /\ form' \in Forms /\ step' \in 1 .. Page!Review
              /\ notice' \in {"none", "saved", "refused"}
              /\ stored' \in {Page!NotStored}
                   \cup [saved : {TRUE}, values : Forms, desired : Page!Configuration]
  BY <1>1, <1>3 DEF PageTyped, Page!TypeOK, Forms, Page!Accepted
<1>4. CASE UNCHANGED Page!vars
  BY <1>1, <1>2, <1>4 DEF Page!vars, PageTyped, Page!TypeOK, Forms
<1>5. CASE Page!Enter
  <2>1. form' \in Forms
    BY <1>1, <1>3, <1>5, EntryTypes DEF Page!Enter, Forms
  <2>. QED BY <1>5, <2>1 DEF Page!Enter, PageTyped, Page!TypeOK, Forms
<1>6. CASE Page!Continue
  <2>1. form' \in Forms /\ step' \in 1 .. Page!Review
    BY <1>1, <1>2, <1>6, FormTypes DEF Page!Continue
  <2>. QED BY <1>6, <2>1 DEF Page!Continue, PageTyped, Page!TypeOK, Forms
<1>7. CASE Page!Back
  <2>1. form' = Page!Shown(manifest, step - 1, form) /\ step' = step - 1 /\ step > 1
    BY <1>7 DEF Page!Back
  <2>2. form' \in Forms
    BY <1>1, <2>1, FormTypes
  <2>3. step' \in 1 .. Page!Review
    BY <1>2, <2>1
  <2>. QED BY <1>7, <2>2, <2>3 DEF Page!Back, PageTyped, Page!TypeOK, Forms
<1>8. CASE Page!SaveDraft
  <2>1. Page!Resolved(manifest, form) \in Forms
    BY <1>1, FormTypes
  <2>. DEFINE sent == Page!Resolved(manifest, form)
              built == Page!BuildDesiredConfiguration(manifest, sent)
  <2>2. built \in {Page!NotStored}
          \cup [saved : {TRUE}, values : Forms, desired : Page!Configuration]
    BY <1>1, <2>1, BuiltTypes
  <2>3. /\ UNCHANGED <<manifest, step>>
        /\ \/ notice' = "refused" /\ UNCHANGED <<form, stored>>
           \/ notice' = "saved" /\ form' = sent /\ stored' = built
    BY <1>8 DEF Page!SaveDraft
  <2>4. stored \in {Page!NotStored}
          \cup [saved : {TRUE}, values : Forms, desired : Page!Configuration]
    BY DEF PageTyped, Page!TypeOK, Forms
  <2>. HIDE DEF sent, built
  <2>. QED BY <1>1, <1>2, <2>1, <2>2, <2>3, <2>4 DEF sent
<1>9. CASE Page!Resume
  <2>1. form' \in Forms
    BY <1>1, <1>9, InitialTypes, FormTypes DEF Page!Resume
  <2>2. step' \in 1 .. Page!Review
    BY <1>2, <1>9 DEF Page!Resume
  <2>. QED BY <1>9, <2>1, <2>2 DEF Page!Resume, PageTyped, Page!TypeOK, Forms
<1>. QED BY <1>4, <1>5, <1>6, <1>7, <1>8, <1>9 DEF Page!Next

-----------------------------------------------------------------------------
(* All parts.                                                              *)

\* The parts stand side by side, so the invariants of all of them hold whichever
\* part is taken.
AllInv == TreeInv /\ OneInv /\ PageInv /\ PageTyped /\ SnapshotInv

\* A part may start with one project or environment that is deleted, or with one
\* published version and one abandoned draft.
LEMMA AllInit ==
  ASSUME MCInit
  PROVE  AllInv
<1>1. TreeInv
  <2>1. \A p \in Projects : /\ project[p].state \in {"absent", "deleted"}
                            /\ project[p] \in Tree!Project
    BY DEF MCInit, StartOf, Tree!Project, Tree!States
  <2>2. \A e \in TreeEnvironments : /\ treeEnvironment[e].state \in {"absent", "deleted"}
                                    /\ treeEnvironment[e] \in Tree!Environment
    BY DEF MCInit, StartOf, Tree!Environment, Tree!States
  <2>3. Tree!TypeOK
    BY <2>1, <2>2 DEF MCInit, Tree!TypeOK, Tree!Open
  <2>. QED BY <2>2, <2>3 DEF MCInit, TreeInv, InProject, Tree!NoOrphans, Tree!Idle,
                             Tree!ActiveEnvironment, Relies, Sees
<1>2. OneInv
  <2>1. templates \in [Manifests -> Catalog!Template]
    <3>1. ASSUME NEW m \in Manifests
          PROVE  \/ templates[m] = [state |-> "published", content |-> "first",
                                    publishedAt |-> TRUE]
                 \/ templates[m] = [state |-> "absent", content |-> None,
                                    publishedAt |-> FALSE]
      BY DEF MCInit
    <3>2. /\ [state |-> "published", content |-> "first", publishedAt |-> TRUE]
               \in Catalog!Template
          /\ [state |-> "absent", content |-> None, publishedAt |-> FALSE]
               \in Catalog!Template
      BY DraftsAssumption DEF Catalog!Template
    <3>. QED BY <3>1, <3>2 DEF MCInit
  <2>2. /\ drafts \in [Drafts -> Catalog!Draft]
        /\ \A d \in Drafts : drafts[d].status \in {"absent", "abandoned"}
    <3>1. ASSUME NEW d \in Drafts
          PROVE  \/ drafts[d] = Catalog!NoDraft
                 \/ drafts[d] = [Catalog!NoDraft EXCEPT !.status = "abandoned"]
      BY DEF MCInit
    <3>2. \A d \in Drafts : /\ drafts[d] \in Catalog!Draft
                            /\ drafts[d].status \in {"absent", "abandoned"}
      BY <3>1, DraftsAssumption DEF Catalog!Draft, Catalog!NoDraft
    <3>. QED BY <3>2 DEF MCInit
  <2>3. tabs \in [Tabs -> Catalog!Tab] /\ requests \in [Tabs -> Catalog!Request]
    <3>1. /\ [Catalog!EmptyTab(None) EXCEPT !.stage = "closed"] \in Catalog!Tab
          /\ Catalog!NoRequest \in Catalog!Request
      BY DraftsAssumption DEF Catalog!Tab, Catalog!Request, Catalog!EmptyTab,
                              Catalog!NoRequest
    <3>. QED BY <3>1 DEF MCInit
  <2>4. Catalog!TypeOK
    BY <2>1, <2>2, <2>3 DEF MCInit, Catalog!TypeOK
  <2>5. DraftInv
    BY <2>2, <2>4 DEF MCInit, DraftInv, DraftFits, TabFits, RequestFits, KnowsDraft,
       KnowsSaved, Belongs, StaysStored, Catalog!EmptyTab, Catalog!NoRequest
  <2>. QED BY <2>2, <2>5 DEF MCInit, OneInv, Informed, MadeBy, Catalog!EmptyTab,
                             Catalog!NoRequest
<1>. QED BY <1>1, <1>2, PageInit, PageInitTypes, InitSnapshots DEF MCInit, AllInv

\* A step of one part leaves the others alone.
LEMMA OnePartSteps ==
  ASSUME [MCNext]_mcVars
  PROVE  /\ [Tree!Next]_(Tree!vars) /\ [Catalog!Next]_(Catalog!vars)
         /\ [Page!Next]_(Page!vars) /\ [Next]_vars
BY DEF MCNext, mcVars, treeVars, draftVars, pageVars, Tree!vars, Catalog!vars, Page!vars
\* Every step of any part keeps the invariants of all.
LEMMA AllInvariant ==
  MCSpec => [](AllInv /\ part \in Parts)
<1>1. ASSUME AllInv, [MCNext]_mcVars PROVE AllInv'
  BY <1>1, OnePartSteps, TreeStep, OneStep, PageStep, PageStepTypes, SnapshotStep DEF AllInv
<1>2. part \in Parts /\ [MCNext]_mcVars => (part \in Parts)'
  BY DEF MCNext, mcVars
<1>3. MCInit => AllInv /\ part \in Parts
  BY AllInit DEF MCInit
<1>. QED BY <1>1, <1>2, <1>3, PTL DEF MCSpec

\* Whatever the manifests, the documents, the people and the workers are, and
\* whichever part is taken, every document, tab, request and transaction has the
\* shape that its handlers rely on.
THEOREM CatalogTypesOK == MCSpec => []TypesOK
<1>1. AllInv => TypesOK
  BY DEF AllInv, TreeInv, OneInv, DraftInv, PageTyped, SnapshotInv, TypeInv, TypesOK
<1>. QED BY <1>1, AllInvariant, PTL

\* What is proved of the tree, the drafts, the page and the placement each for
\* itself holds of the four side by side, from the states the parts start in: with
\* a project or an environment already deleted, or a draft abandoned.
THEOREM CatalogIsSafe ==
  MCSpec => /\ []BuiltFromTemplate /\ []OneDraftPerTab /\ []NoOrphans
            /\ PlacementIsCurrent /\ SaveSawWhatItChanges
            /\ UpdateSawWhatItChanges /\ PreviewIsStored
<1>1. AllInv => BuiltFromTemplate /\ OneDraftPerTab /\ NoOrphans
  BY DraftsBuilt, OneEach DEF AllInv, TreeInv, OneInv, NoOrphans
<1>2. MCSpec => /\ []TreeInv /\ []DraftInv /\ []PageInv /\ []SnapshotInv
                /\ [][Catalog!Next]_(Catalog!vars) /\ [][Page!Next]_(Page!vars)
                /\ [][Next]_vars
  <2>1. AllInv => TreeInv /\ DraftInv /\ PageInv /\ SnapshotInv
    BY DEF AllInv, OneInv
  <2>. QED BY <2>1, AllInvariant, OnePartSteps, PTL DEF MCSpec
<1>. QED BY <1>1, <1>2, AllInvariant, UpdatesSeen, SavesSeen, SavesReviewed,
            PlacementsSeen, PTL

=============================================================================
