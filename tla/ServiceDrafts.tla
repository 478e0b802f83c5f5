---------------------------- MODULE ServiceDrafts ----------------------------
(***************************************************************************)
(* Template versions, the drafts one person keeps for a template in one    *)
(* environment, and the browser tabs the drafts are edited in.             *)
(*                                                                         *)
(* A tab holds a cached list of drafts and a form.  A save goes to the     *)
(* server as a POST when the cache has no draft, else as a PATCH with the  *)
(* cached version; the server reads the template before its transaction.   *)
(* The reply may be lost, the list is read again after a success, and the  *)
(* query client may refresh the cache under a form that is being edited.   *)
(***************************************************************************)
EXTENDS Naturals, FiniteSets

CONSTANTS Manifests,    \* manifest versions of the template, numbers
          Contents,     \* manifests, up to their hash
          Drafts,       \* identities of service_drafts documents
          Tabs,         \* browser tabs of the person
          Values,       \* configurations that can be entered
          MaxVersion,   \* bound on the version of a draft
          None          \* no draft, no content, no values

VARIABLES templates,    \* the service_templates documents of the template
          drafts,       \* the service_drafts documents
          tabs,         \* cache and form of each tab
          requests,     \* the save of each tab that the server works on
          lost          \* tabs that did not get the reply to a save (history)

vars == <<templates, drafts, tabs, requests, lost>>

Template == [state : {"absent", "draft", "published", "deprecated"},
             content : Contents \cup {None}, publishedAt : BOOLEAN]
\* "creator" is history: the tab whose POST stored the draft.
Draft == [status : {"absent", "active", "abandoned"},
          manifest : Manifests \cup {None}, content : Contents \cup {None},
          values : Values \cup {None}, version : 0 .. MaxVersion,
          creator : Tabs \cup {None}]
\* "based" is the stored configuration of "version" that the form was filled
\* with, None when the form shows an older one.
Tab == [stage : {"closed", "fetching", "editing", "saving"},
        manifest : Manifests \cup {None}, existing : Drafts \cup {None},
        version : 0 .. MaxVersion, based : Values \cup {None}]
\* "content" is the manifest the server read.
Request == [stage : {"none", "sent", "loaded", "saved", "refused"},
            manifest : Manifests \cup {None}, existing : Drafts \cup {None},
            version : 0 .. MaxVersion, based : Values \cup {None},
            values : Values \cup {None}, content : Contents \cup {None}]

TypeOK ==
  /\ templates \in [Manifests -> Template]
  /\ drafts \in [Drafts -> Draft]
  /\ tabs \in [Tabs -> Tab]
  /\ requests \in [Tabs -> Request]
  /\ lost \subseteq Tabs

NoDraft == [status |-> "absent", manifest |-> None, content |-> None,
            values |-> None, version |-> 0, creator |-> None]
EmptyTab(m) == [stage |-> "fetching", manifest |-> m, existing |-> None,
                version |-> 0, based |-> None]
NoRequest == [stage |-> "none", manifest |-> None, existing |-> None, version |-> 0,
              based |-> None, values |-> None, content |-> None]

Init ==
  /\ templates = [m \in Manifests |->
       [state |-> "absent", content |-> None, publishedAt |-> FALSE]]
  /\ drafts = [d \in Drafts |-> NoDraft]
  /\ tabs = [t \in Tabs |-> [EmptyTab(None) EXCEPT !.stage = "closed"]]
  /\ requests = [t \in Tabs |-> NoRequest]
  /\ lost = {}

-----------------------------------------------------------------------------
(* Templates.  upsertServiceTemplateManifest reads and writes one document *)
(* in its transaction, so its runs are one after the other.                *)

Stored(m, c, state) ==
  templates' = [templates EXCEPT ![m] =
    [state |-> state, content |-> c,
     publishedAt |-> templates[m].publishedAt \/ state = "published"]]

\* A version that is not published could still be edited.
MutUpsertTemplate(m, c, state) ==
  /\ \/ templates[m].state # "published"
     \/ templates[m].content = c /\ state # "draft"
  /\ Stored(m, c, state)
  /\ UNCHANGED <<drafts, tabs, requests, lost>>

UpsertTemplate(m, c, state) ==
  /\ \/ templates[m].state = "absent"
     \/ /\ templates[m].content = c
        /\ ~(templates[m].state = "published" /\ state = "draft")
  /\ Stored(m, c, state)
  /\ UNCHANGED <<drafts, tabs, requests, lost>>

\* getPublishedTemplate answers with the latest published version.
Latest(m) ==
  /\ templates[m].state = "published"
  /\ \A n \in Manifests : templates[n].state = "published" => n <= m

\* loadDraftTemplate also accepts a deprecated version.
Loadable(m) == templates[m].state \in {"published", "deprecated"}

-----------------------------------------------------------------------------
(* The tab.                                                                *)

OpenWizard(t, m) ==
  /\ tabs[t].stage = "closed"
  /\ Latest(m)
  /\ tabs' = [tabs EXCEPT ![t] = EmptyTab(m)]
  /\ UNCHANGED <<templates, drafts, requests, lost>>

\* The list has the caller's active drafts; the tab picks one of its version.
Candidates(t) ==
  {d \in Drafts : drafts[d].status = "active" /\ drafts[d].manifest = tabs[t].manifest}
Pick(t) == IF Candidates(t) = {} THEN {None} ELSE Candidates(t)

\* The form is keyed by the draft, so it is filled anew when the list brings
\* another one, and left as it is when only the version has changed.
Show(t, d) ==
  tabs' = [tabs EXCEPT ![t] =
    [stage |-> "editing", manifest |-> tabs[t].manifest, existing |-> d,
     version |-> IF d = None THEN 0 ELSE drafts[d].version,
     based |-> IF d = None THEN None
               ELSE IF tabs[t].existing # d THEN drafts[d].values
               ELSE IF tabs[t].version = drafts[d].version THEN tabs[t].based
               ELSE None]]

\* The list after opening the page or after a save, whose mutation is pending
\* until it has arrived; and a refresh of a stale list by the query client, on
\* reconnecting for instance.
Fetch(t) ==
  /\ tabs[t].stage \in {"fetching", "editing"}
  /\ \E d \in Pick(t) : Show(t, d)
  /\ UNCHANGED <<templates, drafts, requests, lost>>

\* Without a list the form is taken away, until a retry brings one.
FetchFails(t) ==
  /\ tabs[t].stage = "fetching"
  /\ tabs' = [tabs EXCEPT ![t] = EmptyTab(tabs[t].manifest)]
  /\ UNCHANGED <<templates, drafts, requests, lost>>

Save(t, values) ==
  /\ tabs[t].stage = "editing"
  /\ requests[t] = NoRequest
  /\ tabs' = [tabs EXCEPT ![t].stage = "saving"]
  /\ requests' = [requests EXCEPT ![t] =
       [stage |-> "sent", manifest |-> tabs[t].manifest, existing |-> tabs[t].existing,
        version |-> tabs[t].version, based |-> tabs[t].based,
        values |-> values, content |-> None]]
  /\ UNCHANGED <<templates, drafts, lost>>

MutAfterSave == "editing"
\* The mutation stays pending while the list is read again.
AfterSave == "fetching"

\* The form is reset to what was saved, under the version it had.
Saved(t) ==
  LET r == requests[t] IN
  /\ r.stage = "saved"
  /\ tabs' = [tabs EXCEPT ![t].stage = AfterSave,
       ![t].version = IF r.existing = None THEN 0 ELSE r.version + 1,
       ![t].based = IF r.existing = None THEN None ELSE r.values]
  /\ requests' = [requests EXCEPT ![t] = NoRequest]
  /\ UNCHANGED <<templates, drafts, lost>>

SaveRefused(t) ==
  /\ requests[t].stage = "refused"
  /\ tabs' = [tabs EXCEPT ![t].stage = "editing"]
  /\ requests' = [requests EXCEPT ![t] = NoRequest]
  /\ UNCHANGED <<templates, drafts, lost>>

\* The connection fails, or the page is left: the form shows an error and may
\* be saved again, while the server may still work on the request.
SaveFails(t) ==
  /\ tabs[t].stage = "saving"
  /\ tabs' = [tabs EXCEPT ![t].stage = "editing"]
  /\ requests' = [requests EXCEPT ![t] =
       IF @.stage \in {"saved", "refused"} THEN NoRequest ELSE @]
  /\ lost' = lost \cup {t}
  /\ UNCHANGED <<templates, drafts>>

-----------------------------------------------------------------------------
(* The server.                                                             *)

\* The answer, to a tab that waits for it.
Answer(t, stage) ==
  requests' = [requests EXCEPT ![t] =
    IF tabs[t].stage # "saving" THEN NoRequest
    ELSE IF stage = "refused" THEN [NoRequest EXCEPT !.stage = "refused"]
    ELSE [@ EXCEPT !.stage = stage, !.content = None]]

\* The draft, if one is named, and then the template are read.
LoadTemplate(t) ==
  LET r == requests[t] IN
  /\ r.stage = "sent"
  /\ Loadable(r.manifest)
  /\ r.existing # None => drafts[r.existing].status = "active"
  /\ requests' = [requests EXCEPT ![t].stage = "loaded",
                                  ![t].content = templates[r.manifest].content]
  /\ UNCHANGED <<templates, drafts, tabs, lost>>

CreateDraft(t, d) ==
  LET r == requests[t] IN
  /\ r.stage = "loaded" /\ r.existing = None
  /\ drafts[d].status = "absent"
  /\ drafts' = [drafts EXCEPT ![d] =
       [status |-> "active", manifest |-> r.manifest, content |-> r.content,
        values |-> r.values, version |-> 0, creator |-> t]]
  /\ Answer(t, "saved")
  /\ UNCHANGED <<templates, tabs, lost>>

MutAccepts(d, version) == drafts[d].status = "active"
Accepts(d, version) == drafts[d].status = "active" /\ drafts[d].version = version

UpdateDraft(t) ==
  LET r == requests[t] IN
  /\ r.stage = "loaded" /\ r.existing # None
  /\ Accepts(r.existing, r.version)
  /\ drafts[r.existing].version < MaxVersion
  /\ drafts' = [drafts EXCEPT ![r.existing].values = r.values,
                              ![r.existing].content = r.content,
                              ![r.existing].version = @ + 1]
  /\ Answer(t, "saved")
  /\ UNCHANGED <<templates, tabs, lost>>

\* A refusal, or a failure before the commit.
Refuse(t) ==
  /\ requests[t].stage \in {"sent", "loaded"}
  /\ Answer(t, "refused")
  /\ UNCHANGED <<templates, drafts, tabs, lost>>

\* abandonServiceDraft: no page calls it, a client of the API does.  What an
\* abandoned draft holds is not read again.
AbandonDraft(d) ==
  /\ drafts[d].status = "active"
  /\ drafts' = [drafts EXCEPT ![d] = [NoDraft EXCEPT !.status = "abandoned"]]
  /\ UNCHANGED <<templates, tabs, requests, lost>>

Next ==
  \/ \E m \in Manifests, c \in Contents, state \in {"draft", "published", "deprecated"} :
       UpsertTemplate(m, c, state)
  \/ \E t \in Tabs :
       \/ \E m \in Manifests : OpenWizard(t, m)
       \/ Fetch(t) \/ FetchFails(t)
       \/ \E values \in Values : Save(t, values)
       \/ Saved(t) \/ SaveRefused(t) \/ SaveFails(t)
       \/ LoadTemplate(t) \/ UpdateDraft(t) \/ Refuse(t)
       \/ \E d \in Drafts : CreateDraft(t, d)
  \/ \E d \in Drafts : AbandonDraft(d)

Spec == Init /\ [][Next]_vars

-----------------------------------------------------------------------------
(* Properties.                                                             *)

\* A draft was built from the manifest that its version has now: the template
\* is read before the transaction, and in between it may be imported again,
\* deprecated or withdrawn.
BuiltFromTemplate ==
  \A d \in Drafts : drafts[d].status = "active" =>
     drafts[d].content = templates[drafts[d].manifest].content

\* A tab that gets the replies to its saves makes no second draft for the same
\* template version: the button stays disabled until the list has been read
\* again, and without a list there is no form.
OneDraftPerTab ==
  \A d, e \in Drafts :
     /\ d # e /\ drafts[d].status = "active" /\ drafts[e].status = "active"
     /\ drafts[d].manifest = drafts[e].manifest
     /\ drafts[d].creator = drafts[e].creator
     => drafts[d].creator \in lost

\* A save of a form filled from the version it names overwrites exactly the
\* values the form was filled with, however late it arrives.  (When the cache
\* was refreshed under the form, it names a later version than it was filled
\* from, and overwrites what another tab saved unseen.)
SaveSawWhatItChanges ==
  [][\A t \in Tabs :
       LET r == requests[t] IN
       /\ r.stage = "loaded" /\ r.existing # None /\ r.based # None
       /\ requests'[t].stage # "loaded" /\ drafts' # drafts
       => drafts[r.existing].values = r.based]_vars

\* "A published template version cannot return to draft."
NeverBackToDraft ==
  \A m \in Manifests : templates[m].publishedAt => templates[m].state # "draft"

=============================================================================
