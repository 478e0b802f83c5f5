# Verification of the dastack control plane

TLA+ models of the control plane under `src/`, their TLC runs, and theorems
about them checked by TLAPS. Paths below are relative to the repository.

## 1. The system

The program is a Next.js application (`src/app`, `src/features`, `src/server`)
over MongoDB, a separate job runner (`src/server/jobs`, BullMQ over Redis), and
an agent that runs on every worker node (`worker/agent`). Handlers keep no state
of their own: everything lives in MongoDB documents, changed by transactions of
concurrent requests, jobs and agents. What is hard is therefore the same
everywhere: what a transaction read and did not write, what a handler read
before its transaction, what happens when a reply is lost and the call is
repeated, and counters that summarise documents elsewhere.

| Component | State | Operations | Correct when |
|---|---|---|---|
| Reservations (`features/resources`) | entitlement and worker counters, reservations, idempotency records, outbox | reserve, confirm, release | counters are the sums over the reservations; no limit is exceeded by a grant; one reservation per key; nothing is held in a deleted environment |
| Reconciliation (`features/resources/reconciliation.ts`, `server/jobs/processors.ts`) | none but its batch | list stale, release each | only stale reservations are released; every stale one is in the end |
| Placement (`worker-selection.ts`) | reads workers | candidates, ranking | a reservation lands on a schedulable worker of the environment's region |
| Environments, projects | documents with versions and revision counters | create, update, delete | nothing active hangs on something deleted; one default per type; no lost update |
| Organizations | memberships, invitations, tokens, roles | create, invite, accept, revoke, change role, remove, leave, transfer | an owner remains; an invitation is settled once; no blind overwrite |
| Accounts and sessions (`features/auth`, `auth.ts`) | users with `tokenVersion`, sessions, tokens | register, verify, login, reset, revoke | no session outlives a password reset; a token is used once |
| Workers (`server/workers`) | nodes, credentials, nonces, rotation challenges, command results | enroll, authenticate, heartbeat, rotate, result | one enrollment per token; an agent is never locked out; a result is recorded once |
| Worker agent (`worker/agent`) | state file, keys | enroll, heartbeat loop, recover | survives a crash at every step; what its file names it can sign for |
| Job runner (`server/jobs/runner.ts`, `registry.ts`) | connections, readiness | start, close, schedule | ready only when every part is; a job keeps its database; ends when asked |
| Templates, drafts (`features/service-templates`) | manifests by version, drafts with versions | upsert, create, update, abandon | a version's manifest does not change; no lost update |
| Wizard (`components/services/catalog`, `wizard.ts`) | the form, the step, the cached list of drafts | enter, continue, save, resume | what is reviewed is what is stored; one draft per page |
| Rate limits (`server/security/rate-limit.ts`) | points per key in Redis, blocks in memory | consume, clear | guesses of a window are bounded however they overlap |
| Other pages, routes, mail, deployment | | | not modelled (see section 8) |

Interactions: request handlers, the reconciler and the heartbeat handler write
the same worker documents; reserve, confirm, release and the reconciler write
the same entitlement; reserve and deleteEnvironment meet on the environment's
`reservationRevision`, createEnvironment and deleteProject on the project's
`environmentRevision`; organization handlers meet on memberships and
invitations. The outbox is written by everyone and read by nobody yet.

## 2. Modules

| Module | Models |
|---|---|
| `Reservations` | reservations, reconciliation and the part of workers and environments they depend on, one step per transaction boundary |
| `ReservationLedger` | what the reservation service promises: an account of claims with no counters. `Reservations` implements it |
| `Totals` | sums over a finite set, without recursion |
| `CounterArithmetic` | one reserved/allocated counter pair in binary floating point |
| `OrgMembership` | members, invitations and ownership of one organization |
| `SignedRequests` | the time check and nonce of a signed worker request: copies, delays, clocks that disagree, expiring nonces |
| `WorkerCredentials` | authentication and rotation of one worker's credential, with lost replies and repetitions |
| `WorkerResults` | reports of command results, first and repeated, against expiring commands and results |
| `TenantTree` | projects and environments: slugs, defaults, versions, and what may be deleted when |
| `Accounts` | one account: registration, verification, reset, sign-in, sessions, and the links mailed for it |
| `LoginThrottle` | the limiter of password guesses under overlapping sign-ins |
| `ServiceDrafts` | template versions, drafts, and the browser tabs that edit them over HTTP |
| `Wizard` | one page of the wizard: fields, validation, preview and saving, next to the server's own validation and mapping |
| `WorkerEnrollment` | agents, their state files and the enrollment with a one-use token |
| `JobRunner` | start, readiness, jobs, signals and shutdown of the job runner |
| `MCReservations`, `MCControlPlane`, `MCAccounts`, `MCCatalog`, `MCProcesses` | instances for TLC |
| `TotalsProofs`, `ReservationsProofs`, `ReservationSnapshotProofs` | theorems about reservations and their sums |
| `WorkerCredentialsProofs`, `ControlPlaneProofs`, `AccountsProofs`, `CatalogProofs`, `ProcessesProofs` | theorems about the other components, named as the MC modules they speak of |

The four MC modules after the first put components side by side that share no
state. A variable `part`, chosen at the start and never changed, says which one
a behaviour is about; the others keep their first state. One run then asks the
questions of several small components. It is not a composition: what one
component reads of another's documents is, in the component's own module, a
refusal that may or may not happen.

### Transactions

`runTransaction` runs a callback with snapshot read concern. In the models a
handler is a *Begin* step, the callback evaluated on the current state, and a
*Commit* step. Between them, `outdated[s]` records whether anyone wrote a
document that the transaction of `s` writes: then its commit is impossible
(first committer wins) and only an abort is left. A document that is read and
not written never causes a conflict, which is what makes write skew possible and
what the guards on `reservationRevision` are for. Commit installs its writes
into the current state; since nobody else wrote those documents since the
snapshot, that is the state the callback saw of them. A callback that throws
changes nothing and is a Begin that does not happen. The three attempts of
`runTransaction`, the driver's own retries, and a client's repeated call are all
a further Begin.

### Reservations

State: `entitlement`, `worker`, `environment`, `reservation` are the documents
(the fields the handlers decide on), `outbox` the reservation events, `session`
and `outdated` the open transactions, `batch` what a reconciler run has still to
do, `now` the wall clock, `granted` a history of replies.

| Action | Code |
|---|---|
| `ReplayReserve`, `BeginReserve`, `CommitReserve`, `DuplicateReserve` | `reserveResource`: the stored reply, the callback, its writes, the duplicate-key path |
| `BeginConfirm`, `CommitConfirm` | `confirmResourceReservation` |
| `BeginRelease`, `CommitRelease` | `releaseResourceReservation`, `releaseReservationInternal` |
| `ListStale`, `BeginStaleRelease`, `SkipStale`, `RestartRunner` | `releaseStaleReservations` under `processStaleReservations` |
| `Abort` | every other end of a transaction |
| `CreateEnvironment`, `UpdateEnvironment`, `BeginDeleteEnvironment`, `CommitDeleteEnvironment` | `features/environments/service.ts` |
| `Heartbeat`, `MarkDisconnected` | `persistHeartbeat`, `processDisconnectedWorkers` |
| `ChangeEntitlement` | an operator's edit: the program has no entitlement API |

Quantities are abstracted to a set `Dims` of which workers account for
`WorkerDims`; the runs use one quantity of each kind (`cpu` on both, `transfer`
on the organization only) besides `services` and `environments`. The count of
projects is checked exactly like that of environments and is left out. Creating
and updating an environment are single steps: they write one document, and what
they read besides (a schedulable worker in the region) constrains nothing later.

`ReservationLedger` has no counters: what an organization or worker uses is by
definition the sum of its claims, and `Grant` requires that the claim fits.
`LedgerRefinement` says that the counters, limits checks, snapshots and conflicts
of `Reservations` implement that.

### OrgMembership

A handler is three steps: *Check* (permissions and other reads before the
transaction), *Begin*, *Commit*; acceptance and leave read nothing before their
transaction and start with Begin. `read` in an open session is what the callback
read and acts on: the pending invitations an invite supersedes, or the owners
that were counted. `version` is `__v` of a membership: `save()` and the role
change raise it, the upsert of `acceptInvitation` does not. `token` is the state
of the link mailed for an invitation. A caller's `seen` membership is what its
member list showed when it composed the role change.

### CounterArithmetic

Quantities are multiples of the last bit of the smallest one. `Ulp(n)` is the
least of the units `Ulps` in which `n` is less than `Significand`, and `Round` goes
to the nearest multiple of it, ties to even: what binary64 does with powers of two
for units and a significand of 2^53.
Handlers are single steps, since `Reservations` covers their interleaving with
counters that do not round; `ExactWithinPrecision` states when that is the case.

### Workers

The three modules cut `authenticateSignedJson` and the handlers behind it at
their awaits.

`SignedRequests`: `stamp` is what each request was signed with, by a clock that
may run ahead or behind; `handler` is a copy between the time check of
`verifyWorkerRequest` and the insert of its nonce, `nonce` the expiry of the
record, `accepted` a history. The TTL index removes a record at any time after
its expiry. A request that fails the check changes nothing and has no action.

`WorkerCredentials` takes from it that a request is served once, and has
`credential` (numbered in the order of creation), `challenge`, `handler` (a
request on its way and its reply) and `client`. A handler looks its credential
up (`Verify`), later revokes the other rotating ones (`RevokeRotating`), reads
its challenge (`ReadChallenge`) and runs its transaction (`CommitRotation`). The
transaction writes every document it decides on, so two of them conflict and it
is one step. `ReadChallenge` and `CommitRotation` have no branch for a completed
challenge with another request hash: the client signs one rotation per
challenge. The agent in `worker/agent` does not rotate; the client is what the
endpoints are made for, and is marked external.

`WorkerResults` has the search before the transaction (`FindResult`) and the
transaction (`PersistResult`); `Issue` is external, as nothing produces commands
yet. `closedBy` is a history of the report that closed each command.

### Projects and environments

In `TenantTree` an author first sees a document (`SeeProject`,
`SeeEnvironment`), then sends an update that names its version (`Begin...`), and
the transaction commits (`Commit...`) or aborts. `seen` is kept with the request
as history, so that `UpdateSawWhatItChanges` can compare it with what is
overwritten. A commit ends the other transactions that write the same document;
an update is then run again by the driver with the same input, which is why such
a handler goes back to the state after seeing the document. Unique indexes are
guards of the commits. What other components decide, if a region has workers and
if an environment holds reservations, is left to the Abort.

### Accounts

Handlers are cut at their awaits. A transaction keeps the documents that it found
to write; whoever writes one of them first ends it. `requestPasswordReset` has no
transaction and is two steps, of which the process may die in between. A sign-in
reads `tokenVersion` (`LoginRead`) and stores its session later (`LoginCreate`);
a request with a session looks at the session record and then at the user
(`CheckSession`, `CheckUser`). `resets` counts the password resets; a session's
`sawResets` and a check's `resets` are histories of the count at the moment the
password, link or session was looked at.

`LoginThrottle` has one identity. Its limiter is external and modelled from the
options `getLimiter` gives it: counting is atomic, also when it refuses; above
the limit the key is blocked in Redis and in the process that saw it. `passes`
in `Arrive` is the limit of the source address, consumed at the same time.

### Templates, drafts and the wizard

`ServiceDrafts` is about documents and versions, `Wizard` about values. In the
first, a tab keeps the template version that it was opened with, the draft and
the version its cached list shows, and at most one save in flight. The list is
read again after each save and by the query client when it reconnects, and the
form is filled again only when the list brings another draft. `based` is a
history of the values that the form was filled with. The server reads the
template before the transaction (`LoadTemplate`) and writes in it. A reply can
be lost, and the page be left while the server still works.

In `Wizard` a value is one of ten JSON primitives chosen so that every check on
either side tells some of them apart. A manifest is any that
`serviceTemplateManifestSchema` accepts (`Accepted`) of a family with one field
of each kind and path, a second field that may be mapped to the same path, and a
JSON Schema that may refuse two answers together. `BuildDesiredConfiguration` is
the server's computation, `Preview` the page's; they share no code, and
`PreviewIsStored` compares them.

### Agents and the job runner

`WorkerEnrollment`: a process writes a key pair to the state file, asks, and
writes the file again with the worker it got. `record` is the request that
consumed the token; `enrollWorker` answers a repetition only when the hash of the
whole body matches (`Replays`), and the body has what the host reports of itself
(`facts`). Processes overlap, stop anywhere and are started again; requests
outlive them. A worker is named by the key it was enrolled with.

`JobRunner` has the phases of `startJobRunner` and `closeRunnerResources`, the
events of queue workers at any moment, and a signal at any moment. A handle that
fails to close, or is not closed within its two seconds, stays "held". While a
start is undone, the exit code does not tell of rejections of schedulers that are
still being installed. BullMQ is modelled from its use: closing a worker waits
for its job.

## 3. Runs

| Run | Question | Bounds |
|---|---|---|
| `reservations_race` | counters, keys, environments and outbox under contention | 2 clients, 1 reconciler, 2 reservations, 2 keys, 2 bodies, 1 worker, 1 environment; clock 0..1 |
| `reservations_reconcile` | only stale ones are released, and all of them in the end; the ledger is implemented while capacity shrinks and limits change | 1 client, 1 reconciler, batch of 1, 2 reservations, 2 capacities, entitlement may be suspended; fairness below |
| `control_plane` | *members*: invitations settle once, transfers hand over, owner counts that hold leave an owner, what a role change overwrites. *results*: a command closes once, and nothing else is told that it was accepted | 2 users, 2 invitations, 2 handlers, 2 roles, up to 2 changes before a last one; 1 command, 2 workers, 2 bodies, 2 handlers, clock 0..3 |
| `credentials_rotation` | active credential, revocation on use, identical retries, completion for a worker whose requests do not overlap | 2 requests at once, 2 challenges |
| `accounts` | *account*: sessions older than a reset end, a verified password changes by a link only. *throttle*: guesses are counted. *signed*: each request accepted once and near its stamp. *counters*: exact sums while the limit fits the significand | 2 overlapping requests, tokens and passwords, 1 sign-in, 1 check; 2 processes, 8 points, 4 guesses at once in each; skew 2, nonce lifetime 4, pause 1, clock 0..9; 3 reservations, significands below 8, units up to 32 |
| `catalog` | *tree*: no orphans, no lost update. *drafts*: built from their template, one per tab, no unseen overwrite. *page*: what is previewed is stored. *placement*: on a schedulable worker of the region | 2 projects and 2 environments, 2 handlers; 2 tabs and 2 drafts of 1 version with 2 contents; 2 fields, every manifest of a family; 2 workers in 2 regions, 3 health states |
| `processes` | *runner*: jobs keep their database, readiness is healthy, a signal ends it. *enrollment*: an enrolled file holds the recorded key, a lost reply is recovered | 2 queues; 2 processes on 1 machine or on 2, keys and host reports from small sets |
| `counters_stuck` | **violation**: a stale reservation that is never released | 3 reservations of 3 or 6, significands below 8 |
| `org_last_owner` | **violation**: two owners go at once | 2 users, 2 handlers |
| `credentials_lockout` | **violation**: recovery is lost when two requests overlap | 2 requests, 2 challenges |
| `template_back_to_draft` | **violation**: published, deprecated, draft | 1 version |
| `draft_reviewed` | **violation**: the draft is not what the review shows | 2 fields |

Why these bounds: every conflict in the code is between two transactions, and a
third party that outdates both is the reconciler or an outside write, which the
runs have. Two reservations are enough for a second grant to meet the counters
left by a first one; the limits and capacities are chosen so that one body fits,
two of the larger kind do not, and a shrunk capacity is below what is held.
`MaxTime` is one tick beyond the expiry of a first reservation. In
`accounts` the nonce lives for exactly twice the skew, the least `env.ts`
allows, and the clock goes beyond the removal of the latest nonce; two rotations
make three credentials, enough for a predecessor's predecessor; in
`control_plane` both the command and its result can expire and be removed
before another report arrives. Ids, versions and the clock are bounds on the
model only. Deadlock is not checked because all of these bounds let a behaviour
end.

In `catalog` the tree and the drafts are each checked twice, at sizes of which
each keeps one dimension small: with one project used up and any versions, or
with two of each and one change per document; with one tab and a template that is
edited, or with two tabs and one draft of a template that is published. What
conflicts in them is always a pair: a create with a delete, two updates, two tabs
over one draft, or one tab with a late reply.

The manifests of the page and the processes and machines of the enrollment are
constants too: the cfg gives the fields `Steps`, every manifest of
`WizardManifests`, and two processes that share a machine by `TwoShareOne`; the
theorems hold for any others.

Symmetry is used on interchangeable reservations, clients, keys, users, tokens,
invitations, workers, results' bodies, tabs' values, slugs and handlers, never in
a run with a liveness property.

## 4. Fairness

`FairSpec` of `Reservations` assumes that the clock advances, that the scheduler
keeps starting reconciler runs (`upsertJobScheduler` repeats the job for ever),
that a transaction that lost a conflict ends, and *strong* fairness of the
reconciler's Begin and Commit: a release that is tried in run after run is not
beaten by a conflicting writer every single time. Nothing is assumed of clients,
workers and operators. `CounterArithmetic` assumes weak fairness of the stale
release of each reservation, because every run tries every one that its batch
has room for.

`FairSpec` of `WorkerCredentials` assumes that the server gets to every request
and works on it until it replies, that the client repeats a rotation until it is
answered, and strong fairness of `Deliver`: not every reply is lost.
`RotationCompletes` promises something only to a worker whose requests did not
overlap (`overlapped`, a history variable), since overlap can end recovery.

`MCFairness` of `MCProcesses` is the fairness of its two modules, each in its
part, and of the processes that take part (`TakesPart`): the third process is never
started, and nothing is assumed of it either. In `JobRunner`: an awaited close
settles (it is given up within two seconds), and a job ends. Nothing is assumed of
the start, which may wait for ever for Redis until a signal ends it, and of signals. In `WorkerEnrollment`:
somebody runs the agent again and again, a request ends (its reply comes, or
`fetch` gives up after 15 seconds), and, strongly, the agent is not stopped
before its request, its reply or its write every single time.
`LostReplyRecovered` holds while neither the host's report nor the credential
changes and no other process is about to overwrite the file.

## 5. Findings

* **Last owner** (`org_last_owner`). `docs/threat-model.md:53` says a final owner
  cannot be demoted, removed, or leave. Each handler counts the owners on its
  snapshot and writes only one membership, so two of them for two owners commit
  together and no owner is left.
* **Stuck release** (`counters_stuck`). `docs/api.md:152` says the job runner
  releases stale unconfirmed reservations. Fractional quantities make a counter
  round down to less than what a reservation holds, and the guard against
  negative counters then refuses its release for ever. The trace, with significands
  of three bits, does what 0.2 + 0.5 - 0.2 < 0.5 does in doubles.
* **Lost recovery** (`credentials_lockout`). `docs/worker-security.md:22` says
  that the old key can recover a lost response until the new key is used. A
  request verified two rotations earlier revokes, when it resumes, the key that
  the latest rotation keeps for this, and its client is locked out. It needs two
  overlapping requests of one worker; `RotationCompletes` says that served in
  sequence the promise holds. `FirstUseRevokes` holds in both cases.
* **Back to draft** (`template_back_to_draft`).
  `features/service-templates/service.ts:130` says that a published template
  version cannot return to draft. The guard looks at the current state only, so
  published, deprecated, draft is accepted.
* **Reviewed and stored** (`draft_reviewed`). The wizard ends with "Review desired
  configuration" and saves a draft of it. When the manifest's schema refuses the
  answers as a whole, no field carries the error, the form counts as valid, and
  its resolver hands on empty values; the server fills in the defaults and stores
  those, and the page says that the draft was saved. A default that was cleared is
  filled in again likewise. `PreviewIsStored` says that these are the only two
  ways.

Not a finding, but worth knowing: accepting an invitation changes the role of an
existing member without raising the version. `inviteMember` looks for a
membership outside its transaction, so a second invitation can be made for
somebody who is just accepting the first. `OverwritesSeenOrAccepted` says that
this is the only way in which a role change overwrites what its caller had not
seen; it is also why `LastOwnerKept` does not speak of acceptances, which count
no owners.

## 6. Proofs

`TypeCorrect` (`Spec => []TypeOK`) and `CountersAreSums`
(`Spec => []CountersMatchReservations`) hold for every value of the constants
that satisfies the named assumptions of `Reservations`: finitely many
environments and reservations, bodies that name existing environments, disjoint
names of quantities, natural numbers for limits and times. The number of
organizations, workers, clients, reconcilers and quantities is arbitrary.

Neither invariant is inductive alone. A commit acts on what its transaction read
before, so the strengthening says what an open transaction may rely on:

* `SettlesExisting`: a confirm or release is about a reservation that exists;
* `SnapshotHolds`: as long as nobody outdated it, the reservation a confirm read
  as reserved still is, and the one a release read as active still is.

`TypeInv` is `TypeOK` with these two; `CounterInv` is `TypeInv` with the sums.
The proof of a step has one lemma per handler. For the counters, `TotalChange`
relates a step that changes one reservation to the difference it makes in a sum,
and `HeldBefore`, `HeldAfter` say what that reservation held; each handler's lemma
then compares this with its `$inc`. Sums are cardinalities of sets of units
(`Totals`), so the library's facts about finite sets replace an induction.

**What a snapshot is good for.** `ReservationSnapshotProofs` states once, for all
handlers, how conflicts work: `Written(docs)` says that a step changes only the
documents in `docs`, `Outdates(docs)` that nobody who would write one of them can
still commit. The invariant `SnapshotInv` then gives every open transaction what
it may rely on as long as it is not outdated (`SnapshotKnown`):

* a grant: its environment is active and in the worker's region, the worker is
  online and schedulable (`Placed`), and the quantities fit the entitlement and
  the capacity (`Fits`);
* the deletion of an environment: nothing is held in it (`Empty`);
* the stale release: its reservation has expired (`Expired`), which needs
  `BatchExpired`, that all on a reconciler's list have.

From this follow `NothingHeldInDeleted`, `OnlyStaleIsReclaimed` and
`PlacedWhereSeen`. The last is stated of `Reservations` for all its constants;
the run `catalog` checks the same, `PlacementIsCurrent`, where workers change, and
`CatalogIsSafe` states it of that run's specification.
`IdempotentReserve` is inductive with the types, and `OutboxIsFaithful` that what is not
there has not been confirmed (`Unannounced`).

`LedgerIsImplemented` is the refinement `Spec => Ledger!Spec`. Its invariant is
`SnapshotInv` with the sums: a grant compares a *counter* with a limit, the ledger
sums *claims*, and `CountersAreSums` is what makes these the same. A commit of a
grant, confirmation or release is the ledger's step of that name; outside writes
are its changes of limits and capacities; everything else stutters.

**Signed requests.** `AcceptedAtMostOnce` and `AcceptedInItsWindow` assume what
`env.ts` enforces (the nonce lives at least twice the skew) and
`PauseAssumption`: a handler does not pause between its time check and its
insert for as long as the difference of the two. Nothing in the code enforces
the latter; with the defaults it is four minutes. The invariant says that a
handler's check was at most a pause ago, that a record lasts until its request's
stamp plus the lifetime, and that a removed record means that time is past.

**Credentials.** `OneActiveCredential` and `UseRevokesPredecessors` hold for any
number of overlapping requests and challenges. The invariant is the two
properties with the types, that a credential not yet issued is blank, and that
whatever a request, a stored result, a reply or the client names was issued. The
credentials then form a chain whose newest is active; a request that
authenticates revokes every rotating one but its own, and all before its own are
rotating or revoked already. `RetriesAreAnswered` adds that a copy of a rotation
whose first copy has committed finds that copy's result (`ProvedIsAnswered`).

**Members.** `OrgInv` has the types with `SnapshotsHold` (the invitation is still
pending, the members are still active and of the version seen, unless the
transaction is outdated), `RequestsFit` (an acceptance is by the user who was
invited, a transfer is to somebody else) and `NothingBefore` (an organization that
does not exist has neither members nor requests). With it `SettledOnce` and
`TransferTakesEffect` are arguments about one commit. `LastOwnerIsKept` also needs
`CountsOthers`: whoever takes an owner away counted another one. Nothing keeps
that one, which is the finding; the theorem speaks of a count that still holds.
`ChangesOverwriteSeen` needs `ChangesHaveSeen`: while a membership has the version
its caller saw, it has what the caller saw, or its role is an accepted
invitation's.

**Results.** `ClosedOnce` and `AcceptedReportIsRecorded` rest on `ResultIsClosing`
(a kept result is the closing report's) and `ClosedStaysClosed` (a command that
was closed is never open again, though its result may be gone).

**Projects and environments.** `NothingOrphaned` and `NoUpdateLost` hold for any
number of projects, environments, slugs, types and requests. `NoOrphans` alone is
not inductive: a commit looks at nothing but its own writes. The invariant
`TreeInv` adds

* `InProject`: an active environment is in some project;
* `Relies`: what an open transaction relies on is still so, because whoever
  changed it would have aborted it: the project it creates an environment in, or
  updates, is active, the one it deletes is active and empty, the environment it
  updates or deletes is active and in an active project, and the document that an
  update writes is the one its author saw;
* `Sees` with `StillSeen`: a document a client holds has the version it had or a
  newer one, and with the same version it is the same document. This is what
  makes the comparison of versions a comparison of documents.

`Relies` is where the conflict of a creation with the deletion of its project
enters: only a creation that writes the project keeps the project it relies on.

**Accounts.** `AccountInv` says what a user, an open transaction, a sign-in, a
session and a check have to do with each other: the version in the user counts the
resets and only an existing user is verified (`UserFits`); a registration that can
still commit is for an address not yet verified, and a reset's token is unspent
(`OpenFits`, where a transaction that is outdated has been aborted); a session, and
a sign-in under way, carry the version of the user they read (`SessionsFit`,
`LoginsFit`); a check that let a session through knows no reset that the session
does not (`CheckFits`). `SessionsEndAtReset` is then a comparison of versions,
`PasswordByToken` a case analysis of commits. `GuessesBounded` is inductive with the
types: a process adds to the counter before it lets a guess through.

**Drafts.** `DraftInv` says what a tab and a save know. A save may arrive after its
tab was closed or opened again, so `KnowsDraft` is said of tabs and saves alike: the
draft they name was made for the same template version and is at the version they
name, with the values they started from, or at a later one. `KnowsSaved` says the
same of a save that is done, `Belongs` that a save a tab waits for is the tab's
own, and `StaysStored` that a manifest someone has read is there to stay.
`TabsMakeOneDraft` needs `OneInv`: a tab that lost no reply (`Informed`) has made at
most one draft, and none while it shows a form without one, except that the reply
to its save is still to come.

**The page.** `StoredAsPreviewed` takes the wizard with any accepted manifest. Page
and server go through the fields in the same order, and a later field overwrites an
earlier one at the same path. That a set of positions has a last one (`LastExists`)
follows from the well-founded order of the naturals, without an induction over the
manifest. `BuiltAsPreviewed` then compares the two configurations path by path.
`PageTyped` are the page's types: a form has a primitive or nothing at every field,
whatever is shown, resolved, filled in or resumed, and a stored configuration has a
primitive or nothing at every path.

**The catalog as a whole.** `CatalogIsSafe` and `CatalogTypesOK` are about `MCSpec`,
the specification of the run `catalog`, with all of its properties. Its parts start
in states in which the component has come a little way already (a project or an
environment is deleted, a version published, a draft abandoned), so their
invariants are shown for these states as well (`AllInit`). `AllInv` is their
conjunction, for the placement `SnapshotInv`; a step of one part leaves the
variables of the others alone (`OnePartSteps`). For this `MCCatalog` extends
`Reservations`, whose lemmas then apply, and instantiates the other three.

**Counters in binary.** `CountersAreExact` says that no sum is ever rounded while the
limit fits the significand (`Limit < Significand`, in units of the smallest
quantity's last bit): the counters are the sums of what is held, within the limit,
and no release or confirmation of what is held is refused. Without that hypothesis
it is false, which is what `counters_stuck` shows. `CountersInv` has the two sums and
the limit. A decrement, or what a confirmation moves, stays below the limit, where
`Round` is the identity (`RoundExact`). A reserve needs more, since it *asks* with
rounding whether the limit would be kept and its sum may be far beyond the
significand: rounding a number of at least `Significand` gives one of at least
`Significand` (`RoundLarge`), hence above the limit, so that such a request is
refused and one that is accepted was compared without rounding (`FitsExactly`). The
prover need not know that units are powers of two. `CountersAssumption` has what the
argument takes of them: 1 is the least, each other one is twice a unit, there is one
for the largest sum, and the significand is even.

**Types of members and results.** `ControlPlaneTypesOK` adds to the types in `OrgInv`
and `ResultsInv` how far versions go. `Room`, the guard of the model's changes,
bounds the *sum* of the versions of memberships, and `OrgBounds` has the bound for
each. `RoomForOne` passes from one to the other, with the facts of `TotalsProofs`
about a sum without one of its terms.

**Runner and enrollment.** `RunnerInv` adds `ReadyWhenStarted` to the types and
`JobsHaveDatabase`: readiness belongs to the phases after a complete start.
`EnrollInv` adds `RepliesFit`: a process that is about to write its file has the
key of the record. Both hold for any queues, machines, processes and keys.

**Assumptions.** Beyond those named: `MembersAssumption` (finitely many users; a
number bounds the changes; *owner* and *admin* are roles), `QueuesAssumption` (a queue has a name of its
own), `EnrollmentAssumption` (every process runs on a machine; "no key" is not a
key), `AccountsAssumption` and `DraftsAssumption` (the model's bounds are
numbers; "no draft" is not a draft; what a part starts with is some content),
`FieldsAssumption` (a manifest's fields are a finite sequence of names, as its
schema's array is), `ImportsAssumption` (defaults, options and preset are JSON
primitives, as the manifest's schema says). None restricts the program.

**Only model-checked.**

* `StaleEventuallyReleased`, `RotationCompletes`, `EndsWhenAsked` and
  `LostReplyRecovered`: liveness, with ENABLED and fairness, is outside the
  prover.
* The properties of the five runs that find a violation are refuted, not proved.

Every invariant and every action property of a passing run is a theorem: of `MCSpec`
for `catalog` and for all properties of `accounts` and `processes` but those of
`SignedRequests` and `JobRunner`, of the component's own specification otherwise.

## 7. Plan

The runs are kept to a dozen and their properties to forty, so that all of them
and their mutants can be repeated often. The run with two tenants was given up
for this: the sums and the ledger are theorems for any number of tenants. Type
invariants of modules with proofs are conjuncts of the proved invariants.

Done: all modules of section 2, and a theorem for every safety property of a run.
Open, in this order:

1. A batch with releases that fail for ever, which needs counters that round next to
   a batch; and the ranking of workers.
2. What `CounterArithmetic` keeps when the limit does not fit the significand: the
   error of a counter is bounded by the changes it has seen times half a unit.
3. Liveness beyond the model checker's instances.

## 8. Not modelled

HTTP parsing and formatting, the pages besides the wizard, mail, audit records
and deployment scripts keep no state that another part decides on. The other rate
limits use the modelled function with one point per call. The agent's heartbeat
loop is modelled by the reports it makes and by its end, without its back-off.
Cryptography (signatures, hashes, password hashing) is taken as working.
Read-only operations (lists, gets) are left out, except where a page or a caller
acts on what they returned. MongoDB's snapshot isolation, unique indexes and TTL
indexes are modelled as the code uses them; a commit whose outcome is unknown to
the client is a commit or an abort followed by a repeated call.
