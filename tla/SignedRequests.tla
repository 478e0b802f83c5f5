--------------------------- MODULE SignedRequests ---------------------------
(***************************************************************************)
(* How a signed worker request is kept from being processed twice          *)
(* (verifyWorkerRequest in server/workers/protocol.ts, consumeNonce in     *)
(* server/workers/service.ts, the TTL index of idempotency_records).       *)
(*                                                                         *)
(* The worker stamps a request with its own clock and a fresh nonce.  The  *)
(* network may deliver any number of copies.  A handler compares the stamp *)
(* with the time it reads at its start, awaits the credential, and then    *)
(* inserts a record of the nonce, whose expiry it computes from the time   *)
(* it started, not from the time it inserts.  MongoDB removes the record   *)
(* some time after it has expired.                                         *)
(*                                                                         *)
(* Whether the credential is accepted is the subject of WorkerCredentials; *)
(* here a handler may stop at any point, which is a step that never comes. *)
(***************************************************************************)
EXTENDS Integers

CONSTANTS
  Requests,   \* signed requests, each with its own nonce
  Handlers,   \* server handlers, each serving one copy at a time
  MaxSkew,    \* WORKER_REQUEST_MAX_SKEW_SECONDS
  NonceTtl,   \* WORKER_NONCE_TTL_SECONDS
  MaxPause,   \* longest time from a handler's start to its insert
  MaxTime     \* bound on the server's clock and on the stamps

\* env.ts parses positive integers and refuses a lifetime of nonces below
\* twice the skew.
ConfigAssumption ==
  /\ MaxSkew \in Nat \ {0}
  /\ NonceTtl \in Nat
  /\ NonceTtl >= 2 * MaxSkew
  /\ MaxTime \in Nat

\* Nothing in the code bounds a handler's pause; with the smallest lifetime
\* this asks that it is shorter than the skew.
PauseAssumption == MaxPause \in Nat /\ MaxPause < NonceTtl - MaxSkew

ASSUME SignedRequestsAssumption == ConfigAssumption /\ PauseAssumption

VARIABLES
  now,       \* the server's clock
  stamp,     \* the timestamp each request was signed with
  handler,   \* what each handler is serving and since when
  nonce,     \* expiresAt of the record of each request's nonce
  accepted   \* how often each request passed verification

vars == <<now, stamp, handler, nonce, accepted>>
-----------------------------------------------------------------------------
None == -1

Idle == [serving |-> FALSE]

Verifying == [serving: {TRUE}, request: Requests, startedAt: Nat]

Serves(c, r) == handler[c].serving /\ handler[c].request = r

Distance(a, b) == IF a <= b THEN b - a ELSE a - b

Later(a, b) == IF a <= b THEN b ELSE a

\* Mutant: a stamp from the future counts as fresh.
Fresh_PastOnly(r, time) == time - stamp[r] <= MaxSkew

\* The time check of verifyWorkerRequest, in both directions.
Fresh(r, time) == Distance(time, stamp[r]) <= MaxSkew

\* Mutant: the lifetime counts from the handler's start, though the stamp may
\* be later.
NonceExpiresAt_FromStart(startedAt, r) == startedAt + NonceTtl

NonceExpiresAt(startedAt, r) == Later(startedAt, stamp[r]) + NonceTtl

Init ==
  /\ now = 0
  /\ stamp = [r \in Requests |-> None]
  /\ handler = [c \in Handlers |-> Idle]
  /\ nonce = [r \in Requests |-> None]
  /\ accepted = [r \in Requests |-> 0]
-----------------------------------------------------------------------------
(* The worker signs a request; its clock need not agree with the server's. *)
SignWorkerRequest(r) ==
  /\ stamp[r] = None
  /\ \E time \in 0 .. MaxTime : stamp' = [stamp EXCEPT ![r] = time]
  /\ UNCHANGED <<now, handler, nonce, accepted>>

(* A copy arrives and passes the time check; the handler awaits the        *)
(* credential.  A copy that fails the check changes nothing.               *)
VerifyWorkerRequest(c, r) ==
  /\ handler[c] = Idle
  /\ stamp[r] # None
  /\ Fresh(r, now)
  /\ handler' = [handler EXCEPT ![c] =
       [serving |-> TRUE, request |-> r, startedAt |-> now]]
  /\ UNCHANGED <<now, stamp, nonce, accepted>>

(* The handler records the nonce, and the unique index on the key decides  *)
(* whether it is the first to do so.                                       *)
ConsumeNonce(c, r) ==
  /\ Serves(c, r)
  /\ nonce[r] = None
  /\ nonce' = [nonce EXCEPT ![r] = NonceExpiresAt(handler[c].startedAt, r)]
  /\ accepted' = [accepted EXCEPT ![r] = @ + 1]
  /\ handler' = [handler EXCEPT ![c] = Idle]
  /\ UNCHANGED <<now, stamp>>

RefuseReplay(c, r) ==
  /\ Serves(c, r)
  /\ nonce[r] # None
  /\ handler' = [handler EXCEPT ![c] = Idle]
  /\ UNCHANGED <<now, stamp, nonce, accepted>>

(* The TTL monitor removes a record at some time after its expiry.         *)
RemoveExpired(r) ==
  /\ nonce[r] # None
  /\ nonce[r] <= now
  /\ nonce' = [nonce EXCEPT ![r] = None]
  /\ UNCHANGED <<now, stamp, handler, accepted>>

Tick ==
  /\ now < MaxTime
  /\ \A c \in Handlers :
       handler[c].serving => now < handler[c].startedAt + MaxPause
  /\ now' = now + 1
  /\ UNCHANGED <<stamp, handler, nonce, accepted>>

Next ==
  \/ \E r \in Requests : SignWorkerRequest(r) \/ RemoveExpired(r)
  \/ \E c \in Handlers, r \in Requests :
       VerifyWorkerRequest(c, r) \/ ConsumeNonce(c, r) \/ RefuseReplay(c, r)
  \/ Tick

Spec == Init /\ [][Next]_vars
-----------------------------------------------------------------------------
(* The stores have their types, and a handler serves a signed request.     *)
TypeOK ==
  /\ now \in Nat
  /\ stamp \in [Requests -> Nat \cup {None}]
  /\ handler \in [Handlers -> {Idle} \cup Verifying]
  /\ nonce \in [Requests -> Nat \cup {None}]
  /\ accepted \in [Requests -> Nat]
  /\ \A c \in Handlers, r \in Requests : Serves(c, r) => stamp[r] # None

(* A request is processed at most once, however many copies of it the      *)
(* network delivers, at whatever times, and whatever removed the record of *)
(* its nonce in between (verifyWorkerRequest, protocol.ts:133).            *)
AtMostOnce == \A r \in Requests : accepted[r] <= 1

(* A captured copy is of no use for long: from MaxSkew + MaxPause after    *)
(* its stamp a request is not accepted any more, and not before the stamp  *)
(* is within reach, although the time check was made at another moment     *)
(* than the acceptance.                                                    *)
AcceptedInWindow ==
  [][\A r \in Requests : accepted'[r] # accepted[r] =>
       /\ now <= stamp[r] + MaxSkew + MaxPause
       /\ stamp[r] <= now + MaxSkew]_vars
=============================================================================
