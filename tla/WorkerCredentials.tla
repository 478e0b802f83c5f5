-------------------------- MODULE WorkerCredentials -------------------------
(***************************************************************************)
(* The rotation of one worker's credential (authenticateSignedJson,        *)
(* createCredentialRotationChallenge and rotateWorkerCredential in         *)
(* server/workers/service.ts).                                             *)
(*                                                                         *)
(* Every query of these handlers names the worker, so workers do not meet. *)
(* A handler authenticates in two steps with an await between them: it     *)
(* looks its credential up, and then revokes the worker's other rotating   *)
(* credentials.  Rotation reads its challenge before its transaction and   *)
(* again inside it.  The transaction writes every document it depends on,  *)
(* so it is one step here.                                                 *)
(*                                                                         *)
(* The repository's agent does not rotate yet; the client is what the      *)
(* endpoints are made for: it keeps its new key pair and repeats the same  *)
(* request until it is answered.  The network loses replies and delays     *)
(* requests; SignedRequests shows that it cannot replay them.              *)
(***************************************************************************)
EXTENDS Naturals, FiniteSets

CONSTANTS
  Handlers,       \* requests the network and the server hold at once
  MaxChallenges   \* bound on the challenges the client asks for

ASSUME BoundsAssumption == MaxChallenges \in Nat

VARIABLES
  credential,  \* worker_credentials, in the order of their creation
  challenge,   \* idempotency_records of scope worker-credential-rotation
  handler,     \* the request each handler serves, how far it is, its reply
  client,      \* the credential the client signs with, and its rotation
  overlapped   \* history: two of the worker's requests were served at once

state == <<credential, challenge, handler, client>>

vars == <<credential, challenge, handler, client, overlapped>>
-----------------------------------------------------------------------------
None == 0

Credentials == 1 .. (MaxChallenges + 1)

Challenges == 1 .. MaxChallenges

\* The TTL index removes an expired document at some time.  It keeps its
\* status here: nobody accepts it any more.
Credential == [status: {"none", "active", "rotating", "revoked"},
               expired: BOOLEAN, used: BOOLEAN]

NoCredential == [status |-> "none", expired |-> FALSE, used |-> FALSE]

NewCredential == [status |-> "active", expired |-> FALSE, used |-> FALSE]

\* key is the credential in the stored result.
Challenge == [status: {"none", "started", "completed"}, expired: BOOLEAN,
              key: Credentials \cup {None}]

NoChallenge == [status |-> "none", expired |-> FALSE, key |-> None]

Exists(k) == credential[k].status # "none"

\* A request on its way through the network and the server, and its reply;
\* an accepted reply carries the challenge or the new credential.
Handling == [at: {"idle", "sent", "verified", "authenticated", "proved", "replied"},
             op: {"none", "heartbeat", "challenge", "rotate"},
             key: Credentials \cup {None},
             challenge: Challenges \cup {None},
             outcome: {"none", "accepted", "unauthenticated", "proof_rejected",
                       "credential_changed", "challenge_used"},
             value: Nat]

Idle == [at |-> "idle", op |-> "none", key |-> None, challenge |-> None,
         outcome |-> "none", value |-> None]

Answer(c, outcome, value) ==
  handler' = [handler EXCEPT ![c].at = "replied", ![c].outcome = outcome,
                             ![c].value = value]

Refuse(c, outcome) == Answer(c, outcome, None)

Accept(c, value) == Answer(c, "accepted", value)

MoveTo(c, at) == handler' = [handler EXCEPT ![c].at = at]

\* Identifiers are random; here they are numbers in the order of creation.
IsNextCredential(k) == ~Exists(k) /\ \A j \in Credentials : j < k => Exists(j)

IsNextChallenge(h) ==
  /\ challenge[h].status = "none"
  /\ \A g \in Challenges : g < h => challenge[g].status # "none"

Served == {c \in Handlers : handler[c].at \in {"verified", "authenticated", "proved"}}

Init ==
  /\ credential = [k \in Credentials |-> IF k = 1 THEN NewCredential ELSE NoCredential]
  /\ challenge = [h \in Challenges |-> NoChallenge]
  /\ handler = [c \in Handlers |-> Idle]
  /\ client = [key |-> 1, rotation |-> None, asked |-> 0]
  /\ overlapped = FALSE
-----------------------------------------------------------------------------
(* The client.                                                             *)

Send(c, op, h) ==
  /\ handler[c] = Idle
  /\ handler' = [handler EXCEPT ![c] =
       [Idle EXCEPT !.at = "sent", !.op = op, !.key = client.key, !.challenge = h]]
  /\ UNCHANGED <<credential, challenge>>

SendHeartbeat(c) ==
  /\ Send(c, "heartbeat", None)
  /\ UNCHANGED client

AskForChallenge(c) ==
  /\ client.rotation = None
  /\ client.asked < MaxChallenges
  /\ Send(c, "challenge", None)
  /\ client' = [client EXCEPT !.asked = @ + 1]

\* Signed with the old key, with the proof of the new one; a retry is the
\* same request with a new nonce.
SendRotate(c) ==
  /\ client.rotation # None
  /\ Send(c, "rotate", client.rotation)
  /\ UNCHANGED client

(* A reply arrives.  A challenge starts a rotation and a new credential    *)
(* ends it; a client whose challenge lapsed is left to its operator.       *)
StartsRotation(c) ==
  handler[c].op = "challenge" /\ handler[c].outcome = "accepted" /\ client.rotation = None

EndsRotation(c) ==
  /\ handler[c].op = "rotate" /\ handler[c].outcome = "accepted"
  /\ handler[c].challenge = client.rotation

Deliver(c) ==
  /\ handler[c].at = "replied"
  /\ handler' = [handler EXCEPT ![c] = Idle]
  /\ \/ /\ StartsRotation(c)
        /\ client' = [client EXCEPT !.rotation = handler[c].value]
     \/ /\ EndsRotation(c)
        /\ client' = [client EXCEPT !.key = handler[c].value, !.rotation = None]
     \/ /\ ~StartsRotation(c) /\ ~EndsRotation(c)
        /\ UNCHANGED client
  /\ UNCHANGED <<credential, challenge>>

(* A reply is lost, or the client gave up waiting for it or died.          *)
Lose(c) ==
  /\ handler[c].at = "replied"
  /\ handler' = [handler EXCEPT ![c] = Idle]
  /\ UNCHANGED <<credential, challenge, client>>
-----------------------------------------------------------------------------
(* Authentication.                                                         *)

\* Mutant: recovery from a lost reply is forgotten.
FindCredential_ActiveOnly(c) ==
  LET k == handler[c].key
  IN  credential[k].status = "active" /\ ~credential[k].expired

\* findCredential with allowRotatingCredential, and the expiry check of
\* verifyWorkerRequest.
FindCredential(c) ==
  LET k == handler[c].key
  IN  /\ \/ credential[k].status = "active"
         \/ handler[c].op = "rotate" /\ credential[k].status = "rotating"
      /\ ~credential[k].expired

Verify(c) ==
  /\ handler[c].at = "sent"
  /\ \/ FindCredential(c) /\ MoveTo(c, "verified")
     \/ ~FindCredential(c) /\ Refuse(c, "unauthenticated")
  /\ UNCHANGED <<credential, challenge, client>>

\* Mutant: only heartbeats confirm the new key.
RevokeRotating_HeartbeatOnly(c) ==
  /\ handler[c].at = "verified"
  /\ credential' = [k \in Credentials |->
       IF k = handler[c].key THEN [credential[k] EXCEPT !.used = TRUE]
       ELSE IF credential[k].status = "rotating" /\ handler[c].op = "heartbeat"
       THEN [credential[k] EXCEPT !.status = "revoked"]
       ELSE credential[k]]
  /\ MoveTo(c, "authenticated")
  /\ UNCHANGED <<challenge, client>>

(* Every authenticated request revokes the rotating credentials of its     *)
(* worker, except its own; by then the credential it found may be another  *)
(* one's predecessor.                                                      *)
RevokeRotating(c) ==
  /\ handler[c].at = "verified"
  /\ credential' = [k \in Credentials |->
       IF k = handler[c].key THEN [credential[k] EXCEPT !.used = TRUE]
       ELSE IF credential[k].status = "rotating"
       THEN [credential[k] EXCEPT !.status = "revoked"]
       ELSE credential[k]]
  /\ MoveTo(c, "authenticated")
  /\ UNCHANGED <<challenge, client>>
-----------------------------------------------------------------------------
(* What the requests do once they are authenticated.                       *)

PersistHeartbeat(c) ==
  /\ handler[c].at = "authenticated" /\ handler[c].op = "heartbeat"
  /\ Accept(c, None)
  /\ UNCHANGED <<credential, challenge, client>>

CreateChallenge(c) ==
  /\ handler[c].at = "authenticated" /\ handler[c].op = "challenge"
  /\ \E h \in Challenges :
       /\ IsNextChallenge(h)
       /\ challenge' = [challenge EXCEPT ![h].status = "started"]
       /\ Accept(c, h)
  /\ UNCHANGED <<credential, client>>

(* The part of rotateWorkerCredential before its transaction.              *)
ReadChallenge(c) ==
  /\ handler[c].at = "authenticated" /\ handler[c].op = "rotate"
  /\ LET h == challenge[handler[c].challenge]
     IN  \/ h.expired /\ Refuse(c, "proof_rejected")
         \/ ~h.expired /\ h.status = "completed" /\ Accept(c, h.key)
         \/ ~h.expired /\ h.status = "started" /\ MoveTo(c, "proved")
  /\ UNCHANGED <<credential, challenge, client>>

Complete(h, k) ==
  challenge' = [challenge EXCEPT ![h] =
    [status |-> "completed", expired |-> FALSE, key |-> k]]

(* Its transaction.  The expiry is compared with the time read at the      *)
(* handler's start, so a challenge that lapsed since still counts.         *)
Recovered(c) ==
  LET h == handler[c].challenge
  IN  /\ challenge[h].status = "completed"
      /\ Accept(c, challenge[h].key)
      /\ UNCHANGED <<credential, challenge>>

Rotated(c) ==
  LET k == handler[c].key  h == handler[c].challenge
  IN  /\ challenge[h].status = "started"
      /\ credential[k].status = "active"
      /\ \E new \in Credentials :
           /\ IsNextCredential(new)
           /\ credential' = [credential EXCEPT ![k].status = "rotating",
                                               ![new] = NewCredential]
           /\ Complete(h, new)
           /\ Accept(c, new)

\* Mutant: the old credential is not moved aside.
CommitRotation_KeepsOld(c) ==
  /\ handler[c].at = "proved"
  /\ LET h == handler[c].challenge
     IN  \/ Recovered(c)
         \/ \E new \in Credentials :
              /\ challenge[h].status = "started"
              /\ IsNextCredential(new)
              /\ credential' = [credential EXCEPT ![new] = NewCredential]
              /\ Complete(h, new)
              /\ Accept(c, new)
  /\ UNCHANGED client

\* Mutant: the challenge is not read again in the transaction.
CommitRotation_ReadOnce(c) ==
  /\ handler[c].at = "proved"
  /\ LET k == handler[c].key
     IN  \/ Rotated(c)
         \/ /\ credential[k].status # "active"
            /\ Refuse(c, "credential_changed")
            /\ UNCHANGED <<credential, challenge>>
  /\ UNCHANGED client

CommitRotation(c) ==
  /\ handler[c].at = "proved"
  /\ LET k == handler[c].key  h == handler[c].challenge
     IN  \/ Recovered(c)
         \/ Rotated(c)
         \/ /\ challenge[h].status = "started"
            /\ credential[k].status # "active" \/ credential[k].expired
            /\ Refuse(c, "credential_changed")
            /\ UNCHANGED <<credential, challenge>>
  /\ UNCHANGED client

(* The TTL index removed the challenge between the two reads.              *)
ChallengeGone(c) ==
  /\ handler[c].at = "proved"
  /\ challenge[handler[c].challenge].expired
  /\ Refuse(c, "challenge_used")
  /\ UNCHANGED <<credential, challenge, client>>
-----------------------------------------------------------------------------
(* Time passes.  All credentials live equally long.                        *)

CredentialExpires(k) ==
  /\ Exists(k)
  /\ ~credential[k].expired
  /\ \A j \in Credentials : j < k => credential[j].expired
  /\ credential' = [credential EXCEPT ![k].expired = TRUE]
  /\ UNCHANGED <<challenge, handler, client>>

ChallengeExpires(h) ==
  /\ challenge[h].status # "none"
  /\ ~challenge[h].expired
  /\ challenge' = [challenge EXCEPT ![h].expired = TRUE]
  /\ UNCHANGED <<credential, handler, client>>
-----------------------------------------------------------------------------
Serve(c) ==
  \/ RevokeRotating(c)
  \/ PersistHeartbeat(c)
  \/ CreateChallenge(c)
  \/ ReadChallenge(c)
  \/ CommitRotation(c)
  \/ ChallengeGone(c)

Step ==
  \/ \E c \in Handlers :
       \/ SendHeartbeat(c) \/ AskForChallenge(c) \/ SendRotate(c)
       \/ Deliver(c) \/ Lose(c)
       \/ Verify(c) \/ Serve(c)
  \/ \E k \in Credentials : CredentialExpires(k)
  \/ \E h \in Challenges : ChallengeExpires(h)

Next ==
  /\ Step
  /\ overlapped' = (overlapped \/ Cardinality(Served') > 1)

Spec == Init /\ [][Next]_vars

\* The server finishes what it began and gets to every request, the client
\* repeats its rotation, and not every reply is lost.
Fairness ==
  \A c \in Handlers :
    /\ WF_state(Serve(c))
    /\ WF_state(Verify(c))
    /\ SF_state(SendRotate(c))
    /\ SF_state(Deliver(c) /\ handler[c].op = "rotate")
    /\ WF_state(Deliver(c) \/ Lose(c))

FairSpec == Spec /\ Fairness
-----------------------------------------------------------------------------
(* The documents and requests have their shapes, and a rotation names a    *)
(* challenge that was issued.                                              *)
TypeOK ==
  /\ credential \in [Credentials -> Credential]
  /\ challenge \in [Challenges -> Challenge]
  /\ handler \in [Handlers -> Handling]
  /\ client \in [key: Credentials, rotation: Challenges \cup {None},
                 asked: 0 .. MaxChallenges]
  /\ overlapped \in BOOLEAN
  /\ \A c \in Served : handler[c].op = "rotate" =>
       challenge[handler[c].challenge].status # "none"

(* The worker always has exactly one active credential, the newest: no     *)
(* interleaving of rotations leaves it with none, with two, or brings an   *)
(* old one back (rotateWorkerCredential, the partial unique index).        *)
ActiveIsNewest ==
  \E k \in Credentials :
    /\ credential[k].status = "active"
    /\ \A j \in Credentials : j < k => credential[j].status \in {"rotating", "revoked"}
    /\ \A j \in Credentials : j > k => credential[j] = NoCredential

(* The first authenticated use of a credential ends all earlier ones:      *)
(* after it the old key cannot even recover a reply (docs/                 *)
(* worker-security.md, authenticateSignedJson).                            *)
FirstUseRevokes ==
  \A k, j \in Credentials :
    credential[k].used /\ j < k => credential[j].status = "revoked"

(* The client can go on: its credential is active, or it is the            *)
(* predecessor in a rotation whose reply the client can still get by       *)
(* repeating its request; only the expiry of the credential or of that     *)
(* challenge ends this (docs/worker-security.md, allowRotatingCredential). *)
Recoverable ==
  LET k == client.key  h == client.rotation
  IN  \/ credential[k].expired
      \/ credential[k].status = "active"
      \/ /\ credential[k].status = "rotating"
         /\ \E g \in Challenges :
              /\ challenge[g].status = "completed"
              /\ challenge[g].key = k + 1
              /\ g = h \/ challenge[g].expired

(* A repeated rotation whose first copy has committed is answered with the *)
(* result of that copy: it is not told that the credential changed or that *)
(* the challenge was used, whichever step the two copies are at            *)
(* (rotateWorkerCredential, both reads of the challenge).                  *)
IdenticalRetryAnswered ==
  [][\A c \in Handlers :
       /\ handler[c].at = "proved"
       /\ challenge[handler[c].challenge].status = "completed"
       /\ ~challenge[handler[c].challenge].expired
       /\ handler'[c].at = "replied"
       => /\ handler'[c].outcome = "accepted"
          /\ handler'[c].value = challenge[handler[c].challenge].key]_vars

(* A rotation the client keeps repeating ends with the client holding the  *)
(* new credential, however many replies are lost, unless its credential or *)
(* its challenge expires first or requests overlap in the server.          *)
RotationCompletes ==
  \A h \in Challenges :
    client.rotation = h ~>
      (\/ client.rotation # h
       \/ challenge[h].expired
       \/ credential[client.key].expired
       \/ overlapped)
=============================================================================
