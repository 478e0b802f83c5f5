----------------------- MODULE WorkerCredentialsProofs ----------------------
(***************************************************************************)
(* For any number of rotations and of requests under way at once, a worker *)
(* has exactly one active credential, the newest, and the first use of a   *)
(* credential revokes all earlier ones.                                    *)
(*                                                                         *)
(* The argument: the credentials form a chain in which only the newest is  *)
(* active; a request that authenticates revokes every rotating credential  *)
(* but its own, and all credentials before its own are rotating or         *)
(* revoked.  It needs that whatever a request, a stored result or a reply  *)
(* names exists.                                                           *)
(*                                                                         *)
(* A rotation that is repeated is answered with the result of the first.   *)
(***************************************************************************)
EXTENDS WorkerCredentials, TLAPS

Types ==
  /\ credential \in [Credentials -> Credential]
  /\ challenge \in [Challenges -> Challenge]
  /\ handler \in [Handlers -> Handling]
  /\ client \in [key: Credentials, rotation: Challenges \cup {None},
                 asked: 0 .. MaxChallenges]

Outcomes == {"accepted", "unauthenticated", "proof_rejected",
             "credential_changed", "challenge_used"}

\* An existing credential.
Issued(k) == k \in Credentials /\ Exists(k)

ResultsIssued ==
  \A h \in Challenges : challenge[h].status = "completed" => Issued(challenge[h].key)

\* What the requests under way name.
RequestsIssued ==
  \A c \in Handlers :
    /\ handler[c].at # "idle" => Issued(handler[c].key)
    /\ handler[c].op = "rotate" => handler[c].challenge \in Challenges
    /\ handler[c].at = "proved" => handler[c].op = "rotate"

\* What the replies under way carry.
RepliesIssued ==
  \A c \in Handlers : handler[c].at = "replied" /\ handler[c].outcome = "accepted" =>
    /\ handler[c].op = "rotate" => Issued(handler[c].value)
    /\ handler[c].op = "challenge" => handler[c].value \in Challenges

NamesIssued ==
  ResultsIssued /\ RequestsIssued /\ RepliesIssued /\ Issued(client.key)

\* An unissued credential is as it was created.
Unissued == \A k \in Credentials : ~Exists(k) => credential[k] = NoCredential

IInv == Types /\ NamesIssued /\ Unissued /\ ActiveIsNewest /\ FirstUseRevokes
-----------------------------------------------------------------------------
(* The numbers of credentials and challenges are natural, and 1 is one.    *)
LEMMA Numbers == /\ 1 \in Credentials
                 /\ Credentials \subseteq Nat
                 /\ Challenges \subseteq Nat
                 /\ None \notin Credentials
                 /\ None \notin Challenges
  BY BoundsAssumption DEF Credentials, Challenges, None

(* Answers and moves keep the types; no reply is accepted by a refusal.    *)
LEMMA AnswerTypes ==
  ASSUME Types, NEW c \in Handlers, NEW value \in Nat,
         NEW outcome \in Outcomes,
         Answer(c, outcome, value)
  PROVE  /\ handler' \in [Handlers -> Handling]
         /\ handler'[c] = [handler[c] EXCEPT !.at = "replied", !.outcome = outcome,
                                             !.value = value]
         /\ \A d \in Handlers : d # c => handler'[d] = handler[d]
<1> DEFINE answered == [handler[c] EXCEPT !.at = "replied", !.outcome = outcome,
                                          !.value = value]
<1>1. handler[c] \in Handling
  BY DEF Types
<1>2. answered \in Handling
  BY <1>1 DEF Handling, Outcomes
<1>3. handler' = [handler EXCEPT ![c] = answered]
  BY DEF Answer
<1> QED
  BY <1>2, <1>3 DEF Types

LEMMA MoveTypes ==
  ASSUME Types, NEW c \in Handlers,
         NEW at \in {"verified", "authenticated", "proved"}, MoveTo(c, at)
  PROVE  /\ handler' \in [Handlers -> Handling]
         /\ handler'[c] = [handler[c] EXCEPT !.at = at]
         /\ \A d \in Handlers : d # c => handler'[d] = handler[d]
  BY DEF Types, MoveTo, Handling
-----------------------------------------------------------------------------
(* Steps that leave the credentials and challenges alone keep the chain.   *)
LEMMA SameDocuments ==
  ASSUME IInv, UNCHANGED <<credential, challenge>>
  PROVE  /\ credential' \in [Credentials -> Credential]
         /\ challenge' \in [Challenges -> Challenge]
         /\ ResultsIssued' /\ Unissued' /\ ActiveIsNewest' /\ FirstUseRevokes'
         /\ \A k : Issued(k)' = Issued(k)
  BY DEF IInv, Types, NamesIssued, ResultsIssued, Unissued, ActiveIsNewest,
         FirstUseRevokes, Issued, Exists

(* A handler that is answered or moves on, while nothing is un-issued,     *)
(* leaves the requests and replies in order.                               *)
LEMMA HandlerAnswered ==
  ASSUME IInv, NEW c \in Handlers, NEW value \in Nat,
         NEW outcome \in Outcomes,
         Answer(c, outcome, value), UNCHANGED client, handler[c].at # "idle",
         \A k : Issued(k) => Issued(k)',
         outcome = "accepted" =>
           /\ handler[c].op = "rotate" => Issued(value)'
           /\ handler[c].op = "challenge" => value \in Challenges
  PROVE  /\ handler' \in [Handlers -> Handling]
         /\ RequestsIssued' /\ RepliesIssued' /\ Issued(client.key)'
<1>1. /\ handler' \in [Handlers -> Handling]
      /\ handler'[c] = [handler[c] EXCEPT !.at = "replied", !.outcome = outcome,
                                          !.value = value]
      /\ \A d \in Handlers : d # c => handler'[d] = handler[d]
  <2>1. Types
    BY DEF IInv
  <2> QED
    BY <2>1, AnswerTypes
<1>2. handler[c] \in Handling
  BY DEF IInv, Types
<1>3. /\ handler'[c].at = "replied" /\ handler'[c].outcome = outcome
      /\ handler'[c].value = value
      /\ handler'[c].key = handler[c].key
      /\ handler'[c].op = handler[c].op
      /\ handler'[c].challenge = handler[c].challenge
  BY <1>1, <1>2 DEF Handling
<1>4. RequestsIssued'
  BY <1>1, <1>3 DEF IInv, NamesIssued, RequestsIssued
<1>5. RepliesIssued'
  BY <1>1, <1>3 DEF IInv, NamesIssued, RepliesIssued
<1>6. Issued(client.key)'
  BY DEF IInv, NamesIssued
<1> QED
  BY <1>1, <1>4, <1>5, <1>6

LEMMA HandlerMoved ==
  ASSUME IInv, NEW c \in Handlers, NEW at \in {"verified", "authenticated", "proved"},
         MoveTo(c, at), UNCHANGED client, handler[c].at # "idle",
         at = "proved" => handler[c].op = "rotate",
         \A k : Issued(k) => Issued(k)'
  PROVE  /\ handler' \in [Handlers -> Handling]
         /\ RequestsIssued' /\ RepliesIssued' /\ Issued(client.key)'
<1>1. /\ handler' \in [Handlers -> Handling]
      /\ handler'[c] = [handler[c] EXCEPT !.at = at]
      /\ \A d \in Handlers : d # c => handler'[d] = handler[d]
  BY MoveTypes DEF IInv
<1>2. handler[c] \in Handling
  BY DEF IInv, Types
<1>3. /\ handler'[c].at = at
      /\ handler'[c].key = handler[c].key
      /\ handler'[c].op = handler[c].op
      /\ handler'[c].challenge = handler[c].challenge
  BY <1>1, <1>2 DEF Handling
<1>4. RequestsIssued' /\ RepliesIssued'
  BY <1>1, <1>3 DEF IInv, NamesIssued, RequestsIssued, RepliesIssued
<1>5. Issued(client.key)'
  BY DEF IInv, NamesIssued
<1> QED
  BY <1>1, <1>4, <1>5
-----------------------------------------------------------------------------
(* The enrolled worker has one credential.                                 *)
LEMMA InitInv == Init => IInv
<1> SUFFICES ASSUME Init PROVE IInv
  OBVIOUS
<1> USE Numbers, BoundsAssumption
<1>1. Types
  BY DEF Init, Types, Credential, Challenge, NewCredential, NoCredential,
         NoChallenge, Handling, Idle, None
<1>2. NamesIssued
  BY DEF Init, NamesIssued, ResultsIssued, RequestsIssued, RepliesIssued, Issued,
         Exists, NewCredential, NoChallenge, Idle
<1>3. Unissued
  BY DEF Init, Unissued, Exists, NewCredential
<1>4. ActiveIsNewest
  BY DEF Init, ActiveIsNewest, NewCredential, NoCredential, Credentials
<1>5. FirstUseRevokes
  BY DEF Init, FirstUseRevokes, NewCredential, NoCredential
<1> QED
  BY <1>1, <1>2, <1>3, <1>4, <1>5 DEF IInv
-----------------------------------------------------------------------------
(* The client's steps touch no document.                                   *)
LEMMA SendInv ==
  ASSUME IInv, NEW c \in Handlers, NEW op \in {"heartbeat", "challenge", "rotate"},
         NEW h \in Challenges \cup {None}, op = "rotate" => h \in Challenges,
         Send(c, op, h), client'.key = client.key,
         client' \in [key: Credentials, rotation: Challenges \cup {None},
                      asked: 0 .. MaxChallenges]
  PROVE  IInv'
<1>1. UNCHANGED <<credential, challenge>>
  BY DEF Send
<1>2. client.key \in Credentials /\ Issued(client.key)
  BY DEF IInv, Types, NamesIssued
<1>3. /\ handler'[c] = [at |-> "sent", op |-> op, key |-> client.key, challenge |-> h,
                        outcome |-> "none", value |-> None]
      /\ \A d \in Handlers : d # c => handler'[d] = handler[d]
      /\ handler' \in [Handlers -> Handling]
  BY <1>2 DEF Send, IInv, Types, Idle, Handling, None
<1>4. RequestsIssued' /\ RepliesIssued'
  BY <1>1, <1>2, <1>3, SameDocuments DEF IInv, NamesIssued, RequestsIssued, RepliesIssued
<1> QED
  BY <1>1, <1>2, <1>3, <1>4, SameDocuments DEF IInv, Types, NamesIssued

LEMMA DeliverInv ==
  ASSUME IInv, NEW c \in Handlers, Deliver(c) \/ Lose(c)
  PROVE  IInv'
<1>1. /\ UNCHANGED <<credential, challenge>>
      /\ handler' = [handler EXCEPT ![c] = Idle]
      /\ handler[c].at = "replied"
  BY DEF Deliver, Lose
<1>2. handler' \in [Handlers -> Handling] /\ RequestsIssued' /\ RepliesIssued'
  BY <1>1, SameDocuments
     DEF IInv, Types, NamesIssued, RequestsIssued, RepliesIssued, Idle, Handling, None
<1>3. client' \in [key: Credentials, rotation: Challenges \cup {None},
                   asked: 0 .. MaxChallenges] /\ Issued(client'.key)
  <2>1. CASE UNCHANGED client
    BY <2>1 DEF IInv, Types, NamesIssued
  <2>2. CASE StartsRotation(c) /\ client' = [client EXCEPT !.rotation = handler[c].value]
    BY <1>1, <2>2 DEF IInv, Types, NamesIssued, RepliesIssued, StartsRotation
  <2>3. CASE /\ EndsRotation(c)
             /\ client' = [client EXCEPT !.key = handler[c].value, !.rotation = None]
    <3>1. Issued(handler[c].value)
      BY <1>1, <2>3 DEF IInv, NamesIssued, RepliesIssued, EndsRotation
    <3> QED
      BY <2>3, <3>1 DEF IInv, Types, Issued
  <2> QED
    BY <2>1, <2>2, <2>3 DEF Deliver, Lose
<1> QED
  BY <1>1, <1>2, <1>3, SameDocuments DEF IInv, Types, NamesIssued
-----------------------------------------------------------------------------
(* Authentication: what it revokes lies before the newest credential.      *)
LEMMA VerifyInv ==
  ASSUME IInv, NEW c \in Handlers, Verify(c)
  PROVE  IInv'
<1>1. UNCHANGED <<credential, challenge, client>> /\ handler[c].at # "idle"
  BY DEF Verify
<1>2. handler' \in [Handlers -> Handling] /\ RequestsIssued' /\ RepliesIssued'
      /\ Issued(client.key)'
  <2>1. CASE MoveTo(c, "verified")
    BY <1>1, <2>1, HandlerMoved, SameDocuments
  <2>2. CASE Refuse(c, "unauthenticated")
    BY <1>1, <2>2, HandlerAnswered, SameDocuments DEF Refuse, None, Outcomes
  <2> QED
    BY <2>1, <2>2 DEF Verify
<1> QED
  BY <1>1, <1>2, SameDocuments DEF IInv, Types, NamesIssued

LEMMA RevokeRotatingInv ==
  ASSUME IInv, NEW c \in Handlers, RevokeRotating(c)
  PROVE  IInv'
<1> DEFINE own == handler[c].key
<1>1. own \in Credentials /\ Exists(own) /\ handler[c].at # "idle"
  BY DEF RevokeRotating, IInv, NamesIssued, RequestsIssued, Issued
<1>2. \A k \in Credentials :
        credential'[k] = IF k = own THEN [credential[k] EXCEPT !.used = TRUE]
                         ELSE IF credential[k].status = "rotating"
                         THEN [credential[k] EXCEPT !.status = "revoked"]
                         ELSE credential[k]
  BY DEF RevokeRotating
<1>3. credential' \in [Credentials -> Credential]
  BY DEF RevokeRotating, IInv, Types, Credential
<1>4. \A k \in Credentials : credential[k] \in Credential
  BY DEF IInv, Types
<1>5. \A k \in Credentials :
        /\ credential'[k].status = IF k # own /\ credential[k].status = "rotating"
                                   THEN "revoked" ELSE credential[k].status
        /\ credential'[k].used = (k = own \/ credential[k].used)
  BY <1>2, <1>4 DEF Credential
<1>6. \A k : Issued(k)' = Issued(k)
  BY <1>5 DEF Issued, Exists
<1>7. /\ handler' \in [Handlers -> Handling] /\ RequestsIssued' /\ RepliesIssued'
      /\ Issued(client.key)'
  BY <1>1, <1>6, HandlerMoved DEF RevokeRotating
<1>8. ResultsIssued'
  BY <1>6 DEF RevokeRotating, IInv, NamesIssued, ResultsIssued
<1>9. Unissued'
  BY <1>1, <1>2, <1>5 DEF IInv, Unissued, Exists
<1>10. PICK newest \in Credentials :
         /\ credential[newest].status = "active"
         /\ \A j \in Credentials : j < newest => credential[j].status \in {"rotating", "revoked"}
         /\ \A j \in Credentials : j > newest => credential[j] = NoCredential
  BY DEF IInv, ActiveIsNewest
<1>11. ~(own > newest)
  BY <1>1, <1>10 DEF Exists, NoCredential
<1>12. ActiveIsNewest'
  <2>1. credential'[newest].status = "active"
    BY <1>5, <1>10
  <2>2. \A j \in Credentials : j < newest => credential'[j].status \in {"rotating", "revoked"}
    BY <1>5, <1>10
  <2>3. \A j \in Credentials : j > newest => credential'[j] = NoCredential
    <3> SUFFICES ASSUME NEW j \in Credentials, j > newest
                 PROVE  credential'[j] = NoCredential
      OBVIOUS
    <3>1. credential[j] = NoCredential /\ j # own
      BY <1>10, <1>11
    <3>2. credential[j].status # "rotating"
      BY <3>1 DEF NoCredential
    <3> QED
      BY <1>2, <3>1, <3>2
  <2> QED
    BY <2>1, <2>2, <2>3 DEF ActiveIsNewest
<1>13. FirstUseRevokes'
  <2> SUFFICES ASSUME NEW k \in Credentials, NEW j \in Credentials,
                      credential'[k].used, j < k
               PROVE  credential'[j].status = "revoked"
    BY DEF FirstUseRevokes
  <2>1. CASE credential[k].used
    BY <1>5, <2>1 DEF IInv, FirstUseRevokes
  <2>2. CASE k = own
    <3>1. j < newest /\ j # own
      BY <1>11, <2>2, Numbers
    <3> QED
      BY <1>5, <1>10, <3>1
  <2> QED
    BY <1>5, <2>1, <2>2
<1> QED
  BY <1>3, <1>7, <1>8, <1>9, <1>12, <1>13 DEF RevokeRotating, IInv, Types, NamesIssued
-----------------------------------------------------------------------------
(* Heartbeats and challenges leave the credentials alone.                  *)
LEMMA AnswerInv ==
  ASSUME IInv, NEW c \in Handlers, NEW value \in Nat,
         NEW outcome \in Outcomes,
         Answer(c, outcome, value), handler[c].at # "idle",
         UNCHANGED <<credential, challenge, client>>,
         outcome = "accepted" =>
           /\ handler[c].op = "rotate" => Issued(value)
           /\ handler[c].op = "challenge" => value \in Challenges
  PROVE  IInv'
<1>1. /\ handler' \in [Handlers -> Handling] /\ RequestsIssued' /\ RepliesIssued'
      /\ Issued(client.key)'
  BY HandlerAnswered, SameDocuments
<1> QED
  BY <1>1, SameDocuments DEF IInv, Types, NamesIssued

LEMMA CreateChallengeInv ==
  ASSUME IInv, NEW c \in Handlers, CreateChallenge(c)
  PROVE  IInv'
<1>1. PICK h \in Challenges :
        /\ IsNextChallenge(h)
        /\ challenge' = [challenge EXCEPT ![h].status = "started"]
        /\ Accept(c, h)
  BY DEF CreateChallenge
<1>2. /\ UNCHANGED <<credential, client>> /\ handler[c].at # "idle"
      /\ handler[c].op = "challenge"
  BY DEF CreateChallenge
<1>3. \A k : Issued(k)' = Issued(k)
  BY <1>2 DEF Issued, Exists
<1>4. /\ handler' \in [Handlers -> Handling] /\ RequestsIssued' /\ RepliesIssued'
      /\ Issued(client.key)'
  BY <1>1, <1>2, <1>3, HandlerAnswered, Numbers DEF Accept, Outcomes
<1>5. challenge' \in [Challenges -> Challenge]
  BY <1>1 DEF IInv, Types, Challenge
<1>6. ResultsIssued'
  BY <1>1, <1>3 DEF IInv, Types, Challenge, NamesIssued, ResultsIssued
<1>7. Unissued' /\ ActiveIsNewest' /\ FirstUseRevokes'
  BY <1>2 DEF IInv, Unissued, ActiveIsNewest, FirstUseRevokes, Exists
<1> QED
  BY <1>2, <1>4, <1>5, <1>6, <1>7 DEF IInv, Types, NamesIssued

LEMMA ReadChallengeInv ==
  ASSUME IInv, NEW c \in Handlers, ReadChallenge(c)
  PROVE  IInv'
<1> DEFINE h == handler[c].challenge
<1>1. /\ UNCHANGED <<credential, challenge, client>> /\ handler[c].at # "idle"
      /\ handler[c].op = "rotate" /\ h \in Challenges
  BY DEF ReadChallenge, IInv, NamesIssued, RequestsIssued
<1>2. CASE Refuse(c, "proof_rejected")
  BY <1>1, <1>2, AnswerInv DEF Refuse, None, Outcomes
<1>3. CASE challenge[h].status = "completed" /\ Accept(c, challenge[h].key)
  <2>1. Issued(challenge[h].key) /\ challenge[h].key \in Nat
    BY <1>1, <1>3, Numbers DEF IInv, NamesIssued, ResultsIssued, Issued
  <2> QED
    BY <1>1, <1>3, <2>1, AnswerInv DEF Accept, Outcomes
<1>4. CASE MoveTo(c, "proved")
  <2>1. /\ handler' \in [Handlers -> Handling] /\ RequestsIssued' /\ RepliesIssued'
        /\ Issued(client.key)'
    BY <1>1, <1>4, HandlerMoved, SameDocuments
  <2> QED
    BY <1>1, <2>1, SameDocuments DEF IInv, Types, NamesIssued
<1> QED
  BY <1>2, <1>3, <1>4 DEF ReadChallenge
-----------------------------------------------------------------------------
(* The transaction: the newest credential becomes the last but one.        *)
LEMMA RotatedInv ==
  ASSUME IInv, NEW c \in Handlers, handler[c].at = "proved", Rotated(c),
         handler[c].op = "rotate", UNCHANGED client
  PROVE  IInv'
<1> DEFINE k == handler[c].key  h == handler[c].challenge
<1>1. PICK new \in Credentials :
        /\ IsNextCredential(new)
        /\ credential' = [credential EXCEPT ![k].status = "rotating",
                                            ![new] = NewCredential]
        /\ Complete(h, new)
        /\ Accept(c, new)
  BY DEF Rotated
<1>2. /\ k \in Credentials /\ Exists(k) /\ h \in Challenges
      /\ credential[k].status = "active"
  BY DEF Rotated, IInv, NamesIssued, RequestsIssued, Issued
<1>3. k # new
  BY <1>1, <1>2 DEF IsNextCredential
<1>4. \A j \in Credentials : credential[j] \in Credential
  BY DEF IInv, Types
<1>5. /\ credential'[new] = NewCredential
      /\ credential'[k] = [credential[k] EXCEPT !.status = "rotating"]
      /\ \A j \in Credentials : j # k /\ j # new => credential'[j] = credential[j]
  BY <1>1, <1>2, <1>3 DEF IInv, Types
<1>6. credential'[k].status = "rotating" /\ credential'[k].used = credential[k].used
  BY <1>2, <1>4, <1>5 DEF Credential
<1>7. credential' \in [Credentials -> Credential]
  BY <1>1, <1>2, <1>4 DEF IInv, Types, Credential, NewCredential
<1>8. \A j : Issued(j) => Issued(j)'
  <2>1. ASSUME NEW j \in Credentials, Exists(j) PROVE Exists(j)'
    <3>1. j # new
      BY <1>1, <2>1 DEF IsNextCredential
    <3> QED
      BY <1>5, <1>6, <2>1, <3>1 DEF Exists
  <2> QED
    BY <2>1 DEF Issued
<1>9. Issued(new)'
  BY <1>5 DEF Issued, Exists, NewCredential
<1>10. /\ handler' \in [Handlers -> Handling] /\ RequestsIssued' /\ RepliesIssued'
       /\ Issued(client.key)'
  BY <1>1, <1>8, <1>9, HandlerAnswered, Numbers DEF Accept, Outcomes
<1>11. challenge' \in [Challenges -> Challenge] /\ ResultsIssued'
  BY <1>1, <1>2, <1>8, <1>9
     DEF Complete, IInv, Types, Challenge, NamesIssued, ResultsIssued
<1>12. Unissued'
  <2> SUFFICES ASSUME NEW j \in Credentials, ~Exists(j)'
               PROVE  credential'[j] = NoCredential
    BY DEF Unissued
  <2>1. j # new
    BY <1>9 DEF Issued
  <2>2. j # k
    BY <1>6 DEF Exists
  <2>3. credential'[j] = credential[j]
    BY <1>5, <2>1, <2>2
  <2> QED
    BY <2>3 DEF IInv, Unissued, Exists
<1>13. /\ \A j \in Credentials : j < k => credential[j].status \in {"rotating", "revoked"}
       /\ \A j \in Credentials : j > k => credential[j] = NoCredential
  <2>1. PICK newest \in Credentials :
          /\ credential[newest].status = "active"
          /\ \A j \in Credentials : j < newest => credential[j].status \in {"rotating", "revoked"}
          /\ \A j \in Credentials : j > newest => credential[j] = NoCredential
    BY DEF IInv, ActiveIsNewest
  <2>2. ~(k < newest) /\ ~(k > newest)
    BY <1>2, <2>1 DEF NoCredential
  <2>3. k \in Nat /\ newest \in Nat
    BY <1>2, Numbers
  <2>4. k = newest
    BY <2>2, <2>3
  <2> QED
    BY <2>1, <2>4
<1>14. /\ k < new
       /\ \A j \in Credentials : j < new => j <= k
  <2>1. ~(new < k)
    BY <1>1, <1>13 DEF IsNextCredential, Exists
  <2>2. ASSUME NEW j \in Credentials, j < new PROVE ~(j > k)
    BY <1>1, <1>13, <2>2 DEF IsNextCredential, Exists, NoCredential
  <2>3. k \in Nat /\ new \in Nat /\ \A j \in Credentials : j \in Nat
    BY <1>2, Numbers
  <2>4. k < new
    BY <1>3, <2>1, <2>3
  <2>5. ASSUME NEW j \in Credentials, j < new PROVE j <= k
    <3>1. j \in Nat /\ ~(j > k)
      BY <2>2, <2>3, <2>5
    <3> QED
      BY <2>3, <3>1
  <2> QED
    BY <2>4, <2>5
<1>15. ActiveIsNewest'
  <2>1. credential'[new].status = "active"
    BY <1>5 DEF NewCredential
  <2>2. \A j \in Credentials : j < new => credential'[j].status \in {"rotating", "revoked"}
    <3> SUFFICES ASSUME NEW j \in Credentials, j < new
                 PROVE  credential'[j].status \in {"rotating", "revoked"}
      OBVIOUS
    <3>1. j \in Nat /\ new \in Nat /\ k \in Nat
      BY <1>2, Numbers
    <3>2. j # new /\ (j = k \/ j < k)
      BY <1>14, <3>1
    <3>3. CASE j = k
      BY <1>6, <3>3
    <3>4. CASE j # k
      <4>1. credential[j].status \in {"rotating", "revoked"}
        BY <1>13, <3>2, <3>4
      <4> QED
        BY <1>5, <3>2, <3>4, <4>1
    <3> QED
      BY <3>3, <3>4
  <2>3. \A j \in Credentials : j > new => credential'[j] = NoCredential
    BY <1>2, <1>5, <1>13, <1>14, Numbers
  <2> QED
    BY <2>1, <2>2, <2>3 DEF ActiveIsNewest
<1>16. FirstUseRevokes'
  <2> SUFFICES ASSUME NEW i \in Credentials, NEW j \in Credentials,
                      credential'[i].used, j < i
               PROVE  credential'[j].status = "revoked"
    BY DEF FirstUseRevokes
  <2>1. i # new
    BY <1>5 DEF NewCredential
  <2>5. credential[i].used
    <3>1. CASE i = k
      BY <1>6, <3>1
    <3>2. CASE i # k
      BY <1>5, <2>1, <3>2
    <3> QED
      BY <3>1, <3>2
  <2>2. credential[j].status = "revoked"
    BY <2>5 DEF IInv, FirstUseRevokes
  <2>3. j # k
    BY <1>2, <2>2
  <2>4. j # new
    BY <1>1, <2>2 DEF IsNextCredential, Exists
  <2> QED
    BY <1>5, <2>2, <2>3, <2>4
<1> QED
  BY <1>7, <1>10, <1>11, <1>12, <1>15, <1>16 DEF IInv, Types, NamesIssued

LEMMA CommitRotationInv ==
  ASSUME IInv, NEW c \in Handlers, CommitRotation(c)
  PROVE  IInv'
<1> DEFINE h == handler[c].challenge
<1>1. /\ UNCHANGED client /\ handler[c].at = "proved"
      /\ handler[c].op = "rotate" /\ h \in Challenges
  BY DEF CommitRotation, IInv, NamesIssued, RequestsIssued
<1>2. CASE Recovered(c)
  <2>1. Issued(challenge[h].key) /\ challenge[h].key \in Nat
    BY <1>1, <1>2, Numbers DEF Recovered, IInv, NamesIssued, ResultsIssued, Issued
  <2> QED
    BY <1>1, <1>2, <2>1, AnswerInv DEF Recovered, Accept, Outcomes
<1>3. CASE Rotated(c)
  BY <1>1, <1>3, RotatedInv
<1>4. CASE Refuse(c, "credential_changed") /\ UNCHANGED <<credential, challenge>>
  BY <1>1, <1>4, AnswerInv DEF Refuse, None, Outcomes
<1> QED
  BY <1>2, <1>3, <1>4 DEF CommitRotation
-----------------------------------------------------------------------------
(* Expiry changes no status.                                               *)
LEMMA CredentialExpiresInv ==
  ASSUME IInv, NEW k \in Credentials, CredentialExpires(k)
  PROVE  IInv'
<1>1. /\ UNCHANGED <<challenge, handler, client>> /\ Exists(k)
      /\ credential' = [credential EXCEPT ![k].expired = TRUE]
  BY DEF CredentialExpires
<1>2. credential' \in [Credentials -> Credential]
  BY <1>1 DEF IInv, Types, Credential
<1>3. \A j \in Credentials : /\ credential'[j].status = credential[j].status
                             /\ credential'[j].used = credential[j].used
                             /\ j # k => credential'[j] = credential[j]
  BY <1>1 DEF IInv, Types, Credential
<1>4. \A j : Issued(j)' = Issued(j)
  BY <1>3 DEF Issued, Exists
<1>5. NamesIssued'
  BY <1>1, <1>4 DEF IInv, NamesIssued, ResultsIssued, RequestsIssued, RepliesIssued
<1>6. Unissued'
  BY <1>1, <1>3 DEF IInv, Unissued, Exists
<1>7. ActiveIsNewest'
  <2>1. PICK newest \in Credentials :
          /\ credential[newest].status = "active"
          /\ \A j \in Credentials : j < newest => credential[j].status \in {"rotating", "revoked"}
          /\ \A j \in Credentials : j > newest => credential[j] = NoCredential
    BY DEF IInv, ActiveIsNewest
  <2>2. ~(k > newest)
    BY <1>1, <2>1 DEF Exists, NoCredential
  <2> QED
    BY <1>3, <2>1, <2>2 DEF ActiveIsNewest
<1>8. FirstUseRevokes'
  BY <1>3 DEF IInv, FirstUseRevokes
<1> QED
  BY <1>1, <1>2, <1>5, <1>6, <1>7, <1>8 DEF IInv, Types

LEMMA ChallengeExpiresInv ==
  ASSUME IInv, NEW h \in Challenges, ChallengeExpires(h)
  PROVE  IInv'
<1>1. /\ UNCHANGED <<credential, handler, client>>
      /\ challenge' = [challenge EXCEPT ![h].expired = TRUE]
  BY DEF ChallengeExpires
<1>2. challenge' \in [Challenges -> Challenge]
  BY <1>1 DEF IInv, Types, Challenge
<1>3. \A g \in Challenges : /\ challenge'[g].status = challenge[g].status
                            /\ challenge'[g].key = challenge[g].key
  BY <1>1 DEF IInv, Types, Challenge
<1>4. NamesIssued' /\ Unissued' /\ ActiveIsNewest' /\ FirstUseRevokes'
  BY <1>1, <1>3 DEF IInv, NamesIssued, ResultsIssued, RequestsIssued, RepliesIssued,
     Issued, Exists, Unissued, ActiveIsNewest, FirstUseRevokes
<1> QED
  BY <1>1, <1>2, <1>4 DEF IInv, Types
-----------------------------------------------------------------------------
(* Every step keeps the invariant.                                         *)
LEMMA NextInv == IInv /\ [Next]_vars => IInv'
<1> SUFFICES ASSUME IInv, [Next]_vars PROVE IInv'
  OBVIOUS
<1>1. ASSUME NEW c \in Handlers, SendHeartbeat(c) \/ AskForChallenge(c) \/ SendRotate(c)
      PROVE  IInv'
  <2>1. client \in [key: Credentials, rotation: Challenges \cup {None},
                    asked: 0 .. MaxChallenges]
    BY DEF IInv, Types
  <2>2. CASE SendHeartbeat(c)
    BY <2>1, <2>2, SendInv DEF SendHeartbeat
  <2>3. CASE AskForChallenge(c)
    <3>1. /\ client' \in [key: Credentials, rotation: Challenges \cup {None},
                          asked: 0 .. MaxChallenges]
          /\ client'.key = client.key
      BY <2>1, <2>3, BoundsAssumption DEF AskForChallenge
    <3> QED
      BY <2>3, <3>1, SendInv DEF AskForChallenge
  <2>4. CASE SendRotate(c)
    <3>1. client.rotation \in Challenges
      BY <2>1, <2>4 DEF SendRotate
    <3> QED
      BY <2>1, <2>4, <3>1, SendInv DEF SendRotate
  <2> QED
    BY <1>1, <2>2, <2>3, <2>4
<1>2. ASSUME NEW c \in Handlers, PersistHeartbeat(c) PROVE IInv'
  <2>1. /\ Accept(c, None) /\ handler[c].at # "idle" /\ handler[c].op = "heartbeat"
        /\ UNCHANGED <<credential, challenge, client>>
    BY <1>2 DEF PersistHeartbeat
  <2> QED
    BY <2>1, AnswerInv DEF Accept, None, Outcomes
<1>3. ASSUME NEW c \in Handlers, ChallengeGone(c) PROVE IInv'
  <2>1. /\ Refuse(c, "challenge_used") /\ handler[c].at # "idle"
        /\ UNCHANGED <<credential, challenge, client>>
    BY <1>3 DEF ChallengeGone
  <2> QED
    BY <2>1, AnswerInv DEF Refuse, None, Outcomes
<1>4. CASE UNCHANGED vars
  BY <1>4 DEF vars, IInv, Types, NamesIssued, ResultsIssued, RequestsIssued,
     RepliesIssued, Issued, Exists, Unissued, ActiveIsNewest, FirstUseRevokes
<1> QED
  BY <1>1, <1>2, <1>3, <1>4, DeliverInv, VerifyInv, RevokeRotatingInv,
     CreateChallengeInv, ReadChallengeInv, CommitRotationInv, CredentialExpiresInv,
     ChallengeExpiresInv DEF Next, Step, Serve

(* The invariant holds in every reachable state.                           *)
LEMMA Invariant == Spec => []IInv
  BY InitInv, NextInv, PTL DEF Spec

(* Whatever number of rotations overlap, and whatever replies are lost,    *)
(* the worker has exactly one active credential, the newest                *)
(* (rotateWorkerCredential, service.ts:539).                               *)
THEOREM OneActiveCredential == Spec => []ActiveIsNewest
<1>1. IInv => ActiveIsNewest
  BY DEF IInv
<1> QED
  BY <1>1, Invariant, PTL

(* Once a credential has authenticated a request, all earlier credentials  *)
(* of the worker are revoked, for good (authenticateSignedJson,            *)
(* service.ts:690).                                                        *)
THEOREM UseRevokesPredecessors == Spec => []FirstUseRevokes
<1>1. IInv => FirstUseRevokes
  BY DEF IInv
<1> QED
  BY <1>1, Invariant, PTL

\* Only its own commit, or the expiry of its challenge, answers a request that
\* has proved its new key.
LEMMA ProvedIsAnswered ==
  ASSUME Types, Next, NEW c \in Handlers,
         handler[c].at = "proved", handler'[c].at = "replied"
  PROVE  CommitRotation(c) \/ ChallengeGone(c)
<1>1. handler \in [Handlers -> Handling]
  BY DEF Types
<1> USE <1>1 DEF Answer, Refuse, Accept, MoveTo
<1>2. ~ UNCHANGED handler
  OBVIOUS
<1>3. ASSUME NEW d \in Handlers,
             \/ SendHeartbeat(d) \/ AskForChallenge(d) \/ SendRotate(d)
             \/ Deliver(d) \/ Lose(d) \/ Verify(d) \/ Serve(d)
      PROVE  d = c
  <2> SUFFICES ASSUME d # c PROVE UNCHANGED handler[c]
    OBVIOUS
  <2>1. CASE \/ SendHeartbeat(d) \/ AskForChallenge(d) \/ SendRotate(d)
             \/ Deliver(d) \/ Lose(d)
    BY <2>1 DEF SendHeartbeat, AskForChallenge, SendRotate, Send, Deliver, Lose
  <2>2. CASE Verify(d) \/ RevokeRotating(d) \/ PersistHeartbeat(d) \/ CreateChallenge(d)
    BY <2>2 DEF Verify, RevokeRotating, PersistHeartbeat, CreateChallenge
  <2>3. CASE ReadChallenge(d) \/ CommitRotation(d) \/ ChallengeGone(d)
    BY <2>3 DEF ReadChallenge, CommitRotation, Recovered, Rotated, ChallengeGone
  <2> QED BY <1>3, <2>1, <2>2, <2>3 DEF Serve
<1>4. ~(SendHeartbeat(c) \/ AskForChallenge(c) \/ SendRotate(c))
  BY DEF SendHeartbeat, AskForChallenge, SendRotate, Send, Idle
<1>5. ~(Deliver(c) \/ Lose(c) \/ Verify(c))
  BY DEF Deliver, Lose, Verify
<1>6. ~(RevokeRotating(c) \/ PersistHeartbeat(c) \/ CreateChallenge(c) \/ ReadChallenge(c))
  BY DEF RevokeRotating, PersistHeartbeat, CreateChallenge, ReadChallenge
<1>7. ~ \E k \in Credentials : CredentialExpires(k)
  BY <1>2 DEF CredentialExpires
<1>8. ~ \E h \in Challenges : ChallengeExpires(h)
  BY <1>2 DEF ChallengeExpires
<1> QED BY <1>3, <1>4, <1>5, <1>6, <1>7, <1>8 DEF Next, Step, Serve

\* For any number of copies under way, whichever step each is at: a repeated
\* rotation whose first copy has committed gets the result of that copy
\* (rotateWorkerCredential).
THEOREM RetriesAreAnswered == Spec => IdenticalRetryAnswered
<1> DEFINE Safe ==
       \A c \in Handlers :
         /\ handler[c].at = "proved"
         /\ challenge[handler[c].challenge].status = "completed"
         /\ ~challenge[handler[c].challenge].expired
         /\ handler'[c].at = "replied"
         => /\ handler'[c].outcome = "accepted"
            /\ handler'[c].value = challenge[handler[c].challenge].key
<1>1. IInv /\ [Next]_vars => [Safe]_vars
  <2> SUFFICES ASSUME IInv, Next, NEW c \in Handlers, handler[c].at = "proved",
                       challenge[handler[c].challenge].status = "completed",
                       ~challenge[handler[c].challenge].expired,
                       handler'[c].at = "replied"
                PROVE  /\ handler'[c].outcome = "accepted"
                       /\ handler'[c].value = challenge[handler[c].challenge].key
    OBVIOUS
  <2>1. Types
    BY DEF IInv
  <2>2. CommitRotation(c) \/ ChallengeGone(c)
    BY <2>1, ProvedIsAnswered
  <2>3. Recovered(c)
    BY <2>2 DEF CommitRotation, ChallengeGone, Rotated
  <2>4. handler[c] \in Handling /\ handler \in [Handlers -> Handling]
    BY <2>1 DEF Types
  <2> QED BY <2>3, <2>4 DEF Recovered, Accept, Answer, Handling
<1> QED BY <1>1, Invariant, PTL DEF Spec, IdenticalRetryAnswered
=============================================================================
