---------------------------- MODULE AccountsProofs ----------------------------
(***************************************************************************)
(* Proofs about what a caller shows to be let in, the parts of MCAccounts. *)
(*                                                                         *)
(* A signed request is accepted at most once, for every skew, lifetime of  *)
(* nonces, number of handlers and clock, as long as no handler pauses for  *)
(* longer than PauseAssumption allows: a handler inserts at most MaxPause  *)
(* after it compared the stamp with the time, so no copy can be accepted   *)
(* later than stamp + MaxSkew + MaxPause; the record of the nonce stays at *)
(* least until stamp + NonceTtl, which is later.                           *)
(*                                                                         *)
(* The limit on guesses and the account follow, for any processes, points, *)
(* requests, tokens and sessions; and the counters in binary, which are    *)
(* exact as long as no number a guard lets through is rounded.             *)
(***************************************************************************)
EXTENDS MCAccounts, TotalsProofs, WellFoundedInduction

-----------------------------------------------------------------------------
(* Signed requests.                                                        *)

\* A handler that serves a request compared its stamp at most MaxPause ago.
HandlersInTime ==
  \A c \in Handlers, r \in Requests : Serves(c, r) =>
    /\ handler[c].startedAt <= now
    /\ now <= handler[c].startedAt + MaxPause
    /\ Distance(handler[c].startedAt, stamp[r]) <= MaxSkew

\* A record outlives its request, and belongs to an accepted one.
RecordsLast ==
  \A r \in Requests : nonce[r] # None =>
    /\ accepted[r] = 1
    /\ stamp[r] # None
    /\ stamp[r] + NonceTtl <= nonce[r]

\* When the record of an accepted request is gone, so is its time.
RemovedIsPast ==
  \A r \in Requests : accepted[r] # 0 /\ nonce[r] = None =>
    /\ accepted[r] = 1
    /\ stamp[r] # None
    /\ stamp[r] + NonceTtl <= now

IInv == TypeOK /\ HandlersInTime /\ RecordsLast /\ RemovedIsPast
-----------------------------------------------------------------------------
(* A handler is idle or serves exactly the request it names.               *)
LEMMA HandlerStates ==
  ASSUME TypeOK, NEW c \in Handlers
  PROVE  /\ handler[c] = Idle => \A r \in Requests : ~Serves(c, r)
         /\ \A r \in Requests : Serves(c, r) =>
              /\ handler[c].serving
              /\ handler[c].request = r
              /\ handler[c].startedAt \in Nat
              /\ stamp[r] \in Nat
<1>1. handler[c] = Idle => ~handler[c].serving
  BY DEF Idle
<1>2. ASSUME NEW r \in Requests, Serves(c, r)
      PROVE  /\ handler[c].startedAt \in Nat
             /\ stamp[r] \in Nat
  <2>1. handler[c] # Idle
    BY <1>1, <1>2 DEF Serves
  <2>2. handler[c] \in Verifying
    BY <2>1 DEF TypeOK
  <2> QED
    BY <1>2, <2>2 DEF TypeOK, Verifying
<1> QED
  BY <1>1, <1>2 DEF Serves

(* No handler serves a request whose record is gone: its insert would come *)
(* after the last moment at which its check can have succeeded.            *)
LEMMA NoLateHandler ==
  ASSUME IInv, NEW c \in Handlers, NEW r \in Requests, Serves(c, r), nonce[r] = None
  PROVE  accepted[r] = 0
<1> USE DEF IInv
<1>1. /\ handler[c].startedAt \in Nat
      /\ stamp[r] \in Nat
      /\ now \in Nat
  BY HandlerStates DEF TypeOK
<1>2. now <= stamp[r] + MaxSkew + MaxPause
  BY <1>1, SignedRequestsAssumption
     DEF HandlersInTime, Distance, ConfigAssumption, PauseAssumption
<1>3. SUFFICES ASSUME accepted[r] # 0 PROVE FALSE
  OBVIOUS
<1>4. stamp[r] + NonceTtl <= now
  BY <1>3 DEF RemovedIsPast
<1> QED
  BY <1>1, <1>2, <1>4, SignedRequestsAssumption DEF ConfigAssumption, PauseAssumption

(* The initial state has no request and no record.                         *)
LEMMA InitInv == Init => IInv
  BY DEF Init, IInv, TypeOK, HandlersInTime, RecordsLast, RemovedIsPast, None,
         Idle, Verifying, Serves
-----------------------------------------------------------------------------
(* Every step keeps the invariant.                                         *)
LEMMA NextInv == IInv /\ [Next]_vars => IInv'
<1> SUFFICES ASSUME IInv, [Next]_vars PROVE IInv'
  OBVIOUS
<1> USE SignedRequestsAssumption DEF IInv, ConfigAssumption, PauseAssumption
<1>1. ASSUME NEW r \in Requests, SignWorkerRequest(r) PROVE IInv'
  <2>1. TypeOK'
    BY <1>1 DEF SignWorkerRequest, TypeOK, Serves
  <2>2. \A c \in Handlers : ~Serves(c, r)
    BY <1>1, HandlerStates DEF SignWorkerRequest, TypeOK, None
  <2>3. HandlersInTime'
    BY <1>1, <2>2 DEF SignWorkerRequest, TypeOK, HandlersInTime, Serves
  <2>4. nonce[r] = None /\ accepted[r] = 0
    BY <1>1 DEF SignWorkerRequest, RecordsLast, RemovedIsPast
  <2>5. RecordsLast' /\ RemovedIsPast'
    BY <1>1, <2>4 DEF SignWorkerRequest, TypeOK, RecordsLast, RemovedIsPast
  <2> QED
    BY <2>1, <2>3, <2>5
<1>2. ASSUME NEW c \in Handlers, NEW r \in Requests, VerifyWorkerRequest(c, r)
      PROVE  IInv'
  <2> USE <1>2 DEF VerifyWorkerRequest
  <2>1. TypeOK'
    BY DEF TypeOK, Serves, Idle, Verifying
  <2>2. ASSUME NEW d \in Handlers, NEW q \in Requests, Serves(d, q)'
        PROVE  \/ Serves(d, q) /\ handler'[d] = handler[d]
               \/ q = r /\ handler'[d].startedAt = now
    BY <2>2 DEF TypeOK, Serves
  <2>3. HandlersInTime'
    <3> SUFFICES ASSUME NEW d \in Handlers, NEW q \in Requests, Serves(d, q)'
                 PROVE  /\ handler'[d].startedAt <= now
                        /\ now <= handler'[d].startedAt + MaxPause
                        /\ Distance(handler'[d].startedAt, stamp[q]) <= MaxSkew
      BY DEF HandlersInTime, Distance
    <3> QED
      BY <2>2 DEF HandlersInTime, Fresh, TypeOK
  <2>4. RecordsLast' /\ RemovedIsPast'
    BY DEF RecordsLast, RemovedIsPast
  <2> QED
    BY <2>1, <2>3, <2>4
<1>3. ASSUME NEW c \in Handlers, NEW r \in Requests, ConsumeNonce(c, r)
      PROVE  IInv'
  <2> USE <1>3 DEF ConsumeNonce
  <2>1. /\ handler[c].startedAt \in Nat
        /\ stamp[r] \in Nat
        /\ NonceExpiresAt(handler[c].startedAt, r) \in Nat
        /\ stamp[r] + NonceTtl <= NonceExpiresAt(handler[c].startedAt, r)
        /\ NonceExpiresAt(handler[c].startedAt, r) # None
    BY HandlerStates DEF NonceExpiresAt, Later, None
  <2>2. accepted[r] = 0
    BY NoLateHandler
  <2>3. TypeOK'
    BY <2>1 DEF TypeOK, Serves, Idle
  <2>4. HandlersInTime'
    BY DEF TypeOK, HandlersInTime, Serves, Idle
  <2>5. RecordsLast' /\ RemovedIsPast'
    BY <2>1, <2>2 DEF TypeOK, RecordsLast, RemovedIsPast, None
  <2> QED
    BY <2>3, <2>4, <2>5
<1>4. ASSUME NEW c \in Handlers, NEW r \in Requests, RefuseReplay(c, r)
      PROVE  IInv'
  <2> USE <1>4 DEF RefuseReplay
  <2>1. TypeOK' /\ HandlersInTime'
    BY DEF TypeOK, HandlersInTime, Serves, Idle
  <2>2. RecordsLast' /\ RemovedIsPast'
    BY DEF RecordsLast, RemovedIsPast
  <2> QED
    BY <2>1, <2>2
<1>5. ASSUME NEW r \in Requests, RemoveExpired(r) PROVE IInv'
  <2> USE <1>5 DEF RemoveExpired
  <2>1. TypeOK' /\ HandlersInTime'
    BY DEF TypeOK, HandlersInTime, Serves
  <2>2. nonce[r] \in Nat /\ accepted[r] = 1 /\ stamp[r] \in Nat
    BY DEF TypeOK, RecordsLast
  <2>3. RecordsLast' /\ RemovedIsPast'
    BY <2>2 DEF TypeOK, RecordsLast, RemovedIsPast
  <2> QED
    BY <2>1, <2>3
<1>6. CASE Tick
  <2> USE <1>6 DEF Tick
  <2>1. TypeOK'
    BY DEF TypeOK, Serves
  <2>2. HandlersInTime'
    <3> SUFFICES ASSUME NEW c \in Handlers, NEW r \in Requests, Serves(c, r)
                 PROVE  /\ handler[c].startedAt <= now + 1
                        /\ now + 1 <= handler[c].startedAt + MaxPause
                        /\ Distance(handler[c].startedAt, stamp[r]) <= MaxSkew
      BY DEF HandlersInTime, Distance, Serves
    <3>1. handler[c].startedAt \in Nat /\ now \in Nat /\ handler[c].serving
      BY HandlerStates DEF TypeOK
    <3> QED
      BY <3>1 DEF HandlersInTime
  <2>3. RecordsLast' /\ RemovedIsPast'
    BY DEF TypeOK, RecordsLast, RemovedIsPast, None
  <2> QED
    BY <2>1, <2>2, <2>3
<1>7. CASE UNCHANGED vars
  BY <1>7 DEF vars, TypeOK, HandlersInTime, RecordsLast, RemovedIsPast, Serves,
              Distance
<1> QED
  BY <1>1, <1>2, <1>3, <1>4, <1>5, <1>6, <1>7 DEF Next
-----------------------------------------------------------------------------
(* The invariant holds in every reachable state.                           *)
LEMMA Invariant == Spec => []IInv
  BY InitInv, NextInv, PTL DEF Spec

(* However many copies of a signed request the network delivers, and       *)
(* whenever MongoDB removes the record of its nonce, the request passes    *)
(* verification at most once (protocol.ts:133).                            *)
THEOREM AcceptedAtMostOnce == Spec => []AtMostOnce
<1>1. IInv => AtMostOnce
  <2> SUFFICES ASSUME IInv, NEW r \in Requests PROVE accepted[r] <= 1
    BY DEF AtMostOnce
  <2>1. accepted[r] = 0 \/ accepted[r] = 1
    BY DEF IInv, RecordsLast, RemovedIsPast
  <2> QED
    BY <2>1
<1> QED
  BY <1>1, Invariant, PTL

(* A request is accepted only while its stamp is in reach, although its    *)
(* acceptance follows its check.                                           *)
THEOREM AcceptedInItsWindow == Spec => AcceptedInWindow
<1>1. IInv /\ [Next]_vars =>
        [\A r \in Requests : accepted'[r] # accepted[r] =>
           /\ now <= stamp[r] + MaxSkew + MaxPause
           /\ stamp[r] <= now + MaxSkew]_vars
  <2> SUFFICES ASSUME IInv, Next, NEW r \in Requests, accepted'[r] # accepted[r]
               PROVE  /\ now <= stamp[r] + MaxSkew + MaxPause
                      /\ stamp[r] <= now + MaxSkew
    OBVIOUS
  <2>1. PICK c \in Handlers : ConsumeNonce(c, r)
    <3>1. PICK c \in Handlers, q \in Requests : ConsumeNonce(c, q)
      BY DEF Next, SignWorkerRequest, VerifyWorkerRequest, RefuseReplay,
             RemoveExpired, Tick
    <3>2. q = r
      BY <3>1 DEF ConsumeNonce, IInv, TypeOK
    <3> QED
      BY <3>1, <3>2
  <2>2. /\ handler[c].startedAt \in Nat /\ stamp[r] \in Nat /\ now \in Nat
        /\ Serves(c, r)
    BY <2>1, HandlerStates DEF ConsumeNonce, IInv, TypeOK
  <2> QED
    BY <2>2, SignedRequestsAssumption
       DEF IInv, HandlersInTime, Distance, ConfigAssumption, PauseAssumption
<1> QED
  BY <1>1, Invariant, PTL DEF Spec, AcceptedInWindow

-----------------------------------------------------------------------------
(* The limit on password guesses.                                          *)

ThrottleInv == Throttle!TypeOK /\ Throttle!GuessesBounded

\* What a call of the limiter leaves, in numbers.
LEMMA CallFacts ==
  ASSUME ThrottleInv, NEW w \in Processes, NEW n \in Nat, Throttle!Consume(w, n)
  PROVE  /\ consumed' \in 0 .. Throttle!Most
         /\ remembered' \subseteq Processes
         /\ consumed' = IF consumed + n > Points + 2 THEN Points + 2 ELSE consumed + n
  BY AccountsAssumption
     DEF ThrottleInv, Throttle!TypeOK, Throttle!Consume, Throttle!AtMost, Throttle!Most

\* A guess that is answered is one less in flight.
LEMMA AnsweredTypes ==
  ASSUME ThrottleInv, NEW w \in Processes, verifying[w] > 0, Throttle!Answered(w)
  PROVE  verifying' \in [Processes -> 0 .. MaxGuesses]
  BY AccountsAssumption DEF ThrottleInv, Throttle!TypeOK, Throttle!Answered

\* The limit is kept by every step of a guess and of the limiter.
LEMMA ThrottleStep == ThrottleInv /\ [Throttle!Next]_throttleVars => ThrottleInv'
<1> SUFFICES ASSUME ThrottleInv, [Throttle!Next]_throttleVars PROVE ThrottleInv'
  OBVIOUS
<1> USE AccountsAssumption
<1>1. ASSUME NEW w \in Processes, NEW passes \in BOOLEAN, Throttle!Arrive(w, passes)
      PROVE  ThrottleInv'
  <2>1. /\ consumed' \in 0 .. Throttle!Most
        /\ remembered' \subseteq Processes
        /\ consumed' = IF consumed + 1 > Points + 2 THEN Points + 2 ELSE consumed + 1
    BY <1>1, CallFacts DEF Throttle!Arrive
  <2>2. CASE Throttle!Allows(1) /\ passes
    <3>1. /\ verifying' = [verifying EXCEPT ![w] = @ + 1] /\ verifying[w] < MaxGuesses
          /\ admitted' = admitted + 1 /\ UNCHANGED charged /\ consumed + 1 <= Points
      BY <1>1, <2>2 DEF Throttle!Arrive, Throttle!Allows
    <3>2. Throttle!TypeOK'
      BY <2>1, <3>1 DEF ThrottleInv, Throttle!TypeOK, Throttle!Most
    <3>3. Throttle!GuessesBounded'
      BY <2>1, <3>1 DEF ThrottleInv, Throttle!TypeOK, Throttle!GuessesBounded,
                        Throttle!AtMost, Throttle!Most
    <3> QED
      BY <3>2, <3>3 DEF ThrottleInv
  <2>3. CASE ~(Throttle!Allows(1) /\ passes)
    BY <1>1, <2>1, <2>3 DEF Throttle!Arrive, ThrottleInv, Throttle!TypeOK,
                        Throttle!GuessesBounded, Throttle!AtMost, Throttle!Most
  <2> QED
    BY <2>2, <2>3
<1>2. ASSUME NEW w \in Processes, Throttle!Wrong(w)
      PROVE  ThrottleInv'
  <2>1. /\ consumed' \in 0 .. Throttle!Most
        /\ remembered' \subseteq Processes
        /\ consumed' = IF consumed + 2 > Points + 2 THEN Points + 2 ELSE consumed + 2
    BY <1>2, CallFacts DEF Throttle!Wrong, Throttle!Penalty
  <2>2. verifying' \in [Processes -> 0 .. MaxGuesses]
    BY <1>2, AnsweredTypes DEF Throttle!Wrong
  <2> QED
    BY <1>2, <2>1, <2>2 DEF Throttle!Wrong, ThrottleInv, Throttle!TypeOK,
                        Throttle!GuessesBounded, Throttle!AtMost, Throttle!Most
<1>3. ASSUME NEW w \in Processes, Throttle!Right(w) \/ Throttle!AnsweredOnly(w)
      PROVE  ThrottleInv'
  <2>1. verifying' \in [Processes -> 0 .. MaxGuesses]
    BY <1>3, AnsweredTypes DEF Throttle!Right, Throttle!AnsweredOnly
  <2> QED
    BY <1>3, <2>1 DEF Throttle!Right, Throttle!AnsweredOnly, Throttle!Restart, ThrottleInv,
              Throttle!TypeOK, Throttle!GuessesBounded, Throttle!AtMost, Throttle!Most
<1>4. ASSUME \/ Throttle!WindowEnds \/ UNCHANGED throttleVars
             \/ \E w \in Processes : Throttle!MemoryEnds(w)
      PROVE  ThrottleInv'
  BY <1>4 DEF Throttle!WindowEnds, Throttle!MemoryEnds, throttleVars, Throttle!Restart,
              ThrottleInv, Throttle!TypeOK, Throttle!GuessesBounded, Throttle!AtMost,
              Throttle!Most
<1> QED
  BY <1>1, <1>2, <1>3, <1>4 DEF Throttle!Next

\* Nobody has guessed in the beginning.
LEMMA ThrottleInit == Throttle!Init => ThrottleInv
  BY AccountsAssumption DEF Throttle!Init, ThrottleInv, Throttle!TypeOK,
     Throttle!GuessesBounded, Throttle!AtMost, Throttle!Most

-----------------------------------------------------------------------------
(* One account.                                                            *)

Unspent == Account!Unspent(tokens, "reset_password")

\* The version in the user counts the resets; only a known address is verified.
UserFits == user.version = resets /\ (user.verified => user.exists)

\* What an open transaction has seen still is so, or somebody would have
\* aborted it: a registration's address is not verified, the token of a
\* verification or a reset is in what it writes, and that of a reset unspent.
OpenFits(tx) ==
  /\ tx.op = "register" => "user" \in tx.writes /\ ~user.verified
  /\ tx.op = "verify" => user.exists /\ {"user", tx.token} \subseteq tx.writes
  /\ tx.op = "reset" => tx.token \in tx.writes /\ tx.token \in Unspent

RequestsFit == \A p \in AccountRequests : OpenFits(requests[p])

\* A session carries the version of the resets its user was read after.
LoginsFit ==
  \A l \in Logins : /\ logins[l].version = logins[l].sawResets
                    /\ logins[l].stage # "idle" => user.exists
SessionsFit == \A s \in Sessions : sessions[s].version = sessions[s].sawResets

CheckFits(check) ==
  check.stage # "idle" =>
    /\ check.session \in Sessions
    /\ sessions[check.session].state # "free"
    /\ check.resets <= resets
    /\ check.stage = "accepted" => sessions[check.session].sawResets >= check.resets
ChecksFit == \A c \in Checks : CheckFits(checks[c])

AccountInv ==
  /\ Account!TypeOK
  /\ UserFits /\ RequestsFit /\ LoginsFit /\ SessionsFit /\ ChecksFit

\* What is in the store has its type.
LEMMA AccountTypes ==
  ASSUME AccountInv
  PROVE  /\ user \in Account!User /\ user.version \in Nat
         /\ \A t \in Tokens : tokens[t] \in Account!Token
         /\ \A s \in Sessions : sessions[s] \in Account!Session
         /\ \A p \in AccountRequests : requests[p] \in Account!Request
         /\ resets \in Nat
  BY AccountsAssumption DEF AccountInv, Account!TypeOK, Account!User

\* Writing D leaves the transactions that write none of it, and ends p.
LEMMA TouchFacts ==
  ASSUME AccountInv, NEW D, NEW p, Account!Touch(D, p)
  PROVE  /\ requests' \in [AccountRequests -> Account!Request]
         /\ \A q \in AccountRequests :
              \/ requests'[q] = Account!Idle
              \/ /\ requests'[q] = requests[q]
                 /\ requests[q].op \in Account!Operations => requests[q].writes \cap D = {}
  BY DEF AccountInv, Account!TypeOK, Account!Touch, Account!Request

\* A transaction that nobody aborted fits as before, whatever others wrote.
LEMMA RequestsLast ==
  ASSUME AccountInv, NEW D,
         \A q \in AccountRequests :
           \/ requests'[q].op \notin Account!Operations
           \/ /\ requests'[q] = requests[q]
              /\ requests[q].writes \cap D = {},
         user.exists => user'.exists,
         user'.verified = user.verified \/ "user" \in D,
         \A t \in Unspent : t \in Unspent' \/ t \in D
  PROVE  RequestsFit'
<1>1. ASSUME NEW q \in AccountRequests
      PROVE  OpenFits(requests[q])'
  <2>1. CASE requests'[q].op \notin Account!Operations
    BY <2>1 DEF OpenFits, Account!Operations
  <2>2. CASE requests'[q] = requests[q] /\ requests[q].writes \cap D = {}
    <3>1. OpenFits(requests[q])
      BY DEF AccountInv, RequestsFit
    <3> QED
      BY <2>2, <3>1 DEF OpenFits
  <2> QED
    BY <2>1, <2>2
<1> QED
  BY <1>1 DEF RequestsFit

\* The same of a write to D that ends p.
LEMMA TouchLast ==
  ASSUME AccountInv, NEW D, NEW p, Account!Touch(D, p),
         user.exists => user'.exists,
         user'.verified = user.verified \/ "user" \in D,
         \A t \in Unspent : t \in Unspent' \/ t \in D
  PROVE  RequestsFit' /\ requests' \in [AccountRequests -> Account!Request]
<1>1. Account!Idle.op \notin Account!Operations
  BY DEF Account!Idle, Account!Operations
<1>2. \A q \in AccountRequests :
        \/ requests'[q].op \notin Account!Operations
        \/ /\ requests'[q] = requests[q]
           /\ requests[q].writes \cap D = {}
  BY <1>1, TouchFacts
<1> QED
  BY <1>2, TouchFacts, RequestsLast

\* Checks under way fit while no session is replaced and no reset forgotten.
LEMMA ChecksLast ==
  ASSUME AccountInv, UNCHANGED checks, resets' \in Nat, resets <= resets',
         \A s \in Sessions : sessions[s].state # "free" =>
           sessions'[s].state # "free" /\ sessions'[s].sawResets = sessions[s].sawResets
  PROVE  ChecksFit'
<1>1. ASSUME NEW c \in Checks
      PROVE  CheckFits(checks[c])'
  <2>1. CheckFits(checks[c]) /\ checks[c].resets \in Nat /\ resets \in Nat
    BY AccountsAssumption DEF AccountInv, ChecksFit, Account!TypeOK, Account!Check
  <2> QED
    BY <2>1 DEF CheckFits
<1> QED
  BY <1>1 DEF ChecksFit

\* Spending tokens spends those, and issuing one uses a free identity.
LEMMA SpendFacts ==
  ASSUME AccountInv, NEW S, tokens' = Account!Spend(tokens, S)
  PROVE  /\ tokens' \in [Tokens -> Account!Token]
         /\ \A t \in Unspent : t \in Unspent' \/ t \in S
  BY DEF AccountInv, Account!TypeOK, Account!Token, Account!Spend, Unspent, Account!Unspent

\* The same where a new token is issued as well.
LEMMA IssueFacts ==
  ASSUME AccountInv, NEW S, NEW t \in Tokens, tokens[t].state = "free",
         NEW kind \in Account!Kinds,
         tokens' = Account!Issue(Account!Spend(tokens, S), t, kind)
  PROVE  /\ tokens' \in [Tokens -> Account!Token]
         /\ \A x \in Unspent : x \in Unspent' \/ x \in S
<1>1. \A x \in Tokens : tokens'[x] =
        IF x = t THEN [state |-> "unused", kind |-> kind]
        ELSE IF x \in S THEN [tokens[x] EXCEPT !.state = "used"] ELSE tokens[x]
  BY DEF Account!Issue, Account!Spend
<1>2. tokens' = [x \in Tokens |-> tokens'[x]]
  BY DEF Account!Issue, Account!Spend
<1>3. \A x \in Tokens : tokens'[x] \in Account!Token
  <2>1. [state |-> "unused", kind |-> kind] \in Account!Token
    BY DEF Account!Token
  <2>2. \A x \in Tokens : /\ tokens[x] \in Account!Token
                          /\ [tokens[x] EXCEPT !.state = "used"] \in Account!Token
    BY DEF AccountInv, Account!TypeOK, Account!Token
  <2> QED
    BY <1>1, <2>1, <2>2
<1>4. t \notin Unspent
  BY DEF Unspent, Account!Unspent
<1> QED
  BY <1>1, <1>2, <1>3, <1>4 DEF Unspent, Account!Unspent

\* Opening a transaction, with what its snapshot showed.
LEMMA BeginKeeps ==
  ASSUME AccountInv, NEW p \in AccountRequests, NEW op \in Account!Operations,
         NEW password \in Passwords \cup {Nothing}, NEW t \in Tokens \cup {Nothing},
         NEW writes \in SUBSET Account!Documents,
         Account!Begin(p, op, password, t, writes),
         OpenFits([op |-> op, password |-> password, token |-> t, writes |-> writes])
  PROVE  AccountInv'
<1> DEFINE tx == [op |-> op, password |-> password, token |-> t, writes |-> writes]
<1>1. tx \in Account!Request
  BY DEF Account!Request, Account!Transaction
<1>2. OpenFits(tx)
  OBVIOUS
<1>3. /\ requests' = [requests EXCEPT ![p] = tx]
      /\ UNCHANGED <<user, tokens, sessions, logins, checks, resets>>
  BY DEF Account!Begin
<1> HIDE DEF tx
<1>4. Account!TypeOK'
  BY <1>1, <1>3 DEF AccountInv, Account!TypeOK
<1>5. RequestsFit'
  BY <1>2, <1>3 DEF AccountInv, Account!TypeOK, RequestsFit, OpenFits, Unspent
<1> QED
  BY <1>3, <1>4, <1>5 DEF AccountInv, UserFits, LoginsFit, SessionsFit, ChecksFit, CheckFits

\* A request that begins reads the tokens as they are.
LEMMA BeginStep ==
  ASSUME AccountInv, NEW p \in AccountRequests,
         \/ \E password \in Passwords : Account!BeginRegister(p, password)
         \/ Account!BeginResend(p)
         \/ \E t \in Tokens : Account!BeginVerify(p, t)
         \/ \E t \in Tokens, password \in Passwords : Account!BeginReset(p, t, password)
  PROVE  AccountInv'
<1>1. ASSUME NEW kind
      PROVE  Account!Unspent(tokens, kind) \subseteq Account!Documents
  BY DEF Account!Unspent, Account!Documents
<1>2. ASSUME NEW password \in Passwords, Account!BeginRegister(p, password)
      PROVE  AccountInv'
  <2> DEFINE writes == {"user"} \cup Account!Unspent(tokens, "verify_email")
  <2>1. writes \in SUBSET Account!Documents /\ "register" \in Account!Operations
    BY <1>1 DEF Account!Documents, Account!Operations
  <2>2. ~user.verified
    BY <1>2 DEF Account!BeginRegister, Account!RegisterAllowed, AccountInv, UserFits
  <2>3. OpenFits([op |-> "register", password |-> password, token |-> Nothing,
                  writes |-> writes])
    BY <2>2 DEF OpenFits
  <2>4. Account!Begin(p, "register", password, Nothing, writes)
    BY <1>2 DEF Account!BeginRegister
  <2> HIDE DEF writes
  <2> QED
    BY <2>1, <2>3, <2>4, BeginKeeps
<1>3. CASE Account!BeginResend(p)
  <2> DEFINE writes == Account!Unspent(tokens, "verify_email")
  <2>1. writes \in SUBSET Account!Documents /\ "resend" \in Account!Operations
    BY <1>1 DEF Account!Operations
  <2>2. OpenFits([op |-> "resend", password |-> Nothing, token |-> Nothing,
                  writes |-> writes])
    BY DEF OpenFits
  <2>3. Account!Begin(p, "resend", Nothing, Nothing, writes)
    BY <1>3 DEF Account!BeginResend
  <2> HIDE DEF writes
  <2> QED
    BY <2>1, <2>2, <2>3, BeginKeeps
<1>4. ASSUME NEW t \in Tokens, Account!BeginVerify(p, t)
      PROVE  AccountInv'
  <2> DEFINE writes == {"user", t}
  <2>1. writes \in SUBSET Account!Documents /\ "verify" \in Account!Operations
    BY DEF Account!Documents, Account!Operations
  <2>2. OpenFits([op |-> "verify", password |-> Nothing, token |-> t, writes |-> writes])
    BY <1>4 DEF OpenFits, Account!BeginVerify, Account!Active
  <2>3. Account!Begin(p, "verify", Nothing, t, writes)
    BY <1>4 DEF Account!BeginVerify
  <2> HIDE DEF writes
  <2> QED
    BY <2>1, <2>2, <2>3, BeginKeeps
<1>5. ASSUME NEW t \in Tokens, NEW password \in Passwords,
             Account!BeginReset(p, t, password)
      PROVE  AccountInv'
  <2> DEFINE writes == {"user", t} \cup Account!Unrevoked
  <2>1. writes \in SUBSET Account!Documents /\ "reset" \in Account!Operations
    BY DEF Account!Documents, Account!Operations, Account!Unrevoked
  <2>2. OpenFits([op |-> "reset", password |-> password, token |-> t, writes |-> writes])
    BY <1>5 DEF OpenFits, Account!BeginReset, Account!Consumable, Unspent, Account!Unspent
  <2>3. Account!Begin(p, "reset", password, t, writes)
    BY <1>5 DEF Account!BeginReset
  <2> HIDE DEF writes
  <2> QED
    BY <2>1, <2>2, <2>3, BeginKeeps
<1> QED
  BY <1>2, <1>3, <1>4, <1>5

\* A transaction commits.
LEMMA CommitStep ==
  ASSUME AccountInv, NEW p \in AccountRequests,
         \/ Account!CommitRegister(p) \/ Account!CommitResend(p)
         \/ Account!CommitVerify(p) \/ Account!CommitReset(p)
  PROVE  AccountInv'
<1> DEFINE tx == requests[p]
<1>1. /\ requests[p] \in Account!Request /\ OpenFits(requests[p])
      /\ user \in Account!User /\ resets \in Nat /\ UserFits
      /\ sessions \in [Sessions -> Account!Session]
  BY AccountTypes DEF AccountInv, RequestsFit, Account!TypeOK
<1>2. ASSUME tx.op \in Account!Operations
      PROVE  tx.password \in Passwords \cup {Nothing}
  BY <1>1, <1>2 DEF Account!Request, Account!Transaction, Account!Idle, Account!Operations
\* What a commit does to the user and the sessions decides the rest.
<1>3. ASSUME Account!Touch(tx.writes, p),
             user' \in Account!User, user.exists => user'.exists,
             user'.verified => user'.exists,
             user'.verified = user.verified \/ "user" \in tx.writes,
             resets' \in 0 .. MaxResets, user'.version = resets', resets <= resets',
             tokens' \in [Tokens -> Account!Token],
             \A t \in Unspent : t \in Unspent' \/ t \in tx.writes,
             sessions' \in [Sessions -> Account!Session],
             \A s \in Sessions :
               /\ sessions[s].state # "free" => sessions'[s].state # "free"
               /\ sessions'[s].version = sessions[s].version
               /\ sessions'[s].sawResets = sessions[s].sawResets,
             UNCHANGED <<logins, checks>>
      PROVE  AccountInv'
  <2>1. RequestsFit' /\ requests' \in [AccountRequests -> Account!Request]
    BY <1>3, TouchLast
  <2>2. ChecksFit'
    BY <1>3, ChecksLast, AccountsAssumption
  <2>3. Account!TypeOK'
    BY <1>3, <2>1 DEF AccountInv, Account!TypeOK
  <2>4. UserFits' /\ LoginsFit' /\ SessionsFit'
    BY <1>3 DEF AccountInv, UserFits, LoginsFit, SessionsFit
  <2> QED
    BY <2>1, <2>2, <2>3, <2>4 DEF AccountInv
<1>4. ASSUME Account!ReissueVerification(p)
      PROVE  /\ Account!Touch(tx.writes, p)
             /\ tokens' \in [Tokens -> Account!Token]
             /\ \A t \in Unspent : t \in Unspent' \/ t \in tx.writes
  <2>1. PICK t \in Tokens :
          /\ tokens[t].state = "free"
          /\ tokens' = Account!Issue(Account!Spend(tokens, tx.writes \cap Tokens),
                                     t, "verify_email")
          /\ Account!Touch(tx.writes, p)
    BY <1>4 DEF Account!ReissueVerification
  <2>2. "verify_email" \in Account!Kinds
    BY DEF Account!Kinds
  <2>3. /\ tokens' \in [Tokens -> Account!Token]
        /\ \A x \in Unspent : x \in Unspent' \/ x \in tx.writes \cap Tokens
    BY <2>1, <2>2, IssueFacts
  <2> QED
    BY <2>1, <2>3
<1>5. ASSUME tokens' = Account!Spend(tokens, {tx.token}), tx.token \in tx.writes
      PROVE  /\ tokens' \in [Tokens -> Account!Token]
             /\ \A t \in Unspent : t \in Unspent' \/ t \in tx.writes
  BY <1>5, SpendFacts
<1>6. CASE Account!CommitRegister(p)
  <2>1. /\ tx.op = "register"
        /\ user' = [user EXCEPT !.exists = TRUE, !.password = tx.password]
        /\ UNCHANGED <<sessions, logins, checks, resets>>
    BY <1>6 DEF Account!CommitRegister
  <2>2. user' \in Account!User /\ user'.exists /\ user'.verified = user.verified
        /\ user'.version = user.version
    BY <1>1, <1>2, <2>1 DEF Account!User, Account!Operations
  <2>3. resets \in 0 .. MaxResets
    BY DEF AccountInv, Account!TypeOK
  <2> QED
    BY <1>1, <1>3, <1>4, <1>6, <2>1, <2>2, <2>3 DEF Account!CommitRegister, UserFits
<1>7. CASE Account!CommitResend(p)
  <2>1. resets \in 0 .. MaxResets
    BY DEF AccountInv, Account!TypeOK
  <2> QED
    BY <1>1, <1>3, <1>4, <1>7, <2>1 DEF Account!CommitResend, UserFits
<1>8. CASE Account!CommitVerify(p)
  <2>1. /\ tx.op = "verify" /\ user' = [user EXCEPT !.verified = TRUE]
        /\ tokens' = Account!Spend(tokens, {tx.token})
        /\ Account!Touch(tx.writes, p)
        /\ UNCHANGED <<sessions, logins, checks, resets>>
    BY <1>8 DEF Account!CommitVerify
  <2>2. /\ user' \in Account!User /\ user'.exists = user.exists /\ user.exists
        /\ user'.version = user.version
        /\ {"user", tx.token} \subseteq tx.writes
    BY <1>1, <2>1 DEF Account!User, OpenFits
  <2>3. resets \in 0 .. MaxResets
    BY DEF AccountInv, Account!TypeOK
  <2>4. /\ tokens' \in [Tokens -> Account!Token]
        /\ \A t \in Unspent : t \in Unspent' \/ t \in tx.writes
    BY <1>5, <2>1, <2>2
  <2>5. user'.version = resets' /\ resets' \in 0 .. MaxResets /\ resets <= resets'
    BY <1>1, <2>1, <2>2, <2>3 DEF UserFits
  <2>6. "user" \in tx.writes
    BY <2>2
  <2> QED
    BY <1>1, <1>3, <2>1, <2>2, <2>4, <2>5, <2>6
<1>9. CASE Account!CommitReset(p)
  <2>1. /\ tx.op = "reset" /\ resets < MaxResets /\ resets' = resets + 1
        /\ user' = [user EXCEPT !.password = tx.password, !.version = @ + 1]
        /\ tokens' = Account!Spend(tokens, {tx.token})
        /\ Account!Touch(tx.writes, p)
        /\ sessions' = [s \in Sessions |->
              IF s \in tx.writes THEN [sessions[s] EXCEPT !.state = "revoked"]
                                 ELSE sessions[s]]
        /\ UNCHANGED <<logins, checks>>
    BY <1>9 DEF Account!CommitReset, Account!ResetUser
  <2>2. resets' \in 0 .. MaxResets
    BY <1>1, <2>1, AccountsAssumption
  <2>3. /\ user' \in Account!User /\ user'.version = resets'
        /\ user'.exists = user.exists /\ user'.verified = user.verified
    BY <1>1, <1>2, <2>1, <2>2, AccountsAssumption
       DEF Account!User, UserFits, Account!Operations
  <2>4. /\ sessions' \in [Sessions -> Account!Session]
        /\ \A s \in Sessions :
             /\ sessions[s].state # "free" => sessions'[s].state # "free"
             /\ sessions'[s].version = sessions[s].version
             /\ sessions'[s].sawResets = sessions[s].sawResets
    BY <1>1, <2>1 DEF Account!Session
  <2>5. tx.token \in tx.writes
    BY <1>1, <2>1 DEF OpenFits
  <2>6. /\ tokens' \in [Tokens -> Account!Token]
        /\ \A t \in Unspent : t \in Unspent' \/ t \in tx.writes
    BY <1>5, <2>1, <2>5
  <2>7. resets <= resets' /\ (user'.verified => user'.exists)
    BY <1>1, <2>1, <2>3 DEF UserFits
  <2> QED
    BY <1>3, <2>1, <2>2, <2>3, <2>4, <2>6, <2>7
<1> QED
  BY <1>6, <1>7, <1>8, <1>9

\* A request for a reset link, step by step, and what ends a request early.
LEMMA ForgotStep ==
  ASSUME AccountInv, NEW p \in AccountRequests,
         \/ Account!Rollback(p) \/ Account!ForgotRead(p) \/ Account!ForgotCrash(p)
         \/ Account!ForgotInvalidate(p) \/ Account!ForgotIssue(p)
  PROVE  AccountInv'
<1>1. ASSUME NEW D,
             requests' \in [AccountRequests -> Account!Request],
             \A q \in AccountRequests :
               \/ requests'[q].op \notin Account!Operations
               \/ requests'[q] = requests[q] /\ requests[q].writes \cap D = {},
             tokens' \in [Tokens -> Account!Token],
             \A t \in Unspent : t \in Unspent' \/ t \in D,
             UNCHANGED <<user, sessions, logins, checks, resets>>
      PROVE  AccountInv'
  <2>1. RequestsFit'
    BY <1>1, RequestsLast
  <2>2. Account!TypeOK'
    BY <1>1 DEF AccountInv, Account!TypeOK
  <2> QED
    BY <1>1, <2>1, <2>2
       DEF AccountInv, UserFits, LoginsFit, SessionsFit, ChecksFit, CheckFits
<1>2. tokens \in [Tokens -> Account!Token] /\ requests \in [AccountRequests -> Account!Request]
  BY DEF AccountInv, Account!TypeOK
<1>3. ASSUME NEW new \in Account!Request, new.op \notin Account!Operations,
             requests' = [requests EXCEPT ![p] = new]
      PROVE  /\ requests' \in [AccountRequests -> Account!Request]
             /\ \A q \in AccountRequests :
                  \/ requests'[q].op \notin Account!Operations
                  \/ requests'[q] = requests[q] /\ requests[q].writes \cap {} = {}
  BY <1>2, <1>3
<1>4. Account!Idle \in Account!Request /\ Account!Idle.op \notin Account!Operations
  BY DEF Account!Idle, Account!Operations, Account!Request
<1>5. CASE Account!Rollback(p) \/ Account!ForgotCrash(p)
  <2>1. requests' = [requests EXCEPT ![p] = Account!Idle]
        /\ UNCHANGED <<user, tokens, sessions, logins, checks, resets>>
    BY <1>5 DEF Account!Rollback, Account!ForgotCrash, Account!End
  <2>2. \A t \in Unspent : t \in Unspent' \/ t \in {}
    BY <2>1 DEF Unspent
  <2> QED
    BY <1>1, <1>2, <1>3, <1>4, <2>1, <2>2
<1>6. CASE Account!ForgotRead(p)
  <2> DEFINE new == [op |-> "forgot", stage |-> "invalidate"]
  <2>1. new \in Account!Request /\ new.op \notin Account!Operations
    BY DEF Account!Request, Account!Operations
  <2>2. requests' = [requests EXCEPT ![p] = new]
        /\ UNCHANGED <<user, tokens, sessions, logins, checks, resets>>
    BY <1>6 DEF Account!ForgotRead
  <2>3. \A t \in Unspent : t \in Unspent' \/ t \in {}
    BY <2>2 DEF Unspent
  <2> HIDE DEF new
  <2> QED
    BY <1>1, <1>2, <1>3, <2>1, <2>2, <2>3
<1>7. CASE Account!ForgotIssue(p)
  <2>1. PICK t \in Tokens : /\ tokens[t].state = "free"
                            /\ tokens' = Account!Issue(tokens, t, "reset_password")
    BY <1>7 DEF Account!ForgotIssue
  <2>2. tokens = Account!Spend(tokens, {})
    BY <1>2 DEF Account!Spend
  <2>3. /\ tokens' \in [Tokens -> Account!Token]
        /\ \A x \in Unspent : x \in Unspent' \/ x \in {}
    BY <2>1, <2>2, IssueFacts DEF Account!Kinds
  <2>4. requests' = [requests EXCEPT ![p] = Account!Idle]
        /\ UNCHANGED <<user, sessions, logins, checks, resets>>
    BY <1>7 DEF Account!ForgotIssue, Account!End
  <2> QED
    BY <1>1, <1>3, <1>4, <2>3, <2>4
<1>8. CASE Account!ForgotInvalidate(p)
  <2>1. /\ requests[p].op = "forgot"
        /\ tokens' = Account!Spend(tokens, Unspent)
        /\ requests' = [q \in AccountRequests |->
             IF q = p THEN [requests[p] EXCEPT !.stage = "issue"]
             ELSE IF /\ requests[q].op \in Account!Operations
                     /\ requests[q].writes \cap Unspent # {}
                  THEN Account!Idle ELSE requests[q]]
        /\ UNCHANGED <<user, sessions, logins, checks, resets>>
    BY <1>8 DEF Account!ForgotInvalidate, Account!Replaced, Unspent
  <2> DEFINE new == [requests[p] EXCEPT !.stage = "issue"]
  <2>2. new \in Account!Request /\ new.op \notin Account!Operations
    <3>1. requests[p] \in [op : {"forgot"}, stage : {"invalidate", "issue"}]
      BY <1>2, <2>1 DEF Account!Request, Account!Transaction, Account!Idle, Account!Operations
    <3>2. new \in [op : {"forgot"}, stage : {"invalidate", "issue"}] /\ new.op = "forgot"
      BY <3>1
    <3> QED
      BY <3>2 DEF Account!Request, Account!Operations
  <2> HIDE DEF new
  <2>3. \A q \in AccountRequests :
          requests'[q] = IF q = p THEN new
             ELSE IF /\ requests[q].op \in Account!Operations
                     /\ requests[q].writes \cap Unspent # {}
                  THEN Account!Idle ELSE requests[q]
    BY <2>1 DEF new
  <2>4. requests' \in [AccountRequests -> Account!Request]
    <3>1. requests' = [q \in AccountRequests |-> requests'[q]]
      BY <2>1
    <3>2. \A q \in AccountRequests : requests'[q] \in Account!Request
      BY <1>2, <1>4, <2>2, <2>3
    <3> QED
      BY <3>1, <3>2
  <2>5. \A q \in AccountRequests :
          \/ requests'[q].op \notin Account!Operations
          \/ requests'[q] = requests[q] /\ requests[q].writes \cap Unspent = {}
    BY <1>4, <2>2, <2>3
  <2>6. /\ tokens' \in [Tokens -> Account!Token]
        /\ \A t \in Unspent : t \in Unspent' \/ t \in Unspent
    BY <2>1, SpendFacts
  <2> QED
    BY <1>1, <2>1, <2>4, <2>5, <2>6
<1> QED
  BY <1>5, <1>6, <1>7, <1>8

\* A step of a sign-in.
LEMMA LoginStep ==
  ASSUME AccountInv, NEW l \in Logins,
         \/ \E password \in Passwords : Account!LoginVerify(l, password)
         \/ Account!MagicLink(l) \/ Account!ProviderSignIn(l)
         \/ Account!ProviderVerified(l) \/ Account!LoginRead(l)
         \/ Account!LoginCreate(l) \/ Account!LoginEnd(l)
  PROVE  AccountInv'
<1>1. /\ user \in Account!User /\ UserFits /\ resets \in 0 .. MaxResets
      /\ logins[l] \in Account!Login /\ logins[l].version = logins[l].sawResets
      /\ logins \in [Logins -> Account!Login]
      /\ sessions \in [Sessions -> Account!Session]
      /\ logins[l].stage # "idle" => user.exists
      /\ Account!NoLogin \in Account!Login
  BY AccountsAssumption
     DEF AccountInv, LoginsFit, Account!TypeOK, Account!Login, Account!NoLogin
<1>2. ASSUME NEW new \in Account!Login, logins' = [logins EXCEPT ![l] = new],
             new.version = new.sawResets, new.stage # "idle" => user'.exists,
             user.exists => user'.exists
      PROVE  logins' \in [Logins -> Account!Login] /\ LoginsFit'
  BY <1>1, <1>2 DEF AccountInv, LoginsFit
\* The steps that write the user.
<1>3. ASSUME user' \in Account!User, user.exists => user'.exists, user'.exists,
             user'.version = user.version, Account!Touch({"user"}, Nothing),
             logins' \in [Logins -> Account!Login], LoginsFit',
             UNCHANGED <<tokens, sessions, checks, resets>>
      PROVE  AccountInv'
  <2>1. RequestsFit' /\ requests' \in [AccountRequests -> Account!Request]
    BY <1>3, TouchLast DEF Unspent
  <2>2. Account!TypeOK'
    BY <1>3, <2>1 DEF AccountInv, Account!TypeOK
  <2> QED
    BY <1>1, <1>3, <2>1, <2>2 DEF AccountInv, UserFits, SessionsFit, ChecksFit, CheckFits
<1>4. CASE \/ \E password \in Passwords : Account!LoginVerify(l, password)
           \/ Account!MagicLink(l) \/ Account!ProviderSignIn(l)
  <2>1. PICK provider \in BOOLEAN : Account!Signed(l, provider)
    BY <1>4 DEF Account!LoginVerify, Account!MagicLink, Account!ProviderSignIn
  <2> DEFINE new == [logins[l] EXCEPT !.stage = "signed", !.provider = provider]
  <2>2. /\ new \in Account!Login /\ new.version = new.sawResets
        /\ logins' = [logins EXCEPT ![l] = new]
    BY <1>1, <2>1 DEF Account!Signed, Account!Login
  <2>3. user' \in Account!User /\ user'.exists /\ user'.version = user.version
    BY <1>1, <1>4 DEF Account!LoginVerify, Account!Active, Account!MagicLink,
                      Account!ProviderSignIn, Account!User
  <2> HIDE DEF new
  <2> QED
    BY <1>2, <1>3, <2>1, <2>2, <2>3 DEF Account!Signed
<1>5. CASE Account!ProviderVerified(l)
  <2>1. user' \in Account!User /\ user'.exists /\ user'.version = user.version
    BY <1>1, <1>5 DEF Account!ProviderVerified, Account!User
  <2>2. Account!NoLogin.version = Account!NoLogin.sawResets
        /\ Account!NoLogin.stage = "idle"
    BY DEF Account!NoLogin
  <2> QED
    BY <1>1, <1>2, <1>3, <1>5, <2>1, <2>2 DEF Account!ProviderVerified
\* The steps that write the sign-in, or store its session.
<1>6. ASSUME logins' \in [Logins -> Account!Login], LoginsFit',
             sessions' \in [Sessions -> Account!Session], SessionsFit',
             \A s \in Sessions : sessions[s].state # "free" => sessions'[s] = sessions[s],
             UNCHANGED <<user, tokens, requests, checks, resets>>
      PROVE  AccountInv'
  <2>1. ChecksFit'
    BY <1>1, <1>6, ChecksLast, AccountsAssumption
  <2>2. Account!TypeOK'
    BY <1>6 DEF AccountInv, Account!TypeOK
  <2> QED
    BY <1>6, <2>1, <2>2 DEF AccountInv, UserFits, RequestsFit, OpenFits, Unspent
<1>7. CASE Account!LoginRead(l)
  <2> DEFINE new == [logins[l] EXCEPT !.stage = "read", !.version = user.version,
                                      !.sawResets = resets]
  <2>1. /\ new \in Account!Login /\ new.version = new.sawResets
        /\ logins' = [logins EXCEPT ![l] = new]
        /\ user.exists /\ UNCHANGED <<user, tokens, sessions, requests, checks, resets>>
    BY <1>1, <1>7 DEF Account!LoginRead, Account!Login, Account!Active, UserFits
  <2>2. SessionsFit'
    BY <2>1 DEF AccountInv, SessionsFit
  <2> HIDE DEF new
  <2> QED
    BY <1>1, <1>2, <1>6, <2>1, <2>2
<1>8. CASE Account!LoginCreate(l)
  <2>1. PICK s \in Sessions :
          /\ sessions[s].state = "free"
          /\ sessions' = [sessions EXCEPT ![s] =
               [state |-> "live", version |-> logins[l].version,
                sawResets |-> logins[l].sawResets]]
    BY <1>8 DEF Account!LoginCreate
  <2>2. sessions' \in [Sessions -> Account!Session] /\ SessionsFit'
    BY <1>1, <2>1 DEF AccountInv, SessionsFit, Account!Session, Account!Login
  <2>3. \E new \in Account!Login :
          /\ logins' = [logins EXCEPT ![l] = new]
          /\ new.version = new.sawResets
    <3>1. /\ [logins[l] EXCEPT !.stage = "event"] \in Account!Login
          /\ logins[l].version = [logins[l] EXCEPT !.stage = "event"].version
          /\ logins[l].sawResets = [logins[l] EXCEPT !.stage = "event"].sawResets
          /\ Account!NoLogin.version = Account!NoLogin.sawResets
      BY <1>1 DEF Account!Login, Account!NoLogin
    <3>2. \/ logins' = [logins EXCEPT ![l] = [logins[l] EXCEPT !.stage = "event"]]
          \/ logins' = [logins EXCEPT ![l] = Account!NoLogin]
      BY <1>1, <1>8 DEF Account!LoginCreate
    <3> QED
      BY <1>1, <3>1, <3>2
  <2>4. user.exists /\ UNCHANGED <<user, tokens, requests, checks, resets>>
    BY <1>1, <1>8 DEF Account!LoginCreate
  <2> QED
    BY <1>2, <1>6, <2>1, <2>2, <2>3, <2>4
<1>9. CASE Account!LoginEnd(l)
  <2>1. /\ Account!NoLogin.version = Account!NoLogin.sawResets
        /\ Account!NoLogin.stage = "idle"
    BY DEF Account!NoLogin
  <2>2. /\ logins' = [logins EXCEPT ![l] = Account!NoLogin]
        /\ UNCHANGED <<user, tokens, sessions, requests, checks, resets>>
    BY <1>9 DEF Account!LoginEnd
  <2>3. SessionsFit'
    BY <2>2 DEF AccountInv, SessionsFit
  <2> QED
    BY <1>1, <1>2, <1>6, <2>1, <2>2, <2>3
<1> QED
  BY <1>4, <1>5, <1>7, <1>8, <1>9

\* A step of an authenticated request.
LEMMA CheckStep ==
  ASSUME AccountInv, NEW c \in Checks,
         \/ \E s \in Sessions : Account!CheckSession(c, s) \/ Account!RevokeSession(c, s)
         \/ Account!CheckUser(c) \/ Account!CheckRefused(c) \/ Account!Served(c)
         \/ Account!RevokeOtherSessions(c)
  PROVE  AccountInv'
<1>1. /\ user \in Account!User /\ UserFits /\ resets \in 0 .. MaxResets /\ resets \in Nat
      /\ checks \in [Checks -> Account!Check] /\ checks[c] \in Account!Check
      /\ sessions \in [Sessions -> Account!Session]
      /\ CheckFits(checks[c])
      /\ Account!NoCheck \in Account!Check /\ Account!NoCheck.stage = "idle"
  BY AccountsAssumption
     DEF AccountInv, ChecksFit, Account!TypeOK, Account!Check, Account!NoCheck
\* The steps that move the check.
<1>2. ASSUME NEW new \in Account!Check, CheckFits(new),
             checks' = [checks EXCEPT ![c] = new],
             UNCHANGED <<user, tokens, sessions, requests, logins, resets>>
      PROVE  AccountInv'
  <2>1. ChecksFit'
    BY <1>1, <1>2 DEF AccountInv, ChecksFit, CheckFits
  <2>2. Account!TypeOK'
    BY <1>1, <1>2 DEF AccountInv, Account!TypeOK
  <2> QED
    BY <1>2, <2>1, <2>2 DEF AccountInv, UserFits, RequestsFit, OpenFits, Unspent,
                            LoginsFit, SessionsFit
<1>3. CheckFits(Account!NoCheck)
  BY <1>1 DEF CheckFits
<1>4. ASSUME NEW s \in Sessions, Account!CheckSession(c, s)
      PROVE  AccountInv'
  <2> DEFINE new == [stage |-> "user", session |-> s, resets |-> resets]
  <2>1. new \in Account!Check /\ CheckFits(new)
    BY <1>1, <1>4 DEF Account!Check, CheckFits, Account!CheckSession
  <2>2. /\ checks' = [checks EXCEPT ![c] = new]
        /\ UNCHANGED <<user, tokens, sessions, requests, logins, resets>>
    BY <1>4 DEF Account!CheckSession
  <2> HIDE DEF new
  <2> QED
    BY <1>2, <2>1, <2>2
\* The version that the user has is that of a session after the last reset.
<1>5. CASE Account!CheckUser(c)
  <2> DEFINE new == [checks[c] EXCEPT !.stage = "accepted"]
  <2>1. /\ checks[c].stage = "user" /\ user.version = sessions[checks[c].session].version
        /\ checks' = [checks EXCEPT ![c] = new]
        /\ UNCHANGED <<user, tokens, sessions, requests, logins, resets>>
    BY <1>1, <1>5 DEF Account!CheckUser, Account!UserValid
  <2>2. /\ checks[c].session \in Sessions /\ checks[c].resets <= resets
        /\ sessions[checks[c].session].state # "free"
    BY <1>1, <2>1 DEF CheckFits
  <2>3. sessions[checks[c].session].sawResets = resets
    BY <1>1, <2>1, <2>2 DEF AccountInv, SessionsFit, UserFits
  <2>4. /\ new \in Account!Check /\ new.stage = "accepted"
        /\ new.session = checks[c].session /\ new.resets = checks[c].resets
    BY <1>1 DEF Account!Check
  <2>5. CheckFits(new)
    BY <1>1, <2>2, <2>3, <2>4 DEF CheckFits
  <2> HIDE DEF new
  <2> QED
    BY <1>2, <2>1, <2>4, <2>5
<1>6. CASE Account!CheckRefused(c) \/ Account!Served(c)
  BY <1>1, <1>2, <1>3, <1>6 DEF Account!CheckRefused, Account!Served, Account!Finish
\* The steps that revoke sessions.
<1>7. ASSUME NEW S, Account!Revoke(S), S \subseteq Account!Unrevoked, Account!Finish(c),
             UNCHANGED <<user, tokens, logins, resets>>
      PROVE  AccountInv'
  <2>1. RequestsFit' /\ requests' \in [AccountRequests -> Account!Request]
    BY <1>7, TouchLast DEF Account!Revoke, Unspent
  <2>2. /\ sessions' \in [Sessions -> Account!Session]
        /\ \A s \in Sessions :
             /\ sessions[s].state # "free" => sessions'[s].state # "free"
             /\ sessions'[s].version = sessions[s].version
             /\ sessions'[s].sawResets = sessions[s].sawResets
    BY <1>1, <1>7 DEF Account!Revoke, Account!Session
  <2>3. checks' = [checks EXCEPT ![c] = Account!NoCheck]
    BY <1>7 DEF Account!Finish
  <2>4. ChecksFit'
    <3>1. ASSUME NEW d \in Checks
          PROVE  CheckFits(checks[d])'
      <4>1. CASE d = c
        BY <1>1, <2>3, <4>1 DEF CheckFits
      <4>2. CASE d # c
        BY <1>1, <1>7, <2>2, <2>3, <4>2 DEF AccountInv, ChecksFit, CheckFits
      <4> QED
        BY <4>1, <4>2
    <3> QED
      BY <3>1 DEF ChecksFit
  <2>5. Account!TypeOK'
    BY <1>1, <1>7, <2>1, <2>2, <2>3 DEF AccountInv, Account!TypeOK
  <2> QED
    BY <1>7, <2>1, <2>2, <2>4, <2>5 DEF AccountInv, UserFits, LoginsFit, SessionsFit
<1>8. ASSUME NEW s \in Sessions, Account!RevokeSession(c, s)
      PROVE  AccountInv'
  BY <1>7, <1>8 DEF Account!RevokeSession
<1>9. CASE Account!RevokeOtherSessions(c)
  BY <1>7, <1>9 DEF Account!RevokeOtherSessions, Account!Others
<1> QED
  BY <1>4, <1>5, <1>6, <1>8, <1>9

\* Time passes, or an operator steps in.
LEMMA TimeStep ==
  ASSUME AccountInv,
         \/ \E t \in Tokens : Account!TokenExpires(t) \/ Account!TokenRemoved(t)
         \/ \E s \in Sessions : Account!SessionExpires(s)
         \/ Account!Suspend \/ UNCHANGED accountVars
  PROVE  AccountInv'
<1>1. /\ user \in Account!User /\ UserFits /\ resets \in 0 .. MaxResets /\ resets \in Nat
      /\ tokens \in [Tokens -> Account!Token]
      /\ sessions \in [Sessions -> Account!Session]
  BY AccountsAssumption DEF AccountInv, Account!TypeOK
<1>2. ASSUME NEW t \in Tokens, Account!TokenExpires(t)
      PROVE  AccountInv'
  <2>1. tokens' \in [Tokens -> Account!Token] /\ Unspent' = Unspent
    BY <1>1, <1>2 DEF Account!TokenExpires, Account!Token, Unspent, Account!Unspent
  <2> QED
    BY <1>2, <2>1 DEF Account!TokenExpires, AccountInv, Account!TypeOK, UserFits, RequestsFit,
                      OpenFits, LoginsFit, SessionsFit, ChecksFit, CheckFits
<1>3. ASSUME NEW t \in Tokens, Account!TokenRemoved(t)
      PROVE  AccountInv'
  <2>1. /\ tokens' = [tokens EXCEPT ![t] = [state |-> "free", kind |-> Nothing]]
        /\ Account!Touch({t}, Nothing)
        /\ UNCHANGED <<user, sessions, logins, checks, resets>>
    BY <1>3 DEF Account!TokenRemoved
  <2>2. /\ tokens' \in [Tokens -> Account!Token]
        /\ \A x \in Unspent : x \in Unspent' \/ x \in {t}
    BY <1>1, <2>1 DEF Account!Token, Unspent, Account!Unspent
  <2>3. RequestsFit' /\ requests' \in [AccountRequests -> Account!Request]
    BY <2>1, <2>2, TouchLast
  <2> QED
    BY <2>1, <2>2, <2>3 DEF AccountInv, Account!TypeOK, UserFits, LoginsFit, SessionsFit,
                            ChecksFit, CheckFits
<1>4. ASSUME NEW s \in Sessions, Account!SessionExpires(s)
      PROVE  AccountInv'
  <2>1. /\ sessions' \in [Sessions -> Account!Session]
        /\ \A x \in Sessions :
             /\ sessions[x].state # "free" => sessions'[x].state # "free"
             /\ sessions'[x].version = sessions[x].version
             /\ sessions'[x].sawResets = sessions[x].sawResets
        /\ UNCHANGED <<user, tokens, requests, logins, checks, resets>>
    BY <1>1, <1>4 DEF Account!SessionExpires, Account!Session
  <2>2. ChecksFit'
    BY <1>1, <2>1, ChecksLast
  <2>3. Account!TypeOK'
    BY <2>1 DEF AccountInv, Account!TypeOK
  <2> QED
    BY <2>1, <2>2, <2>3 DEF AccountInv, UserFits, RequestsFit, OpenFits, Unspent, LoginsFit,
                            SessionsFit
<1>5. CASE Account!Suspend
  <2>1. /\ user' \in Account!User /\ user'.exists = user.exists
        /\ user'.verified = user.verified /\ user'.version = user.version
    BY <1>1, <1>5 DEF Account!Suspend, Account!User
  <2>2. RequestsFit' /\ requests' \in [AccountRequests -> Account!Request]
    BY <1>5, <2>1, TouchLast DEF Account!Suspend, Unspent
  <2>3. Account!TypeOK'
    BY <1>5, <2>1, <2>2 DEF Account!Suspend, AccountInv, Account!TypeOK
  <2> QED
    BY <1>5, <2>1, <2>2, <2>3
       DEF Account!Suspend, AccountInv, UserFits, LoginsFit, SessionsFit, ChecksFit, CheckFits
<1>6. CASE UNCHANGED accountVars
  BY <1>6 DEF accountVars, AccountInv, Account!TypeOK, UserFits, RequestsFit, OpenFits,
              Unspent, LoginsFit, SessionsFit, ChecksFit, CheckFits
<1> QED
  BY <1>2, <1>3, <1>4, <1>5, <1>6

\* The inductive invariant of the account is kept by every step.
LEMMA AccountStep == AccountInv /\ [Account!Next]_accountVars => AccountInv'
  BY BeginStep, CommitStep, ForgotStep, LoginStep, CheckStep, TimeStep DEF Account!Next

\* Nobody is registered in the beginning.
LEMMA AccountInit == Account!Init => AccountInv
<1> SUFFICES ASSUME Account!Init PROVE AccountInv
  OBVIOUS
<1>1. Account!TypeOK
  BY AccountsAssumption
     DEF Account!Init, Account!TypeOK, Account!User, Account!Token, Account!Session,
         Account!Request, Account!Login, Account!NoLogin, Account!Check, Account!NoCheck
<1>2. UserFits /\ RequestsFit /\ LoginsFit /\ SessionsFit /\ ChecksFit
  BY DEF Account!Init, UserFits, RequestsFit, OpenFits, LoginsFit, SessionsFit, ChecksFit,
         CheckFits, Account!Idle, Account!NoLogin, Account!NoCheck
<1> QED
  BY <1>1, <1>2 DEF AccountInv

-----------------------------------------------------------------------------
(* Side by side, as they are checked.                                      *)

\* Every step is a step of each part.
LEMMA PartsStep ==
  [MCNext]_mcVars => /\ [Next]_vars /\ [Account!Next]_accountVars
                     /\ [Throttle!Next]_throttleVars /\ UNCHANGED part
<1>1. MCNext => /\ [Next]_vars /\ [Account!Next]_accountVars
                /\ [Throttle!Next]_throttleVars /\ UNCHANGED part
  BY DEF MCNext
<1>2. UNCHANGED mcVars => /\ UNCHANGED vars /\ UNCHANGED accountVars
                          /\ UNCHANGED throttleVars /\ UNCHANGED part
  BY DEF mcVars
<1> QED
  BY <1>1, <1>2

\* For any number of requests, tokens, sessions, handlers and guesses: what the
\* stores and the requests hold has the shape the code gives it.
THEOREM AccountTypesOK == MCSpec => []TypesOK
<1> DEFINE Inv == IInv /\ AccountInv /\ ThrottleInv
<1>1. MCInit => Inv
  BY InitInv, AccountInit, ThrottleInit DEF MCInit
<1>2. Inv /\ [MCNext]_mcVars => Inv'
  BY PartsStep, NextInv, AccountStep, ThrottleStep
<1>3. Inv => TypesOK
  BY DEF IInv, AccountInv, ThrottleInv, TypesOK
<1> HIDE DEF Inv
<1> QED
  BY <1>1, <1>2, <1>3, PTL DEF MCSpec

\* For any number of requests: a request that is checked after a password reset
\* is refused when its session was stored from a user read before that reset.
THEOREM SessionsEndAtReset == MCSpec => []OlderSessionsEnd
<1>1. MCInit => AccountInv
  BY AccountInit DEF MCInit
<1>2. AccountInv /\ [MCNext]_mcVars => AccountInv'
  BY PartsStep, AccountStep
<1>3. AccountInv => OlderSessionsEnd
  BY DEF AccountInv, ChecksFit, CheckFits, OlderSessionsEnd, Account!OlderSessionsEnd
<1> QED
  BY <1>1, <1>2, <1>3, PTL DEF MCSpec

\* For any number of requests: once an address is verified its password changes
\* only in a step that spends an unspent reset token.
THEOREM PasswordByToken == MCSpec => PasswordNeedsToken
<1> DEFINE Needs == user.verified /\ user'.password # user.password =>
                      \E t \in Unspent : tokens'[t].state = "used"
<1>1. ASSUME AccountInv, Account!Next
      PROVE  Needs
  <2>1. ASSUME NEW p \in AccountRequests, Account!CommitRegister(p)
        PROVE  ~user.verified
    BY <1>1, <2>1 DEF Account!CommitRegister, AccountInv, RequestsFit, OpenFits
  <2>2. ASSUME NEW p \in AccountRequests, Account!CommitReset(p)
        PROVE  \E t \in Unspent : tokens'[t].state = "used"
    <3>1. requests[p].token \in Unspent
      BY <1>1, <2>2 DEF Account!CommitReset, AccountInv, RequestsFit, OpenFits
    <3>2. requests[p].token \in Tokens /\ tokens[requests[p].token] \in Account!Token
      BY <1>1, <3>1 DEF Unspent, Account!Unspent, AccountInv, Account!TypeOK
    <3>3. tokens'[requests[p].token].state = "used"
      BY <2>2, <3>2 DEF Account!CommitReset, Account!Spend, Account!Token
    <3> QED
      BY <3>1, <3>3
  <2>3. user \in Account!User
    BY <1>1 DEF AccountInv, Account!TypeOK
  <2>4. ASSUME NEW l \in Logins,
               \/ \E password \in Passwords : Account!LoginVerify(l, password)
               \/ Account!MagicLink(l) \/ Account!ProviderSignIn(l)
               \/ Account!ProviderVerified(l) \/ Account!LoginRead(l)
               \/ Account!LoginCreate(l) \/ Account!LoginEnd(l)
        PROVE  user'.password = user.password
    BY <2>3, <2>4 DEF Account!LoginVerify, Account!MagicLink, Account!ProviderSignIn,
       Account!ProviderVerified, Account!LoginRead, Account!LoginCreate, Account!LoginEnd,
       Account!User
  <2>5. ASSUME NEW p \in AccountRequests,
               \/ \E password \in Passwords : Account!BeginRegister(p, password)
               \/ Account!BeginResend(p)
               \/ \E t \in Tokens : Account!BeginVerify(p, t)
               \/ \E t \in Tokens, password \in Passwords :
                    Account!BeginReset(p, t, password)
               \/ Account!CommitResend(p) \/ Account!CommitVerify(p) \/ Account!Rollback(p)
               \/ Account!ForgotRead(p) \/ Account!ForgotInvalidate(p)
               \/ Account!ForgotIssue(p) \/ Account!ForgotCrash(p)
        PROVE  user'.password = user.password
    BY <2>3, <2>5 DEF Account!BeginRegister, Account!BeginResend, Account!BeginVerify,
       Account!BeginReset, Account!Begin, Account!CommitResend, Account!CommitVerify,
       Account!Rollback, Account!ForgotRead, Account!ForgotInvalidate, Account!ForgotIssue,
       Account!ForgotCrash, Account!User
  <2>6. ASSUME NEW c \in Checks,
               \/ \E s \in Sessions :
                    Account!CheckSession(c, s) \/ Account!RevokeSession(c, s)
               \/ Account!CheckUser(c) \/ Account!CheckRefused(c) \/ Account!Served(c)
               \/ Account!RevokeOtherSessions(c)
        PROVE  UNCHANGED user
    BY <2>6 DEF Account!CheckSession, Account!RevokeSession, Account!CheckUser,
       Account!CheckRefused, Account!Served, Account!RevokeOtherSessions
  <2>7. ASSUME \/ \E t \in Tokens : Account!TokenExpires(t) \/ Account!TokenRemoved(t)
               \/ \E s \in Sessions : Account!SessionExpires(s)
               \/ Account!Suspend
        PROVE  user'.password = user.password
    BY <2>3, <2>7 DEF Account!TokenExpires, Account!TokenRemoved, Account!SessionExpires,
       Account!Suspend, Account!User
  <2> QED
    BY <1>1, <2>1, <2>2, <2>4, <2>5, <2>6, <2>7 DEF Account!Next
<1>2. MCInit => AccountInv
  BY AccountInit DEF MCInit
<1>3. AccountInv /\ [MCNext]_mcVars => AccountInv'
  BY PartsStep, AccountStep
<1>4. AccountInv /\ [MCNext]_mcVars => [Needs]_(Account!vars)
  <2>1. UNCHANGED accountVars <=> UNCHANGED Account!vars
    BY DEF accountVars, Account!vars
  <2> HIDE DEF Needs
  <2> QED
    BY <1>1, <2>1, PartsStep
<1>5. Needs <=> (user.verified /\ user'.password # user.password =>
         \E t \in Account!Unspent(tokens, "reset_password") : tokens'[t].state = "used")
  BY DEF Unspent
<1> QED
  BY <1>2, <1>3, <1>4, <1>5, PTL
     DEF MCSpec, PasswordNeedsToken, Account!PasswordNeedsToken, Unspent

\* For any number of processes, points and guesses: what was let through and
\* what was charged is still counted, however the guesses overlap.
THEOREM GuessesAreBounded == MCSpec => []GuessesBounded
<1>1. MCInit => ThrottleInv
  BY ThrottleInit DEF MCInit
<1>2. ThrottleInv /\ [MCNext]_mcVars => ThrottleInv'
  BY PartsStep, ThrottleStep
<1>3. ThrottleInv => GuessesBounded
  BY DEF ThrottleInv, GuessesBounded
<1> QED
  BY <1>1, <1>2, <1>3, PTL DEF MCSpec

-----------------------------------------------------------------------------
(* The counters in binary.                                                 *)

\* A number with a last place has a least one.
LEMMA UlpFacts ==
  ASSUME NEW n \in Nat, \E u \in Ulps : n < Significand * u
  PROVE  /\ Counters!Ulp(n) \in Ulps
         /\ n < Significand * Counters!Ulp(n)
         /\ \A v \in Ulps : v < Counters!Ulp(n) => n >= Significand * v
<1> DEFINE room == {u \in Ulps : n < Significand * u}
           Less == OpToRel(<, Nat)
<1>1. room \subseteq Nat /\ room # {}
  BY CountersAssumption
<1>2. IsWellFoundedOn(Less, Nat)
  BY NatLessThanWellFounded
<1> HIDE DEF Less
<1>3. PICK x \in room : \A y \in room : <<y, x>> \notin Less
  BY <1>1, <1>2, WFMin
<1>4. \A y \in room : ~(y < x)
  BY <1>1, <1>3 DEF Less, OpToRel
<1>5. \A v \in Ulps : v < x => n >= Significand * v
  <2> SUFFICES ASSUME NEW v \in Ulps, v < x PROVE n >= Significand * v
    OBVIOUS
  <2>1. v \notin room
    BY <1>4
  <2>2. ~(n < Significand * v)
    BY <2>1
  <2>3. v \in Nat /\ Significand \in Nat /\ Significand * v \in Nat
    BY CountersAssumption
  <2> QED
    BY <2>2, <2>3
<1> QED
  BY <1>3, <1>5 DEF Counters!Ulp

\* A number below a significand is not rounded.
LEMMA RoundExact ==
  ASSUME NEW n \in Nat, n < Significand
  PROVE  Counters!Round(n) = n
<1>1. 1 \in Ulps /\ Significand \in Nat /\ Ulps \subseteq Nat \ {0}
  BY CountersAssumption
<1>2. \E u \in Ulps : n < Significand * u
  BY <1>1
<1>3. Counters!Ulp(n) = 1
  <2>1. /\ Counters!Ulp(n) \in Nat \ {0}
        /\ 1 < Counters!Ulp(n) => n >= Significand * 1
    BY <1>1, <1>2, UlpFacts
  <2> QED
    BY <1>1, <2>1
<1>4. n \div 1 = n /\ n % 1 = 0
  OBVIOUS
<1> QED
  BY <1>3, <1>4 DEF Counters!Round

\* A larger one is not rounded to a number below it.
LEMMA RoundLarge ==
  ASSUME NEW n \in Nat, n >= Significand, \E u \in Ulps : n < Significand * u
  PROVE  Counters!Round(n) \in Nat /\ Counters!Round(n) >= Significand
<1> DEFINE u == Counters!Ulp(n)
           low == n \div u
<1>1. /\ u \in Ulps /\ n < Significand * u
      /\ \A v \in Ulps : v < u => n >= Significand * v
  BY UlpFacts
<1>2. u \in Nat \ {0} /\ Significand \in Nat \ {0}
  BY <1>1, CountersAssumption
<1>3. u # 1
  BY <1>1, <1>2
<1> HIDE DEF u
<1>4. PICK h \in Ulps : u = 2 * h
  BY <1>1, <1>3, CountersAssumption
<1>5. h \in Nat \ {0}
  BY CountersAssumption
<1>6. PICK t \in Nat : Significand = 2 * t
  BY CountersAssumption
<1>7. n >= Significand * h
  BY <1>1, <1>4, <1>5
<1>8. Significand * h = t * u
  BY <1>4, <1>5, <1>6
<1>9. low \in Nat /\ n = low * u + (n % u) /\ n % u \in Nat /\ n % u < u
  <2>1. u \in Nat /\ u > 0
    BY <1>2
  <2>2. n = u * low + (n % u)
    BY <2>1
  <2>3. low \in Nat /\ n % u \in 0 .. u - 1
    BY <2>1
  <2> QED
    BY <2>1, <2>2, <2>3
<1>10. low >= t
  <2> SUFFICES ASSUME low + 1 <= t PROVE FALSE
    BY <1>6, <1>9
  <2>1. (low + 1) * u <= t * u
    BY <1>2, <1>6, <1>9
  <2>2. (low + 1) * u = low * u + u
    BY <1>2, <1>9
  <2> QED
    BY <1>2, <1>6, <1>7, <1>8, <1>9, <2>1, <2>2
<1>11. low * u >= Significand
  <2>1. low * u >= t * u
    BY <1>2, <1>6, <1>9, <1>10
  <2>2. t * u >= t * 2
    BY <1>2, <1>4, <1>5, <1>6
  <2> QED
    BY <1>2, <1>6, <1>9, <2>1, <2>2
<1>12. (low + 1) * u >= low * u
  BY <1>2, <1>9
<1>13. Counters!Round(n) \in {low * u, (low + 1) * u}
  BY DEF Counters!Round, u
<1> HIDE DEF low
<1> QED
  BY <1>2, <1>9, <1>11, <1>12, <1>13

Booking ==
  {Counters!Absent}
  \cup [status : {"reserved", "confirmed", "released"}, amount : Amounts, expired : BOOLEAN]

BookingTypes ==
  /\ reservation \in [Numbers -> Booking]
  /\ reserved \in Nat /\ allocated \in Nat

CountersInv ==
  /\ BookingTypes
  /\ reserved = Counters!Held("reserved")
  /\ allocated = Counters!Held("confirmed")
  /\ reserved + allocated <= Limit

\* The counters are compared with the sums that TotalsProofs is about.
LEMMA SameTotal ==
  ASSUME NEW S, NEW weight, NEW bound
  PROVE  Counters!Total(S, weight, bound) = Total(S, weight, bound)
<1>1. Counters!Units(S, weight, bound) = Units(S, weight, bound)
  BY DEF Counters!Units, Units
<1> QED
  BY <1>1 DEF Counters!Total, Total, Counters!Cardinality, Cardinality

\* What a reservation is, and what it holds.
LEMMA BookingFacts ==
  ASSUME BookingTypes, NEW i \in Numbers
  PROVE  /\ reservation[i] # Counters!Absent <=>
              reservation[i].status \in {"reserved", "confirmed", "released"}
         /\ reservation[i] # Counters!Absent =>
              /\ reservation[i].amount \in Nat
              /\ reservation[i].amount \in Amounts
              /\ reservation[i].expired \in BOOLEAN
         /\ reservation[i] = Counters!Absent => reservation[i].status = "absent"
         /\ Counters!Amount[i] =
              IF reservation[i] = Counters!Absent THEN 0 ELSE reservation[i].amount
         /\ Counters!Amount[i] \in 0 .. MaxAmount
<1>1. reservation[i] \in Booking /\ Amounts \subseteq 0 .. MaxAmount /\ MaxAmount \in Nat
  BY CountersAssumption DEF BookingTypes
<1>2. CASE reservation[i] = Counters!Absent
  BY <1>1, <1>2 DEF Counters!Absent, Counters!Amount
<1>3. CASE reservation[i] # Counters!Absent
  <2>1. reservation[i] \in [status : {"reserved", "confirmed", "released"},
                            amount : Amounts, expired : BOOLEAN]
    BY <1>1, <1>3 DEF Booking
  <2>2. /\ reservation[i].status \in {"reserved", "confirmed", "released"}
        /\ reservation[i].amount \in Amounts
        /\ reservation[i].expired \in BOOLEAN
    BY <2>1
  <2>3. Counters!Amount[i] = reservation[i].amount
    BY <1>3 DEF Counters!Amount
  <2>4. PICK held \in 0 .. MaxAmount : held = reservation[i].amount
    BY <1>1, <2>2
  <2> QED
    BY <1>3, <2>2, <2>3, <2>4
<1> QED
  BY <1>2, <1>3

\* A status's total loses what a reservation held in it and gains what it holds.
LEMMA HeldChange ==
  ASSUME BookingTypes, BookingTypes', NEW i \in Numbers,
         \A j \in Numbers \ {i} : reservation'[j] = reservation[j],
         NEW status \in {"reserved", "confirmed"}
  PROVE  Counters!Held(status)' =
           Counters!Held(status)
             - (IF reservation[i].status = status THEN reservation[i].amount ELSE 0)
             + (IF reservation'[i].status = status THEN reservation'[i].amount ELSE 0)
<1> DEFINE S == {j \in Numbers : reservation[j].status = status}
           T == {j \in Numbers : reservation'[j].status = status}
           before == Counters!Amount
           after == Counters!Amount'
<1>1. IsFiniteSet(S) /\ IsFiniteSet(T)
  <2>1. S \subseteq Numbers /\ T \subseteq Numbers
    OBVIOUS
  <2> QED
    BY <2>1, CountersAssumption, FS_Subset
<1>2. S \ {i} = T \ {i}
  OBVIOUS
<1>3. before[i] \in 0 .. MaxAmount /\ after[i] \in 0 .. MaxAmount
  <2>1. before[i] \in 0 .. MaxAmount
    BY BookingFacts
  <2>2. reservation'[i] \in Booking /\ Amounts \subseteq 0 .. MaxAmount /\ MaxAmount \in Nat
    BY CountersAssumption DEF BookingTypes
  <2>3. reservation'[i] # Counters!Absent => reservation'[i].amount \in 0 .. MaxAmount
    BY <2>2 DEF Booking
  <2>4. 0 \in 0 .. MaxAmount
    BY <2>2
  <2>5. after[i] = IF reservation'[i] = Counters!Absent THEN 0 ELSE reservation'[i].amount
    BY DEF Counters!Amount
  <2> HIDE DEF before, after
  <2> QED
    BY <2>1, <2>3, <2>4, <2>5
<1>4. \A j \in S \ {i} : before[j] = after[j]
  BY DEF Counters!Amount
<1>5. MaxAmount \in Nat
  BY CountersAssumption
<1>6. /\ Counters!Held(status) = Total(S, before, MaxAmount)
      /\ Counters!Held(status)' = Total(T, after, MaxAmount)
  BY SameTotal DEF Counters!Held
<1>7. /\ i \in S => before[i] = reservation[i].amount
      /\ i \in T => after[i] = reservation'[i].amount
  BY DEF Counters!Amount, Counters!Absent
<1>8. /\ i \in S <=> reservation[i].status = status
      /\ i \in T <=> reservation'[i].status = status
  OBVIOUS
<1> HIDE DEF S, T, before, after
<1>9. Total(T, after, MaxAmount) = Total(S, before, MaxAmount)
        - (IF i \in S THEN before[i] ELSE 0) + (IF i \in T THEN after[i] ELSE 0)
  BY <1>1, <1>2, <1>3, <1>4, <1>5, TotalChange
<1> QED
  BY <1>6, <1>7, <1>8, <1>9

\* The total of a status is at least what any reservation in it holds.
LEMMA HeldCovers ==
  ASSUME BookingTypes, NEW i \in Numbers, NEW status \in {"reserved", "confirmed"},
         reservation[i].status = status
  PROVE  Counters!Held(status) >= reservation[i].amount
<1> DEFINE S == {j \in Numbers : reservation[j].status = status}
           rest == S \ {i}
<1>1. IsFiniteSet(S)
  <2>1. S \subseteq Numbers
    OBVIOUS
  <2> QED
    BY <2>1, CountersAssumption, FS_Subset
<1>2. IsFiniteSet(rest)
  BY <1>1, FS_Subset
<1>3. S = rest \cup {i} /\ i \notin rest
  OBVIOUS
<1>4. MaxAmount \in Nat /\ Counters!Amount[i] \in 0 .. MaxAmount
  BY CountersAssumption, BookingFacts
<1>5. Counters!Amount[i] = reservation[i].amount
  BY DEF Counters!Amount, Counters!Absent
<1>6. Counters!Held(status) = Total(S, Counters!Amount, MaxAmount)
  BY SameTotal DEF Counters!Held
<1> HIDE DEF S, rest
<1>7. Total(rest \cup {i}, Counters!Amount, MaxAmount) =
        Total(rest, Counters!Amount, MaxAmount) + Counters!Amount[i]
  BY <1>2, <1>3, <1>4, TotalAdd
<1>8. Total(rest, Counters!Amount, MaxAmount) \in Nat
  BY <1>2, <1>4, TotalIsNat
<1> QED
  BY <1>3, <1>4, <1>5, <1>6, <1>7, <1>8

\* What fits is within the limit, counted exactly.
LEMMA FitsExactly ==
  ASSUME Limit < Significand, BookingTypes, reserved + allocated <= Limit,
         NEW amount \in Amounts, Counters!Fits(amount)
  PROVE  reserved + allocated + amount <= Limit
<1>1. /\ Limit \in Nat /\ Significand \in Nat /\ MaxAmount \in Nat
      /\ reserved \in Nat /\ allocated \in Nat
      /\ amount \in Nat /\ amount <= MaxAmount
  BY CountersAssumption DEF BookingTypes
<1> DEFINE sum == reserved + allocated
           more == sum + amount
<1>2. sum \in Nat /\ sum < Significand /\ more \in Nat
  BY <1>1
<1>3. Counters!Inc(reserved, allocated) = sum
  BY <1>2, RoundExact DEF Counters!Inc
<1>4. \E u \in Ulps : more < Significand * u
  <2>1. PICK u \in Ulps : Limit + MaxAmount < Significand * u
    BY CountersAssumption
  <2>2. u \in Nat /\ Significand * u \in Nat /\ more <= Limit + MaxAmount
    BY <1>1, CountersAssumption
  <2>3. more < Significand * u
    BY <1>1, <1>2, <2>1, <2>2
  <2> QED
    BY <2>3
<1>5. Counters!Round(more) <= Limit
  BY <1>3 DEF Counters!Fits, Counters!Inc
<1> HIDE DEF sum, more
<1>6. more < Significand
  <2> SUFFICES ASSUME more >= Significand PROVE FALSE
    BY <1>1, <1>2
  <2>1. Counters!Round(more) \in Nat /\ Counters!Round(more) >= Significand
    BY <1>2, <1>4, RoundLarge
  <2> QED
    BY <1>1, <1>5, <2>1
<1>7. more <= Limit
  BY <1>2, <1>5, <1>6, RoundExact
<1> QED
  BY <1>7 DEF more, sum

LEMMA CountersInit == Counters!Init => CountersInv
<1> SUFFICES ASSUME Counters!Init PROVE CountersInv
  OBVIOUS
<1>1. BookingTypes
  BY DEF Counters!Init, BookingTypes, Booking
<1>2. \A status \in {"reserved", "confirmed"} : Counters!Held(status) = 0
  <2> SUFFICES ASSUME NEW status \in {"reserved", "confirmed"}
               PROVE  Counters!Held(status) = 0
    OBVIOUS
  <2>1. {i \in Numbers : reservation[i].status = status} = {}
    BY DEF Counters!Init, Counters!Absent
  <2>2. Total({}, Counters!Amount, MaxAmount) = 0
    BY CountersAssumption, TotalOfNone
  <2> QED
    BY <2>1, <2>2, SameTotal DEF Counters!Held
<1> QED
  BY <1>1, <1>2, CountersAssumption DEF CountersInv, Counters!Init

\* A reservation is taken back in full: the counter has room, and is not rounded.
LEMMA DecExactly ==
  ASSUME Limit < Significand, NEW counter \in Nat, counter <= Limit,
         NEW amount \in Nat, Counters!Covered(counter, amount)
  PROVE  /\ Counters!Dec(counter, amount) = counter - amount
         /\ counter - amount \in Nat
<1>1. counter - amount \in Nat /\ counter - amount < Significand
  BY CountersAssumption DEF Counters!Covered
<1> QED
  BY <1>1, RoundExact DEF Counters!Dec

\* What is added is not rounded while the limit is kept.
LEMMA IncExactly ==
  ASSUME Limit < Significand, NEW counter \in Nat, NEW amount \in Nat,
         counter + amount <= Limit
  PROVE  Counters!Inc(counter, amount) = counter + amount
<1>1. counter + amount \in Nat /\ counter + amount < Significand
  BY CountersAssumption
<1> QED
  BY <1>1, RoundExact DEF Counters!Inc

LEMMA CountersStep ==
  Limit < Significand /\ CountersInv /\ [Counters!Next]_counterVars => CountersInv'
<1> SUFFICES ASSUME Limit < Significand, CountersInv, [Counters!Next]_counterVars
             PROVE  CountersInv'
  OBVIOUS
<1> USE DEF CountersInv
<1>0. /\ reserved \in Nat /\ allocated \in Nat /\ Limit \in Nat
      /\ reserved <= Limit /\ allocated <= Limit
  BY CountersAssumption DEF BookingTypes
<1>1. ASSUME NEW i \in Numbers, NEW amount \in Amounts, Counters!Reserve(i, amount)
      PROVE  CountersInv'
  <2> DEFINE new == [status |-> "reserved", amount |-> amount, expired |-> FALSE]
  <2>1. /\ reservation[i] = Counters!Absent /\ reservation[i].status = "absent"
        /\ reservation' = [reservation EXCEPT ![i] = new]
        /\ UNCHANGED allocated
    BY <1>1 DEF Counters!Reserve, Counters!Absent
  <2>2. amount \in Nat /\ reserved + allocated + amount <= Limit
    BY <1>0, <1>1, FitsExactly, CountersAssumption DEF Counters!Reserve
  <2>3. reserved' = reserved + amount
    <3>1. reserved + amount <= Limit
      BY <1>0, <2>2
    <3> QED
      BY <1>0, <1>1, <2>2, <3>1, IncExactly DEF Counters!Reserve
  <2>4. new \in Booking
    BY DEF Booking
  <2>5. reservation'[i] = new /\ \A j \in Numbers \ {i} : reservation'[j] = reservation[j]
    BY <2>1 DEF BookingTypes
  <2>6. BookingTypes'
    BY <1>0, <2>1, <2>2, <2>3, <2>4 DEF BookingTypes
  <2>7. /\ new.status = "reserved" /\ new.amount = amount
    OBVIOUS
  <2> HIDE DEF new
  <2>8. /\ Counters!Held("reserved")' = Counters!Held("reserved") - 0 + amount
        /\ Counters!Held("confirmed")' = Counters!Held("confirmed") - 0 + 0
    BY <2>1, <2>5, <2>6, <2>7, HeldChange
  <2> QED
    BY <1>0, <2>1, <2>2, <2>3, <2>6, <2>8
<1>2. ASSUME NEW i \in Numbers, Counters!Confirm(i)
      PROVE  CountersInv'
  <2> DEFINE new == [reservation[i] EXCEPT !.status = "confirmed"]
             amount == reservation[i].amount
  <2>1. /\ reservation[i].status = "reserved"
        /\ reservation' = [reservation EXCEPT ![i] = new]
        /\ reserved' = Counters!Dec(reserved, amount)
        /\ allocated' = Counters!Inc(allocated, amount)
        /\ Counters!Covered(reserved, amount)
    BY <1>2 DEF Counters!Confirm
  <2>2. amount \in Nat /\ reservation[i] # Counters!Absent /\ reservation[i] \in Booking
    BY <2>1, BookingFacts DEF BookingTypes
  <2>3. new \in Booking /\ new.status = "confirmed" /\ new.amount = amount
    BY <2>2 DEF Booking
  <2>4. reservation'[i] = new /\ \A j \in Numbers \ {i} : reservation'[j] = reservation[j]
    BY <2>1 DEF BookingTypes
  <2> HIDE DEF new, amount
  <2>5. reserved' = reserved - amount /\ reserved - amount \in Nat
    BY <1>0, <2>1, <2>2, DecExactly
  <2>6. allocated' = allocated + amount
    <3>1. allocated + amount <= Limit
      BY <1>0, <2>2, <2>5
    <3> QED
      BY <1>0, <2>1, <2>2, <3>1, IncExactly
  <2>7. BookingTypes'
    BY <1>0, <2>1, <2>2, <2>3, <2>5, <2>6 DEF BookingTypes
  <2>8. /\ Counters!Held("reserved")' = Counters!Held("reserved") - amount + 0
        /\ Counters!Held("confirmed")' = Counters!Held("confirmed") - 0 + amount
    BY <2>1, <2>3, <2>4, <2>7, HeldChange DEF amount
  <2> QED
    BY <1>0, <2>2, <2>5, <2>6, <2>7, <2>8
<1>3. ASSUME NEW i \in Numbers, Counters!ReleaseReserved(i)
      PROVE  CountersInv'
  <2> DEFINE new == [reservation[i] EXCEPT !.status = "released"]
             amount == reservation[i].amount
  <2>1. /\ reservation[i].status = "reserved"
        /\ reservation' = [reservation EXCEPT ![i] = new]
        /\ reserved' = Counters!Dec(reserved, amount)
        /\ UNCHANGED allocated
        /\ Counters!Covered(reserved, amount)
    BY <1>3 DEF Counters!ReleaseReserved
  <2>2. amount \in Nat /\ reservation[i] # Counters!Absent /\ reservation[i] \in Booking
    BY <2>1, BookingFacts DEF BookingTypes
  <2>3. new \in Booking /\ new.status = "released" /\ new.amount = amount
    BY <2>2 DEF Booking
  <2>4. reservation'[i] = new /\ \A j \in Numbers \ {i} : reservation'[j] = reservation[j]
    BY <2>1 DEF BookingTypes
  <2> HIDE DEF new, amount
  <2>5. reserved' = reserved - amount /\ reserved - amount \in Nat
    BY <1>0, <2>1, <2>2, DecExactly
  <2>6. BookingTypes'
    BY <1>0, <2>1, <2>2, <2>3, <2>5 DEF BookingTypes
  <2>7. /\ Counters!Held("reserved")' = Counters!Held("reserved") - amount + 0
        /\ Counters!Held("confirmed")' = Counters!Held("confirmed") - 0 + 0
    BY <2>1, <2>3, <2>4, <2>6, HeldChange DEF amount
  <2> QED
    BY <1>0, <2>1, <2>2, <2>5, <2>6, <2>7
<1>4. ASSUME NEW i \in Numbers, Counters!ReleaseConfirmed(i)
      PROVE  CountersInv'
  <2> DEFINE new == [reservation[i] EXCEPT !.status = "released"]
             amount == reservation[i].amount
  <2>1. /\ reservation[i].status = "confirmed"
        /\ reservation' = [reservation EXCEPT ![i] = new]
        /\ allocated' = Counters!Dec(allocated, amount)
        /\ UNCHANGED reserved
        /\ Counters!Covered(allocated, amount)
    BY <1>4 DEF Counters!ReleaseConfirmed
  <2>2. amount \in Nat /\ reservation[i] # Counters!Absent /\ reservation[i] \in Booking
    BY <2>1, BookingFacts DEF BookingTypes
  <2>3. new \in Booking /\ new.status = "released" /\ new.amount = amount
    BY <2>2 DEF Booking
  <2>4. reservation'[i] = new /\ \A j \in Numbers \ {i} : reservation'[j] = reservation[j]
    BY <2>1 DEF BookingTypes
  <2> HIDE DEF new, amount
  <2>5. allocated' = allocated - amount /\ allocated - amount \in Nat
    BY <1>0, <2>1, <2>2, DecExactly
  <2>6. BookingTypes'
    BY <1>0, <2>1, <2>2, <2>3, <2>5 DEF BookingTypes
  <2>7. /\ Counters!Held("reserved")' = Counters!Held("reserved") - 0 + 0
        /\ Counters!Held("confirmed")' = Counters!Held("confirmed") - amount + 0
    BY <2>1, <2>3, <2>4, <2>6, HeldChange DEF amount
  <2> QED
    BY <1>0, <2>1, <2>2, <2>5, <2>6, <2>7
<1>5. ASSUME NEW i \in Numbers, Counters!Expire(i)
      PROVE  CountersInv'
  <2> DEFINE new == [reservation[i] EXCEPT !.expired = TRUE]
  <2>1. /\ reservation[i].status = "reserved"
        /\ reservation' = [reservation EXCEPT ![i] = new]
        /\ UNCHANGED <<reserved, allocated>>
    BY <1>5 DEF Counters!Expire
  <2>2. reservation[i] # Counters!Absent /\ reservation[i] \in Booking
        /\ reservation[i].amount \in Nat
    BY <2>1, BookingFacts DEF BookingTypes
  <2>3. new \in Booking /\ new.status = "reserved" /\ new.amount = reservation[i].amount
    BY <2>1, <2>2 DEF Booking
  <2>4. reservation'[i] = new /\ \A j \in Numbers \ {i} : reservation'[j] = reservation[j]
    BY <2>1 DEF BookingTypes
  <2> HIDE DEF new
  <2>5. BookingTypes'
    BY <1>0, <2>1, <2>2, <2>3 DEF BookingTypes
  <2>6. /\ Counters!Held("reserved")' = Counters!Held("reserved")
             - reservation[i].amount + reservation[i].amount
        /\ Counters!Held("confirmed")' = Counters!Held("confirmed") - 0 + 0
    BY <2>1, <2>3, <2>4, <2>5, HeldChange
  <2> QED
    BY <1>0, <2>1, <2>2, <2>5, <2>6
<1>6. CASE UNCHANGED counterVars
  BY <1>6 DEF counterVars, BookingTypes, Counters!Held, Counters!Amount, Counters!Total, Counters!Units
<1> QED
  BY <1>1, <1>2, <1>3, <1>4, <1>5, <1>6 DEF Counters!Next, Counters!ReleaseStale

\* While the limit is less than a significand, the binary counters are the
\* exact sums of what is held, and whatever is held can be taken back ($inc on
\* fractional quantities).
THEOREM CountersAreExact ==
  ASSUME Limit < Significand
  PROVE  MCSpec => []ExactWithinPrecision
<1>1. MCInit => CountersInv
  BY CountersInit DEF MCInit
<1>2. CountersInv /\ [MCNext]_mcVars => CountersInv'
  <2>1. [MCNext]_mcVars => [Counters!Next]_counterVars
    BY DEF MCNext, mcVars, counterVars
  <2> QED
    BY <2>1, CountersStep
<1>3. CountersInv => ExactWithinPrecision
  <2> SUFFICES ASSUME CountersInv PROVE Counters!ExactWithinPrecision
    BY DEF ExactWithinPrecision
  <2>1. ASSUME NEW i \in Numbers, reservation[i].status = "reserved"
        PROVE  Counters!Covered(reserved, reservation[i].amount)
    BY <2>1, HeldCovers DEF CountersInv, Counters!Covered
  <2>2. ASSUME NEW i \in Numbers, reservation[i].status = "confirmed"
        PROVE  Counters!Covered(allocated, reservation[i].amount)
    BY <2>2, HeldCovers DEF CountersInv, Counters!Covered
  <2> QED
    BY <2>1, <2>2 DEF CountersInv, Counters!ExactWithinPrecision
<1> QED
  BY <1>1, <1>2, <1>3, PTL DEF MCSpec

=============================================================================
