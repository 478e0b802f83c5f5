--------------------------- MODULE LoginThrottle ---------------------------
(***************************************************************************)
(* The limit on password guesses for one identity (a hash of the source    *)
(* address with a digest of the e-mail address).  A guess pays one point   *)
(* before the password is looked at, two more when it turns out wrong, and *)
(* a right password starts the limiter from zero.  Guesses overlap: each   *)
(* call of the limiter, and the verification between them, is awaited.     *)
(*                                                                         *)
(* The limiter (rate-limiter-flexible on Redis) is external: a call adds   *)
(* its points atomically, also when it refuses, refuses above Points, and  *)
(* then blocks the key, in Redis and in the memory of the process.  A call *)
(* that gets no answer from Redis refuses and leaves everything unchanged. *)
(***************************************************************************)
EXTENDS Naturals

CONSTANTS Processes,    \* web processes, each with its own limiter object
          Points,       \* points of the policy per window
          MaxGuesses    \* bound on the guesses in flight in one process

VARIABLES consumed,     \* points consumed in this window, in Redis
          remembered,   \* processes that hold the key blocked in memory
          verifying,    \* guesses let through, not yet answered, per process
          admitted,     \* guesses let through in this window (history)
          charged       \* wrong guesses charged in this window (history)

vars == <<consumed, remembered, verifying, admitted, charged>>

\* Above Points every count refuses alike.
Most == Points + 2

TypeOK ==
  /\ consumed \in 0 .. Most
  /\ remembered \subseteq Processes
  /\ verifying \in [Processes -> 0 .. MaxGuesses]
  /\ admitted \in Nat
  /\ charged \in 0 .. Points

Init ==
  /\ consumed = 0
  /\ remembered = {}
  /\ verifying = [w \in Processes |-> 0]
  /\ admitted = 0 /\ charged = 0

AtMost(n) == IF n > Most THEN Most ELSE n

\* What a call for n points leaves in the limiter, and whether it lets through.
Consume(w, n) ==
  /\ w \notin remembered
  /\ consumed' = AtMost(consumed + n)
  /\ remembered' = IF consumed + n > Points THEN remembered \cup {w} ELSE remembered
Allows(n) == consumed + n <= Points

Answered(w) == verifying' = [verifying EXCEPT ![w] = @ - 1]
Restart == consumed' = 0 /\ admitted' = 0 /\ charged' = 0

\* The limiter's answer is not awaited: its refusal comes too late.
MutArrive(w, passes) ==
  /\ verifying[w] < MaxGuesses
  /\ Consume(w, 1)
  /\ verifying' = [verifying EXCEPT ![w] = @ + 1]
  /\ admitted' = admitted + 1
  /\ UNCHANGED charged

\* A guess pays its point.  The limit of the source address, consumed at the
\* same time, may refuse it all the same: "passes" is that other limiter.
Arrive(w, passes) ==
  /\ verifying[w] < MaxGuesses
  /\ Consume(w, 1)
  /\ IF Allows(1) /\ passes
     THEN /\ verifying' = [verifying EXCEPT ![w] = @ + 1]
          /\ admitted' = admitted + 1
     ELSE UNCHANGED <<verifying, admitted>>
  /\ UNCHANGED charged

Penalty == 2

\* A wrong guess is charged; the answer is the same when the limiter refuses.
Wrong(w) ==
  /\ verifying[w] > 0
  /\ Consume(w, Penalty)
  /\ charged' = IF charged < Points THEN charged + 1 ELSE charged
  /\ Answered(w)
  /\ UNCHANGED admitted

\* A right guess deletes the key, in Redis and in the memory of its process.
Right(w) ==
  /\ verifying[w] > 0
  /\ Restart
  /\ remembered' = remembered \ {w}
  /\ Answered(w)

\* The second call of a guess finds the key blocked in memory, or Redis gone: a
\* wrong guess goes uncharged, a right one signs in with the key left as it is.
AnsweredOnly(w) ==
  /\ verifying[w] > 0
  /\ Answered(w)
  /\ UNCHANGED <<consumed, remembered, admitted, charged>>

\* The window or the block ends, or Redis lost its data.
WindowEnds ==
  /\ consumed > 0
  /\ Restart
  /\ UNCHANGED <<remembered, verifying>>

MemoryEnds(w) ==
  /\ w \in remembered
  /\ remembered' = remembered \ {w}
  /\ UNCHANGED <<consumed, verifying, admitted, charged>>

Next ==
  \/ \E w \in Processes :
       \/ \E passes \in BOOLEAN : Arrive(w, passes)
       \/ Wrong(w) \/ Right(w) \/ AnsweredOnly(w) \/ MemoryEnds(w)
  \/ WindowEnds

Spec == Init /\ [][Next]_vars

-----------------------------------------------------------------------------
\* However many guesses overlap, and with the limiter failing for a while: what
\* was let through and what was charged as wrong since the limiter last started
\* from zero is still counted, so that with n wrong guesses charged no more than
\* Points - 2 * n reach the password.
GuessesBounded ==
  /\ AtMost(admitted + 2 * charged) <= consumed
  /\ admitted <= Points

=============================================================================
