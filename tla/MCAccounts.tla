----------------------------- MODULE MCAccounts -----------------------------
(***************************************************************************)
(* What a caller shows to be let in, side by side: one account, the limit  *)
(* on password guesses, and the signed requests of workers; and the        *)
(* counters as binary numbers.  They share no state (the limiter lives in  *)
(* Redis), so "part" picks one.                                            *)
(***************************************************************************)
EXTENDS SignedRequests, FiniteSets, TLC

CONSTANTS Passwords, Tokens, Sessions, AccountRequests, Logins, Checks, MaxResets,
          Nothing, Processes, Points, MaxGuesses,
          Numbers, Amounts, MaxAmount, Limit, Significand, Ulps

\* The bounds are numbers.
ASSUME AccountsAssumption ==
  MaxResets \in Nat /\ Points \in Nat /\ MaxGuesses \in Nat

\* Powers of two are halved down to 1, and any number that a guard looks at while
\* the limit is kept has a last place.
ASSUME CountersAssumption ==
  /\ IsFiniteSet(Numbers)
  /\ MaxAmount \in Nat /\ Amounts \subseteq 0 .. MaxAmount
  /\ Limit \in Nat
  /\ Significand \in Nat \ {0} /\ Significand % 2 = 0
  /\ 1 \in Ulps /\ Ulps \subseteq Nat \ {0}
  /\ \A u \in Ulps \ {1} : \E half \in Ulps : u = 2 * half
  /\ \E u \in Ulps : Limit + MaxAmount < Significand * u

VARIABLES user, tokens, sessions, requests, logins, checks, resets,
          consumed, remembered, verifying, admitted, charged,
          reserved, allocated, reservation, part

Account == INSTANCE Accounts WITH Requests <- AccountRequests, None <- Nothing
Throttle == INSTANCE LoginThrottle
Counters == INSTANCE CounterArithmetic WITH Ids <- Numbers

accountVars == <<user, tokens, sessions, requests, logins, checks, resets>>
throttleVars == <<consumed, remembered, verifying, admitted, charged>>
counterVars == <<reserved, allocated, reservation>>
mcVars == <<vars, accountVars, throttleVars, counterVars, part>>

MCInit ==
  /\ part \in {"account", "throttle", "signed", "counters"}
  /\ Init /\ Account!Init /\ Throttle!Init /\ Counters!Init
MCNext ==
  /\ UNCHANGED part
  /\ \/ /\ part = "account" /\ Account!Next
        /\ UNCHANGED <<vars, throttleVars, counterVars>>
     \/ /\ part = "throttle" /\ Throttle!Next
        /\ UNCHANGED <<vars, accountVars, counterVars>>
     \/ /\ part = "signed" /\ Next
        /\ UNCHANGED <<accountVars, throttleVars, counterVars>>
     \/ /\ part = "counters" /\ Counters!Next
        /\ UNCHANGED <<vars, accountVars, throttleVars>>
MCSpec == MCInit /\ [][MCNext]_mcVars

TypesOK ==
  CASE part = "signed" -> TypeOK
    [] part = "account" -> Account!TypeOK
    [] part = "throttle" -> Throttle!TypeOK
    [] OTHER -> TRUE
OlderSessionsEnd == part = "account" => Account!OlderSessionsEnd
PasswordNeedsToken == Account!PasswordNeedsToken
GuessesBounded == part = "throttle" => Throttle!GuessesBounded
ExactWithinPrecision == part = "counters" => Counters!ExactWithinPrecision

Symmetry == Permutations(Passwords) \cup Permutations(Tokens)
              \cup Permutations(AccountRequests) \cup Permutations(Sessions)
=============================================================================
