------------------------------ MODULE TokenBucket ------------------------------
(***************************************************************************)
(* The shared token bucket that limits the enclave's gRPC ingress          *)
(* (middleware/rate_limit.rs).  The code's f64 token count is an exact     *)
(* fraction here: a token is worth Cost units, and Rate units are earned   *)
(* per tick of the clock.  Every clone of the bucket shares one state, and *)
(* try_acquire holds its lock throughout, so it is one step.               *)
(*                                                                         *)
(* window and granted observe: granted counts the tokens granted since the *)
(* time window, which may be moved to the current time at any moment.      *)
(***************************************************************************)
EXTENDS Integers

CONSTANTS
  Rate,        \* units earned per tick
  Cost,        \* units in a token
  Burst        \* tokens the bucket holds when full

ASSUME BucketAssumption ==
  /\ Rate \in Nat /\ Cost \in Nat \ {0} /\ Burst \in Nat

VARIABLES now, tokens, last_refill, window, granted

bucket   == <<tokens, last_refill>>
observer == <<window, granted>>
limiter  == <<now, bucket, observer>>

Capacity == Burst * Cost

BucketInit ==
  /\ now = 0 /\ tokens = Capacity /\ last_refill = 0
  /\ window = 0 /\ granted = 0

\* What the lazy refill finds in the bucket.
refilled ==
  LET earned == tokens + Rate * (now - last_refill)
  IN  IF earned <= Capacity THEN earned ELSE Capacity

try_acquire_KeepsRefillTime(ok) ==
  /\ ok = (refilled >= Cost)
  /\ tokens' = IF ok THEN refilled - Cost ELSE refilled
  /\ granted' = IF ok THEN granted + 1 ELSE granted
  /\ UNCHANGED <<now, last_refill, window>>

try_acquire(ok) ==
  /\ ok = (refilled >= Cost)
  /\ tokens' = IF ok THEN refilled - Cost ELSE refilled
  /\ last_refill' = now
  /\ granted' = IF ok THEN granted + 1 ELSE granted
  /\ UNCHANGED <<now, window>>

tick    == now' = now + 1 /\ UNCHANGED <<bucket, observer>>
observe == window' = now /\ granted' = 0 /\ UNCHANGED <<now, bucket>>

BucketNext == (\E ok \in BOOLEAN : try_acquire(ok)) \/ tick \/ observe

BucketSpec == BucketInit /\ [][BucketNext]_limiter

----------------------------------------------------------------------------
BucketType ==
  /\ now \in Nat /\ last_refill \in 0 .. now /\ window \in 0 .. now
  /\ tokens \in 0 .. Capacity
  /\ granted \in Nat

\* The quota: however the requests arrive, between any moment and any later one
\* the bucket grants at most Burst tokens and what the elapsed time has earned,
\* and what is still in it comes out of that allowance too (rate_limit.rs:
\* "rate = N req per `per` window, burst = N").
WindowBound == granted * Cost + refilled <= Capacity + Rate * (now - window)
=============================================================================
