------------------------------ MODULE Backoff ------------------------------
(***************************************************************************)
(* How long Run sleeps between two attempts (internal/client/client.go):   *)
(* the attempts it counts, and reconnectDelay with its loop, which doubles *)
(* a delay in integers of a fixed width.  A duration is a number of        *)
(* nanoseconds; configured ones may be anything, also zero or negative.    *)
(***************************************************************************)
EXTENDS Integers

CONSTANTS
  Top,             \* the largest duration, 2^63 - 1
  Durations,       \* the durations that a configuration may hold
  DefaultInitial,  \* defaultReconnectInitialDelay
  DefaultMax,      \* defaultReconnectMaxDelay
  MaxAttempts      \* bound: attempts in a row that do not connect

ASSUME BackoffAssumption ==
  /\ Top \in Nat
  /\ Durations \subseteq -Top..Top
  /\ DefaultInitial \in 1..Top
  /\ DefaultMax \in 1..Top
  /\ MaxAttempts \in Nat

VARIABLES
  bpc,       \* in a session, in the loop of reconnectDelay, or asleep
  initial,   \* reconnectDelay's initial, once it is positive
  maxDelay,  \* reconnectDelay's maxDelay, once it is positive
  attempt,   \* Run's attempt
  i,         \* the loop's counter
  delay      \* the delay so far, and what Run sleeps

settings == <<initial, maxDelay>>
backoffVars == <<bpc, settings, attempt, i, delay>>

OrDefault(d, default) == IF d <= 0 THEN default ELSE d

BackoffInit ==
  /\ bpc = "session"
  /\ \E d \in Durations : initial = OrDefault(d, DefaultInitial)
  /\ \E d \in Durations : maxDelay = OrDefault(d, DefaultMax)
  /\ attempt = 0
  /\ i = 0
  /\ delay = 0

(* Multiplication in two's complement. *)
Twice(d) == IF 2 * d > Top THEN 2 * d - 2 * (Top + 1) ELSE 2 * d

(* A session fails.  One that had connected starts the count afresh. *)
SessionFailed(connected) ==
  /\ bpc = "session"
  /\ attempt < MaxAttempts \/ connected
  /\ attempt' = IF connected THEN 1 ELSE attempt + 1
  /\ i' = 1
  /\ delay' = initial
  /\ bpc' = "doubling"
  /\ UNCHANGED settings

(* Slip: the delay is compared with the maximum when it has been doubled.  *)
DoubleUnguarded ==
  /\ bpc = "doubling"
  /\ i < attempt
  /\ delay' = Twice(delay)
  /\ i' = i + 1
  /\ UNCHANGED <<settings, attempt, bpc>>

(* The loop's body: the maximum when the next doubling could pass it. *)
Double ==
  /\ bpc = "doubling"
  /\ i < attempt
  /\ IF delay >= maxDelay \div 2
       THEN delay' = maxDelay /\ bpc' = "asleep" /\ UNCHANGED i
       ELSE delay' = Twice(delay) /\ i' = i + 1 /\ UNCHANGED bpc
  /\ UNCHANGED <<settings, attempt>>

(* The loop is over. *)
Done ==
  /\ bpc = "doubling"
  /\ i >= attempt
  /\ delay' = IF delay > maxDelay THEN maxDelay ELSE delay
  /\ bpc' = "asleep"
  /\ UNCHANGED <<settings, attempt, i>>

(* The timer fires, and the next session begins. *)
Awake ==
  /\ bpc = "asleep"
  /\ bpc' = "session"
  /\ UNCHANGED <<settings, attempt, i, delay>>

BackoffNext ==
  (\E connected \in BOOLEAN : SessionFailed(connected)) \/ Double \/ Done \/ Awake

BackoffSpec == BackoffInit /\ [][BackoffNext]_backoffVars

-----------------------------------------------------------------------------
(* Correctness. *)

Least(a, b) == IF a <= b THEN a ELSE b

(* Run never sleeps longer than the maximum, nor less than the initial     *)
(* delay or the maximum, whichever is shorter: a delay that wrapped round  *)
(* would be negative, and the client would redial without a pause.         *)
DelayBounded ==
  bpc = "asleep" => delay \in Least(initial, maxDelay)..maxDelay

(* What makes DelayBounded inductive: no product ever passes Top.          *)
BackoffInv ==
  /\ bpc \in {"session", "doubling", "asleep"}
  /\ initial \in 1..Top
  /\ maxDelay \in 1..Top
  /\ attempt \in Nat
  /\ i \in Nat
  /\ delay \in 0..Top
  /\ bpc = "doubling" => delay >= Least(initial, maxDelay)
  /\ DelayBounded
=============================================================================
