----------------------------- MODULE MeshBreaker -----------------------------
(***************************************************************************)
(* The circuit breaker of an agent, runtime/gmaos/breaker.py, as the       *)
(* values it takes and what its methods make of them.  Each method holds   *)
(* the breaker's lock, so each is a function from a value to a value.      *)
(*                                                                         *)
(* "over" says that the open duration has elapsed since the circuit opened; *)
(* the length of that duration, and its doubling, are not told apart.      *)
(***************************************************************************)
EXTENDS Naturals

CONSTANTS
  FailureThreshold,   \* consecutive failures that open a closed circuit
  SuccessThreshold    \* consecutive successes that close a half-open one

ASSUME ThresholdAssumption ==
  FailureThreshold \in Nat \ {0} /\ SuccessThreshold \in Nat \ {0}

BreakerState == {"CLOSED", "OPEN", "HALF_OPEN"}

(* The streaks are compared with their thresholds only, and capped there.  *)
Breaker ==
  [state : BreakerState,
   failStreak : 0..FailureThreshold,
   succStreak : 0..SuccessThreshold,
   probeSent : BOOLEAN,
   over : BOOLEAN]

FreshBreaker ==
  [state |-> "CLOSED", failStreak |-> 0, succStreak |-> 0,
   probeSent |-> FALSE, over |-> FALSE]

Transition(b, s) ==
  [b EXCEPT !.state = s, !.succStreak = 0, !.probeSent = FALSE, !.over = FALSE]

Evaluated(b) == IF b.state = "OPEN" /\ b.over THEN Transition(b, "HALF_OPEN") ELSE b

(* allow: whether a call may proceed, and the breaker after the question.  *)
Allows(b) ==
  \/ Evaluated(b).state = "CLOSED"
  \/ Evaluated(b).state = "HALF_OPEN" /\ ~Evaluated(b).probeSent

Asked(b) ==
  IF Evaluated(b).state = "HALF_OPEN"
  THEN [Evaluated(b) EXCEPT !.probeSent = TRUE]
  ELSE Evaluated(b)

OneMore(streak, threshold) == IF streak < threshold THEN streak + 1 ELSE threshold

AfterSuccess(b) ==
  LET calm == [b EXCEPT !.failStreak = 0] IN
  CASE b.state # "HALF_OPEN" -> calm
    [] b.state = "HALF_OPEN" /\ b.succStreak + 1 >= SuccessThreshold ->
         Transition(calm, "CLOSED")
    [] OTHER -> [calm EXCEPT !.succStreak = @ + 1]

AfterFailure(b) ==
  LET worse == [b EXCEPT !.succStreak = 0,
                         !.failStreak = OneMore(@, FailureThreshold)] IN
  IF \/ b.state = "HALF_OPEN"
     \/ b.state = "CLOSED" /\ worse.failStreak >= FailureThreshold
  THEN Transition(worse, "OPEN")
  ELSE worse
=============================================================================
