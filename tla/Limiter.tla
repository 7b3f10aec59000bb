------------------------------- MODULE Limiter -------------------------------
(***************************************************************************)
(* What the rate limiter promises: every key has a debt, which a granted   *)
(* request raises by its cost and time lowers to zero. A request is        *)
(* granted as long as the debt stays within the capacity. The only other   *)
(* reason to refuse is that as many keys are in debt as the table holds.   *)
(***************************************************************************)
EXTENDS Integers, FiniteSets

CONSTANTS Key, Cost, Capacity, MaxEntries

VARIABLES
  debt,     \* debt[k]: what k still owes
  answer    \* the last request and its answer

NoAnswer == [key |-> "none", cost |-> 0, granted |-> FALSE]

Answer(k, c, granted) == [key |-> k, cost |-> c, granted |-> granted]

LimiterInit ==
  /\ debt = [k \in Key |-> 0]
  /\ answer = NoAnswer

\* Time forgives every key one token.
Forgive ==
  /\ debt' = [k \in Key |-> IF debt[k] > 0 THEN debt[k] - 1 ELSE 0]
  /\ UNCHANGED answer

Grant(k, c) ==
  /\ debt[k] + c =< Capacity
  /\ debt' = [debt EXCEPT ![k] = @ + c]
  /\ answer' = Answer(k, c, TRUE)

Refuse(k, c) ==
  /\ \/ debt[k] + c > Capacity
     \/ Cardinality({j \in Key : debt[j] > 0}) >= MaxEntries
  /\ answer' = Answer(k, c, FALSE)
  /\ UNCHANGED debt

LimiterNext ==
  \/ Forgive
  \/ \E k \in Key, c \in Cost : Grant(k, c) \/ Refuse(k, c)

LimiterSpec == LimiterInit /\ [][LimiterNext]_<<debt, answer>>
=============================================================================
