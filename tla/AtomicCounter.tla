--------------------------- MODULE AtomicCounter ---------------------------
(***************************************************************************)
(* What the Lab 3 counter programs promise: every thread adds one to a     *)
(* shared counter N times, each addition is indivisible, and the main      *)
(* program reports the total once nothing is left to add.                  *)
(***************************************************************************)
EXTENDS Integers

CONSTANTS Threads,    \* the worker threads
          N           \* additions each of them makes

NotReported == -1     \* value of out before the report

VARIABLES cnt,        \* the shared counter
          left,       \* left[t]: additions thread t has still to make
          out         \* what was reported

avars == <<cnt, left, out>>

Init == /\ cnt = 0
        /\ left = [t \in Threads |-> N]
        /\ out = NotReported

Increment(t) == /\ left[t] > 0
                /\ cnt' = cnt + 1
                /\ left' = [left EXCEPT ![t] = @ - 1]
                /\ UNCHANGED out

Report == /\ out = NotReported
          /\ \A t \in Threads : left[t] = 0
          /\ out' = cnt
          /\ UNCHANGED <<cnt, left>>

Next == Report \/ \E t \in Threads : Increment(t)

SafetySpec == Init /\ [][Next]_avars

Fairness == WF_avars(Report) /\ \A t \in Threads : WF_avars(Increment(t))

Spec == SafetySpec /\ Fairness
=============================================================================
