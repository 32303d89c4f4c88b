------------------------------ MODULE UseBudget ------------------------------
(***************************************************************************)
(* What an invite promises, with no cache in sight: a token admits as      *)
(* often as its budget allows, and is refused only once that is spent.     *)
(***************************************************************************)
EXTENDS Integers

CONSTANTS Workers, Tokens, MaxUses, UsesCount, None

VARIABLES
    left,     \* left[t]: admissions token t still has
    request,  \* request[w]: the token worker w is deciding, or None
    verdict   \* verdict[w]: what worker w last answered

budgetVars == <<left, request, verdict>>

Unspent(cap, count) == IF count < cap THEN cap - count ELSE 0

BudgetInit ==
    /\ left = [t \in Tokens |-> Unspent(MaxUses[t], UsesCount[t])]
    /\ request = [w \in Workers |-> None]
    /\ verdict = [w \in Workers |-> "none"]

Ask(w, t) ==
    /\ request[w] = None
    /\ request' = [request EXCEPT ![w] = t]
    /\ verdict' = [verdict EXCEPT ![w] = "none"]
    /\ UNCHANGED left

Answer(w, v) ==
    /\ request' = [request EXCEPT ![w] = None]
    /\ verdict' = [verdict EXCEPT ![w] = v]

Admit(w, t) ==
    /\ request[w] = t
    /\ left[t] > 0
    /\ left' = [left EXCEPT ![t] = @ - 1]
    /\ Answer(w, "admitted")

Deny(w, t) ==
    /\ request[w] = t
    /\ left[t] = 0
    /\ Answer(w, "denied")
    /\ UNCHANGED left

BudgetNext ==
    \E w \in Workers, t \in Tokens : Ask(w, t) \/ Admit(w, t) \/ Deny(w, t)

BudgetSpec == BudgetInit /\ [][BudgetNext]_budgetVars
=============================================================================
