----------------------------- MODULE MCMealPage -----------------------------
(* Two calls of the app may be under way; the slots are alike.             *)
EXTENDS MealPage, TLC

\* Without calls left neither the plan nor the page will be trusted again.
MayBeTrusted ==
    \/ fresh \/ trusted \/ calls < MaxCalls
    \/ \E c \in Call : call[c].op = "refreshMealplan" /\ call[c].alone

Symmetry == Permutations(Call)
=============================================================================
