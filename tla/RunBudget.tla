------------------------------ MODULE RunBudget ------------------------------
(***************************************************************************)
(* The Budget of one run (control-plane/core/orchestration_types.py) as its  *)
(* row keeps it: the budget_json that BudgetTracker and SubagentManager both *)
(* read, add to and write back.  Tokens stand for the cost too: the limit on *)
(* cost is checked and charged by the same statements.                       *)
(***************************************************************************)
EXTENDS Naturals

CONSTANTS
    MaxTokens,    \* max_tokens of the budget
    Estimates,    \* what the cost estimator may say of a request; {0} without one
    Usages,       \* token usages a model call or a subagent may report
    MaxUsage      \* an upper bound on them

VARIABLE used     \* budget_json.used_tokens

ASSUME BudgetAssumption ==
    /\ MaxTokens \in Nat /\ MaxUsage \in Nat
    /\ Usages \subseteq 0..MaxUsage
    /\ Estimates \subseteq 0..MaxUsage

WouldExceed(tokens) == used + tokens > MaxTokens
=============================================================================
