---------------------------- MODULE MCModelUsage ----------------------------
(* Small instances of ModelUsage.                                           *)
EXTENDS ModelUsage, TLC

CONSTANTS pa, pb, r1, r2, c1, c2

MCFallbacks == (c1 :> {<<pa, pb, pa>>}) @@ (c2 :> {<<>>})
MCPool == (pa :> <<r1, r2>>) @@ (pb :> <<>>)
Health(known, available, ra, rb) ==
    [known |-> known, available |-> available, rank |-> (pa :> ra) @@ (pb :> rb)]
MCHealths == {Health(<<pa, pb>>, {pa, pb}, 1, 0), Health(<<pb, pa>>, {pa, pb}, 0, 0),
              Health(<<pb>>, {pa}, 0, 0)}
Setup(some, m, n) == [parts |-> some, calls |-> (c1 :> m) @@ (c2 :> n)]
MCSetups == {Setup({"budgets"}, 2, 1), Setup({"budgets", "subagents"}, 1, 0),
             Setup({"limiter", "cache"}, 1, 1), Setup({"pools"}, 1, 1),
             Setup({"budgets", "limiter"}, 1, 0)}
=============================================================================
