----------------------------- MODULE MCServices ----------------------------
(***************************************************************************)
(* The instance of Services that TLC checks.                               *)
(***************************************************************************)
EXTENDS Services

\* Every minute on Sunday (written as the alias, DowMax + 1), every
\* other minute, and an expression out of range.
MCExpressions ==
    << [plain |-> {Part("star", 0, 0, NoStep)},
        dow   |-> {Part("value", DowMax + 1, DowMax + 1, NoStep)}],
       [plain |-> {Part("star", 0, 0, 2)}, dow |-> {Part("star", 0, 0, NoStep)}],
       [plain |-> {Part("value", PlainMax + 1, PlainMax + 1, NoStep)},
        dow   |-> {Part("star", 0, 0, NoStep)}] >>

\* Both servers advertise "read", which reads on the one and mutates on the
\* other; s2 also advertises what its filter does not let in, and needs a secret.
MCAdvertised ==
    [s \in {"s1", "s2"} |->
        IF s = "s1" THEN [n \in {"read"} |-> FALSE]
        ELSE [n \in {"read", "write"} |-> TRUE]]

MCSettings == [s \in {"s1", "s2"} |-> {[filter |-> {"read"}, secret |-> s = "s2"]}]

MCScopes ==
    { [agent |-> [s \in {"s1", "s2"} |-> "unset"],
       run   |-> [s \in {"s1", "s2"} |-> IF s = "s1" THEN "on" ELSE "unset"]],
      [agent |-> [s \in {"s1", "s2"} |-> IF s = "s1" THEN "off" ELSE "on"],
       run   |-> [s \in {"s1", "s2"} |-> "on"]] }

MCDepSets ==
    {{}, {"s1"}, {"s2"}, {"s1", "s2"}, {"ghost"}, {"s1", "empty"}, {"s2", "number"}}

MCTemplate ==
    <<Step("s2", "agent", "ref", TRUE, {"s1"}), Step("s1", "tool", "empty", TRUE, {"empty"})>>

=============================================================================
