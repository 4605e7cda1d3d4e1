--------------------------- MODULE MCDagExecutor ---------------------------
(***************************************************************************)
(* Instances of DagExecutor for TLC: the workflow graphs.                   *)
(***************************************************************************)
EXTENDS DagExecutor, TLC

CONSTANTS a, b, c, d, e

\* Three independent roots; d joins two of them, e follows d and the third, so
\* that a failure has a dependent at distance two.
FanSteps == {a, b, c, d, e}
Fan == (a :> {}) @@ (b :> {}) @@ (c :> {}) @@ (d :> {a, b}) @@ (e :> {c, d})

\* Two roots; c reviews a and gates d, e follows b alone.
WideSteps == {a, b, c, d, e}
Wide == (a :> {}) @@ (b :> {}) @@ (c :> {a}) @@ (d :> {b, c}) @@ (e :> {b})

\* As Wide, but the gated step d waits for the review alone.
GatedSteps == {a, b, c, d, e}
Gated == (a :> {}) @@ (b :> {}) @@ (c :> {a}) @@ (d :> {c}) @@ (e :> {b})

\* Two independent steps.
PairSteps == {a, b}
Pair == (a :> {}) @@ (b :> {})

\* Work a, then a final review b.
FinalReviewSteps == {a, b}
FinalReview == (a :> {}) @@ (b :> {a})
=============================================================================
