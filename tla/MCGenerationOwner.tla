------------------------- MODULE MCGenerationOwner -------------------------
(* Instances of GenerationOwner for TLC. *)
EXTENDS GenerationOwner, TLC

CONSTANTS r1, r2, m1, m2

\* Pairs of requests that meet on one engine, or contend with two engines for
\* one permit; the choice generation, which has most to interleave with its
\* own reader, by itself.
Mix(a, b) == r1 :> a @@ r2 :> b
Mixtures == {Mix("choice", "none"), Mix("chat", "none"), Mix("embed", "count"), Mix("embed", "embed")}
OneOrTwoEngines == {Mix(m1, m1), Mix(m1, m2)}

\* A choice generation by itself.
OneChoice == {r1 :> "choice"}
OnePlacement == {r1 :> m1}
=============================================================================
