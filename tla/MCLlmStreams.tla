---------------------------- MODULE MCLlmStreams ----------------------------
(* Small instances of LlmStreams for TLC. *)
EXTENDS LlmStreams, TLC

Symmetry == Permutations(Streams) \cup Permutations(Followers)

=============================================================================

