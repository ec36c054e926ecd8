--------------------------- MODULE MCFallbackStore ---------------------------
(***************************************************************************)
(* FallbackStore on a small cache.                                         *)
(***************************************************************************)
EXTENDS FallbackStore, TLC

\* Conversation ids are interchangeable.
Symmetry == Permutations(ConversationId)
===============================================================================
