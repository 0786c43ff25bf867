--------------------------- MODULE EmbeddingRoutes ---------------------------
(***************************************************************************)
(* The two routes an embedding takes (embedding/adaptive-provider.ts): the *)
(* general one over the Pro API, and the local ONNX model.  They share no  *)
(* state; a write goes through one or the other.                           *)
(***************************************************************************)
EXTENDS AdaptiveEmbedding, LocalEmbedding

EmbeddingSpec == AdaptiveSpec /\ LocalSpec

\* Both routes are sound: the free label tells its maker and the general one
\* differs from it only after a request that failed for the text, nothing is
\* accepted without its vector, and the caches hold no text twice and no more
\* than they may.
EmbeddingSound == LabelsSound /\ LocalTypeOK /\ StoredWithVectors
==============================================================================
