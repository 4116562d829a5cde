---------------------------- MODULE MCChunkIndex ----------------------------
(* Instances of ChunkIndex for TLC: one document older than the chunk      *)
(* table and one newer, texts of up to two chunks, batches of one.         *)
EXTENDS ChunkIndex
=============================================================================
