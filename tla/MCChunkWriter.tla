---------------------------- MODULE MCChunkWriter ----------------------------
(* ChunkWriter with bytes of one bit and chunks of at most three of them. *)
EXTENDS ChunkWriter

(* No, one, some, a chunk of, a chunk and more, and two chunks of bytes. *)
SmallFragments ==
  {<<>>, <<1>>, <<0, 1>>, <<0, 0, 1>>, <<1, 0, 1, 1>>, <<0, 1, 0, 0, 1, 1>>}

==============================================================================
