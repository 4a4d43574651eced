------------------------------ MODULE MCPipeline ------------------------------
(***************************************************************************)
(* Small requests for the pipeline.  Two requests share an origin; chunks  *)
(* are larger and smaller than a batch, so that tickets are split over     *)
(* batches and batches hold several tickets.                               *)
(***************************************************************************)
EXTENDS Pipeline, TLC

CONSTANTS r1, r2, o1, o2

Chunk(o, n) == [origin |-> o, size |-> n]

(* A request of two origins and one of a single chunk. *)
TwoRequests == (r1 :> <<Chunk(o1, 1), Chunk(o2, 2)>>) @@ (r2 :> <<Chunk(o1, 2)>>)

PipelineActors == Requests \cup {"batcher", "writer"}

SecondIsPoison == {<<r2, 1, 1>>}
===============================================================================
