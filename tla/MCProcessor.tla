----------------------------- MODULE MCProcessor -----------------------------
(***************************************************************************)
(* Small instances of Processor.  The first message of partition 0 cannot  *)
(* be parsed and the second cannot be mapped, so each of the two dead      *)
(* letter paths of ProcessBatch lies before messages that are fine, and in *)
(* a batch of the two a position of the bulk response is not that of the   *)
(* batch.                                                                  *)
(***************************************************************************)
EXTENDS Processor

MCPoison == {<<0, 0>>}
MCUnmappable == {<<0, 1>>}
MCNone == {}
=============================================================================
