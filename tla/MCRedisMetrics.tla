--------------------------- MODULE MCRedisMetrics ---------------------------
(***************************************************************************)
(* Small instances of RedisMetrics: a service that logs errors, one whose  *)
(* name has a blank in front in one log of a batch of two.                 *)
(***************************************************************************)
EXTENDS RedisMetrics, TLC

MCLog == {<<"a", "ERROR">>, <<"b", "INFO">>, <<" b", "INFO">>}
MCBatches == {<< <<"a", "ERROR">> >>, << <<"b", "INFO">>, <<" b", "INFO">> >>}
MCTrimSpace == [s \in {"a", "b", " b"} |-> IF s = " b" THEN "b" ELSE s]
MCSymmetry == Permutations(Writer)
MCInfo == {<< <<"b", "INFO">> >>}
MCErrors == {<< <<"a", "ERROR">> >>}
=============================================================================
