----------------------------- MODULE MCPipeline -----------------------------
(***************************************************************************)
(* Small instances of Pipeline.  Two timestamps, of two days.  Other       *)
(* clients post one payload for each check of the ingestor.                *)
(***************************************************************************)
EXTENDS Pipeline

Log == [timestamp |-> 1, level |-> "INFO", service |-> "api", message |-> "text",
        trace |-> 0, ip |-> "10.0.0.1", json |-> TRUE]

MCText ==
  {"", "INFO", "ERROR", "MIXED", "mixed", "info", "error", "loud", "none", "api", "huge",
   "text", "wide", "10.0.0.1"}

MCPayload ==
  { [Log EXCEPT !.level = "info", !.trace = 1],   \* maybe one of the generator's
    [Log EXCEPT !.timestamp = 2],                        \* of tomorrow
    [Log EXCEPT !.service = "huge"],
    [Log EXCEPT !.timestamp = 0],
    [Log EXCEPT !.level = "none"],
    [Log EXCEPT !.service = ""],
    [Log EXCEPT !.message = "wide"],
    [Log EXCEPT !.ip = "none"],
    [Log EXCEPT !.json = FALSE] }

(* Runs with -n, one without, one whose flags are rejected. *)
MCFlag ==
  { [n |-> 2, level |-> "info", errorRate |-> FALSE, trace |-> TRUE],
    [n |-> 1, level |-> "mixed", errorRate |-> FALSE, trace |-> TRUE],
    [n |-> 1, level |-> "error", errorRate |-> TRUE, trace |-> FALSE],
    [n |-> 0, level |-> "error", errorRate |-> FALSE, trace |-> FALSE],
    [n |-> 0, level |-> "loud", errorRate |-> FALSE, trace |-> FALSE] }

(* Bound: other clients, the clock and the reader are idle in a behaviour  *)
(* in which the generator runs.                                            *)
Generating == Validate(config)

Bound ==
  Generating => UNCHANGED <<now, reader>> /\ \A n \in ClientRequest : UNCHANGED client[n]

MCTraced == {[Log EXCEPT !.trace = 1]}
MCSpec == Init /\ [][Next /\ Bound]_vars /\ Fairness
=============================================================================
