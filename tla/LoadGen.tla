------------------------------- MODULE LoadGen -------------------------------
(***************************************************************************)
(* The load generator: ParseFlags and Validate of cmd/loadgen/config.go,   *)
(* GenerateLogPayload of generator.go, Runner.Run and Runner.sendOne of    *)
(* runner.go with BenchmarkStats.Record of stats.go.                       *)
(*                                                                         *)
(* With -n the workers share a closed channel that holds one element per   *)
(* log to send; without it they send until the duration has elapsed.  The  *)
(* limiter delays a worker and is not timed.  Latencies and percentiles    *)
(* are left out.  The module has no next-state relation of its own:        *)
(* Pipeline joins its sends and answers with those of the ingestor.        *)
(***************************************************************************)
EXTENDS LogMessage, FiniteSets

CONSTANTS
  Worker,   \* the worker goroutines
  Flag      \* command lines the generator may be started with

(* -n, -level, whether -error-rate is given, -trace-id. *)
ASSUME FlagAssumption ==
  /\ IsFiniteSet(Worker)
  /\ Flag \subseteq [n : Nat, level : Text, errorRate : BOOLEAN, trace : BOOLEAN]

VARIABLES
  config,      \* the flags after ParseFlags
  jobs,        \* elements left in the channel jobs
  worker,      \* where each worker is
  cancelled,   \* is runCtx done?
  stats        \* BenchmarkStats: requests recorded, by outcome

loadgenVars == <<config, jobs, worker, cancelled, stats>>

ParseFlags(f) == [f EXCEPT !.level = ToUpper(@)]
Validate(c) == c.level \in ValidLevel \union {"MIXED"}

(* MUTATION of SelectLevel: the level of the configuration is sent as is.  *)
SelectLevelAsConfigured(c) == {c.level}

(* The levels a log may get; an error rate overrides -level. *)
SelectLevel(c) ==
  IF c.errorRate \/ c.level = "MIXED" THEN ValidLevel ELSE {c.level}

(* The logs a worker may send at the time t, with a random trace id r. *)
GenerateLogPayload(c, t, r) ==
  {[timestamp |-> t, level |-> l, service |-> "api", message |-> "text",
    trace |-> IF c.trace THEN r ELSE 0, ip |-> "10.0.0.1",
    json |-> TRUE] : l \in SelectLevel(c)}

(* Run creates the channel and the workers, unless Validate rejects the    *)
(* flags and main exits.                                                   *)
LoadGenInit ==
  /\ \E f \in Flag : config = ParseFlags(f)
  /\ jobs = config.n
  /\ worker = [w \in Worker |-> IF Validate(config) THEN "loop" ELSE "done"]
  /\ cancelled = FALSE
  /\ stats = [success |-> 0, failed |-> 0]

TotalSent == stats.success + stats.failed
At(where) == {w \in Worker : worker[w] = where}
Goto(w, where) == worker' = [worker EXCEPT ![w] = where]

-----------------------------------------------------------------------------
(* MUTATION of Return: the signal ends the select, not the loop. *)
ReturnFromSelect(w) == Goto(w, "loop")

(* A worker finds runCtx done and returns. *)
Return(w) == Goto(w, "done")

(* The head of the loop: with -n, a worker takes an element of jobs or,    *)
(* when there is none, ends.  Then it looks whether runCtx is done.        *)
TakeJob(w) ==
  /\ worker[w] = "loop"
  /\ IF config.n > 0 /\ jobs = 0
     THEN Goto(w, "done")
     ELSE IF cancelled THEN Return(w) ELSE Goto(w, "ready")
  /\ jobs' = IF jobs > 0 THEN jobs - 1 ELSE 0
  /\ UNCHANGED <<config, cancelled, stats>>

(* MUTATION of Abandon: a worker returns with its request under way. *)
AbandonInFlight(w) ==
  /\ worker[w] \in {"ready", "sending"} /\ cancelled
  /\ Return(w)
  /\ UNCHANGED <<config, jobs, cancelled, stats>>

(* runCtx is done while the worker waits for the limiter: what it has      *)
(* taken is not sent.                                                      *)
Abandon(w) ==
  /\ worker[w] = "ready" /\ cancelled
  /\ Return(w)
  /\ UNCHANGED <<config, jobs, cancelled, stats>>

(* sendOne up to httpClient.Do, perhaps after a signal that came since the *)
(* worker looked, or with the tick of the limiter.                         *)
Send(w) ==
  /\ worker[w] = "ready"
  /\ Goto(w, "sending")
  /\ UNCHANGED <<config, jobs, cancelled, stats>>

(* MUTATION of Record: a request without an answer is not recorded.        *)
RecordAnswered(w, status) ==
  /\ worker[w] = "sending"
  /\ Goto(w, "loop")
  /\ stats' = CASE status = "202" -> [stats EXCEPT !.success = @ + 1]
                [] status = "error" -> stats
                [] OTHER -> [stats EXCEPT !.failed = @ + 1]
  /\ UNCHANGED <<config, jobs, cancelled>>

(* sendOne from the result of httpClient.Do: an answer or an error.        *)
Record(w, status) ==
  /\ worker[w] = "sending"
  /\ Goto(w, "loop")
  /\ stats' = IF status = "202" THEN [stats EXCEPT !.success = @ + 1]
                                ELSE [stats EXCEPT !.failed = @ + 1]
  /\ UNCHANGED <<config, jobs, cancelled>>

(* SIGINT, or the timer of Run, which is not started with -n. *)
Cancel ==
  /\ ~cancelled /\ cancelled' = TRUE
  /\ UNCHANGED <<config, jobs, worker, stats>>

(* wg.Wait has returned. *)
Finished == At("done") = Worker
=============================================================================
