---------------------------- MODULE RedisMetrics ----------------------------
(***************************************************************************)
(* The real-time metrics in Redis: RecordLog and RecordBatch of            *)
(* internal/redis/client.go, called by several processors, beside the      *)
(* query of the live metrics endpoint, GetLiveMetrics.                     *)
(*                                                                         *)
(* A pipeline sends its commands together, but Redis executes them one by  *)
(* one, and those of other connections in between; it is not a             *)
(* transaction.  When the connection breaks, a prefix has been executed    *)
(* and the caller, which sees only an error, starts all over or gives up.  *)
(*                                                                         *)
(* Limits of the model.  One tenant; names of services for which two keys  *)
(* coincide ("total") are left out, and so are the sets of IP addresses,   *)
(* which nothing reads.  A list is its length.  Time passes in steps, and  *)
(* a key that expires is gone at that step.  What Redis executes of a      *)
(* broken pipeline comes before its repetition.                            *)
(***************************************************************************)
EXTENDS Integers, Sequences, FiniteSets, Functions

CONSTANTS
  Writer,       \* the processors
  Service,      \* names of services, as the logs carry them
  TrimSpace,    \* the name without surrounding blanks, "" if it is blank
  Log,          \* logs: pairs of a service and a level
  Batches,      \* sequences of logs that a processor may record at once
  Window,       \* time to live of the window counters, in steps of the clock
  RecentMax,    \* the number of recent errors kept per service
  MaxBatches,   \* number of calls of RecordBatch (bounds the model)
  MaxBreaks,    \* number of broken connections (bounds the model)
  MaxTime       \* the time at which the clock stops (bounds the model)

Level == {"INFO", "ERROR"}
Time == 1 .. MaxTime

ASSUME LogAssumption ==
  /\ Log \subseteq Service \X Level
  /\ Batches \subseteq Seq(Log) \ {<< >>}

ASSUME TrimAssumption ==
  /\ TrimSpace \in [Service -> Service \union {""}]
  /\ "" \notin Service

ASSUME FiniteAssumption == IsFiniteSet(Writer) /\ IsFiniteSet(Service)

ASSUME BoundsAssumption ==
  /\ Window \in Nat \ {0} /\ RecentMax \in Nat \ {0} /\ MaxTime \in Nat \ {0}
  /\ MaxBatches \in Nat /\ MaxBreaks \in Nat

(***************************************************************************)
(* The keys that count: strings and members of the two leaderboards.       *)
(***************************************************************************)
Total == <<"stats:logs:total">>
OfService(s) == <<"stats:logs", s>>
OfLevel(l) == <<"stats:logs:level", l>>
Ranked(s) == <<"leaderboard:services", s>>
Errors(s) == <<"stats:errors", s>>
Last5m(s) == <<"stats:errors:last_5m", s>>
Message(m) == <<"leaderboard:errors", m>>

Key == {Total} \union (UNION {{OfService(s), Ranked(s), Errors(s), Last5m(s)} : s \in Service})
         \union {OfLevel(l) : l \in Level} \union {Message(m) : m \in Log}

VARIABLES
  count,       \* the value of each key, 0 when it does not exist
  expiry,      \* when the window counter of a service expires, 0 for never
  recent,      \* the length of the list of recent errors of a service
  now,         \* the clock of Redis
  batch,       \* the logs of the call in progress of each writer
  nth,         \* the log of that call whose commands Redis executes
  cmd,         \* the command of that log that Redis executes next
  reader,      \* what GetLiveMetrics has read so far
  oldest,      \* history: when the oldest error of a window counter got its EXPIRE
  calls,       \* history: number of calls of RecordBatch so far
  breaks       \* history: number of broken connections so far

redisVars == <<count, expiry, recent>>
writerVars == <<batch, nth, cmd>>
boundVars == <<calls, breaks>>
vars == <<redisVars, now, writerVars, reader, oldest, boundVars>>

(***************************************************************************)
(* The commands of one log, in the order in which they are queued.         *)
(***************************************************************************)
Incr(k) == [op |-> "incr", key |-> k]

OnError(m) ==
  << Incr(Errors(m[1])), Incr(Last5m(m[1])), [op |-> "expire", service |-> m[1]],
     Incr(Message(m)), [op |-> "lpush", service |-> m[1]], [op |-> "ltrim", service |-> m[1]] >>

(* MUTATIONS of Commands: errors are counted in front; the leaderboard is  *)
(* for errors only; the window counter gets no time to live.               *)
CommandsErrorFirst(m) ==
  (IF m[2] = "ERROR" THEN OnError(m) ELSE << >>) \o
  << Incr(Total), Incr(OfService(m[1])), Incr(OfLevel(m[2])), Incr(Ranked(m[1])) >>

CommandsRankErrors(m) ==
  << Incr(Total), Incr(OfService(m[1])), Incr(OfLevel(m[2])) >> \o
  (IF m[2] = "ERROR" THEN << Incr(Ranked(m[1])) >> \o OnError(m) ELSE << >>)

CommandsNoExpire(m) ==
  << Incr(Total), Incr(OfService(m[1])), Incr(OfLevel(m[2])), Incr(Ranked(m[1])) >> \o
  (IF m[2] = "ERROR" THEN SelectSeq(OnError(m), LAMBDA c : c.op # "expire") ELSE << >>)

Commands(m) ==
  << Incr(Total), Incr(OfService(m[1])), Incr(OfLevel(m[2])), Incr(Ranked(m[1])) >> \o
  (IF m[2] = "ERROR" THEN OnError(m) ELSE << >>)

(* What the pipeline of w still has to do: everything from the command cmd *)
(* of the log nth on.                                                      *)
Left(w) == nth[w] \in DOMAIN batch[w]
Queued(w) == Commands(batch[w][nth[w]])
Current(w) == Queued(w)[cmd[w]]

InProgress == {w \in Writer : batch[w] # << >>}

(* Nothing is read; "open" is a history: the pipelines in progress and the *)
(* connections broken when the total was read.                             *)
Quiet == [phase |-> "idle", total |-> 0, todo |-> {}, logs |-> 0, open |-> 0, failed |-> FALSE]

(* TypeOK: the type of each variable. *)
TypeOK ==
  /\ count \in [Key -> Nat]
  /\ expiry \in [Service -> 0 .. MaxTime + Window]
  /\ recent \in [Service -> Nat]
  /\ now \in Time
  /\ batch \in [Writer -> Batches \union {<< >>}]
  /\ nth \in [Writer -> Nat] /\ cmd \in [Writer -> Nat]
  /\ \A w \in Writer :
       IF Left(w) THEN cmd[w] \in DOMAIN Queued(w) ELSE nth[w] = Len(batch[w]) + 1 /\ cmd[w] = 1
  /\ reader \in [phase : {"idle", "list", "query", "done"}, total : Nat,
                 todo : SUBSET Service, logs : Nat, open : Nat, failed : BOOLEAN]
  /\ oldest \in [Service -> 0 .. MaxTime]
  /\ calls \in 0 .. MaxBatches
  /\ breaks \in 0 .. MaxBreaks

Init ==
  /\ count = [k \in Key |-> 0]
  /\ expiry = [s \in Service |-> 0]
  /\ recent = [s \in Service |-> 0]
  /\ now = 1
  /\ batch = [w \in Writer |-> << >>]
  /\ nth = [w \in Writer |-> 1] /\ cmd = [w \in Writer |-> 1]
  /\ reader = Quiet
  /\ oldest = [s \in Service |-> 0]
  /\ calls = 0 /\ breaks = 0

-----------------------------------------------------------------------------
(***************************************************************************)
(* The writers.                                                            *)
(***************************************************************************)

(* RecordBatch(b), or RecordLog when b has one log: send the pipeline. *)
RecordBatch(w, b) ==
  /\ batch[w] = << >>
  /\ calls < MaxBatches
  /\ calls' = calls + 1
  /\ batch' = [batch EXCEPT ![w] = b]
  /\ UNCHANGED <<redisVars, now, nth, cmd, reader, oldest, breaks>>

(* The commands were queued log by log. *)
Advance(w) ==
  IF cmd[w] < Len(Queued(w))
  THEN cmd' = [cmd EXCEPT ![w] = @ + 1] /\ UNCHANGED nth
  ELSE cmd' = [cmd EXCEPT ![w] = 1] /\ nth' = [nth EXCEPT ![w] = @ + 1]

(* Redis executes the next command of the pipeline of w. *)
Executes(w, op) ==
  /\ Left(w) /\ Current(w).op = op
  /\ Advance(w)
  /\ UNCHANGED <<now, batch, reader, boundVars>>

(* INCR or ZINCRBY; a key that has a time to live keeps it. *)
ExecIncr(w) ==
  /\ Executes(w, "incr")
  /\ count' = [count EXCEPT ![Current(w).key] = @ + 1]
  /\ UNCHANGED <<expiry, recent, oldest>>

(* EXPIRE starts the time to live afresh; it does nothing to a key that is *)
(* gone.                                                                   *)
ExecExpire(w) ==
  /\ Executes(w, "expire")
  /\ LET s == Current(w).service IN
       IF count[Last5m(s)] > 0
       THEN /\ expiry' = [expiry EXCEPT ![s] = now + Window]
            /\ oldest' = [oldest EXCEPT ![s] = IF @ = 0 THEN now ELSE @]
       ELSE UNCHANGED <<expiry, oldest>>
  /\ UNCHANGED <<count, recent>>

ExecPush(w) ==
  /\ Executes(w, "lpush")
  /\ recent' = [recent EXCEPT ![Current(w).service] = @ + 1]
  /\ UNCHANGED <<count, expiry, oldest>>

(* MUTATION of ExecTrim: LTRIM 0 100 keeps 101 errors. *)
ExecTrimOneMore(w) ==
  /\ Executes(w, "ltrim")
  /\ LET s == Current(w).service IN
       recent' = [recent EXCEPT ![s] = IF @ > RecentMax + 1 THEN RecentMax + 1 ELSE @]
  /\ UNCHANGED <<count, expiry, oldest>>

(* LTRIM 0 99 *)
ExecTrim(w) ==
  /\ Executes(w, "ltrim")
  /\ LET s == Current(w).service IN
       recent' = [recent EXCEPT ![s] = IF @ > RecentMax THEN RecentMax ELSE @]
  /\ UNCHANGED <<count, expiry, oldest>>

(* The replies arrive: RecordBatch returns nil. *)
Recorded(w) ==
  /\ batch[w] # << >> /\ ~Left(w)
  /\ batch' = [batch EXCEPT ![w] = << >>]
  /\ nth' = [nth EXCEPT ![w] = 1] /\ UNCHANGED cmd
  /\ UNCHANGED <<redisVars, now, reader, oldest, boundVars>>

(* MUTATION of Break: the commands of an abandoned call stay queued.       *)
BreakKeepingPlace(w) ==
  /\ batch[w] # << >>
  /\ breaks < MaxBreaks
  /\ breaks' = breaks + 1
  /\ \/ nth' = [nth EXCEPT ![w] = 1] /\ cmd' = [cmd EXCEPT ![w] = 1] /\ UNCHANGED batch
     \/ batch' = [batch EXCEPT ![w] = << >>] /\ UNCHANGED <<nth, cmd>>
  /\ UNCHANGED <<redisVars, now, reader, oldest, calls>>

(* The connection breaks, before or after all commands were executed.  The *)
(* processor records the whole batch again, or has been told to stop.      *)
Break(w) ==
  /\ batch[w] # << >>
  /\ breaks < MaxBreaks
  /\ breaks' = breaks + 1
  /\ nth' = [nth EXCEPT ![w] = 1] /\ cmd' = [cmd EXCEPT ![w] = 1]
  /\ UNCHANGED batch \/ batch' = [batch EXCEPT ![w] = << >>]
  /\ UNCHANGED <<redisVars, now, reader, oldest, calls>>

(* Keys whose time to live is over disappear. *)
Clock ==
  /\ now < MaxTime
  /\ now' = now + 1
  /\ LET Gone(s) == expiry[s] # 0 /\ expiry[s] <= now' IN
       /\ count' = [k \in Key |-> IF \E s \in Service : k = Last5m(s) /\ Gone(s)
                                  THEN 0 ELSE count[k]]
       /\ expiry' = [s \in Service |-> IF Gone(s) THEN 0 ELSE expiry[s]]
       /\ oldest' = [s \in Service |-> IF Gone(s) THEN 0 ELSE oldest[s]]
  /\ UNCHANGED <<recent, writerVars, reader, boundVars>>

-----------------------------------------------------------------------------
(***************************************************************************)
(* GetLiveMetrics for all services.                                        *)
(***************************************************************************)
ReadTotal ==
  /\ reader.phase = "idle"
  /\ reader' = [Quiet EXCEPT !.phase = "list", !.total = count[Total],
                 !.open = Cardinality(InProgress) + breaks]
  /\ UNCHANGED <<redisVars, now, writerVars, oldest, boundVars>>

(* The names to query: each listed one is trimmed, a blank one skipped, and *)
(* what falls together is queried once.  RecordBatch counts the name as it *)
(* is in the log.                                                          *)
Trimmed(S) == {TrimSpace[s] : s \in S} \ {""}

Listed == {s \in Service : count[Ranked(s)] > 0}

(* MUTATION of ListServices: ZREVRANGE 0 0 returns the first service only. *)
ListOneService ==
  /\ reader.phase = "list"
  /\ \E s \in Service :
       /\ \A t \in Service : count[Ranked(t)] <= count[Ranked(s)]
       /\ reader' = [reader EXCEPT !.phase = "query", !.todo = Trimmed({s} \intersect Listed)]
  /\ UNCHANGED <<redisVars, now, writerVars, oldest, boundVars>>

(* ZREVRANGE leaderboard:services 0 -1 *)
ListServices ==
  /\ reader.phase = "list"
  /\ reader' = [reader EXCEPT !.phase = "query", !.todo = Trimmed(Listed)]
  /\ UNCHANGED <<redisVars, now, writerVars, oldest, boundVars>>

(* The counter of a name is read, 0 if nothing was counted under it; the   *)
(* two error counters, read with it, are left out.                         *)
ReadService ==
  /\ reader.phase = "query"
  /\ \E s \in reader.todo :
       reader' = [reader EXCEPT !.todo = @ \ {s}, !.logs = @ + count[OfService(s)]]
  /\ UNCHANGED <<redisVars, now, writerVars, oldest, boundVars>>

(* The error of the query pipeline is ignored: the services not read yet   *)
(* are reported with zeros.                                                *)
ReadBreaks ==
  /\ reader.phase = "query" /\ reader.todo # {}
  /\ reader' = [reader EXCEPT !.todo = {}, !.failed = TRUE]
  /\ UNCHANGED <<redisVars, now, writerVars, oldest, boundVars>>

Respond ==
  /\ \/ reader.phase = "query" /\ reader.todo = {}
        /\ reader' = [reader EXCEPT !.phase = "done"]
     \/ reader.phase = "done" /\ reader' = Quiet
  /\ UNCHANGED <<redisVars, now, writerVars, oldest, boundVars>>

-----------------------------------------------------------------------------
GetLiveMetrics == ReadTotal \/ ListServices \/ ReadService \/ ReadBreaks \/ Respond

Record(w) ==
  \/ \E b \in Batches : RecordBatch(w, b)
  \/ ExecIncr(w) \/ ExecExpire(w) \/ ExecPush(w) \/ ExecTrim(w)
  \/ Recorded(w) \/ Break(w)

Next == (\E w \in Writer : Record(w)) \/ Clock \/ GetLiveMetrics

Spec == Init /\ [][Next]_vars

-----------------------------------------------------------------------------
(***************************************************************************)
(* Properties.                                                             *)
(***************************************************************************)
SumOf(K(_)) == SumFunctionOnSet([s \in Service |-> count[K(s)]], Service)

(* CounterOrder: a service never shows more errors than ranked logs, nor    *)
(* more ranked logs than counted ones, and the errors of the last minutes  *)
(* are among all its errors: interleaved, interrupted and repeated         *)
(* pipelines count a log from the total down.                              *)
CounterOrder ==
  /\ SumOf(OfService) <= count[Total]
  /\ \A s \in Service :
       /\ count[Last5m(s)] <= count[Errors(s)]
       /\ count[Errors(s)] <= count[Ranked(s)]
       /\ count[Ranked(s)] <= count[OfService(s)]

(* PipelinesAtomic: while no pipeline is in progress the total is what the  *)
(* leaderboard adds up to, since a pipeline is executed as a whole or not  *)
(* at all ("a single atomic Redis pipeline", client.go; "execute           *)
(* atomically", docs/04-data-model.md).                                    *)
PipelinesAtomic == InProgress = {} => count[Total] = SumOf(Ranked)

(* DriftBound: what is left of that promise, which the code breaks: the    *)
(* total runs ahead of the leaderboard by at most one log per pipeline in  *)
(* progress and one per broken connection; repeating a pipeline as a whole *)
(* never makes the two drift further apart.                                *)
DriftBound == count[Total] - SumOf(Ranked) <= Cardinality(InProgress) + breaks

(* RecentBound: the list of recent errors exceeds its cap by at most one    *)
(* element per pipeline in progress and one per broken connection.         *)
RecentBound ==
  \A s \in Service : recent[s] <= RecentMax + Cardinality(InProgress) + breaks

(* WindowExpires: a window counter without a time to live belongs to a      *)
(* pipeline in progress or was left by a broken connection.                *)
WindowExpires ==
  Cardinality({s \in Service : count[Last5m(s)] > 0 /\ expiry[s] = 0})
    <= Cardinality(InProgress) + breaks

(* The logs of services whose names begin or end with blanks.  They are    *)
(* counted under a name that no query asks for.                            *)
UnaskedOf(s) == IF TrimSpace[s] = s THEN 0 ELSE count[OfService(s)]
Unasked == SumFunctionOnSet([s \in Service |-> UnaskedOf(s)], Service)

(* LiveTotals: the total of the live metrics exceeds the sum over the       *)
(* services listed beside it by at most one log per pipeline that was in   *)
(* progress or had been interrupted when the total was read, and by the    *)
(* logs of names with surrounding blanks, unless the query itself failed:  *)
(* no other log counted by then is missing from the list, although the     *)
(* values are read one by one while others write.                          *)
LiveTotals ==
  reader.phase = "done" /\ ~reader.failed =>
    reader.total <= reader.logs + reader.open + Unasked

(* SlidingWindow: the window counter of a service holds no error recorded   *)
(* a whole window ago or earlier ("errors in last 5 minutes", "sliding     *)
(* window", docs/04-data-model.md).                                        *)
SlidingWindow ==
  \A s \in Service : oldest[s] # 0 => now - oldest[s] < Window
=============================================================================
