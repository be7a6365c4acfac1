------------------------------ MODULE Processor ------------------------------
(***************************************************************************)
(* The log processor: BatchProcessor.Run and BatchProcessor.ProcessBatch   *)
(* of cmd/processor/batcher.go, with the Kafka consumer they read from,    *)
(* and the three sinks they write to: the Elasticsearch bulk API, the      *)
(* Redis pipeline and the dead letter topic.                               *)
(*                                                                         *)
(* Two goroutines run concurrently.  The fetcher takes messages from the   *)
(* consumer and sends them on msgChan; the loop of Run takes them from     *)
(* msgChan, gathers them in batch and processes the batch when it is full, *)
(* when the ticker fires, or when the process is told to stop.             *)
(*                                                                         *)
(* Limits of the model.  The process is the only member of its consumer    *)
(* group.  A topic is an immutable log of LogLen messages per partition,   *)
(* read by offset: a message that has not been produced yet is one the     *)
(* fetcher has not reached yet.  A call to a service is one atomic step    *)
(* that may take effect and still report an error.  Backoff delays and     *)
(* the 200ms pause after a fetch error are not timed.                      *)
(*                                                                         *)
(* Definitions marked MUTATION are faulty variants of the definition after *)
(* them.  Nothing uses them: they are put in its place to see that the     *)
(* properties can fail.                                                    *)
(***************************************************************************)
EXTENDS Integers, Sequences, FiniteSets

CONSTANTS
  Partition,    \* partitions of the topic app-logs
  LogLen,       \* number of messages in each partition (bounds the model)
  Poison,       \* messages whose value ParseLogMessage rejects
  Unmappable,   \* messages whose document Elasticsearch rejects for good (400)
  BulkSize,     \* BatchConfig.BulkSize, also the capacity of msgChan
  Faults,       \* the faults the environment may inject
  MaxFaults     \* number of crashes, stops, rebalances, Redis errors (bounds the model)

Offset == 0 .. LogLen - 1
Msg == Partition \X Offset

FaultKinds == {"es", "throttle", "redis", "dlq", "commit",
               "crash", "cancel", "rebalance"}

ASSUME SizesAssumption ==
  /\ LogLen \in Nat \ {0}
  /\ BulkSize \in Nat \ {0}
  /\ MaxFaults \in Nat

ASSUME MessagesAssumption ==
  /\ Poison \subseteq Msg
  /\ Unmappable \subseteq Msg
  /\ Faults \subseteq FaultKinds

VARIABLES
  committed,   \* the group's committed offset of each partition
  fetchPos,    \* the reader's next offset in each partition
  held,        \* fetcher: the message it is sending on msgChan, if any
  msgChan,     \* the buffered channel between the two goroutines
  closed,      \* has the fetcher closed msgChan and returned?
  batch,       \* the messages Run has gathered
  pc,          \* where Run or ProcessBatch is
  ctx,         \* the context of the call in progress: "run" or "shutdown"
  cursor,      \* position of the parse loop and of the item loop
  validIdx,    \* validMsgIndices: positions in batch of the parsed messages
  accepted,    \* the positions in validIdx the bulk response marks successful
  safe,        \* safeCommitMsgs
  cancelled,   \* has the context of Run been cancelled (SIGTERM)?
  expired,     \* have the 10 seconds of shutdownCtx elapsed?
  es,          \* messages whose document is in the index
  redis,       \* how often each message has been counted
  dlq,         \* messages published to app-logs-dlq
  dropped,     \* history: messages the process gave up without handling them
  faults       \* history: number of faults so far

kafkaVars == <<committed, fetchPos>>
fetcherVars == <<held, msgChan, closed>>
callVars == <<ctx, cursor, validIdx, accepted, safe>>
signalVars == <<cancelled, expired>>
sinkVars == <<es, redis, dlq>>
vars == <<kafkaVars, fetcherVars, batch, pc, callVars, signalVars,
          sinkVars, dropped, faults>>

Phases == {"parse", "index", "items", "record", "commit"}

RangeOf(s) == {s[i] : i \in DOMAIN s}

TypeOK ==
  /\ committed \in [Partition -> 0 .. LogLen]
  /\ fetchPos \in [Partition -> 0 .. LogLen]
  /\ held \in Seq(Msg) /\ Len(held) <= 1
  /\ msgChan \in Seq(Msg)
  /\ closed \in BOOLEAN
  /\ batch \in Seq(Msg)
  /\ pc \in Phases \union {"select", "exit", "down"}
  /\ ctx \in {"run", "shutdown"}
  /\ cursor \in Nat \ {0}
  /\ validIdx \in Seq(DOMAIN batch)
  /\ accepted \subseteq DOMAIN validIdx
  /\ safe \subseteq RangeOf(batch)
  /\ cancelled \in BOOLEAN
  /\ expired \in BOOLEAN
  /\ es \subseteq Msg
  /\ redis \in [Msg -> Nat]
  /\ dlq \subseteq Msg
  /\ dropped \subseteq Msg
  /\ faults \in 0 .. MaxFaults

(***************************************************************************)
(* A message is handled when it is in the dead letter topic, or both       *)
(* indexed and counted.                                                    *)
(***************************************************************************)
Handled(m) == m \in dlq \/ (m \in es /\ redis[m] > 0)

Running == pc \notin {"exit", "down"}
Below(p, n) == {<<p, o>> : o \in 0 .. n - 1}

(* MUTATION of CtxDone: the flush runs under context.Background() without  *)
(* a timeout.                                                              *)
CtxDoneNoTimeout == ctx = "run" /\ cancelled

(* ctx.Err() # nil for the context of the call in progress. *)
CtxDone == IF ctx = "run" THEN cancelled ELSE expired

(* The document j of the bulk request, counting from one. *)
Doc(j) == batch[validIdx[j]]

Init ==
  /\ committed = [p \in Partition |-> 0]
  /\ fetchPos = [p \in Partition |-> 0]
  /\ held = << >> /\ msgChan = << >> /\ closed = FALSE
  /\ batch = << >> /\ pc = "select"
  /\ ctx = "run" /\ cursor = 1 /\ validIdx = << >> /\ accepted = {} /\ safe = {}
  /\ cancelled = FALSE /\ expired = FALSE
  /\ es = {} /\ redis = [m \in Msg |-> 0] /\ dlq = {}
  /\ dropped = {} /\ faults = 0

-----------------------------------------------------------------------------
(***************************************************************************)
(* The fetcher goroutine.  Both its blocking calls are selects on the      *)
(* context too, and a select with two ready cases takes either: a          *)
(* cancelled fetcher may still fetch and send.                             *)
(***************************************************************************)
Fetch(p) ==
  /\ Running /\ ~closed /\ held = << >>
  /\ fetchPos[p] < LogLen
  /\ held' = << <<p, fetchPos[p]>> >>
  /\ fetchPos' = [fetchPos EXCEPT ![p] = @ + 1]
  /\ UNCHANGED <<committed, msgChan, closed, batch, pc, callVars, signalVars,
                 sinkVars, dropped, faults>>

(* MUTATION of Send: the channel has no capacity limit. *)
SendUnbounded ==
  /\ Running /\ held # << >>
  /\ msgChan' = msgChan \o held
  /\ held' = << >>
  /\ UNCHANGED <<kafkaVars, closed, batch, pc, callVars, signalVars,
                 sinkVars, dropped, faults>>

Send ==
  /\ Running /\ held # << >>
  /\ Len(msgChan) < BulkSize
  /\ msgChan' = msgChan \o held
  /\ held' = << >>
  /\ UNCHANGED <<kafkaVars, closed, batch, pc, callVars, signalVars,
                 sinkVars, dropped, faults>>

(* The context is done: close msgChan, and forget the message not sent. *)
FetcherStop ==
  /\ Running /\ ~closed /\ cancelled
  /\ closed' = TRUE
  /\ held' = << >>
  /\ UNCHANGED <<kafkaVars, msgChan, batch, pc, callVars, signalVars,
                 sinkVars, dropped, faults>>

-----------------------------------------------------------------------------
(***************************************************************************)
(* The select loop of Run.                                                 *)
(***************************************************************************)

(* Call ProcessBatch(c, b): its locals start empty. *)
Call(c, b) ==
  /\ batch' = b
  /\ ctx' = c
  /\ pc' = "parse"
  /\ UNCHANGED <<cursor, validIdx, accepted, safe>>

(* case msg, ok := <-msgChan, with ok *)
Recv ==
  /\ pc = "select" /\ msgChan # << >>
  /\ msgChan' = Tail(msgChan)
  /\ LET b == Append(batch, Head(msgChan)) IN
       IF Len(b) >= BulkSize
       THEN Call("run", b)
       ELSE batch' = b /\ UNCHANGED <<pc, callVars>>
  /\ UNCHANGED <<kafkaVars, held, closed, signalVars, sinkVars, dropped, faults>>

(* MUTATION of Tick: the ticker, too, waits for a full batch. *)
TickFullBatchOnly ==
  /\ pc = "select" /\ Len(batch) >= BulkSize
  /\ Call("run", batch)
  /\ UNCHANGED <<kafkaVars, fetcherVars, signalVars, sinkVars, dropped, faults>>

(* case <-ticker.C *)
Tick ==
  /\ pc = "select" /\ batch # << >>
  /\ Call("run", batch)
  /\ UNCHANGED <<kafkaVars, fetcherVars, signalVars, sinkVars, dropped, faults>>

(* msgChan is closed and drained, or <-ctx.Done(): flush what is in batch   *)
(* under a fresh context and return.  Messages still in msgChan are left.  *)
Flush ==
  /\ pc = "select"
  /\ cancelled \/ (closed /\ msgChan = << >>)
  /\ IF batch # << >>
     THEN Call("shutdown", batch)
     ELSE pc' = "exit" /\ UNCHANGED <<batch, callVars>>
  /\ UNCHANGED <<kafkaVars, fetcherVars, signalVars, sinkVars, dropped, faults>>

-----------------------------------------------------------------------------
(***************************************************************************)
(* ProcessBatch.                                                           *)
(***************************************************************************)

(* MUTATIONS of Return: the batch, or the locals of the call, survive it.  *)
ReturnKeepingBatch ==
  /\ pc' = IF ctx = "run" THEN "select" ELSE "exit"
  /\ batch' = batch
  /\ ctx' = "run" /\ cursor' = 1 /\ validIdx' = << >>
  /\ accepted' = {} /\ safe' = {}

ReturnKeepingLocals ==
  /\ pc' = IF ctx = "run" THEN "select" ELSE "exit"
  /\ batch' = << >>
  /\ ctx' = "run" /\ cursor' = 1
  /\ UNCHANGED <<validIdx, accepted, safe>>

(* ProcessBatch returns, with an error or without: Run empties the batch   *)
(* either way, and a flush ends the process.                               *)
Return ==
  /\ pc' = IF ctx = "run" THEN "select" ELSE "exit"
  /\ batch' = << >>
  /\ ctx' = "run" /\ cursor' = 1 /\ validIdx' = << >>
  /\ accepted' = {} /\ safe' = {}

Abort ==
  /\ Return
  /\ dropped' = dropped \union {m \in RangeOf(batch) : ~Handled(m)}

(* A call fails when its context is done, or when its service does. *)
CallMayFail(f) == CtxDone \/ f \in Faults

ParseValid ==
  /\ pc = "parse" /\ cursor <= Len(batch)
  /\ batch[cursor] \notin Poison
  /\ validIdx' = Append(validIdx, cursor)
  /\ cursor' = cursor + 1
  /\ UNCHANGED <<kafkaVars, fetcherVars, batch, pc, ctx, accepted, safe,
                 signalVars, sinkVars, dropped, faults>>

ParsePoison ==
  /\ pc = "parse" /\ cursor <= Len(batch)
  /\ batch[cursor] \in Poison
  /\ ~CtxDone
  /\ dlq' = dlq \union {batch[cursor]}
  /\ safe' = safe \union {batch[cursor]}
  /\ cursor' = cursor + 1
  /\ UNCHANGED <<kafkaVars, fetcherVars, batch, pc, ctx, validIdx, accepted,
                 signalVars, es, redis, dropped, faults>>

(* The dead letter publish fails: ProcessBatch returns the error. *)
ParsePoisonFail ==
  /\ pc = "parse" /\ cursor <= Len(batch)
  /\ batch[cursor] \in Poison
  /\ CallMayFail("dlq")
  /\ dlq' \in {dlq, dlq \union {batch[cursor]}}
  /\ Abort
  /\ UNCHANGED <<kafkaVars, fetcherVars, signalVars, es, redis, faults>>

ParseDone ==
  /\ pc = "parse" /\ cursor > Len(batch)
  /\ pc' = IF validIdx # << >> THEN "index" ELSE "commit"
  /\ cursor' = 1
  /\ UNCHANGED <<kafkaVars, fetcherVars, batch, ctx, validIdx, accepted, safe,
                 signalVars, sinkVars, dropped, faults>>

(* IndexBatch gets an answer with a result per document.  A document that  *)
(* maps is refused only when the cluster sheds load ("throttle": item      *)
(* status 429 or 503).                                                     *)
Mappable == {j \in DOMAIN validIdx : Doc(j) \notin Unmappable}

IndexOk ==
  /\ pc = "index" /\ ~CtxDone
  /\ \E ok \in SUBSET Mappable :
       /\ "throttle" \notin Faults => ok = Mappable
       /\ accepted' = ok
       /\ es' = es \union {Doc(j) : j \in ok}
  /\ pc' = "items"
  /\ UNCHANGED <<kafkaVars, fetcherVars, batch, ctx, cursor, validIdx, safe,
                 signalVars, redis, dlq, dropped, faults>>

(* MUTATION of IndexFail: an error of the request is taken for a rejection  *)
(* of all its documents.                                                   *)
IndexFailAsRejection ==
  /\ pc = "index"
  /\ CallMayFail("es")
  /\ \E ok \in SUBSET Mappable : es' = es \union {Doc(j) : j \in ok}
  /\ IF CtxDone
     THEN Abort
     ELSE pc' = "items" /\ UNCHANGED <<batch, callVars, dropped>>
  /\ UNCHANGED <<kafkaVars, fetcherVars, signalVars, redis, dlq, faults>>

(* IndexBatch returns an error, perhaps after the cluster applied some of  *)
(* the request: retry with the whole request unless the context is done.   *)
IndexFail ==
  /\ pc = "index"
  /\ CallMayFail("es")
  /\ \E ok \in SUBSET Mappable : es' = es \union {Doc(j) : j \in ok}
  /\ IF CtxDone
     THEN Abort
     ELSE UNCHANGED <<batch, pc, callVars, dropped>>
  /\ UNCHANGED <<kafkaVars, fetcherVars, signalVars, redis, dlq, faults>>

(* The loop over bulkRes.ItemSuccess. *)
ItemAccepted ==
  /\ pc = "items" /\ cursor \in accepted
  /\ safe' = safe \union {Doc(cursor)}
  /\ cursor' = cursor + 1
  /\ UNCHANGED <<kafkaVars, fetcherVars, batch, pc, ctx, validIdx, accepted,
                 signalVars, sinkVars, dropped, faults>>

(* MUTATION of ItemRejected: the position in the bulk response is used as  *)
(* a position in the batch.                                                *)
ItemRejectedWrongIndex ==
  /\ pc = "items" /\ cursor \in DOMAIN validIdx \ accepted
  /\ ~CtxDone
  /\ dlq' = dlq \union {batch[cursor]}
  /\ safe' = safe \union {batch[cursor]}
  /\ cursor' = cursor + 1
  /\ UNCHANGED <<kafkaVars, fetcherVars, batch, pc, ctx, validIdx, accepted,
                 signalVars, es, redis, dropped, faults>>

ItemRejected ==
  /\ pc = "items" /\ cursor \in DOMAIN validIdx \ accepted
  /\ ~CtxDone
  /\ dlq' = dlq \union {Doc(cursor)}
  /\ safe' = safe \union {Doc(cursor)}
  /\ cursor' = cursor + 1
  /\ UNCHANGED <<kafkaVars, fetcherVars, batch, pc, ctx, validIdx, accepted,
                 signalVars, es, redis, dropped, faults>>

(* The dead letter publish of a rejected item fails: the loop goes on. *)
ItemRejectedFail ==
  /\ pc = "items" /\ cursor \in DOMAIN validIdx \ accepted
  /\ CallMayFail("dlq")
  /\ dlq' \in {dlq, dlq \union {Doc(cursor)}}
  /\ cursor' = cursor + 1
  /\ dropped' = IF Handled(Doc(cursor)) THEN dropped
                                        ELSE dropped \union {Doc(cursor)}
  /\ UNCHANGED <<kafkaVars, fetcherVars, batch, pc, ctx, validIdx, accepted,
                 safe, signalVars, es, redis, faults>>

ItemsDone ==
  /\ pc = "items" /\ cursor > Len(validIdx)
  /\ pc' = IF accepted # {} THEN "record" ELSE "commit"
  /\ UNCHANGED <<kafkaVars, fetcherVars, batch, callVars,
                 signalVars, sinkVars, dropped, faults>>

(* MUTATION of Counted: all valid documents are counted, not the accepted. *)
CountedAllValid(n) ==
  [m \in Msg |-> redis[m] + Cardinality({j \in DOMAIN validIdx :
                                            j <= n /\ Doc(j) = m})]

(* Redis counts the accepted documents up to position n, one by one. *)
Counted(n) ==
  [m \in Msg |-> redis[m] + Cardinality({j \in accepted : j <= n /\ Doc(j) = m})]

RecordOk ==
  /\ pc = "record" /\ ~CtxDone
  /\ redis' = Counted(Len(validIdx))
  /\ pc' = "commit"
  /\ UNCHANGED <<kafkaVars, fetcherVars, batch, callVars,
                 signalVars, es, dlq, dropped, faults>>

(* RecordBatch fails after the server ran a prefix of the pipeline: retry  *)
(* the whole batch unless the context is done.                             *)
RecordFail ==
  /\ pc = "record"
  /\ \E n \in 0 .. Len(validIdx) : redis' = Counted(n)
  /\ \/ CtxDone /\ Abort /\ UNCHANGED faults
     \/ /\ ~CtxDone /\ "redis" \in Faults /\ faults < MaxFaults
        /\ faults' = faults + 1
        /\ UNCHANGED <<batch, pc, callVars, dropped>>
  /\ UNCHANGED <<kafkaVars, fetcherVars, signalVars, es, dlq>>

(* The offsets in safeCommitMsgs of partition p. *)
SafeOn(p) == {o \in Offset : <<p, o>> \in safe}

(* MUTATIONS of CommitTo: one offset too many, or all that was fetched. *)
CommitOnePast(c) ==
  \A p \in Partition :
    IF SafeOn(p) = {}
    THEN c[p] = committed[p]
    ELSE \E o \in SafeOn(p) :
           /\ \A x \in SafeOn(p) : x <= o
           /\ c[p] = IF o + 2 > LogLen THEN LogLen ELSE o + 2

CommitFetched(c) ==
  \A p \in Partition :
    c[p] = IF SafeOn(p) = {} THEN committed[p] ELSE fetchPos[p]

(* CommitMessages(safeCommitMsgs): the highest offset of each partition    *)
(* plus one becomes the group's committed offset.                          *)
CommitTo(c) ==
  \A p \in Partition :
    IF SafeOn(p) = {}
    THEN c[p] = committed[p]
    ELSE /\ c[p] - 1 \in SafeOn(p)
         /\ \A o \in SafeOn(p) : o < c[p]

CommitOk ==
  /\ pc = "commit"
  /\ safe # {} => ~CtxDone
  /\ committed' \in {c \in [Partition -> 0 .. LogLen] : CommitTo(c)}
  /\ Return
  /\ UNCHANGED <<fetchPos, fetcherVars, signalVars, sinkVars, dropped, faults>>

(* A commit error is only logged; the broker may have stored the offsets. *)
CommitFail ==
  /\ pc = "commit" /\ safe # {}
  /\ CallMayFail("commit")
  /\ \/ UNCHANGED committed
     \/ committed' \in {c \in [Partition -> 0 .. LogLen] : CommitTo(c)}
  /\ Return
  /\ UNCHANGED <<fetchPos, fetcherVars, signalVars, sinkVars, dropped, faults>>

-----------------------------------------------------------------------------
(***************************************************************************)
(* The environment.                                                        *)
(***************************************************************************)

Inject(f) ==
  /\ f \in Faults /\ faults < MaxFaults
  /\ faults' = faults + 1

(* SIGTERM: main cancels the context of Run. *)
Cancel ==
  /\ Running /\ ~cancelled
  /\ Inject("cancel")
  /\ cancelled' = TRUE
  /\ UNCHANGED <<kafkaVars, fetcherVars, batch, pc, callVars, expired,
                 sinkVars, dropped>>

(* The 10 seconds of shutdownCtx run out during the flush. *)
Expire ==
  /\ pc \in Phases /\ ctx = "shutdown" /\ ~expired
  /\ expired' = TRUE
  /\ UNCHANGED <<kafkaVars, fetcherVars, batch, pc, callVars, cancelled,
                 sinkVars, dropped, faults>>

(* All that is in memory is lost. *)
LoseMemory ==
  /\ held' = << >> /\ msgChan' = << >> /\ closed' = FALSE
  /\ batch' = << >>
  /\ ctx' = "run" /\ cursor' = 1 /\ validIdx' = << >>
  /\ accepted' = {} /\ safe' = {}
  /\ cancelled' = FALSE /\ expired' = FALSE

Crash ==
  /\ Running
  /\ Inject("crash")
  /\ pc' = "down"
  /\ LoseMemory
  /\ UNCHANGED <<kafkaVars, sinkVars, dropped>>

(* A new process joins the group and reads from the committed offsets. *)
Restart ==
  /\ ~Running
  /\ pc' = "select"
  /\ LoseMemory
  /\ fetchPos' = committed
  /\ UNCHANGED <<committed, sinkVars, dropped, faults>>

(* The group rebalances and the reader resumes from the committed offsets; *)
(* what the process holds in memory stays there.                           *)
Rebalance ==
  /\ Running /\ fetchPos # committed
  /\ Inject("rebalance")
  /\ fetchPos' = committed
  /\ UNCHANGED <<committed, fetcherVars, batch, pc, callVars, signalVars,
                 sinkVars, dropped>>

-----------------------------------------------------------------------------
Fetcher == (\E p \in Partition : Fetch(p)) \/ Send \/ FetcherStop

ProcessBatch ==
  \/ ParseValid \/ ParsePoison \/ ParsePoisonFail \/ ParseDone
  \/ IndexOk \/ IndexFail
  \/ ItemAccepted \/ ItemRejected \/ ItemRejectedFail \/ ItemsDone
  \/ RecordOk \/ RecordFail
  \/ CommitOk \/ CommitFail

Run == Recv \/ Tick \/ Flush \/ ProcessBatch

Environment == Cancel \/ Expire \/ Crash \/ Restart \/ Rebalance

Next == Fetcher \/ Run \/ Environment

Spec == Init /\ [][Next]_vars

(***************************************************************************)
(* Both goroutines are scheduled and the shutdown timer fires.  A loop     *)
(* that retries against a service under a live context is not obliged to   *)
(* get anywhere: that is SinksRecover, the assumption that a request       *)
(* repeated for ever is answered in the end, which a liveness property     *)
(* makes only when it needs it.                                            *)
(***************************************************************************)
Retrying == pc \in {"index", "record"} /\ ~CtxDone

SchedulerFairness ==
  /\ WF_vars(Fetcher)
  /\ WF_vars(Run /\ ~Retrying)
  /\ WF_vars(Expire)

SinksRecover == WF_vars(IndexOk) /\ WF_vars(RecordOk)

FairSpec == Spec /\ SchedulerFairness

-----------------------------------------------------------------------------
(***************************************************************************)
(* Properties.                                                             *)
(***************************************************************************)

(* Offsets are never committed before their messages are verified indexed  *)
(* and counted, or dead lettered (docs/02-architecture.md, offset safety). *)
OffsetSafety ==
  \A p \in Partition : \A m \in Below(p, committed[p]) : Handled(m)

(* The weaker promise that survives every fault: a message below the       *)
(* committed offset was handled, or given up on one of the two paths that  *)
(* the code gives messages up on (an aborted batch, a rejected item whose  *)
(* dead letter publish failed).  No crash, rebalance, retry or reordering  *)
(* of the two goroutines loses anything else.                              *)
CommitAccounted ==
  \A p \in Partition : \A m \in Below(p, committed[p]) :
    Handled(m) \/ m \in dropped

(* Redis counts only what the index holds: a dashboard never shows a       *)
(* message that was not indexed, whichever step fails or is retried.  (A   *)
(* search finds it after the next refresh of the index.)                   *)
DualSinkOrder == \A m \in Msg : redis[m] > 0 => m \in es

(* Only a message that cannot be parsed or cannot be mapped goes to the    *)
(* dead letter topic; a transient failure of the cluster sends none there. *)
OnlyBadDeadLettered == dlq \subseteq Poison \union Unmappable

(* Redelivery and retried pipelines inflate the counters, and both at once *)
(* when a batch that holds a message twice is recorded again: each fault   *)
(* at most doubles what a message is counted.  Without a fault every       *)
(* message is counted once.                                                *)
OverCountBound == \A m \in Msg : redis[m] <= 2 ^ faults

(* An outage of the sinks stops the fetcher: the process never holds more  *)
(* than a batch, a full channel and the message being sent.                *)
MemoryBound == Len(batch) + Len(msgChan) + Len(held) <= 2 * BulkSize + 1

(* If the sinks recover and a crashed process is started again, the whole  *)
(* topic is committed: poison messages, unmappable documents and partial   *)
(* batches do not block a partition.                                       *)
EventuallyCommitted ==
  (SinksRecover /\ WF_vars(Restart)) =>
    \A p \in Partition : <>(committed[p] = LogLen)

(* A process that is told to stop ends, even if Elasticsearch and Redis    *)
(* never answer again.                                                     *)
ShutdownTerminates == cancelled ~> ~Running

(* The processor implements the abstract promise; it loses messages only   *)
(* if dead letter publishes fail or the process is told to stop.           *)
D == INSTANCE Delivery WITH
       CanLose <- Faults \intersect {"dlq", "cancel"} # {},
       handled <- {m \in Msg : Handled(m)},
       lost <- dropped

DeliverySpec == D!Spec

=============================================================================
