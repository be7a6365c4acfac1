------------------------------- MODULE LogIndex -------------------------------
(***************************************************************************)
(* The daily indices of Elasticsearch: what IndexBatch of                  *)
(* internal/elastic/bulk.go writes, document by document, and what         *)
(* SearchLogs of client.go reads, called page by page through the handler  *)
(* Search of cmd/analytics/handlers.go.                                    *)
(*                                                                         *)
(* Processor has the batches, retries and commits of the consumer.  Here   *)
(* the processor takes one message at a time, with the outcomes that a     *)
(* batch has for one message, and a crash or a rebalance makes it take     *)
(* some again.                                                             *)
(***************************************************************************)
EXTENDS LogMessage, Sequences, FiniteSets

CONSTANTS
  Size,           \* page sizes a reader may ask for
  DefaultSize,    \* 20
  MaxSize,        \* 100
  ResultWindow    \* from + size that a search may not exceed (10000)

ASSUME SearchAssumption ==
  /\ Size \subseteq Int
  /\ {DefaultSize, MaxSize, ResultWindow} \subseteq Nat \ {0}

VARIABLES
  now,        \* the clock
  docs,       \* the documents, each in its index
  position,   \* the next message of each partition
  dlq,        \* messages published to app-logs-dlq
  reader,     \* a client that reads the log from its newest page to the last
  shed,       \* history: messages dead lettered because the cluster shed load
  lost        \* history: messages given up, which a later commit passes over

indexVars == <<now, docs, position, dlq, reader, shed, lost>>

Idle == [state |-> "idle", page |-> 0, size |-> 0, missed |-> {}]

LogIndexInit(parts) ==
  /\ now \in Stamp /\ \A t \in Stamp : now <= t
  /\ docs = {} /\ dlq = {} /\ shed = {} /\ lost = {}
  /\ position = [p \in parts |-> 0]
  /\ reader = Idle

(* MUTATION of IndexOf: the index of the moment of indexing. *)
IndexOfToday(d) == IndexNameForTime(now)

(* IndexBatch takes the index from the timestamp of the document.          *)
IndexOf(d) == IndexNameForTime(d.timestamp)

(* The document of a log; of what is not its identity, only the address.   *)
Document(d) ==
  [id |-> DeterministicID(d), index |-> IndexOf(d), timestamp |-> d.timestamp,
   ip |-> d.ip]

(* The bulk action "index" creates the document or replaces the one in     *)
(* that index with the same id.                                            *)
IndexBatch(d) ==
  docs' = {e \in docs : e.id # d.id \/ e.index # d.index} \union {d}

(* MUTATION of Consume: a document that the mapping refuses is skipped.    *)
ConsumeSkipping(p, n, m) ==
  /\ IF ParseLogMessage(m) /\ Mappable(m)
     THEN IndexBatch(Document(m)) ELSE UNCHANGED docs
  /\ position' = [position EXCEPT ![p] = @ + 1]
  /\ UNCHANGED <<now, dlq, reader, shed, lost>>

(* The processor takes the message m of number n from partition p, and     *)
(* neither a sink nor a signal stands in its way.                          *)
Consume(p, n, m) ==
  /\ IF ParseLogMessage(m) /\ Mappable(m)
     THEN IndexBatch(Document(m)) /\ UNCHANGED dlq
     ELSE dlq' = dlq \union {n} /\ UNCHANGED docs
  /\ position' = [position EXCEPT ![p] = @ + 1]
  /\ UNCHANGED <<now, reader, shed, lost>>

(* The cluster refuses the document with an item-level 429 or 503, which   *)
(* ItemSuccess does not tell apart from a mapping error: it is dead        *)
(* lettered.                                                               *)
Shed(p, n, m) ==
  /\ ParseLogMessage(m)
  /\ dlq' = dlq \union {n} /\ shed' = shed \union {n}
  /\ position' = [position EXCEPT ![p] = @ + 1]
  /\ UNCHANGED <<now, docs, reader, lost>>

(* A failed publish to the dead letter topic skips the message, or a       *)
(* publish that failed or a signal drops the rest of its batch, and the    *)
(* next commit passes over it.  The bulk request may have been applied by  *)
(* then, and the message may be dead lettered already.                     *)
Drop(p, n, m) ==
  /\ IF ParseLogMessage(m) /\ Mappable(m)
     THEN (UNCHANGED docs \/ IndexBatch(Document(m))) /\ UNCHANGED dlq
     ELSE dlq' \in {dlq, dlq \union {n}} /\ UNCHANGED docs
  /\ lost' = lost \union {n}
  /\ position' = [position EXCEPT ![p] = @ + 1]
  /\ UNCHANGED <<now, reader, shed>>

(* What is not committed is delivered again. *)
Redeliver(p) ==
  /\ \E o \in 0 .. position[p] - 1 : position' = [position EXCEPT ![p] = o]
  /\ UNCHANGED <<now, docs, dlq, reader, shed, lost>>

Tick ==
  /\ now + 1 \in Stamp /\ now' = now + 1
  /\ UNCHANGED <<docs, position, dlq, reader, shed, lost>>

-----------------------------------------------------------------------------
(* Paging.  The handler takes a size that is not positive for 20, and      *)
(* SearchLogs one above 100 for 100.                                       *)
PageSize(s) ==
  IF s <= 0 THEN DefaultSize ELSE IF s > MaxSize THEN MaxSize ELSE s

Pages(total, size) == IF total = 0 THEN 1 ELSE (total + size - 1) \div size

(* MUTATION of Offset: pages are counted from zero. *)
OffsetFromZero(page, size) == page * size

Offset(page, size) == (page - 1) * size

(* The answer of the search: the documents sorted by timestamp, newest     *)
(* first, from the offset on.  Documents of one timestamp come in any      *)
(* order, from one request to the next.                                    *)
Newer(d) == {e \in docs : e.timestamp > d.timestamp}
Tied(d) == {e \in docs : e.timestamp = d.timestamp}

Hits(page, size) ==
  {h \in SUBSET docs :
     LET first == Offset(page, size) IN
     \A d \in docs :
       LET before == Cardinality(Newer(d))
           tied == Cardinality(Tied(d))
           low == IF first > before THEN first ELSE before
           high == IF first + size < before + tied THEN first + size ELSE before + tied
       IN Cardinality(h \intersect Tied(d)) = IF high > low THEN high - low ELSE 0}

Ask(size) ==
  /\ reader.state = "idle" /\ docs # {}
  /\ reader' = [state |-> "reading", page |-> 1, size |-> PageSize(size),
                missed |-> docs]
  /\ UNCHANGED <<now, docs, position, dlq, shed, lost>>

(* Search with the next page, up to the last of the answer.  A page beyond *)
(* the result window of the index is an error.                             *)
SearchLogs ==
  /\ reader.state = "reading"
  /\ IF Offset(reader.page, reader.size) + reader.size > ResultWindow
     THEN reader' = [Idle EXCEPT !.state = "failed"]
     ELSE \E h \in Hits(reader.page, reader.size) :
            reader' = [reader EXCEPT
              !.missed = {d \in @ : \A e \in h : e.id # d.id},
              !.state = IF reader.page < Pages(Cardinality(docs), reader.size)
                        THEN "reading" ELSE "done",
              !.page = @ + 1]
  /\ UNCHANGED <<now, docs, position, dlq, shed, lost>>
=============================================================================
