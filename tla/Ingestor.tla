------------------------------- MODULE Ingestor -------------------------------
(***************************************************************************)
(* The ingestor: IngestLogs and validateLogPayload of                      *)
(* cmd/ingestor/handlers.go, Start of server.go, main, and the producer    *)
(* internal/kafka/producer.go with the kafka-go Writer it wraps.           *)
(*                                                                         *)
(* Every request is answered by a handler of its own.  Its client may give *)
(* up at any time, and the handler then goes on without it.  The writer is *)
(* synchronous but not transactional: an attempt may store the message and *)
(* lose the acknowledgement, in which case the writer tries again, and a   *)
(* Publish whose context is done returns while its message stays in the    *)
(* batch.                                                                  *)
(***************************************************************************)
EXTENDS LogMessage, Sequences, FiniteSets

CONSTANTS
  Request,     \* numbers of the requests (bounds the model)
  Partition,   \* partitions of the topic app-logs
  Faults,      \* the faults that may occur
  MaxFaults    \* number of these faults (bounds the model)

ASSUME IngestorAssumption ==
  /\ Request \subseteq Nat \ {0}
  /\ Partition \subseteq Nat /\ IsFiniteSet(Partition) /\ Partition # {}
  /\ MaxFaults \in Nat

VARIABLES
  client,    \* what the client of each request knows
  handler,   \* where the handler of each request is
  body,      \* what the client sent, then what is published, if it is
  batch,     \* the partitions of the message in the writer's batches, if any
  bytes,     \* LeastBytes: bytes sent to each partition
  topic,     \* the requests whose log each partition holds, in order
  server,    \* where Server.Start and main are
  spent      \* history: number of faults so far

ingestorVars == <<client, handler, body, batch, bytes, topic, server, spent>>

Answers == {"202", "400", "503"}
Answering == {n \in Request : handler[n] \in Answers \union {"publishing"}}
Stored == UNION {{topic[p][i] : i \in DOMAIN topic[p]} : p \in Partition}
Fault(kind) == kind \in Faults /\ spent < MaxFaults /\ spent' = spent + 1

(* What a client may send; json tells whether the decoder takes it. *)
LogPayload ==
  [timestamp : Nat, level : Text, service : Text, message : Text,
   trace : Nat, ip : Text, json : BOOLEAN]

NoBody == [timestamp |-> 0, level |-> "", service |-> "", message |-> "",
           trace |-> 0, ip |-> "", json |-> FALSE]

IngestorInit ==
  /\ client = [n \in Request |-> "none"]
  /\ handler = [n \in Request |-> "none"]
  /\ body = [n \in Request |-> NoBody]
  /\ batch = [n \in Request |-> {}]
  /\ bytes = [p \in Partition |-> 0]
  /\ topic = [p \in Partition |-> << >>]
  /\ server = "serving" /\ spent = 0

-----------------------------------------------------------------------------
(* MUTATION of validateLogPayload: the service is not looked at.           *)
validateLogPayloadNoService(p) ==
  [timestamp |-> p.timestamp \in Stamp,
   level |-> ToUpper(p.level) \in ValidLevel,
   service |-> TRUE,
   message |-> ~Blank(p.message) /\ p.message \notin {"wide", "long"},
   ip |-> p.ip \in {"", "10.0.0.1"}]

(* Which fields of a payload pass.  The length of a message is counted in  *)
(* bytes.                                                                  *)
validateLogPayload(p) ==
  [timestamp |-> p.timestamp \in Stamp,
   level |-> ToUpper(p.level) \in ValidLevel,
   service |-> ~Blank(p.service),
   message |-> ~Blank(p.message) /\ p.message \notin {"wide", "long"},
   ip |-> p.ip \in {"", "10.0.0.1"}]

Valid(p) == \A f \in DOMAIN validateLogPayload(p) : validateLogPayload(p)[f]

(* A request leaves its client; once the listener is closed it is refused. *)
Post(n, p) ==
  /\ client[n] = "none"
  /\ client' = [client EXCEPT ![n] = "waiting"]
  /\ handler' = [handler EXCEPT ![n] = IF server = "serving" THEN "wire" ELSE "lost"]
  /\ body' = [body EXCEPT ![n] = p]
  /\ UNCHANGED <<batch, bytes, topic, server, spent>>

(* LeastBytes.Balance: the first partition that got the fewest bytes.  The *)
(* key of the message plays no part.  All messages have one size.          *)
Balance ==
  CHOOSE p \in Partition : \A q \in Partition :
    bytes[p] < bytes[q] \/ (bytes[p] = bytes[q] /\ p <= q)

(* IngestLogs up to the wait in WriteMessages: a body that is not JSON or  *)
(* not valid is refused, any other goes to a batch of the writer, with the *)
(* level in upper case.  A connection that was open when the server was    *)
(* told to stop is still served.                                           *)
IngestLogs(n) ==
  /\ handler[n] = "wire" /\ server \in {"serving", "draining"}
  /\ IF body[n].json /\ Valid(body[n])
     THEN /\ handler' = [handler EXCEPT ![n] = "publishing"]
          /\ body' = [body EXCEPT ![n].level = ToUpper(@)]
          /\ batch' = [batch EXCEPT ![n] = {Balance}]
          /\ bytes' = [bytes EXCEPT ![Balance] = @ + 1]
     ELSE /\ handler' = [handler EXCEPT ![n] = "400"]
          /\ body' = [body EXCEPT ![n] = NoBody]
          /\ UNCHANGED <<batch, bytes>>
  /\ UNCHANGED <<client, topic, server, spent>>

-----------------------------------------------------------------------------
(* A handler that still waits in Publish learns the outcome. *)
Learn(n, status) ==
  handler' = [handler EXCEPT ![n] = IF @ = "publishing" THEN status ELSE @]

Appended(n) ==
  [p \in Partition |-> IF p \in batch[n] THEN Append(topic[p], n) ELSE topic[p]]

(* MUTATION of Produce: the writer does not wait for the broker, which may *)
(* not get the message.                                                    *)
ProduceUnawaited(n) ==
  /\ batch[n] # {}
  /\ batch' = [batch EXCEPT ![n] = {}]
  /\ Learn(n, "202")
  /\ topic' \in {topic, Appended(n)}
  /\ UNCHANGED <<client, body, bytes, server, spent>>

(* The broker stores the message and the writer hears of it. *)
Produce(n) ==
  /\ batch[n] # {}
  /\ batch' = [batch EXCEPT ![n] = {}]
  /\ Learn(n, "202")
  /\ topic' = Appended(n)
  /\ UNCHANGED <<client, body, bytes, server, spent>>

(* The broker stores the message, but the acknowledgement is lost: the     *)
(* writer tries again, or has tried often enough and reports an error.     *)
ProduceUnacked(n) ==
  /\ batch[n] # {} /\ Fault("unacked")
  /\ topic' = Appended(n)
  /\ \/ UNCHANGED <<batch, handler>>
     \/ batch' = [batch EXCEPT ![n] = {}] /\ Learn(n, "503")
  /\ UNCHANGED <<client, body, bytes, server>>

(* The broker takes the message in none of the attempts. *)
ProduceRefused(n) ==
  /\ batch[n] # {} /\ Fault("refused")
  /\ batch' = [batch EXCEPT ![n] = {}]
  /\ Learn(n, "503")
  /\ UNCHANGED <<client, body, bytes, topic, server>>

(* The client is gone, so the context of the request is done: Publish      *)
(* returns its error while the message stays in the batch.                 *)
PublishCancelled(n) ==
  /\ handler[n] = "publishing" /\ client[n] = "error"
  /\ handler' = [handler EXCEPT ![n] = "503"]
  /\ UNCHANGED <<client, body, batch, bytes, topic, server, spent>>

(* The answer reaches the client, if it still waits. *)
Respond(n) ==
  /\ handler[n] \in Answers
  /\ client' = [client EXCEPT ![n] = IF @ = "waiting" THEN handler[n] ELSE @]
  /\ handler' = [handler EXCEPT ![n] = "returned"]
  /\ UNCHANGED <<body, batch, bytes, topic, server, spent>>

(* The client gets an error for an answer.  A request that is still on its *)
(* way is lost, or read all the same.                                      *)
GiveUp(n) ==
  /\ client[n] = "waiting"
  /\ client' = [client EXCEPT ![n] = "error"]
  /\ handler' \in {handler,
        [handler EXCEPT ![n] = IF @ = "wire" THEN "lost" ELSE @]}
  /\ UNCHANGED <<body, batch, bytes, topic, server>>

(* The timeout of the client elapses. *)
Timeout(n) == Fault("timeout") /\ GiveUp(n)

(* The connection is refused, or closed without an answer. *)
Disconnect(n) ==
  /\ handler[n] \in {"lost", "killed"} \/ (handler[n] = "wire" /\ server # "serving")
  /\ client[n] = "waiting"
  /\ client' = [client EXCEPT ![n] = "error"]
  /\ handler' = [handler EXCEPT ![n] = IF @ = "wire" THEN "lost" ELSE @]
  /\ UNCHANGED <<body, batch, bytes, topic, server, spent>>

-----------------------------------------------------------------------------
(* SIGTERM: Shutdown closes the listener. *)
Signal ==
  /\ server = "serving" /\ Fault("sigterm")
  /\ server' = "draining"
  /\ UNCHANGED <<client, handler, body, batch, bytes, topic>>

(* MUTATION of Drained: Start returns as soon as ListenAndServe does.      *)
DrainedAtOnce ==
  /\ server = "draining"
  /\ server' = "closing"
  /\ UNCHANGED <<client, handler, body, batch, bytes, topic, spent>>

(* Shutdown returns without an error once no handler is running, Start     *)
(* receives that from shutdownError, and main closes the producer.         *)
Drained ==
  /\ server = "draining" /\ Answering = {}
  /\ server' = "closing"
  /\ UNCHANGED <<client, handler, body, batch, bytes, topic, spent>>

(* Ten seconds have passed: Shutdown returns an error and main exits by    *)
(* log.Fatalf, which skips the deferred Close.                             *)
DrainTimeout ==
  /\ server = "draining" /\ Answering # {}
  /\ server' = "killed"
  /\ handler' = [n \in Request |-> IF n \in Answering THEN "killed" ELSE handler[n]]
  /\ batch' = [n \in Request |-> {}]
  /\ UNCHANGED <<client, body, bytes, topic, spent>>

(* producer.Close flushes the batches of the writer, and main returns: no  *)
(* handler that still runs survives it.                                    *)
CloseProducer ==
  /\ server = "closing" /\ \A n \in Request : batch[n] = {}
  /\ server' = "exited"
  /\ handler' = [n \in Request |-> IF n \in Answering THEN "killed" ELSE handler[n]]
  /\ UNCHANGED <<client, body, batch, bytes, topic, spent>>
=============================================================================
