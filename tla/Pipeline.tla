------------------------------- MODULE Pipeline -------------------------------
(***************************************************************************)
(* The way of a log from a client to a search: the load generator and      *)
(* other clients post to the ingestor, which publishes to the topic        *)
(* app-logs; the processor moves the messages to the daily indices, which  *)
(* a reader searches.                                                      *)
(***************************************************************************)
EXTENDS LoadGen, Ingestor, LogIndex

CONSTANTS
  ClientRequest,   \* the requests of other clients
  Payload          \* what they may post

ASSUME ClientAssumption == ClientRequest \subseteq Request /\ Payload \subseteq LogPayload

VARIABLE
  call             \* the request each worker waits for, 0 for none

vars == <<loadgenVars, ingestorVars, indexVars, call>>

Own == Request \ ClientRequest

Init ==
  /\ LoadGenInit /\ IngestorInit /\ LogIndexInit(Partition)
  /\ call = [w \in Worker |-> 0]

-----------------------------------------------------------------------------
(* The load generator. *)
Generator(A) == A /\ UNCHANGED <<ingestorVars, indexVars, call>>

(* Requests are numbered as they are sent. *)
First(S) == {n \in S : client[n] = "none" /\ \A k \in S : client[k] = "none" => n <= k}

SendOne(w) ==
  /\ ~cancelled /\ Send(w)
  /\ \E n \in First(Own) : \E p \in GenerateLogPayload(config, now, n) :
       Post(n, p) /\ call' = [call EXCEPT ![w] = n]
  /\ UNCHANGED indexVars

(* httpClient.Do returns at once when runCtx is done. *)
SendCancelled(w) ==
  /\ cancelled /\ Send(w)
  /\ UNCHANGED <<ingestorVars, indexVars, call>>

Hear(w) ==
  /\ IF call[w] = 0
     THEN cancelled /\ Record(w, "error")
     ELSE /\ client[call[w]] \in Answers \union {"error"}
          /\ Record(w, client[call[w]])
  /\ call' = [call EXCEPT ![w] = 0]
  /\ UNCHANGED <<ingestorVars, indexVars>>

(* runCtx is done while the worker waits for the answer. *)
Interrupt(w) ==
  /\ cancelled /\ call[w] # 0 /\ GiveUp(call[w])
  /\ UNCHANGED <<loadgenVars, indexVars, call, spent>>

Work(w) ==
  \/ Generator(TakeJob(w)) \/ Generator(Abandon(w))
  \/ SendOne(w) \/ SendCancelled(w) \/ Hear(w) \/ Interrupt(w)

(* The duration has elapsed, or, with -n, somebody interrupts the run. *)
Stop == Generator(Cancel)

-----------------------------------------------------------------------------
(* The ingestor and its clients. *)
Ingest(A) == A /\ UNCHANGED <<loadgenVars, indexVars, call>>

OtherPost ==
  \E n \in First(ClientRequest), p \in Payload : Ingest(Post(n, p))

Handle(n) ==
  \/ Ingest(IngestLogs(n)) \/ Ingest(PublishCancelled(n)) \/ Ingest(Respond(n))

Broker(n) ==
  \/ Ingest(Produce(n)) \/ Ingest(ProduceUnacked(n)) \/ Ingest(ProduceRefused(n))

Leave(n) == Ingest(Timeout(n))
CutOff(n) == Ingest(Disconnect(n))

Shutdown ==
  \/ Ingest(Drained) \/ Ingest(DrainTimeout) \/ Ingest(CloseProducer)

-----------------------------------------------------------------------------
(* The processor, the clock and the reader. *)
Index(A) == A /\ UNCHANGED <<loadgenVars, ingestorVars, call>>

Process(p) ==
  /\ position[p] < Len(topic[p])
  /\ LET n == topic[p][position[p] + 1] IN Index(Consume(p, n, body[n]))

(* The cluster sheds load, the dead letter topic cannot be written, or the *)
(* processor is told to stop.                                              *)
Disturbed(p) ==
  /\ position[p] < Len(topic[p])
  /\ LET n == topic[p][position[p] + 1] IN
       \/ Fault("throttle") /\ Shed(p, n, body[n])
       \/ (Fault("dlq") \/ Fault("cancel")) /\ Drop(p, n, body[n])
  /\ UNCHANGED <<loadgenVars, client, handler, body, batch, bytes, topic, server, call>>

Again(p) ==
  /\ Fault("redelivery") /\ Redeliver(p)
  /\ UNCHANGED <<loadgenVars, client, handler, body, batch, bytes, topic, server, call>>

Read == (\E s \in Size : Index(Ask(s))) \/ Index(SearchLogs)

Next ==
  \/ \E w \in Worker : Work(w)
  \/ Stop \/ OtherPost
  \/ \E n \in Request : Handle(n) \/ Broker(n) \/ Leave(n) \/ CutOff(n)
  \/ Ingest(Signal) \/ Shutdown
  \/ \E p \in Partition : Process(p) \/ Disturbed(p) \/ Again(p)
  \/ Index(Tick) \/ Read

Spec == Init /\ [][Next]_vars

(* What is scheduled, or has a timer: workers and handlers, the attempts   *)
(* of the writer, connections to a server that has gone, the shutdown, the *)
(* duration of a run without -n, and the processor (what that takes is the *)
(* subject of Processor).                                                  *)
System ==
  \/ \E w \in Worker : Work(w)
  \/ config.n = 0 /\ Stop
  \/ \E n \in Request : Handle(n) \/ Broker(n) \/ CutOff(n)
  \/ Shutdown
  \/ \E p \in Partition : Process(p)

(* Requests, signals and faults are bounded, so that what is scheduled     *)
(* comes to an end and it is enough that some of it goes on.               *)
Fairness == WF_vars(System)

-----------------------------------------------------------------------------
(* Every variable has its type, what is dead lettered or given up came     *)
(* from the topic, and a worker waits for a request only while it sends    *)
(* one (sendOne of runner.go).                                             *)
TypeOK ==
  /\ jobs \in 0 .. config.n
  /\ worker \in [Worker -> {"loop", "ready", "sending", "done"}]
  /\ stats \in [success : Nat, failed : Nat]
  /\ client \in [Request -> {"none", "waiting", "error"} \union Answers]
  /\ handler \in [Request -> {"none", "wire", "publishing", "returned", "lost",
                              "killed"} \union Answers]
  /\ batch \in [Request -> SUBSET Partition]
  /\ topic \in [Partition -> Seq(Request)]
  /\ server \in {"serving", "draining", "closing", "exited", "killed"}
  /\ \A p \in Partition : position[p] \in 0 .. Len(topic[p])
  /\ shed \subseteq dlq /\ dlq \subseteq Stored /\ lost \subseteq Stored
  /\ call \in [Worker -> Own \union {0}]
  /\ \A w \in Worker : call[w] # 0 => worker[w] = "sending" /\ client[call[w]] # "none"

(* Every element of the job channel is still there, with a worker, or      *)
(* recorded once; each worker that stopped may have thrown one away, and   *)
(* only when the run was interrupted (Run and sendOne of runner.go).       *)
JobsAccounted ==
  config.n > 0 /\ Validate(config) =>
    LET busy == Cardinality(At("ready")) + Cardinality(At("sending"))
        abandoned == config.n - (jobs + busy + TotalSent)
    IN /\ abandoned \in 0 .. Cardinality(At("done"))
       /\ abandoned > 0 => cancelled

(* The ingestor never calls a log of the generator invalid, whatever flags *)
(* Validate lets through.                                                  *)
GeneratedAccepted == \A n \in Own : client[n] # "400"

(* What a client or the summary of the generator counts as accepted is on  *)
(* the topic, though requests and acknowledgements get lost and the server *)
(* stops.                                                                  *)
SuccessIsStored ==
  /\ \A n \in Request : client[n] = "202" => n \in Stored
  /\ stats.success <= Cardinality(Stored \intersect Own)

(* An ingestor that exits after SIGTERM without an error has answered all  *)
(* requests it began to handle and handed every message to the broker or   *)
(* reported it (Start, and the deferred Close of main).                    *)
GracefulStop ==
  server = "exited" =>
    \A n \in Request : handler[n] # "killed" /\ batch[n] = {}

(* What passes validateLogPayload also passes ParseLogMessage: only a log  *)
(* that the cluster refuses is dead lettered, because the mapping does not *)
(* take it or, with an item-level 429 or 503, to shed load.                *)
OnlyRefusedDeadLettered == \A n \in dlq : ~Mappable(body[n]) \/ n \in shed

(* A log is one document over all indices, however often the writer, the   *)
(* client or the consumer repeats it, and whichever day that happens.      *)
OneDocument ==
  \A d, e \in docs : d.id = e.id => d = e

(* A reader that reads to the last page sees every log that was there when *)
(* it began, while new ones push the pages back, except logs that share a  *)
(* timestamp with another.                                                 *)
PagingComplete ==
  reader.state = "done" => \A d \in reader.missed : Cardinality(Tied(d)) > 1

(* A run of the load generator ends: by its duration, by its number of     *)
(* logs, or when it is interrupted, whatever becomes of the ingestor.      *)
EventuallyFinished == <>[]Finished

(* All logs answered with 202 are in the index in the end, but for those   *)
(* in the dead letter topic because the cluster refused them, and those    *)
(* that the processor gave up when the dead letter topic could not be      *)
(* written or it was told to stop.                                         *)
Findable(n) ==
  \/ \E d \in docs : d.id = DeterministicID(body[n])
  \/ n \in dlq /\ (~Mappable(body[n]) \/ n \in shed)

AcceptedSearchable ==
  <>[](\A n \in Request : client[n] = "202" => Findable(n) \/ n \in lost)

(* docs/04-data-model.md promises that logs with one trace_id land in one  *)
(* partition, which keeps their order.                                     *)
TracePartition ==
  \A p, q \in Partition :
    \A i \in DOMAIN topic[p], j \in DOMAIN topic[q] :
      LET t == body[topic[p][i]].trace IN
      t # 0 /\ t = body[topic[q][j]].trace => p = q
=============================================================================
