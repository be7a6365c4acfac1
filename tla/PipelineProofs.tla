---------------------------- MODULE PipelineProofs ----------------------------
(***************************************************************************)
(* Proofs about Pipeline, for any number of workers, requests, partitions  *)
(* and faults, any flags, any payloads and any page sizes.                 *)
(*                                                                         *)
(* A step of Pipeline is taken apart once, into what it does to the load   *)
(* generator, to the ingestor and its clients, and to the index (lemma     *)
(* Moves).  Every invariant is then proved from the part it is about.      *)
(***************************************************************************)
EXTENDS Pipeline, FiniteFacts

LoadMove ==
  \/ \E w \in Worker :
       TakeJob(w) \/ Abandon(w) \/ Send(w) \/ \E status \in Answers \union {"error"} : Record(w, status)
  \/ Cancel
  \/ UNCHANGED loadgenVars

Sent(n, p) ==
  n \in Own => p \in GenerateLogPayload(config, now, n) /\ \E w \in Worker : worker[w] = "ready"

ServerMove ==
  Signal \/ Drained \/ DrainTimeout \/ CloseProducer

RequestMove(n) ==
  \/ \E p : Post(n, p) /\ (p \in Payload \/ n \in Own) /\ Sent(n, p)
  \/ IngestLogs(n) \/ PublishCancelled(n) \/ Respond(n)
  \/ Produce(n) \/ ProduceUnacked(n) \/ ProduceRefused(n)
  \/ GiveUp(n) \/ Disconnect(n)

IngestMove ==
  \/ \E n \in Request : RequestMove(n)
  \/ ServerMove
  \/ UNCHANGED <<client, handler, body, batch, bytes, topic, server>>

Take(p) ==
  /\ position[p] < Len(topic[p]) /\ UNCHANGED <<body, topic>>
  /\ LET n == topic[p][position[p] + 1] IN
       Consume(p, n, body[n]) \/ Shed(p, n, body[n]) \/ Drop(p, n, body[n])

IndexMove ==
  \/ \E p \in Partition : Take(p)
  \/ \E p \in Partition : Redeliver(p) /\ UNCHANGED topic
  \/ Tick \/ (\E s \in Size : Ask(s)) \/ SearchLogs
  \/ UNCHANGED indexVars

CallMove ==
  \/ \E w \in Worker : SendOne(w) \/ Hear(w)
  \/ /\ UNCHANGED <<call, stats>>
     /\ \A w \in Worker : worker[w] = "sending" => worker'[w] = "sending"

(* What the actions of Pipeline are made of. *)
LEMMA Moves ==
  ASSUME [Next]_vars, call \in [Worker -> Own \union {0}],
         worker \in [Worker -> {"loop", "ready", "sending", "done"}]
  PROVE  LoadMove /\ IngestMove /\ IndexMove /\ CallMove
<1> USE DEF LoadMove, IngestMove, RequestMove, ServerMove, IndexMove, CallMove
<1>1. CASE UNCHANGED vars
  BY <1>1 DEF vars, loadgenVars, ingestorVars, indexVars
<1>2. ASSUME NEW w \in Worker, Work(w)
      PROVE  LoadMove /\ IngestMove /\ IndexMove /\ CallMove
  <2>1. CASE Generator(TakeJob(w)) \/ Generator(Abandon(w))
    BY <2>1 DEF Generator, ingestorVars, TakeJob, Abandon, Return, Goto
  <2>2. CASE SendOne(w)
    <3>1. PICK n \in First(Own) : \E p \in GenerateLogPayload(config, now, n) :
            Post(n, p) /\ call' = [call EXCEPT ![w] = n]
      BY <2>2 DEF SendOne
    <3>2. PICK p \in GenerateLogPayload(config, now, n) : Post(n, p)
      BY <3>1
    <3>3. n \in Own /\ n \in Request
      BY DEF First, Own
    <3>4. Sent(n, p)
      BY <2>2 DEF Sent, SendOne, Send
    <3>5. IngestMove
      BY <3>2, <3>3, <3>4
    <3> QED
      BY <2>2, <3>5 DEF SendOne
  <2>3. CASE SendCancelled(w)
    BY <2>3 DEF SendCancelled, ingestorVars, Send, Goto
  <2>4. CASE Hear(w)
    BY <2>4 DEF Hear, ingestorVars
  <2>5. CASE Interrupt(w)
    <3>1. call[w] \in Request /\ GiveUp(call[w])
      BY <2>5 DEF Interrupt, Own
    <3> QED
      BY <2>5, <3>1 DEF Interrupt, loadgenVars
  <2> QED
    BY <1>2, <2>1, <2>2, <2>3, <2>4, <2>5 DEF Work
<1>3. CASE Stop
  BY <1>3 DEF Stop, Generator, ingestorVars, Cancel
<1>4. CASE OtherPost
  <2>1. PICK n \in First(ClientRequest), p \in Payload : Ingest(Post(n, p))
    BY <1>4 DEF OtherPost
  <2>2. n \in ClientRequest /\ n \in Request /\ n \notin Own
    BY ClientAssumption DEF First, Own
  <2> QED
    BY <2>1, <2>2 DEF Ingest, Sent, loadgenVars
<1>5. ASSUME NEW n \in Request, Handle(n) \/ Broker(n) \/ Leave(n) \/ CutOff(n)
      PROVE  LoadMove /\ IngestMove /\ IndexMove /\ CallMove
  BY <1>5 DEF Handle, Broker, Leave, CutOff, Ingest, Timeout, loadgenVars
<1>6. CASE Ingest(Signal) \/ Shutdown
  BY <1>6 DEF Ingest, Shutdown, loadgenVars
<1>7. ASSUME NEW p \in Partition, Process(p) \/ Disturbed(p) \/ Again(p)
      PROVE  LoadMove /\ IngestMove /\ IndexMove /\ CallMove
  <2>1. CASE Process(p)
    <3>1. Take(p)
      BY <2>1 DEF Take, Process, Index, ingestorVars
    <3> QED
      BY <2>1, <3>1 DEF Process, Index, ingestorVars, loadgenVars
  <2>3. CASE Disturbed(p)
    <3>1. Take(p)
      BY <2>3 DEF Take, Disturbed
    <3> QED
      BY <2>3, <3>1 DEF Disturbed, loadgenVars
  <2>2. CASE Again(p)
    BY <2>2 DEF Again, loadgenVars
  <2> QED
    BY <1>7, <2>1, <2>2, <2>3
<1>8. CASE Index(Tick) \/ Read
  BY <1>8 DEF Index, Read, ingestorVars, loadgenVars
<1> QED
  BY <1>1, <1>2, <1>3, <1>4, <1>5, <1>6, <1>7, <1>8 DEF Next

-----------------------------------------------------------------------------
(* Types. *)
Config == [n : Nat, level : Text, errorRate : BOOLEAN, trace : BOOLEAN]

LoadTypes ==
  /\ config \in Config
  /\ jobs \in 0 .. config.n
  /\ worker \in [Worker -> {"loop", "ready", "sending", "done"}]
  /\ stats \in [success : Nat, failed : Nat]
  /\ cancelled \in BOOLEAN
  /\ \A w \in Worker : worker[w] # "done" => Validate(config)

LEMMA ToUpperType ==
  ASSUME NEW s \in Text
  PROVE  ToUpper(s) \in Text
BY TextAssumption DEF ToUpper

LEMMA LoadTypesInit ==
  ASSUME LoadGenInit
  PROVE  LoadTypes
<1>1. PICK f \in Flag : config = [f EXCEPT !.level = ToUpper(@)]
  BY DEF LoadGenInit, ParseFlags
<1>2. f \in Config
  BY FlagAssumption DEF Config
<1>3. ToUpper(f.level) \in Text
  BY <1>2, ToUpperType DEF Config
<1>4. config \in Config
  BY <1>1, <1>2, <1>3 DEF Config
<1>5. config.n \in Nat /\ jobs = config.n
  BY <1>4 DEF Config, LoadGenInit
<1>6. worker = [w \in Worker |-> IF Validate(config) THEN "loop" ELSE "done"]
      /\ cancelled = FALSE /\ stats = [success |-> 0, failed |-> 0]
  BY DEF LoadGenInit
<1>7. stats \in [success : Nat, failed : Nat]
  BY <1>6
<1>8. jobs \in 0 .. config.n
  BY <1>5
<1>9. worker \in [Worker -> {"loop", "ready", "sending", "done"}]
      /\ \A w \in Worker : worker[w] # "done" => Validate(config)
  BY <1>6
<1> QED
  BY <1>4, <1>6, <1>7, <1>8, <1>9 DEF LoadTypes

LEMMA LoadTypesStep ==
  ASSUME LoadTypes, LoadMove
  PROVE  LoadTypes' /\ config' = config
<1> USE DEF LoadTypes, Goto
<1>0. config.n \in Nat /\ jobs \in Nat /\ jobs <= config.n
  BY DEF Config
<1>1. ASSUME NEW w \in Worker, TakeJob(w)
      PROVE  LoadTypes' /\ config' = config
  BY <1>0, <1>1 DEF TakeJob, Return, Validate
<1>2. ASSUME NEW w \in Worker, Abandon(w)
      PROVE  LoadTypes' /\ config' = config
  BY <1>2 DEF Abandon, Return, Validate
<1>3. ASSUME NEW w \in Worker, Send(w)
      PROVE  LoadTypes' /\ config' = config
  BY <1>3 DEF Send, Validate
<1>4. ASSUME NEW w \in Worker, NEW status, Record(w, status)
      PROVE  LoadTypes' /\ config' = config
  BY <1>4 DEF Record, Validate
<1>5. CASE Cancel
  BY <1>5 DEF Cancel, Validate
<1>6. CASE UNCHANGED loadgenVars
  BY <1>6 DEF loadgenVars, Validate
<1> QED
  BY <1>1, <1>2, <1>3, <1>4, <1>5, <1>6 DEF LoadMove

RequestTypes ==
  /\ client \in [Request -> {"none", "waiting", "error"} \union Answers]
  /\ handler \in [Request -> {"none", "wire", "publishing", "returned", "lost",
                              "killed"} \union Answers]
  /\ body \in [Request -> LogPayload]
  /\ batch \in [Request -> SUBSET Partition]
  /\ bytes \in [Partition -> Nat]
  /\ topic \in [Partition -> Seq(Request)]
  /\ server \in {"serving", "draining", "closing", "exited", "killed"}

(* The writer always finds a partition for a message. *)
LEMMA BalanceType ==
  ASSUME bytes \in [Partition -> Nat]
  PROVE  Balance \in Partition
<1> DEFINE B == {bytes[p] : p \in Partition}
<1>1. B \in SUBSET Nat /\ B # {}
  BY IngestorAssumption
<1>2. PICK b \in B : \A k \in B : b <= k
  BY <1>1, NatMin
<1> DEFINE L == {p \in Partition : bytes[p] = b}
<1>3. L \in SUBSET Nat /\ L # {}
  BY IngestorAssumption
<1>4. PICK m \in L : \A k \in L : m <= k
  BY <1>3, NatMin
<1>5. ASSUME NEW q \in Partition
      PROVE  bytes[m] < bytes[q] \/ (bytes[m] = bytes[q] /\ m <= q)
  <2>1. b \in Nat /\ bytes[q] \in Nat /\ bytes[m] = b /\ b <= bytes[q]
    BY <1>1, <1>2
  <2>2. bytes[q] = b => m <= q
    BY <1>4
  <2> QED
    BY <2>1, <2>2
<1> QED
  BY <1>5 DEF Balance

(* The log a worker sends has the type of a payload. *)
LEMMA GeneratedType ==
  ASSUME LoadTypes, now \in Stamp, NEW n \in Request,
         NEW p \in GenerateLogPayload(config, now, n)
  PROVE  p \in LogPayload
<1>1. now \in Nat /\ n \in Nat
  BY StampAssumption, IngestorAssumption
<1>2. SelectLevel(config) \subseteq Text
  BY TextAssumption DEF SelectLevel, ValidLevel, LoadTypes, Config
<1>3. PICK l \in SelectLevel(config) :
        p = [timestamp |-> now, level |-> l, service |-> "api", message |-> "text",
             trace |-> IF config.trace THEN n ELSE 0, ip |-> "10.0.0.1", json |-> TRUE]
  BY DEF GenerateLogPayload
<1>4. (IF config.trace THEN n ELSE 0) \in Nat
  BY <1>1
<1> QED
  BY <1>1, <1>2, <1>3, <1>4, TextAssumption DEF LogPayload

LEMMA AppendedType ==
  ASSUME RequestTypes, NEW n \in Request
  PROVE  Appended(n) \in [Partition -> Seq(Request)]
<1>1. \A p \in Partition : topic[p] \in Seq(Request)
  BY DEF RequestTypes
<1>2. \A p \in Partition : Append(topic[p], n) \in Seq(Request)
  BY <1>1
<1> QED
  BY <1>1, <1>2 DEF Appended

LEMMA RequestTypesStep ==
  ASSUME LoadTypes, now \in Stamp, RequestTypes, IngestMove
  PROVE  RequestTypes'
<1> USE DEF RequestTypes, Answers
<1>0. NoBody \in LogPayload
  BY TextAssumption DEF NoBody, LogPayload
<1>1. ASSUME NEW n \in Request, NEW p, Post(n, p), p \in Payload \/ n \in Own, Sent(n, p)
      PROVE  RequestTypes'
  <2>1. p \in LogPayload
    BY <1>1, ClientAssumption, GeneratedType DEF Sent
  <2> QED
    BY <1>1, <2>1 DEF Post
<1>2. ASSUME NEW n \in Request, IngestLogs(n)
      PROVE  RequestTypes'
  <2>1. CASE body[n].json /\ Valid(body[n])
    <3>1. Balance \in Partition
      BY BalanceType
    <3>2. body[n] \in LogPayload /\ ToUpper(body[n].level) \in Text
      BY ToUpperType DEF LogPayload
    <3>3. [body[n] EXCEPT !.level = ToUpper(@)] \in LogPayload
      BY <3>2 DEF LogPayload
    <3>4. body' \in [Request -> LogPayload]
      BY <1>2, <2>1, <3>3 DEF IngestLogs
    <3>5. handler' = [handler EXCEPT ![n] = "publishing"]
          /\ batch' = [batch EXCEPT ![n] = {Balance}]
          /\ bytes' = [bytes EXCEPT ![Balance] = @ + 1]
          /\ UNCHANGED <<client, topic, server>>
      BY <1>2, <2>1 DEF IngestLogs
    <3>6. bytes' \in [Partition -> Nat] /\ batch' \in [Request -> SUBSET Partition]
      BY <3>1, <3>5
    <3> QED
      BY <3>4, <3>5, <3>6
  <2>2. CASE ~(body[n].json /\ Valid(body[n]))
    BY <1>0, <1>2, <2>2 DEF IngestLogs
  <2> QED
    BY <2>1, <2>2
<1>3. ASSUME NEW n \in Request, PublishCancelled(n) \/ Respond(n) \/ GiveUp(n) \/ Disconnect(n)
      PROVE  RequestTypes'
  BY <1>3 DEF PublishCancelled, Respond, GiveUp, Disconnect
<1>4. ASSUME NEW n \in Request, Produce(n) \/ ProduceUnacked(n) \/ ProduceRefused(n)
      PROVE  RequestTypes'
  BY <1>4, AppendedType DEF Produce, ProduceUnacked, ProduceRefused, Learn
<1>5. CASE ServerMove
  BY <1>5 DEF ServerMove, Signal, Drained, DrainTimeout, CloseProducer
<1>6. CASE UNCHANGED <<client, handler, body, batch, bytes, topic, server>>
  BY <1>6
<1> QED
  BY <1>1, <1>2, <1>3, <1>4, <1>5, <1>6 DEF IngestMove, RequestMove

(* A message that is stored stays stored, and only messages of a batch are *)
(* added to the topic.                                                     *)
LEMMA AppendedStored ==
  ASSUME RequestTypes, NEW n \in Request, batch[n] # {}, topic' = Appended(n)
  PROVE  /\ Stored' = Stored \union {n}
         /\ \A p \in Partition : Len(topic[p]) <= Len(topic'[p])
         /\ \A p \in Partition : Len(topic[p]) \in Nat
<1> USE DEF RequestTypes
<1>1. ASSUME NEW p \in Partition
      PROVE  /\ topic[p] \in Seq(Request) /\ topic'[p] \in Seq(Request)
             /\ DOMAIN topic[p] = 1 .. Len(topic[p]) /\ Len(topic[p]) \in Nat
             /\ Len(topic'[p]) \in {Len(topic[p]), Len(topic[p]) + 1}
             /\ DOMAIN topic'[p] = 1 .. Len(topic'[p])
             /\ \A i \in DOMAIN topic[p] : i \in DOMAIN topic'[p] /\ topic'[p][i] = topic[p][i]
             /\ \A i \in DOMAIN topic'[p] : topic'[p][i] = n \/ i \in DOMAIN topic[p]
             /\ p \in batch[n] => Len(topic'[p]) \in DOMAIN topic'[p] /\ topic'[p][Len(topic'[p])] = n
  <2>1. topic[p] \in Seq(Request)
    OBVIOUS
  <2>2. topic'[p] = IF p \in batch[n] THEN Append(topic[p], n) ELSE topic[p]
    BY DEF Appended
  <2> QED
    BY <2>1, <2>2
<1>2. PICK p \in Partition : p \in batch[n]
  OBVIOUS
<1>3. n \in Stored'
  <2>1. Len(topic'[p]) \in DOMAIN topic'[p] /\ topic'[p][Len(topic'[p])] = n
    BY <1>1, <1>2
  <2>2. n \in {topic'[p][i] : i \in DOMAIN topic'[p]}
    BY <2>1
  <2> QED
    BY <2>2 DEF Stored
<1>4. Stored \subseteq Stored'
  BY <1>1 DEF Stored
<1>5. Stored' \subseteq Stored \union {n}
  BY <1>1 DEF Stored
<1> QED
  BY <1>1, <1>3, <1>4, <1>5

LEMMA TopicStep ==
  ASSUME IngestMove
  PROVE  \/ UNCHANGED topic
         \/ \E n \in Request : batch[n] # {} /\ topic' = Appended(n)
<1> USE DEF IngestMove, RequestMove, ServerMove
<1>1. ASSUME NEW n \in Request, NEW p, Post(n, p)
      PROVE  UNCHANGED topic
  BY <1>1 DEF Post
<1>2. ASSUME NEW n \in Request, IngestLogs(n) \/ PublishCancelled(n) \/ Respond(n)
                                \/ GiveUp(n) \/ Disconnect(n) \/ ProduceRefused(n)
      PROVE  UNCHANGED topic
  BY <1>2 DEF IngestLogs, PublishCancelled, Respond, GiveUp, Disconnect, ProduceRefused
<1>3. ASSUME NEW n \in Request, Produce(n) \/ ProduceUnacked(n)
      PROVE  batch[n] # {} /\ topic' = Appended(n)
  BY <1>3 DEF Produce, ProduceUnacked
<1>4. CASE ServerMove
  BY <1>4 DEF Signal, Drained, DrainTimeout, CloseProducer
<1> QED
  BY <1>1, <1>2, <1>3, <1>4

LEMMA StoredGrows ==
  ASSUME RequestTypes, IngestMove
  PROVE  /\ Stored \subseteq Stored'
         /\ \A p \in Partition : Len(topic[p]) <= Len(topic'[p]) /\ Len(topic[p]) \in Nat
<1>1. CASE UNCHANGED topic
  BY <1>1 DEF Stored, RequestTypes
<1> QED
  BY <1>1, TopicStep, AppendedStored

IndexTypes ==
  /\ now \in Stamp
  /\ position \in [Partition -> Nat]
  /\ \A p \in Partition : position[p] \in 0 .. Len(topic[p])
  /\ shed \subseteq dlq /\ dlq \subseteq Stored /\ lost \subseteq Stored

LEMMA IndexTypesStep ==
  ASSUME RequestTypes, RequestTypes', IngestMove, IndexTypes, IndexMove
  PROVE  IndexTypes'
<1>0. /\ Stored \subseteq Stored'
      /\ \A p \in Partition : Len(topic[p]) <= Len(topic'[p])
      /\ \A p \in Partition : Len(topic[p]) \in Nat /\ Len(topic'[p]) \in Nat
  BY StoredGrows DEF RequestTypes
<1> USE DEF IndexTypes
<1>1. ASSUME NEW p \in Partition, Take(p)
      PROVE  IndexTypes'
  <2> DEFINE n == topic[p][position[p] + 1]
  <2>1. position[p] + 1 \in 1 .. Len(topic[p]) /\ topic' = topic
        /\ (Consume(p, n, body[n]) \/ Shed(p, n, body[n]) \/ Drop(p, n, body[n]))
    BY <1>0, <1>1 DEF Take
  <2>2. n \in Stored
    BY <1>0, <2>1 DEF Stored, RequestTypes
  <2>3. /\ now' = now /\ position' = [position EXCEPT ![p] = @ + 1]
        /\ dlq' \in {dlq, dlq \union {n}} /\ lost' \in {lost, lost \union {n}}
        /\ shed' = shed \/ (shed' = shed \union {n} /\ dlq' = dlq \union {n})
    BY <2>1 DEF Consume, Shed, Drop
  <2>4. position' \in [Partition -> Nat] /\ \A q \in Partition : position'[q] \in 0 .. Len(topic'[q])
    BY <1>0, <2>1, <2>3
  <2> QED
    BY <1>0, <2>2, <2>3, <2>4
<1>2. ASSUME NEW p \in Partition, Redeliver(p)
      PROVE  IndexTypes'
  BY <1>0, <1>2 DEF Redeliver
<1>3. CASE Tick \/ (\E s \in Size : Ask(s)) \/ SearchLogs \/ UNCHANGED indexVars
  <2>1. now' \in Stamp /\ position' = position /\ UNCHANGED <<dlq, shed, lost>>
    BY <1>3 DEF Tick, Ask, SearchLogs, indexVars
  <2> QED
    BY <1>0, <2>1
<1> QED
  BY <1>1, <1>2, <1>3 DEF IndexMove

(* A worker waits for a request that was sent, and no two for the same.    *)
CallTypes ==
  /\ call \in [Worker -> Own \union {0}]
  /\ \A w \in Worker : call[w] # 0 => worker[w] = "sending" /\ client[call[w]] # "none"
  /\ \A v, w \in Worker : call[v] = call[w] /\ call[v] # 0 => v = w

(* A request that left its client does not go back. *)
LEMMA ClientStep ==
  ASSUME RequestTypes, IngestMove
  PROVE  \A n \in Request : client[n] # "none" => client'[n] # "none"
<1> USE DEF IngestMove, RequestMove, RequestTypes, Answers
<1>1. ASSUME NEW n \in Request, NEW p, Post(n, p)
      PROVE  \A k \in Request : client[k] # "none" => client'[k] # "none"
  BY <1>1 DEF Post
<1>2. ASSUME NEW n \in Request, IngestLogs(n) \/ PublishCancelled(n) \/ Respond(n)
                                \/ GiveUp(n) \/ Disconnect(n)
      PROVE  \A k \in Request : client[k] # "none" => client'[k] # "none"
  BY <1>2 DEF IngestLogs, PublishCancelled, Respond, GiveUp, Disconnect
<1>3. ASSUME NEW n \in Request, Produce(n) \/ ProduceUnacked(n) \/ ProduceRefused(n)
      PROVE  UNCHANGED client
  BY <1>3 DEF Produce, ProduceUnacked, ProduceRefused
<1>4. CASE ServerMove
  BY <1>4 DEF ServerMove, Signal, Drained, DrainTimeout, CloseProducer
<1> QED
  BY <1>1, <1>2, <1>3, <1>4

LEMMA CallTypesStep ==
  ASSUME LoadTypes, RequestTypes, RequestTypes', CallTypes, IngestMove, CallMove
  PROVE  CallTypes'
<1>0. Own \subseteq Request /\ 0 \notin Request
  BY IngestorAssumption DEF Own
<1>a. \A n \in Request : client[n] # "none" => client'[n] # "none"
  BY ClientStep
<1>b. worker \in [Worker -> {"loop", "ready", "sending", "done"}]
  BY DEF LoadTypes
<1> USE DEF CallTypes
<1>1. ASSUME NEW w \in Worker, SendOne(w)
      PROVE  CallTypes'
  <2>1. PICK n \in First(Own) : \E p \in GenerateLogPayload(config, now, n) :
          Post(n, p) /\ call' = [call EXCEPT ![w] = n]
    BY <1>1 DEF SendOne
  <2>2. n \in Own /\ n \in Request /\ client[n] = "none"
    BY <1>0 DEF First
  <2>3. call' = [call EXCEPT ![w] = n] /\ client' = [client EXCEPT ![n] = "waiting"]
    BY <2>1 DEF Post
  <2>4. worker' = [worker EXCEPT ![w] = "sending"]
    BY <1>1 DEF SendOne, Send, Goto
  <2>5. \A v \in Worker : call[v] # n
    BY <1>0, <2>2
  <2>6. call' \in [Worker -> Own \union {0}]
    BY <2>2, <2>3
  <2>7. \A v \in Worker : call'[v] # 0 => worker'[v] = "sending" /\ client'[call'[v]] # "none"
    BY <1>0, <1>a, <1>b, <2>2, <2>3, <2>4 DEF RequestTypes
  <2>8. \A v, u \in Worker : call'[v] = call'[u] /\ call'[v] # 0 => v = u
    BY <2>3, <2>5
  <2> QED
    BY <2>6, <2>7, <2>8
<1>2. ASSUME NEW w \in Worker, Hear(w)
      PROVE  CallTypes'
  <2>1. call' = [call EXCEPT ![w] = 0]
    BY <1>2 DEF Hear
  <2>2. worker' = [worker EXCEPT ![w] = "loop"]
    BY <1>2 DEF Hear, Record, Goto
  <2> QED
    BY <1>0, <1>a, <1>b, <2>1, <2>2
<1>3. CASE UNCHANGED <<call, stats>> /\ \A w \in Worker : worker[w] = "sending" => worker'[w] = "sending"
  BY <1>0, <1>a, <1>3
<1> QED
  BY <1>1, <1>2, <1>3 DEF CallMove

Types == LoadTypes /\ RequestTypes /\ IndexTypes /\ CallTypes

LEMMA TypesInit ==
  ASSUME Init
  PROVE  Types
<1>1. LoadTypes
  BY LoadTypesInit DEF Init
<1>2. RequestTypes
  <2>1. NoBody \in LogPayload
    BY TextAssumption DEF NoBody, LogPayload
  <2>2. \A p \in Partition : << >> \in Seq(Request)
    OBVIOUS
  <2> QED
    BY <2>1, <2>2 DEF Init, IngestorInit, RequestTypes
<1>3. IndexTypes
  <2>1. \A p \in Partition : Len(topic[p]) = 0
    BY DEF Init, IngestorInit
  <2> QED
    BY <2>1 DEF Init, LogIndexInit, IndexTypes
<1>4. CallTypes
  BY DEF Init, CallTypes
<1> QED
  BY <1>1, <1>2, <1>3, <1>4 DEF Types

LEMMA TypesStep ==
  ASSUME Types, [Next]_vars
  PROVE  Types' /\ LoadMove /\ IngestMove /\ IndexMove /\ CallMove
<1>1. LoadMove /\ IngestMove /\ IndexMove /\ CallMove
  BY Moves DEF Types, CallTypes, LoadTypes
<1>2. now \in Stamp
  BY DEF Types, IndexTypes
<1> QED
  BY <1>1, <1>2, LoadTypesStep, RequestTypesStep, IndexTypesStep, CallTypesStep DEF Types

LEMMA TypesCorrect == Spec => []Types
<1>1. Init => Types
  BY TypesInit
<1>2. Types /\ [Next]_vars => Types'
  BY TypesStep
<1> QED
  BY <1>1, <1>2, PTL DEF Spec

(* Every variable keeps its type, a worker waits for a request only while  *)
(* it sends one, and what is dead lettered came from the topic.            *)
THEOREM TypeCorrect == Spec => []TypeOK
<1>1. Types => TypeOK
  BY DEF Types, LoadTypes, RequestTypes, IndexTypes, CallTypes, TypeOK
<1> QED
  BY <1>1, TypesCorrect, PTL

-----------------------------------------------------------------------------
(* The shutdown. *)
StopInv ==
  /\ server # "killed" => \A n \in Request : handler[n] # "killed"
  /\ server \in {"closing", "exited"} => Answering = {}
  /\ server = "exited" => \A n \in Request : batch[n] = {}

LEMMA StopInvStep ==
  ASSUME RequestTypes, StopInv, IngestMove
  PROVE  StopInv'
<1> USE DEF StopInv, RequestTypes, Answering, Answers
<1>1. ASSUME NEW n \in Request, NEW p, Post(n, p)
      PROVE  StopInv'
  BY <1>1 DEF Post
<1>2. ASSUME NEW n \in Request, IngestLogs(n)
      PROVE  StopInv'
  BY <1>2 DEF IngestLogs
<1>3. ASSUME NEW n \in Request, PublishCancelled(n) \/ Respond(n) \/ GiveUp(n) \/ Disconnect(n)
      PROVE  StopInv'
  BY <1>3 DEF PublishCancelled, Respond, GiveUp, Disconnect
<1>4. ASSUME NEW n \in Request, Produce(n) \/ ProduceUnacked(n) \/ ProduceRefused(n)
      PROVE  StopInv'
  BY <1>4 DEF Produce, ProduceUnacked, ProduceRefused, Learn
<1>5. CASE ServerMove
  BY <1>5 DEF ServerMove, Signal, Drained, DrainTimeout, CloseProducer
<1>6. CASE UNCHANGED <<client, handler, body, batch, bytes, topic, server>>
  BY <1>6
<1> QED
  BY <1>1, <1>2, <1>3, <1>4, <1>5, <1>6 DEF IngestMove, RequestMove

(* An ingestor that exits after SIGTERM without an error (Start returns    *)
(* nil, and main closes the producer) has answered every request it began  *)
(* to handle, and its producer holds no message.                           *)
THEOREM StopsGracefully == Spec => []GracefulStop
<1>1. Init => StopInv
  BY DEF Init, IngestorInit, StopInv
<1>2. Types /\ StopInv /\ [Next]_vars => StopInv'
  BY TypesStep, StopInvStep DEF Types
<1>3. StopInv => GracefulStop
  BY DEF StopInv, GracefulStop
<1> QED
  BY <1>1, <1>2, <1>3, TypesCorrect, PTL DEF Spec

-----------------------------------------------------------------------------
(* The life of a request.  A log that waits in the writer or is stored has *)
(* passed validation and is not changed again; what is answered with 202   *)
(* is stored.                                                              *)
Published(n) == batch[n] # {} \/ n \in Stored

LifeInv ==
  \A n \in Request :
    /\ client[n] = "none" => handler[n] = "none"
    /\ Published(n) => handler[n] \notin {"none", "wire"} /\ ParseLogMessage(body[n])
    /\ handler[n] = "202" \/ client[n] = "202" => n \in Stored

LEMMA ValidMeans ==
  ASSUME NEW p
  PROVE  Valid(p) <=>
           /\ p.timestamp \in Stamp /\ ToUpper(p.level) \in ValidLevel /\ ~Blank(p.service)
           /\ ~Blank(p.message) /\ p.message \notin {"wide", "long"}
           /\ p.ip \in {"", "10.0.0.1"}
<1> DEFINE v == validateLogPayload(p)
<1>1. DOMAIN v = {"timestamp", "level", "service", "message", "ip"}
  BY DEF validateLogPayload
<1>2. Valid(p) <=> v.timestamp /\ v.level /\ v.service /\ v.message /\ v.ip
  BY <1>1, Zenon DEF Valid
<1>3. /\ v.timestamp = (p.timestamp \in Stamp)
      /\ v.level = (ToUpper(p.level) \in ValidLevel)
      /\ v.service = (~Blank(p.service))
      /\ v.message = (~Blank(p.message) /\ p.message \notin {"wide", "long"})
      /\ v.ip = (p.ip \in {"", "10.0.0.1"})
  BY DEF validateLogPayload
<1> QED
  BY <1>2, <1>3

(* What passes validateLogPayload, with its level in upper case, passes    *)
(* ParseLogMessage.                                                        *)
LEMMA ValidParses ==
  ASSUME NEW p \in LogPayload, Valid(p)
  PROVE  ParseLogMessage([p EXCEPT !.level = ToUpper(@)])
<1>1. /\ p.timestamp \in Stamp /\ ToUpper(p.level) \in ValidLevel /\ ~Blank(p.service)
      /\ ~Blank(p.message)
  BY ValidMeans
<1>2. p.timestamp # 0 /\ ToUpper(p.level) # "" /\ p.service # "" /\ p.message # ""
  BY <1>1, StampAssumption DEF ValidLevel, Blank
<1> QED
  BY <1>2 DEF ParseLogMessage, LogPayload

LEMMA LifeInvStep ==
  ASSUME RequestTypes, LifeInv, IngestMove
  PROVE  LifeInv'
<1>a. /\ client \in [Request -> {"none", "waiting", "error"} \union Answers]
      /\ handler \in [Request -> {"none", "wire", "publishing", "returned", "lost",
                                  "killed"} \union Answers]
      /\ body \in [Request -> LogPayload] /\ batch \in [Request -> SUBSET Partition]
  BY DEF RequestTypes
<1> USE DEF LifeInv, Published, Answers
<1>1. ASSUME NEW n \in Request, NEW p, Post(n, p)
      PROVE  LifeInv'
  <2>1. Stored' = Stored
    BY <1>1 DEF Post, Stored
  <2> QED
    BY <1>a, <1>1, <2>1 DEF Post
<1>2. ASSUME NEW n \in Request, IngestLogs(n)
      PROVE  LifeInv'
  <2>1. Stored' = Stored
    BY <1>2 DEF IngestLogs, Stored
  <2>2. CASE body[n].json /\ Valid(body[n])
    <3>1. ParseLogMessage([body[n] EXCEPT !.level = ToUpper(@)])
      BY <1>a, <2>2, ValidParses
    <3>2. body' = [body EXCEPT ![n] = [body[n] EXCEPT !.level = ToUpper(@)]]
          /\ handler' = [handler EXCEPT ![n] = "publishing"] /\ client' = client
          /\ batch' = [batch EXCEPT ![n] = {Balance}]
      BY <1>2, <2>2 DEF IngestLogs
    <3>3. handler[n] = "wire" /\ client[n] # "none" /\ client[n] # "202"
      BY <1>2 DEF IngestLogs
    <3> QED
      BY <1>a, <2>1, <3>1, <3>2, <3>3
  <2>3. CASE ~(body[n].json /\ Valid(body[n]))
    BY <1>a, <1>2, <2>1, <2>3 DEF IngestLogs
  <2> QED
    BY <2>2, <2>3
<1>3. ASSUME NEW n \in Request, PublishCancelled(n) \/ Respond(n) \/ GiveUp(n) \/ Disconnect(n)
      PROVE  LifeInv'
  <2>1. Stored' = Stored /\ body' = body /\ batch' = batch
    BY <1>3 DEF PublishCancelled, Respond, GiveUp, Disconnect, Stored
  <2> QED
    BY <1>a, <1>3, <2>1 DEF PublishCancelled, Respond, GiveUp, Disconnect
<1>4. ASSUME NEW n \in Request, Produce(n) \/ ProduceUnacked(n)
      PROVE  LifeInv'
  <2>1. Stored' = Stored \union {n}
    BY <1>4, AppendedStored DEF Produce, ProduceUnacked
  <2> QED
    BY <1>a, <1>4, <2>1 DEF Produce, ProduceUnacked, Learn
<1>5. ASSUME NEW n \in Request, ProduceRefused(n)
      PROVE  LifeInv'
  <2>1. Stored' = Stored
    BY <1>5 DEF ProduceRefused, Stored
  <2> QED
    BY <1>a, <1>5, <2>1 DEF ProduceRefused, Learn
<1>6. CASE ServerMove \/ UNCHANGED <<client, handler, body, batch, bytes, topic, server>>
  <2>1. Stored' = Stored
    BY <1>6 DEF ServerMove, Signal, Drained, DrainTimeout, CloseProducer, Stored
  <2> QED
    BY <1>a, <1>6, <2>1 DEF ServerMove, Signal, Drained, DrainTimeout, CloseProducer, Answering
<1> QED
  BY <1>1, <1>2, <1>3, <1>4, <1>5, <1>6 DEF IngestMove, RequestMove

LEMMA LifeInvCorrect == Spec => []LifeInv
<1>1. Init => LifeInv
  <2> SUFFICES ASSUME Init
               PROVE  LifeInv
    OBVIOUS
  <2>1. \A p \in Partition : DOMAIN topic[p] = {}
    BY DEF Init, IngestorInit
  <2>2. Stored = {}
    BY <2>1 DEF Stored
  <2> QED
    BY <2>2 DEF Init, IngestorInit, LifeInv, Published
<1>2. Types /\ LifeInv /\ [Next]_vars => LifeInv'
  BY TypesStep, LifeInvStep DEF Types
<1> QED
  BY <1>1, <1>2, TypesCorrect, PTL DEF Spec

(* A log that waits in the writer or is stored is not changed again. *)
LEMMA PublishedFrozen ==
  ASSUME RequestTypes, LifeInv, IngestMove
  PROVE  \A n \in Request : Published(n) => body'[n] = body[n]
<1>a. client \in [Request -> {"none", "waiting", "error"} \union Answers]
      /\ body \in [Request -> LogPayload]
  BY DEF RequestTypes
<1>1. ASSUME NEW n \in Request, NEW p, Post(n, p)
      PROVE  \A k \in Request : Published(k) => body'[k] = body[k]
  BY <1>a, <1>1 DEF Post, LifeInv
<1>2. ASSUME NEW n \in Request, IngestLogs(n)
      PROVE  \A k \in Request : Published(k) => body'[k] = body[k]
  BY <1>a, <1>2 DEF IngestLogs, LifeInv
<1>3. ASSUME NEW n \in Request, \/ PublishCancelled(n) \/ Respond(n) \/ GiveUp(n) \/ Disconnect(n)
                                \/ Produce(n) \/ ProduceUnacked(n) \/ ProduceRefused(n)
      PROVE  body' = body
  BY <1>3 DEF PublishCancelled, Respond, GiveUp, Disconnect, Produce, ProduceUnacked, ProduceRefused
<1>4. CASE ServerMove \/ UNCHANGED <<client, handler, body, batch, bytes, topic, server>>
  BY <1>4 DEF ServerMove, Signal, Drained, DrainTimeout, CloseProducer
<1> QED
  BY <1>1, <1>2, <1>3, <1>4 DEF IngestMove, RequestMove

LEMMA DeadLetterStep ==
  ASSUME RequestTypes, IndexTypes, LifeInv, OnlyRefusedDeadLettered, IngestMove, IndexMove
  PROVE  OnlyRefusedDeadLettered'
<1>a. \A n \in Request : Published(n) => body'[n] = body[n]
  BY PublishedFrozen
<1>b. Stored \subseteq Request
  BY DEF Stored, RequestTypes
<1>c. \A n \in dlq : body'[n] = body[n]
  BY <1>a, <1>b DEF IndexTypes, Published
<1>1. ASSUME NEW p \in Partition, Take(p)
      PROVE  OnlyRefusedDeadLettered'
  <2> DEFINE n == topic[p][position[p] + 1]
  <2>1. /\ position[p] + 1 \in 1 .. Len(topic[p]) /\ body' = body
        /\ (Consume(p, n, body[n]) \/ Shed(p, n, body[n]) \/ Drop(p, n, body[n]))
    BY <1>1 DEF Take, IndexTypes, RequestTypes
  <2>2. n \in Stored
    BY <2>1 DEF Stored, RequestTypes
  <2>3. ParseLogMessage(body[n])
    BY <1>b, <2>2 DEF LifeInv, Published
  <2>4. /\ shed \subseteq shed'
        /\ dlq' = dlq \/ (dlq' = dlq \union {n} /\ (~Mappable(body[n]) \/ n \in shed'))
    BY <2>1, <2>3 DEF Consume, Shed, Drop
  <2> QED
    BY <1>c, <2>1, <2>4 DEF OnlyRefusedDeadLettered, Mappable
<1>2. CASE UNCHANGED <<dlq, shed>>
  BY <1>c, <1>2 DEF OnlyRefusedDeadLettered, Mappable
<1>3. \/ \E p \in Partition : Take(p)
      \/ UNCHANGED <<dlq, shed>>
  BY DEF IndexMove, Redeliver, Tick, Ask, SearchLogs, indexVars
<1> QED
  BY <1>1, <1>2, <1>3

(* What passes validateLogPayload also passes ParseLogMessage, whatever    *)
(* the writer, the server and the consumer do in between: only a log that  *)
(* the cluster refuses, by its mapping or to shed load, is dead lettered.  *)
THEOREM ValidationsAgree == Spec => []OnlyRefusedDeadLettered
<1>1. Init => OnlyRefusedDeadLettered
  BY DEF Init, LogIndexInit, OnlyRefusedDeadLettered
<1>2. Types /\ LifeInv /\ OnlyRefusedDeadLettered /\ [Next]_vars => OnlyRefusedDeadLettered'
  BY TypesStep, DeadLetterStep DEF Types
<1> QED
  BY <1>1, <1>2, TypesCorrect, LifeInvCorrect, PTL DEF Spec

-----------------------------------------------------------------------------
(* The logs of the generator pass the ingestor. *)
OwnInv ==
  \A n \in Own :
    /\ handler[n] # "400" /\ client[n] # "400"
    /\ handler[n] = "wire" => body[n].json /\ Valid(body[n])

(* Whatever flags Validate lets through, what SelectLevel chooses is a     *)
(* level that validateLogPayload takes.                                    *)
LEMMA GeneratedValid ==
  ASSUME LoadTypes, now \in Stamp, Validate(config), NEW n \in Request,
         NEW p \in GenerateLogPayload(config, now, n)
  PROVE  p.json /\ Valid(p)
<1>1. SelectLevel(config) \subseteq ValidLevel
  BY DEF SelectLevel, Validate, ValidLevel
<1>2. PICK l \in SelectLevel(config) :
        p = [timestamp |-> now, level |-> l, service |-> "api", message |-> "text",
             trace |-> IF config.trace THEN n ELSE 0, ip |-> "10.0.0.1", json |-> TRUE]
  BY DEF GenerateLogPayload
<1>3. l \in ValidLevel /\ ToUpper(l) = l
  BY <1>1 DEF ValidLevel, ToUpper
<1>4. p.timestamp = now /\ p.level = l /\ p.service = "api" /\ p.message = "text"
      /\ p.ip = "10.0.0.1" /\ p.json = TRUE
  BY <1>2
<1>5. ~Blank("api") /\ ~Blank("text")
  BY DEF Blank
<1> QED
  BY <1>3, <1>4, <1>5, ValidMeans

LEMMA OwnInvStep ==
  ASSUME LoadTypes, now \in Stamp, RequestTypes, OwnInv, IngestMove
  PROVE  OwnInv'
<1>a. /\ client \in [Request -> {"none", "waiting", "error"} \union Answers]
      /\ handler \in [Request -> {"none", "wire", "publishing", "returned", "lost",
                                  "killed"} \union Answers]
      /\ body \in [Request -> LogPayload] /\ Own \subseteq Request
  BY DEF RequestTypes, Own
<1> USE DEF OwnInv, Answers
<1>1. ASSUME NEW n \in Request, NEW p, Post(n, p), Sent(n, p)
      PROVE  OwnInv'
  <2>1. n \in Own => p.json /\ Valid(p)
    BY <1>1, GeneratedValid DEF Sent, LoadTypes
  <2>2. client' = [client EXCEPT ![n] = "waiting"] /\ body' = [body EXCEPT ![n] = p]
        /\ handler' \in {[handler EXCEPT ![n] = "wire"], [handler EXCEPT ![n] = "lost"]}
    BY <1>1 DEF Post
  <2> QED
    BY <1>a, <2>1, <2>2
<1>2. ASSUME NEW n \in Request, IngestLogs(n)
      PROVE  OwnInv'
  <2>1. CASE body[n].json /\ Valid(body[n])
    <3>1. client' = client /\ handler' = [handler EXCEPT ![n] = "publishing"]
          /\ \A k \in Request : k # n => body'[k] = body[k]
      BY <1>a, <1>2, <2>1 DEF IngestLogs
    <3> QED
      BY <1>a, <3>1
  <2>2. CASE ~(body[n].json /\ Valid(body[n]))
    <3>1. n \notin Own
      BY <1>2, <2>2 DEF IngestLogs
    <3>2. client' = client /\ \A k \in Own : handler'[k] = handler[k] /\ body'[k] = body[k]
      BY <1>a, <1>2, <2>2, <3>1 DEF IngestLogs
    <3> QED
      BY <3>2
  <2> QED
    BY <2>1, <2>2
<1>3. ASSUME NEW n \in Request, PublishCancelled(n) \/ Respond(n) \/ GiveUp(n) \/ Disconnect(n)
      PROVE  OwnInv'
  <2>1. body' = body
    BY <1>3 DEF PublishCancelled, Respond, GiveUp, Disconnect
  <2>2. \A k \in Own : /\ handler'[k] = "wire" => handler[k] = "wire"
                       /\ handler'[k] # "400" /\ client'[k] # "400"
    BY <1>a, <1>3 DEF PublishCancelled, Respond, GiveUp, Disconnect
  <2> QED
    BY <2>1, <2>2
<1>4. ASSUME NEW n \in Request, Produce(n) \/ ProduceUnacked(n) \/ ProduceRefused(n)
      PROVE  OwnInv'
  <2>1. body' = body /\ client' = client
    BY <1>4 DEF Produce, ProduceUnacked, ProduceRefused
  <2>2. \A k \in Own : /\ handler'[k] = "wire" => handler[k] = "wire"
                       /\ handler'[k] # "400"
    BY <1>a, <1>4 DEF Produce, ProduceUnacked, ProduceRefused, Learn
  <2> QED
    BY <2>1, <2>2
<1>5. CASE ServerMove \/ UNCHANGED <<client, handler, body, batch, bytes, topic, server>>
  <2>1. body' = body /\ client' = client
    BY <1>5 DEF ServerMove, Signal, Drained, DrainTimeout, CloseProducer
  <2>2. \A k \in Own : /\ handler'[k] = "wire" => handler[k] = "wire"
                       /\ handler'[k] # "400"
    BY <1>a, <1>5 DEF ServerMove, Signal, Drained, DrainTimeout, CloseProducer
  <2> QED
    BY <2>1, <2>2
<1> QED
  BY <1>1, <1>2, <1>3, <1>4, <1>5 DEF IngestMove, RequestMove

(* Whatever flags the generator is started with, however late a request is *)
(* read and whatever becomes of it, none of its logs is called invalid.    *)
THEOREM GeneratorAccepted == Spec => []GeneratedAccepted
<1>1. Init => OwnInv
  BY DEF Init, IngestorInit, OwnInv, Own
<1>2. Types /\ OwnInv /\ [Next]_vars => OwnInv'
  BY TypesStep, OwnInvStep DEF Types, IndexTypes
<1>3. OwnInv => GeneratedAccepted
  BY DEF OwnInv, GeneratedAccepted
<1> QED
  BY <1>1, <1>2, <1>3, TypesCorrect, PTL DEF Spec

-----------------------------------------------------------------------------
(* What the generator counts as a success.  R is the set of the requests   *)
(* it has heard a 202 for: no worker waits for one of them any more.       *)
HeardInv ==
  /\ IsFiniteSet(Stored)
  /\ \E R \in SUBSET (Own \intersect Stored) :
       /\ IsFiniteSet(R) /\ Cardinality(R) = stats.success
       /\ \A n \in R : client[n] = "202" /\ \A w \in Worker : call[w] # n

(* An answer stays with the client. *)
LEMMA AnswerStays ==
  ASSUME RequestTypes, IngestMove
  PROVE  \A n \in Request : client[n] = "202" => client'[n] = "202"
<1>a. client \in [Request -> {"none", "waiting", "error"} \union Answers]
  BY DEF RequestTypes
<1>1. ASSUME NEW n \in Request, NEW p, Post(n, p)
      PROVE  \A k \in Request : client[k] = "202" => client'[k] = "202"
  BY <1>a, <1>1 DEF Post
<1>2. ASSUME NEW n \in Request, PublishCancelled(n) \/ Respond(n) \/ GiveUp(n) \/ Disconnect(n)
      PROVE  \A k \in Request : client[k] = "202" => client'[k] = "202"
  BY <1>a, <1>2 DEF PublishCancelled, Respond, GiveUp, Disconnect
<1>3. ASSUME NEW n \in Request,
             IngestLogs(n) \/ Produce(n) \/ ProduceUnacked(n) \/ ProduceRefused(n)
      PROVE  client' = client
  BY <1>3 DEF IngestLogs, Produce, ProduceUnacked, ProduceRefused
<1>4. CASE ServerMove \/ UNCHANGED <<client, handler, body, batch, bytes, topic, server>>
  BY <1>4 DEF ServerMove, Signal, Drained, DrainTimeout, CloseProducer
<1> QED
  BY <1>1, <1>2, <1>3, <1>4 DEF IngestMove, RequestMove

LEMMA HeardInvStep ==
  ASSUME LoadTypes, RequestTypes, CallTypes, LifeInv, HeardInv, IngestMove, CallMove
  PROVE  HeardInv'
<1>a. Own \subseteq Request /\ 0 \notin Request
  BY IngestorAssumption DEF Own
<1>b. \A n \in Request : client[n] = "202" => client'[n] = "202"
  BY AnswerStays
<1>c. Stored \subseteq Stored' /\ IsFiniteSet(Stored')
  <2>1. CASE UNCHANGED topic
    BY <2>1 DEF Stored, HeardInv
  <2>2. ASSUME NEW n \in Request, batch[n] # {}, topic' = Appended(n)
        PROVE  Stored \subseteq Stored' /\ IsFiniteSet(Stored')
    <3>1. Stored' = Stored \union {n}
      BY <2>2, AppendedStored
    <3>2. IsFiniteSet(Stored \union {n})
      BY FS_AddElement DEF HeardInv
    <3> QED
      BY <3>1, <3>2
  <2> QED
    BY <2>1, <2>2, TopicStep
<1>d. PICK R \in SUBSET (Own \intersect Stored) :
        /\ IsFiniteSet(R) /\ Cardinality(R) = stats.success
        /\ \A n \in R : client[n] = "202" /\ \A w \in Worker : call[w] # n
  BY DEF HeardInv
<1>e. R \in SUBSET (Own \intersect Stored') /\ \A n \in R : client'[n] = "202"
  BY <1>a, <1>b, <1>c, <1>d
<1>f. call \in [Worker -> Own \union {0}] /\ stats \in [success : Nat, failed : Nat]
  BY DEF CallTypes, LoadTypes
<1>1. CASE \E w \in Worker : SendOne(w)
  <2>1. PICK w \in Worker : SendOne(w)
    BY <1>1
  <2>2. PICK n \in First(Own) : \E p \in GenerateLogPayload(config, now, n) :
          Post(n, p) /\ call' = [call EXCEPT ![w] = n]
    BY <2>1 DEF SendOne
  <2>3. client[n] = "none" /\ call' = [call EXCEPT ![w] = n]
    BY <2>2 DEF First
  <2>4. stats' = stats
    BY <2>1 DEF SendOne, Send
  <2>5. n \notin R
    BY <1>d, <2>3
  <2>6. \A k \in R : \A v \in Worker : call'[v] # k
    BY <1>d, <1>f, <2>3, <2>5
  <2> QED
    BY <1>c, <1>d, <1>e, <2>4, <2>6 DEF HeardInv
<1>2. CASE \E w \in Worker : Hear(w)
  <2>1. PICK w \in Worker : Hear(w)
    BY <1>2
  <2>2. call' = [call EXCEPT ![w] = 0]
    BY <2>1 DEF Hear
  <2>3. CASE call[w] # 0 /\ client[call[w]] = "202"
    <3> DEFINE n == call[w]
               Q == R \union {n}
    <3>1. n \in Own /\ n \in Stored
      BY <1>a, <1>f, <2>3 DEF LifeInv
    <3>2. stats' = [stats EXCEPT !.success = @ + 1]
      BY <2>1, <2>3 DEF Hear, Record
    <3>3. stats'.success = stats.success + 1
      BY <1>f, <3>2
    <3>4. n \notin R
      BY <1>d
    <3>5. IsFiniteSet(Q) /\ Cardinality(Q) = Cardinality(R) + 1
      BY <1>d, <3>4, FS_AddElement
    <3>6. \A k \in Q : client'[k] = "202"
      BY <1>a, <1>b, <1>e, <2>3, <3>1
    <3>7. \A k \in Q : \A v \in Worker : call'[v] # k
      <4>1. \A v \in Worker : v # w => call[v] # n
        BY <2>3 DEF CallTypes
      <4>2. 0 \notin Q
        BY <1>a, <1>d, <3>1
      <4> QED
        BY <1>d, <1>f, <2>2, <4>1, <4>2
    <3>8. Q \in SUBSET (Own \intersect Stored')
      BY <1>c, <1>e, <3>1
    <3>9. Cardinality(Q) = stats'.success
      BY <1>d, <3>3, <3>5
    <3> QED
      BY <1>c, <3>5, <3>6, <3>7, <3>8, <3>9 DEF HeardInv
  <2>4. CASE ~(call[w] # 0 /\ client[call[w]] = "202")
    <3>1. stats' = [stats EXCEPT !.failed = @ + 1]
      BY <2>1, <2>4 DEF Hear, Record
    <3>2. stats'.success = stats.success
      BY <1>f, <3>1
    <3>3. 0 \notin R
      BY <1>a, <1>d
    <3>4. \A k \in R : \A v \in Worker : call'[v] # k
      BY <1>d, <1>f, <2>2, <3>3
    <3> QED
      BY <1>c, <1>d, <1>e, <3>2, <3>4 DEF HeardInv
  <2> QED
    BY <2>3, <2>4
<1>3. CASE UNCHANGED <<call, stats>>
  BY <1>c, <1>d, <1>e, <1>3 DEF HeardInv
<1> QED
  BY <1>1, <1>2, <1>3 DEF CallMove

(* What a client or the summary of the generator counts as accepted is on  *)
(* the topic, though requests and acknowledgements get lost and the server *)
(* stops (IngestLogs answers 202 after Publish has returned).              *)
THEOREM AcceptedStored == Spec => []SuccessIsStored
<1>1. Init => HeardInv
  <2> SUFFICES ASSUME Init
               PROVE  HeardInv
    OBVIOUS
  <2>1. \A p \in Partition : DOMAIN topic[p] = {}
    BY DEF Init, IngestorInit
  <2>2. Stored = {}
    BY <2>1 DEF Stored
  <2>3. IsFiniteSet({}) /\ Cardinality({}) = 0
    BY FS_EmptySet
  <2>4. stats.success = 0
    BY DEF Init, LoadGenInit
  <2>5. {} \in SUBSET (Own \intersect Stored)
    OBVIOUS
  <2> QED
    BY <2>2, <2>3, <2>4, <2>5 DEF HeardInv
<1>2. Types /\ LifeInv /\ HeardInv /\ [Next]_vars => HeardInv'
  BY TypesStep, HeardInvStep DEF Types
<1>3. LifeInv /\ HeardInv => SuccessIsStored
  <2> SUFFICES ASSUME LifeInv, HeardInv
               PROVE  SuccessIsStored
    OBVIOUS
  <2>1. PICK R \in SUBSET (Own \intersect Stored) : Cardinality(R) = stats.success
    BY DEF HeardInv
  <2>2. IsFiniteSet(Stored \intersect Own) /\ R \in SUBSET (Stored \intersect Own)
    BY FS_Intersection DEF HeardInv
  <2>3. Cardinality(R) <= Cardinality(Stored \intersect Own)
    BY <2>2, FS_Subset
  <2> QED
    BY <2>1, <2>3 DEF LifeInv, SuccessIsStored
<1> QED
  BY <1>1, <1>2, <1>3, TypesCorrect, LifeInvCorrect, PTL DEF Spec

-----------------------------------------------------------------------------
(* The job channel.  JobsAccounted is inductive: a step of a worker moves  *)
(* it from one of the sets At(...) to another.                             *)
LEMMA Moved ==
  ASSUME worker \in [Worker -> {"loop", "ready", "sending", "done"}],
         NEW w \in Worker, NEW old, NEW new, old # new, worker[w] = old, Goto(w, new)
  PROVE  /\ Cardinality(At(old)) \in Nat /\ Cardinality(At(new)) \in Nat
         /\ Cardinality(At(old))' = Cardinality(At(old)) - 1
         /\ Cardinality(At(new))' = Cardinality(At(new)) + 1
         /\ \A at : at # old /\ at # new => Cardinality(At(at))' = Cardinality(At(at))
<1>1. worker' = [worker EXCEPT ![w] = new]
  BY DEF Goto
<1>2. At(old)' = At(old) \ {w} /\ w \in At(old)
  BY <1>1 DEF At
<1>3. At(new)' = At(new) \union {w} /\ w \notin At(new)
  BY <1>1 DEF At
<1>4. \A at : at # old /\ at # new => At(at)' = At(at)
  BY <1>1 DEF At
<1>5. IsFiniteSet(At(old)) /\ IsFiniteSet(At(new))
  BY FlagAssumption, FS_Subset DEF At
<1>6. Cardinality(At(old)) \in Nat /\ Cardinality(At(new)) \in Nat
  BY <1>5, FS_CardinalityType
<1>7. Cardinality(At(old) \ {w}) = Cardinality(At(old)) - 1
  BY <1>2, <1>5, FS_RemoveElement
<1>8. Cardinality(At(new) \union {w}) = Cardinality(At(new)) + 1
  BY <1>3, <1>5, FS_AddElement
<1> QED
  BY <1>2, <1>3, <1>4, <1>6, <1>7, <1>8

LEMMA JobsStep ==
  ASSUME LoadTypes, JobsAccounted, LoadMove
  PROVE  JobsAccounted'
<1> DEFINE ready == Cardinality(At("ready"))
           sending == Cardinality(At("sending"))
           done == Cardinality(At("done"))
<1>a. worker \in [Worker -> {"loop", "ready", "sending", "done"}]
      /\ config.n \in Nat /\ jobs \in Nat /\ config' = config
      /\ stats \in [success : Nat, failed : Nat]
  BY LoadTypesStep DEF LoadTypes, Config
<1>b. \A at : IsFiniteSet(At(at))
  BY FlagAssumption, FS_Subset DEF At
<1>c. ready \in Nat /\ sending \in Nat /\ done \in Nat
  BY <1>b, FS_CardinalityType
<1> SUFFICES ASSUME config.n > 0, Validate(config)
             PROVE  JobsAccounted'
  BY <1>a DEF JobsAccounted, Validate
<1>d. /\ config.n - (jobs + (ready + sending) + TotalSent) \in 0 .. done
      /\ config.n - (jobs + (ready + sending) + TotalSent) > 0 => cancelled
  BY DEF JobsAccounted
<1>e. TotalSent \in Nat
  BY <1>a DEF TotalSent
<1>f. SUFFICES /\ config.n - (jobs' + (ready' + sending') + TotalSent') \in 0 .. done'
               /\ config.n - (jobs' + (ready' + sending') + TotalSent') > 0 => cancelled'
  BY <1>a DEF JobsAccounted
<1> HIDE DEF ready, sending, done
<1>1. ASSUME NEW w \in Worker, TakeJob(w)
      PROVE  /\ config.n - (jobs' + (ready' + sending') + TotalSent') \in 0 .. done'
             /\ config.n - (jobs' + (ready' + sending') + TotalSent') > 0 => cancelled'
  <2>1. TotalSent' = TotalSent /\ cancelled' = cancelled /\ worker[w] = "loop"
    BY <1>1 DEF TakeJob, TotalSent
  <2>2. CASE jobs = 0
    <3>1. Goto(w, "done") /\ jobs' = 0
      BY <1>1, <2>2 DEF TakeJob
    <3>2. ready' = ready /\ sending' = sending /\ done' = done + 1
      BY <1>a, <2>1, <3>1, Moved DEF ready, sending, done
    <3> QED
      BY <1>a, <1>c, <1>d, <1>e, <2>1, <2>2, <3>1, <3>2
  <2>3. CASE jobs # 0 /\ cancelled
    <3>1. Goto(w, "done") /\ jobs' = jobs - 1
      BY <1>1, <1>a, <2>3 DEF TakeJob, Return
    <3>2. ready' = ready /\ sending' = sending /\ done' = done + 1
      BY <1>a, <2>1, <3>1, Moved DEF ready, sending, done
    <3> QED
      BY <1>a, <1>c, <1>d, <1>e, <2>1, <2>3, <3>1, <3>2
  <2>4. CASE jobs # 0 /\ ~cancelled
    <3>1. Goto(w, "ready") /\ jobs' = jobs - 1
      BY <1>1, <1>a, <2>4 DEF TakeJob
    <3>2. ready' = ready + 1 /\ sending' = sending /\ done' = done
      BY <1>a, <2>1, <3>1, Moved DEF ready, sending, done
    <3> QED
      BY <1>a, <1>c, <1>d, <1>e, <2>1, <2>4, <3>1, <3>2
  <2> QED
    BY <2>2, <2>3, <2>4
<1>2. ASSUME NEW w \in Worker, Abandon(w)
      PROVE  /\ config.n - (jobs' + (ready' + sending') + TotalSent') \in 0 .. done'
             /\ config.n - (jobs' + (ready' + sending') + TotalSent') > 0 => cancelled'
  <2>1. TotalSent' = TotalSent /\ cancelled /\ cancelled' = cancelled /\ jobs' = jobs
        /\ worker[w] = "ready" /\ Goto(w, "done")
    BY <1>2 DEF Abandon, TotalSent, Return
  <2>2. ready' = ready - 1 /\ sending' = sending /\ done' = done + 1
    BY <1>a, <2>1, Moved DEF ready, sending, done
  <2> QED
    BY <1>a, <1>c, <1>d, <1>e, <2>1, <2>2
<1>3. ASSUME NEW w \in Worker, Send(w)
      PROVE  /\ config.n - (jobs' + (ready' + sending') + TotalSent') \in 0 .. done'
             /\ config.n - (jobs' + (ready' + sending') + TotalSent') > 0 => cancelled'
  <2>1. TotalSent' = TotalSent /\ cancelled' = cancelled /\ jobs' = jobs
        /\ worker[w] = "ready" /\ Goto(w, "sending")
    BY <1>3 DEF Send, TotalSent
  <2>2. ready' = ready - 1 /\ sending' = sending + 1 /\ done' = done
    BY <1>a, <2>1, Moved DEF ready, sending, done
  <2> QED
    BY <1>a, <1>c, <1>d, <1>e, <2>1, <2>2
<1>4. ASSUME NEW w \in Worker, NEW status, Record(w, status)
      PROVE  /\ config.n - (jobs' + (ready' + sending') + TotalSent') \in 0 .. done'
             /\ config.n - (jobs' + (ready' + sending') + TotalSent') > 0 => cancelled'
  <2>1. TotalSent' = TotalSent + 1
    BY <1>4, <1>a DEF Record, TotalSent
  <2>2. cancelled' = cancelled /\ jobs' = jobs /\ worker[w] = "sending" /\ Goto(w, "loop")
    BY <1>4 DEF Record
  <2>3. ready' = ready /\ sending' = sending - 1 /\ done' = done
    BY <1>a, <2>2, Moved DEF ready, sending, done
  <2> QED
    BY <1>a, <1>c, <1>d, <1>e, <2>1, <2>2, <2>3
<1>5. CASE Cancel \/ UNCHANGED loadgenVars
  <2>1. TotalSent' = TotalSent /\ jobs' = jobs /\ worker' = worker /\ (cancelled => cancelled')
    BY <1>5 DEF Cancel, loadgenVars, TotalSent
  <2>2. ready' = ready /\ sending' = sending /\ done' = done
    BY <2>1 DEF ready, sending, done, At
  <2> QED
    BY <1>a, <1>c, <1>d, <1>e, <2>1, <2>2
<1> QED
  BY <1>1, <1>2, <1>3, <1>4, <1>5 DEF LoadMove

(* Every element of the job channel is still there, with a worker, or      *)
(* recorded once, for any number of workers; each worker that stopped may  *)
(* have thrown one away, and only when the run was interrupted.            *)
THEOREM EveryJobCounted == Spec => []JobsAccounted
<1>1. Init => JobsAccounted
  <2> SUFFICES ASSUME Init, Validate(config)
               PROVE  JobsAccounted
    BY DEF JobsAccounted
  <2>1. At("ready") = {} /\ At("sending") = {} /\ At("done") = {}
    <3>1. worker = [w \in Worker |-> "loop"]
      BY DEF Init, LoadGenInit
    <3> QED
      BY <3>1 DEF At
  <2>2. Cardinality({}) = 0
    BY FS_EmptySet
  <2>3. jobs = config.n /\ TotalSent = 0
    <3>1. stats = [success |-> 0, failed |-> 0]
      BY DEF Init, LoadGenInit
    <3> QED
      BY <3>1 DEF Init, LoadGenInit, TotalSent
  <2>4. config.n \in Nat
    BY LoadTypesInit DEF Init, LoadTypes, Config
  <2> QED
    BY <2>1, <2>2, <2>3, <2>4 DEF JobsAccounted
<1>2. Types /\ JobsAccounted /\ [Next]_vars => JobsAccounted'
  BY TypesStep, JobsStep DEF Types
<1> QED
  BY <1>1, <1>2, TypesCorrect, PTL DEF Spec

-----------------------------------------------------------------------------
(* The documents.  The index and the timestamp of a document follow from   *)
(* its id, so that IndexBatch finds the one it has to replace.             *)
Doc ==
  [id : Text \X Text \X Nat \X Nat \X Text, index : Nat, timestamp : Nat, ip : Text]

Placed(d) == d.index = IndexNameForTime(d.timestamp) /\ d.id[3] = d.timestamp

DocsInv ==
  /\ docs \subseteq Doc /\ IsFiniteSet(docs)
  /\ \A d \in docs : Placed(d)
  /\ OneDocument

LEMMA DocumentPlaced ==
  ASSUME NEW m \in LogPayload
  PROVE  Document(m) \in Doc /\ Placed(Document(m))
<1>1. m.timestamp \in Nat /\ m.service \in Text /\ m.level \in Text /\ m.trace \in Nat
      /\ m.message \in Text /\ m.ip \in Text
  BY DEF LogPayload
<1>2. m.timestamp \div DayLen \in Nat
  BY <1>1, StampAssumption, DivBound
<1>3. DeterministicID(m) \in Text \X Text \X Nat \X Nat \X Text
      /\ DeterministicID(m)[3] = m.timestamp
  BY <1>1 DEF DeterministicID
<1> HIDE DEF DeterministicID
<1> QED
  BY <1>1, <1>2, <1>3 DEF Document, IndexOf, IndexNameForTime, Doc, Placed

(* The documents with a timestamp in T. *)
Dated(T) == {e \in docs : e.timestamp \in T}

(* Indexing replaces the document of the same log, if any, by one of the   *)
(* same timestamp, and never makes a document disappear.                   *)
LEMMA Indexed ==
  ASSUME DocsInv, NEW d \in Doc, Placed(d), IndexBatch(d)
  PROVE  /\ DocsInv'
         /\ \A e \in docs : \E f \in docs' : f.id = e.id
         /\ \A T : Cardinality(Dated(T)) <= Cardinality(Dated(T))'
<1> DEFINE Kept == {e \in docs : e.id # d.id}
<1>1. docs' = Kept \union {d}
  <2>1. \A e \in docs : e.id = d.id => e.index = d.index
    BY DEF DocsInv, Placed
  <2> QED
    BY <2>1 DEF IndexBatch
<1>2. IsFiniteSet(Kept) /\ Kept \subseteq docs
  BY FS_Subset DEF DocsInv
<1>3. IsFiniteSet(docs')
  BY <1>1, <1>2, FS_AddElement
<1>4. OneDocument'
  BY <1>1 DEF DocsInv, OneDocument
<1>5. DocsInv'
  BY <1>1, <1>3, <1>4 DEF DocsInv, Placed, IndexNameForTime
<1>6. \A e \in docs : \E f \in docs' : f.id = e.id
  BY <1>1
<1>7. ASSUME NEW T
      PROVE  Cardinality(Dated(T)) <= Cardinality(Dated(T))'
  <2> DEFINE D == Dated(T)
             N == {e \in docs' : e.timestamp \in T}
  <2>0. D \subseteq docs /\ N \subseteq docs' /\ Dated(T)' = N
    BY DEF Dated
  <2>1. IsFiniteSet(D) /\ IsFiniteSet(N)
    BY <2>0, <1>3, FS_Subset DEF DocsInv
  <2>2. CASE \E o \in docs : o.id = d.id /\ d.timestamp \in T
    <3>1. PICK o \in docs : o.id = d.id /\ d.timestamp \in T
      BY <2>2
    <3>2. o.timestamp = d.timestamp
      BY <3>1 DEF DocsInv, Placed
    <3>3. Kept = docs \ {o}
      BY <3>1 DEF DocsInv, OneDocument
    <3>4. N = (D \ {o}) \union {d}
      BY <1>1, <3>1, <3>2, <3>3 DEF Dated
    <3>5. d \notin D \ {o} /\ o \in D
      BY <3>1, <3>2 DEF DocsInv, OneDocument, Dated
    <3>6. IsFiniteSet(D \ {o}) /\ Cardinality(D \ {o}) = Cardinality(D) - 1
      BY <2>1, <3>5, FS_RemoveElement
    <3>7. Cardinality((D \ {o}) \union {d}) = Cardinality(D) - 1 + 1
      BY <3>5, <3>6, FS_AddElement
    <3>8. Cardinality(D) \in Nat
      BY <2>1, FS_CardinalityType
    <3> HIDE DEF N, D
    <3>9. Cardinality(N) = Cardinality(D)
      BY <3>4, <3>7, <3>8
    <3> USE DEF D
    <3> QED
      BY <2>0, <3>8, <3>9
  <2>3. CASE ~ \E o \in docs : o.id = d.id /\ d.timestamp \in T
    <3>1. D \subseteq N
      <4>1. ASSUME NEW e \in D
            PROVE  e \in N
        <5>1. e.id # d.id
          BY <2>3 DEF Dated, DocsInv, Placed
        <5> QED
          BY <1>1, <5>1 DEF Dated
      <4> QED
        BY <4>1
    <3> QED
      BY <2>0, <2>1, <3>1, FS_Subset
  <2> QED
    BY <2>2, <2>3
<1> QED
  BY <1>5, <1>6, <1>7

(* Every step leaves the documents alone, or indexes one. *)
LEMMA DocsStep ==
  ASSUME RequestTypes, IndexTypes, DocsInv, IndexMove
  PROVE  /\ DocsInv'
         /\ \A e \in docs : \E f \in docs' : f.id = e.id
         /\ \A T : Cardinality(Dated(T)) <= Cardinality(Dated(T))'
         /\ docs' # docs => reader' = reader
<1>1. ASSUME docs' = docs
      PROVE  /\ DocsInv'
             /\ \A e \in docs : \E f \in docs' : f.id = e.id
             /\ \A T : Cardinality(Dated(T)) <= Cardinality(Dated(T))'
  <2>1. ASSUME NEW T
        PROVE  Cardinality(Dated(T)) <= Cardinality(Dated(T))'
    <3>1. Dated(T)' = Dated(T) /\ IsFiniteSet(Dated(T))
      BY <1>1, FS_Subset DEF Dated, DocsInv
    <3>2. Cardinality(Dated(T)) \in Nat
      BY <3>1, FS_CardinalityType
    <3> QED
      BY <3>1, <3>2
  <2> QED
    BY <1>1, <2>1 DEF DocsInv, OneDocument
<1>2. ASSUME NEW p \in Partition, Take(p)
      PROVE  /\ DocsInv'
             /\ \A e \in docs : \E f \in docs' : f.id = e.id
             /\ \A T : Cardinality(Dated(T)) <= Cardinality(Dated(T))'
             /\ reader' = reader
  <2> DEFINE n == topic[p][position[p] + 1]
  <2>1. /\ position[p] + 1 \in 1 .. Len(topic[p])
        /\ (Consume(p, n, body[n]) \/ Shed(p, n, body[n]) \/ Drop(p, n, body[n]))
    BY <1>2 DEF Take, IndexTypes, RequestTypes
  <2>2. n \in Request
    BY <2>1 DEF RequestTypes
  <2>3. body[n] \in LogPayload
    BY <2>2 DEF RequestTypes
  <2>4. (docs' = docs \/ IndexBatch(Document(body[n]))) /\ reader' = reader
    BY <2>1 DEF Consume, Shed, Drop
  <2>5. Document(body[n]) \in Doc /\ Placed(Document(body[n]))
    BY <2>3, DocumentPlaced
  <2> QED
    BY <1>1, <2>4, <2>5, Indexed
<1>3. \/ \E p \in Partition : Take(p)
      \/ docs' = docs
  BY DEF IndexMove, Redeliver, Tick, Ask, SearchLogs, indexVars
<1> QED
  BY <1>1, <1>2, <1>3

LEMMA DocsInvCorrect == Spec => []DocsInv
<1>1. Init => DocsInv
  BY FS_EmptySet DEF Init, LogIndexInit, DocsInv, OneDocument
<1>2. Types /\ DocsInv /\ [Next]_vars => DocsInv'
  BY TypesStep, DocsStep DEF Types
<1> QED
  BY <1>1, <1>2, TypesCorrect, PTL DEF Spec

(* A log is one document over all indices, for any number of days, however *)
(* often the writer, the client or the consumer repeats it.                *)
THEOREM LogIsOneDocument == Spec => []OneDocument
<1>1. DocsInv => OneDocument
  BY DEF DocsInv
<1> QED
  BY <1>1, DocsInvCorrect, PTL

-----------------------------------------------------------------------------
(* The reader.  While it reads, a log it has missed so far and that shares *)
(* its timestamp with no other has a whole page before it for each page    *)
(* that was read: new logs push it further back, never forward.            *)
Missed(d) ==
  /\ d \in Doc /\ d.id[3] = d.timestamp
  /\ \E e \in docs : e.id = d.id

ReadInv ==
  /\ reader \in [state : {"idle", "reading", "done", "failed"}, page : Nat, size : Nat,
                 missed : SUBSET Doc]
  /\ reader.state = "reading" => reader.page > 0 /\ reader.size > 0
  /\ \A d \in reader.missed : Missed(d)
  /\ reader.state = "reading" =>
       \A d \in reader.missed :
         Cardinality(Tied(d)) = 1 => Cardinality(Newer(d)) >= Offset(reader.page, reader.size)
  /\ PagingComplete

LEMMA SetCounts ==
  ASSUME NEW D, D \subseteq Doc, IsFiniteSet(D), \A e \in D : Placed(e),
         NEW d \in Doc, d.id[3] = d.timestamp, \E e \in D : e.id = d.id
  PROVE  LET tied == {e \in D : e.timestamp = d.timestamp}
             newer == {e \in D : e.timestamp > d.timestamp}
         IN /\ tied = {e \in D : e.timestamp \in {d.timestamp}}
            /\ newer = {e \in D : e.timestamp \in {t \in Nat : t > d.timestamp}}
            /\ Cardinality(tied) \in Nat \ {0} /\ Cardinality(newer) \in Nat
            /\ IsFiniteSet(tied) /\ IsFiniteSet(newer)
<1> DEFINE tied == {e \in D : e.timestamp = d.timestamp}
           newer == {e \in D : e.timestamp > d.timestamp}
<1>1. \A e \in D : e.timestamp \in Nat
  BY DEF Doc
<1>2. IsFiniteSet(tied) /\ IsFiniteSet(newer)
  BY FS_Subset
<1>3. Cardinality(tied) \in Nat /\ Cardinality(newer) \in Nat
  BY <1>2, FS_CardinalityType
<1>4. PICK e \in D : e.id = d.id
  OBVIOUS
<1>5. e \in tied
  BY <1>4 DEF Placed
<1>6. Cardinality(tied) # 0
  <2> HIDE DEF tied
  <2> QED
    BY <1>2, <1>5, FS_EmptySet
<1>7. /\ tied = {f \in D : f.timestamp \in {d.timestamp}}
      /\ newer = {f \in D : f.timestamp \in {t \in Nat : t > d.timestamp}}
  BY <1>1
<1> QED
  BY <1>2, <1>3, <1>6, <1>7

LEMMA TiedNewer ==
  ASSUME DocsInv, NEW d, Missed(d)
  PROVE  /\ Tied(d) = Dated({d.timestamp}) /\ Newer(d) = Dated({t \in Nat : t > d.timestamp})
         /\ Cardinality(Tied(d)) \in Nat \ {0} /\ Cardinality(Newer(d)) \in Nat
         /\ IsFiniteSet(Tied(d)) /\ IsFiniteSet(Newer(d))
BY SetCounts DEF DocsInv, Missed, Tied, Newer, Dated

(* When documents are indexed, what the reader relies on stays true. *)
LEMMA ReadInvIndexed ==
  ASSUME DocsInv, DocsInv', ReadInv, reader' = reader,
         \A e \in docs : \E f \in docs' : f.id = e.id,
         \A T : Cardinality(Dated(T)) <= Cardinality(Dated(T))'
  PROVE  ReadInv'
<1>1. \A d \in reader.missed : Missed(d) /\ Missed(d)'
  BY DEF ReadInv, Missed
<1>2. ASSUME NEW d \in reader.missed
      PROVE  /\ Cardinality(Tied(d)) <= Cardinality(Tied(d))'
             /\ Cardinality(Newer(d)) <= Cardinality(Newer(d))'
             /\ Cardinality(Tied(d)) \in Nat \ {0} /\ Cardinality(Tied(d))' \in Nat \ {0}
             /\ Cardinality(Newer(d)) \in Nat /\ Cardinality(Newer(d))' \in Nat
  <2>1. Missed(d) /\ Missed(d)'
    BY <1>1
  <2>2. /\ Tied(d) = Dated({d.timestamp}) /\ Newer(d) = Dated({t \in Nat : t > d.timestamp})
        /\ Cardinality(Tied(d)) \in Nat \ {0} /\ Cardinality(Newer(d)) \in Nat
    BY <2>1, TiedNewer
  <2>3. /\ Tied(d)' = Dated({d.timestamp})' /\ Newer(d)' = Dated({t \in Nat : t > d.timestamp})'
        /\ Cardinality(Tied(d))' \in Nat \ {0} /\ Cardinality(Newer(d))' \in Nat
    BY <2>1, SetCounts DEF DocsInv, Missed, Tied, Newer, Dated
  <2> QED
    BY <2>2, <2>3
<1>3. PagingComplete'
  BY <1>2 DEF ReadInv, PagingComplete
<1>4. reader.state = "reading" =>
        \A d \in reader.missed :
          Cardinality(Tied(d))' = 1 => Cardinality(Newer(d))' >= Offset(reader.page, reader.size)
  <2> SUFFICES ASSUME reader.state = "reading", NEW d \in reader.missed, Cardinality(Tied(d))' = 1
               PROVE  Cardinality(Newer(d))' >= Offset(reader.page, reader.size)
    OBVIOUS
  <2>1. Cardinality(Tied(d)) = 1
    BY <1>2
  <2>2. Cardinality(Newer(d)) >= Offset(reader.page, reader.size)
    BY <2>1 DEF ReadInv
  <2>3. Offset(reader.page, reader.size) \in Int
    BY DEF Offset, ReadInv
  <2> QED
    BY <1>2, <2>2, <2>3
<1> QED
  BY <1>1, <1>3, <1>4 DEF ReadInv

LEMMA PageSizeType ==
  ASSUME NEW s \in Size
  PROVE  PageSize(s) \in Nat \ {0}
BY SearchAssumption DEF PageSize

(* A log that was not on the page, with a timestamp of its own, is behind  *)
(* the page.                                                               *)
LEMMA NotOnPage ==
  ASSUME DocsInv, NEW page \in Nat \ {0}, NEW size \in Nat \ {0}, NEW h \in Hits(page, size),
         NEW d, Missed(d), Cardinality(Tied(d)) = 1, \A e \in h : e.id # d.id,
         Cardinality(Newer(d)) >= Offset(page, size)
  PROVE  /\ Cardinality(Newer(d)) >= page * size
         /\ Offset(page + 1, size) = page * size
         /\ Cardinality(docs) >= Cardinality(Newer(d)) + 1
<1> DEFINE before == Cardinality(Newer(d))
           first == Offset(page, size)
           low == IF first > before THEN first ELSE before
           high == IF first + size < before + 1 THEN first + size ELSE before + 1
<1>1. PICK e \in docs : e.id = d.id
  BY DEF Missed
<1>2. e.timestamp = d.timestamp
  BY <1>1 DEF Missed, DocsInv, Placed
<1>3. Tied(e) = Tied(d) /\ Newer(e) = Newer(d)
  BY <1>2 DEF Tied, Newer
<1>4. IsFiniteSet(Tied(d)) /\ IsFiniteSet(Newer(d)) /\ before \in Nat
  BY TiedNewer
<1>5. Tied(d) = {e}
  <2>1. PICK x : Tied(d) = {x}
    BY <1>4, FS_Singleton
  <2>2. e \in Tied(d)
    BY <1>1, <1>2 DEF Tied
  <2> QED
    BY <2>1, <2>2
<1>6. Cardinality(h \intersect Tied(d)) = 0
  <2>1. h \intersect Tied(d) = {}
    BY <1>1, <1>5
  <2> QED
    BY <2>1, FS_EmptySet
<1>7. Cardinality(h \intersect Tied(d)) = IF high > low THEN high - low ELSE 0
  BY <1>3 DEF Hits
<1>8. first \in Int /\ size \in Int /\ size > 0
  BY DEF Offset
<1>9. before >= first + size
  <2> HIDE DEF before, first
  <2>1. low = before
    BY <1>4, <1>8 DEF before, first
  <2>2. high \in Int /\ low \in Int
    BY <1>4, <1>8
  <2>3. ~(high > low)
    BY <1>6, <1>7, <2>2
  <2>4. ~(first + size < before + 1) => high = before + 1
    OBVIOUS
  <2>5. first + size < before + 1
    BY <1>4, <1>8, <2>1, <2>3, <2>4
  <2> QED
    BY <1>4, <1>8, <2>5
<1>10. first + size = page * size /\ Offset(page + 1, size) = page * size
  BY DEF Offset
<1>11. Cardinality(docs) >= before + 1
  <2>1. e \notin Newer(d) /\ Newer(d) \union {e} \subseteq docs
    BY <1>2, <1>1 DEF Newer, DocsInv, Doc
  <2>2. Cardinality(Newer(d) \union {e}) = before + 1
    BY <1>4, <2>1, FS_AddElement
  <2>3. Cardinality(Newer(d) \union {e}) <= Cardinality(docs)
    BY <2>1, FS_Subset DEF DocsInv
  <2>4. Cardinality(docs) \in Nat
    BY FS_CardinalityType DEF DocsInv
  <2> QED
    BY <1>4, <2>2, <2>3, <2>4
<1> QED
  BY <1>9, <1>10, <1>11

LEMMA LastPage ==
  ASSUME NEW total \in Nat \ {0}, NEW size \in Nat \ {0}, NEW page \in Nat,
         ~(page < Pages(total, size))
  PROVE  page * size >= total
<1> DEFINE a == total + size - 1
           q == a \div size
<1>1. Pages(total, size) = q
  BY DEF Pages
<1>2. a \in Nat /\ a - size = total - 1
  OBVIOUS
<1> HIDE DEF a
<1>3. q \in Nat /\ q * size > a - size
  BY <1>2, DivBound
<1> HIDE DEF q
<1>4. page >= q
  BY <1>1, <1>3
<1>5. page * size \in Nat /\ q * size \in Nat /\ page * size >= q * size
  BY <1>3, <1>4, TimesMonotone
<1>6. q * size > total - 1
  BY <1>2, <1>3
<1> QED
  BY <1>5, <1>6

LEMMA ReadInvSearch ==
  ASSUME DocsInv, ReadInv, SearchLogs
  PROVE  ReadInv'
<1>a. reader \in [state : {"idle", "reading", "done", "failed"}, page : Nat, size : Nat,
                  missed : SUBSET Doc]
      /\ reader.state = "reading" /\ reader.page \in Nat \ {0} /\ reader.size \in Nat \ {0}
  <2>1. reader.state = "reading"
    BY DEF SearchLogs
  <2>2. reader.page \in Nat /\ reader.size \in Nat /\ reader.page > 0 /\ reader.size > 0
    BY <2>1 DEF ReadInv
  <2> QED
    BY <2>1, <2>2 DEF ReadInv
<1>b. docs' = docs
  BY DEF SearchLogs
<1>c. \A d : Missed(d)' = Missed(d) /\ Tied(d)' = Tied(d) /\ Newer(d)' = Newer(d)
  BY <1>b DEF Missed, Tied, Newer
<1>1. CASE Offset(reader.page, reader.size) + reader.size > ResultWindow
  <2>1. reader' = [state |-> "failed", page |-> 0, size |-> 0, missed |-> {}]
    BY <1>1 DEF SearchLogs, Idle
  <2> QED
    BY <2>1 DEF ReadInv, PagingComplete
<1>2. CASE ~(Offset(reader.page, reader.size) + reader.size > ResultWindow)
  <2> DEFINE page == reader.page
             size == reader.size
  <2>1. PICK h \in Hits(page, size) :
          reader' = [reader EXCEPT
            !.missed = {d \in @ : \A e \in h : e.id # d.id},
            !.state = IF page < Pages(Cardinality(docs), size) THEN "reading" ELSE "done",
            !.page = @ + 1]
    BY <1>2 DEF SearchLogs
  <2>2. /\ reader'.missed = {d \in reader.missed : \A e \in h : e.id # d.id}
        /\ reader'.state = IF page < Pages(Cardinality(docs), size) THEN "reading" ELSE "done"
        /\ reader'.page = page + 1 /\ reader'.size = size
        /\ reader' \in [state : {"idle", "reading", "done", "failed"}, page : Nat, size : Nat,
                        missed : SUBSET Doc]
    <3> DEFINE missed == {d \in reader.missed : \A e \in h : e.id # d.id}
               state == IF page < Pages(Cardinality(docs), size) THEN "reading" ELSE "done"
    <3>1. missed \in SUBSET Doc /\ state \in {"idle", "reading", "done", "failed"}
      BY <1>a
    <3>2. reader' = [reader EXCEPT !.missed = missed, !.state = state, !.page = @ + 1]
      BY <2>1
    <3> HIDE DEF missed, state
    <3>3. /\ reader'.missed = missed /\ reader'.state = state
          /\ reader'.page = page + 1 /\ reader'.size = size
          /\ reader' \in [state : {"idle", "reading", "done", "failed"}, page : Nat,
                          size : Nat, missed : SUBSET Doc]
      <4>1. reader = [state |-> reader.state, page |-> page, size |-> size,
                      missed |-> reader.missed]
        BY <1>a, Zenon
      <4>2. reader' = [state |-> state, page |-> page + 1, size |-> size, missed |-> missed]
        BY <3>2, <4>1
      <4>3. page + 1 \in Nat /\ size \in Nat
        BY <1>a
      <4> QED
        BY <3>1, <4>2, <4>3
    <3> QED
      BY <3>3 DEF missed, state
  <2>3. \A d \in reader'.missed : Missed(d) /\ d \in reader.missed /\ \A e \in h : e.id # d.id
    BY <2>2 DEF ReadInv
  <2>4. ASSUME NEW d \in reader'.missed, Cardinality(Tied(d)) = 1
        PROVE  /\ Cardinality(Newer(d)) >= page * size
               /\ Offset(page + 1, size) = page * size
               /\ Cardinality(docs) >= Cardinality(Newer(d)) + 1
    <3>1. Cardinality(Newer(d)) >= Offset(page, size)
      BY <1>a, <2>3, <2>4 DEF ReadInv
    <3> QED
      BY <1>a, <2>3, <2>4, <3>1, NotOnPage
  <2>5. \A d \in reader'.missed : Cardinality(Tied(d)) \in Nat \ {0} /\ Cardinality(Newer(d)) \in Nat
    BY <2>3, TiedNewer
  <2>6. Cardinality(docs) \in Nat
    BY FS_CardinalityType DEF DocsInv
  <2>7. reader'.state = "reading" =>
          \A d \in reader'.missed :
            Cardinality(Tied(d))' = 1 => Cardinality(Newer(d))' >= Offset(reader'.page, reader'.size)
    BY <1>c, <2>2, <2>4
  <2>8. PagingComplete'
    <3> SUFFICES ASSUME reader'.state = "done", NEW d \in reader'.missed, Cardinality(Tied(d)) = 1
                 PROVE  FALSE
      BY <1>c, <2>5 DEF PagingComplete
    <3>1. ~(page < Pages(Cardinality(docs), size))
      BY <2>2
    <3>2. /\ Cardinality(Newer(d)) >= page * size
          /\ Cardinality(docs) >= Cardinality(Newer(d)) + 1
          /\ Cardinality(Newer(d)) \in Nat
      BY <2>4, <2>5
    <3>3. Cardinality(docs) \in Nat \ {0}
      BY <2>6, <3>2
    <3>4. page * size >= Cardinality(docs)
      BY <1>a, <3>1, <3>3, LastPage
    <3>5. page * size \in Nat
      BY <1>a
    <3> HIDE DEF page, size
    <3> QED
      BY <3>2, <3>3, <3>4, <3>5
  <2>9. reader'.state = "reading" => reader'.page > 0 /\ reader'.size > 0
    BY <1>a, <2>2
  <2>10. \A d \in reader'.missed : Missed(d)'
    BY <1>c, <2>3
  <2> QED
    BY <2>2, <2>7, <2>8, <2>9, <2>10 DEF ReadInv
<1> QED
  BY <1>1, <1>2

LEMMA ReadInvStep ==
  ASSUME RequestTypes, IndexTypes, DocsInv, ReadInv, IndexMove
  PROVE  ReadInv'
<1>a. /\ DocsInv'
      /\ \A e \in docs : \E f \in docs' : f.id = e.id
      /\ \A T : Cardinality(Dated(T)) <= Cardinality(Dated(T))'
  BY DocsStep
<1>1. CASE reader' = reader
  BY <1>1, <1>a, ReadInvIndexed
<1>2. ASSUME NEW s \in Size, Ask(s)
      PROVE  ReadInv'
  <2>1. reader' = [state |-> "reading", page |-> 1, size |-> PageSize(s), missed |-> docs]
        /\ docs' = docs
    BY <1>2 DEF Ask
  <2>2. PageSize(s) \in Nat \ {0}
    BY PageSizeType
  <2>3. Offset(1, PageSize(s)) = 0
    BY <2>2 DEF Offset
  <2>4. \A d \in docs : Missed(d)
    BY DEF DocsInv, Missed, Placed
  <2>5. \A d \in docs : Cardinality(Newer(d)) >= 0
    <3>1. ASSUME NEW d \in docs
          PROVE  Cardinality(Newer(d)) \in Nat
      BY <2>4, TiedNewer
    <3> QED
      BY <3>1
  <2>6. /\ reader'.state = "reading" /\ reader'.page = 1 /\ reader'.size = PageSize(s)
        /\ reader'.missed = docs
        /\ reader' \in [state : {"idle", "reading", "done", "failed"}, page : Nat, size : Nat,
                        missed : SUBSET Doc]
    BY <2>1, <2>2 DEF DocsInv
  <2>7. \A d \in docs : Missed(d)' /\ Cardinality(Newer(d))' = Cardinality(Newer(d))
    BY <2>1, <2>4 DEF Missed, Newer
  <2>8. PagingComplete'
    BY <2>6 DEF PagingComplete
  <2> QED
    BY <2>2, <2>3, <2>5, <2>6, <2>7, <2>8 DEF ReadInv
<1>3. CASE SearchLogs
  BY <1>3, ReadInvSearch
<1>4. reader' = reader \/ (\E s \in Size : Ask(s)) \/ SearchLogs
  BY DEF IndexMove, Take, Consume, Shed, Drop, Redeliver, Tick, indexVars
<1> QED
  BY <1>1, <1>2, <1>3, <1>4

(* Whatever is indexed while it reads, a reader that reads to the last     *)
(* page sees every log that was there when it began, except logs that      *)
(* share a timestamp with another; for any page size, and any number of    *)
(* logs within the result window.                                          *)
THEOREM PagesComplete == Spec => []PagingComplete
<1>1. Init => ReadInv
  <2> SUFFICES ASSUME Init
               PROVE  ReadInv
    OBVIOUS
  <2>1. reader = [state |-> "idle", page |-> 0, size |-> 0, missed |-> {}]
    BY DEF Init, LogIndexInit, Idle
  <2> QED
    BY <2>1 DEF ReadInv, PagingComplete
<1>2. Types /\ DocsInv /\ ReadInv /\ [Next]_vars => ReadInv'
  BY TypesStep, ReadInvStep DEF Types
<1>3. ReadInv => PagingComplete
  BY DEF ReadInv
<1> QED
  BY <1>1, <1>2, <1>3, TypesCorrect, DocsInvCorrect, PTL DEF Spec
=============================================================================
