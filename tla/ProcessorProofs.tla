--------------------------- MODULE ProcessorProofs ---------------------------
(***************************************************************************)
(* Theorems about Processor, for every set of partitions, log length,      *)
(* batch size, choice of bad messages and set of faults.                   *)
(***************************************************************************)
EXTENDS Processor, FiniteFacts, SequenceTheorems

-----------------------------------------------------------------------------
(***************************************************************************)
(* The data the actions compute with.                                      *)
(***************************************************************************)

(* A position that a document of the bulk request has in the batch.        *)
LEMMA DocInBatch ==
  ASSUME TypeOK, NEW j \in DOMAIN validIdx
  PROVE  /\ validIdx[j] \in DOMAIN batch
         /\ Doc(j) \in Msg
         /\ Doc(j) \in RangeOf(batch)
<1>1. validIdx[j] \in DOMAIN batch
  BY DEF TypeOK
<1>2. QED
  BY <1>1 DEF TypeOK, Doc, RangeOf

(* RecordBatch never lowers a counter, raises one only for an accepted     *)
(* document, and leaves no document up to n uncounted.                     *)
LEMMA CountedProperties ==
  ASSUME TypeOK, NEW n \in Nat
  PROVE  /\ Counted(n) \in [Msg -> Nat]
         /\ \A m \in Msg : Counted(n)[m] >= redis[m]
         /\ \A m \in Msg : Counted(n)[m] # redis[m] =>
                             \E j \in accepted : Doc(j) = m
         /\ \A j \in accepted : j <= n => Counted(n)[Doc(j)] > 0
<1> DEFINE At(m) == {j \in accepted : j <= n /\ Doc(j) = m}
<1>1. ASSUME NEW m \in Msg
      PROVE  /\ IsFiniteSet(At(m))
             /\ Cardinality(At(m)) \in Nat
             /\ Cardinality(At(m)) = 0 <=> At(m) = {}
  <2>1. IsFiniteSet(1 .. Len(validIdx))
    BY FS_Interval DEF TypeOK
  <2>2. At(m) \subseteq 1 .. Len(validIdx)
    BY DEF TypeOK
  <2>3. IsFiniteSet(At(m))
    BY <2>1, <2>2, FS_Subset
  <2>4. QED
    BY <2>3, FS_CardinalityType, FS_EmptySet
<1>2. Counted(n) = [m \in Msg |-> redis[m] + Cardinality(At(m))]
  BY DEF Counted
<1>3. \A m \in Msg : redis[m] \in Nat
  BY DEF TypeOK
<1>4. \A m \in Msg : At(m) # {} => \E j \in accepted : Doc(j) = m
  OBVIOUS
<1>5. \A j \in accepted : j <= n => At(Doc(j)) # {}
  OBVIOUS
<1>6. \A j \in accepted : Doc(j) \in Msg
  BY DocInBatch DEF TypeOK
<1> HIDE DEF At
<1>7. ASSUME NEW m \in Msg
      PROVE  /\ Counted(n)[m] \in Nat
             /\ Counted(n)[m] >= redis[m]
             /\ Counted(n)[m] # redis[m] => At(m) # {}
             /\ At(m) # {} => Counted(n)[m] > 0
  BY <1>1, <1>2, <1>3
<1>8. Counted(n) \in [Msg -> Nat]
  BY <1>2, <1>7
<1>9. QED
  BY <1>4, <1>5, <1>6, <1>7, <1>8

(* What Append does to the domain and the elements of a sequence. *)
LEMMA AppendFacts ==
  ASSUME NEW S, NEW s \in Seq(S), NEW x \in S
  PROVE  /\ Append(s, x) \in Seq(S)
         /\ DOMAIN Append(s, x) = 1 .. Len(s) + 1
         /\ DOMAIN s = 1 .. Len(s) /\ Len(s) \in Nat
         /\ DOMAIN s \subseteq DOMAIN Append(s, x)
         /\ \A i \in DOMAIN s : Append(s, x)[i] = s[i]
         /\ Append(s, x)[Len(s) + 1] = x
<1>1. Append(s, x) \in Seq(S)
  OBVIOUS
<1>2. DOMAIN Append(s, x) = 1 .. Len(s) + 1
  OBVIOUS
<1>3. DOMAIN s = 1 .. Len(s) /\ Len(s) \in Nat
  OBVIOUS
<1>4. \A i \in DOMAIN s : Append(s, x)[i] = s[i]
  BY <1>3
<1>5. Append(s, x)[Len(s) + 1] = x
  BY <1>3
<1>6. QED
  BY <1>1, <1>2, <1>3, <1>4, <1>5

(* A sequence that is not empty and not longer than one element. *)
LEMMA SingletonSeq ==
  ASSUME NEW S, NEW s \in Seq(S), s # << >>, Len(s) <= 1
  PROVE  Len(s) = 1 /\ DOMAIN s = {1} /\ s[1] \in S
<1>1. Len(s) \in Nat \ {0}
  BY EmptySeq
<1>2. \A n \in Nat \ {0} : n <= 1 => n = 1 /\ 1 .. n = {1}
  OBVIOUS
<1>3. Len(s) = 1 /\ 1 .. Len(s) = {1}
  BY <1>1, <1>2
<1>4. s \in [1 .. Len(s) -> S] /\ DOMAIN s = 1 .. Len(s)
  BY LenProperties
<1>5. QED
  BY <1>3, <1>4

(* What appending a sequence of one element does. *)
LEMMA ConcatFacts ==
  ASSUME NEW S, NEW s \in Seq(S), NEW t \in Seq(S), Len(t) = 1
  PROVE  /\ DOMAIN s = 1 .. Len(s) /\ Len(s) \in Nat
         /\ DOMAIN (s \o t) = 1 .. Len(s) + 1
         /\ \A i \in DOMAIN s : (s \o t)[i] = s[i]
         /\ (s \o t)[Len(s) + 1] = t[1]
<1>1. DOMAIN s = 1 .. Len(s) /\ Len(s) \in Nat
  OBVIOUS
<1>2. DOMAIN (s \o t) = 1 .. Len(s) + 1
  BY <1>1, ConcatProperties, LenProperties
<1>3. \A i \in DOMAIN s : (s \o t)[i] = s[i]
  BY <1>1, ConcatProperties
<1>4. (s \o t)[Len(s) + 1] = t[1]
  BY <1>1, ConcatProperties
<1>5. QED
  BY <1>1, <1>2, <1>3, <1>4

-----------------------------------------------------------------------------
(***************************************************************************)
(* Type correctness.                                                       *)
(***************************************************************************)
LEMMA TypeInit == Init => TypeOK
<1> SUFFICES ASSUME Init
             PROVE  TypeOK
  OBVIOUS
<1>1. closed \in BOOLEAN /\ cancelled \in BOOLEAN /\ expired \in BOOLEAN
  BY Zenon DEF Init
<1>2. validIdx \in Seq(DOMAIN batch)
  BY DEF Init
<1>3. QED
  BY <1>1, <1>2, SizesAssumption DEF Init, TypeOK, Phases, RangeOf

(* An empty memory has the right type. *)
LEMMA LoseMemoryType ==
  ASSUME LoseMemory
  PROVE  /\ held' \in Seq(Msg) /\ Len(held') <= 1
         /\ msgChan' \in Seq(Msg) /\ batch' \in Seq(Msg)
         /\ ctx' = "run" /\ cursor' = 1
         /\ validIdx' \in Seq(DOMAIN batch')
         /\ accepted' \subseteq DOMAIN validIdx'
         /\ safe' \subseteq RangeOf(batch)'
         /\ closed' \in BOOLEAN /\ cancelled' \in BOOLEAN /\ expired' \in BOOLEAN
<1>1. closed' \in BOOLEAN /\ cancelled' \in BOOLEAN /\ expired' \in BOOLEAN
  BY Zenon DEF LoseMemory
<1>2. QED
  BY <1>1 DEF LoseMemory

LEMMA TypeStep == TypeOK /\ [Next]_vars => TypeOK'
<1> SUFFICES ASSUME TypeOK, [Next]_vars
             PROVE  TypeOK'
  OBVIOUS
<1> USE SizesAssumption DEF Phases
<1>1. ASSUME NEW p \in Partition, Fetch(p)
      PROVE  TypeOK'
  <2>1. <<p, fetchPos[p]>> \in Msg
    BY <1>1 DEF Fetch, TypeOK, Msg, Offset
  <2>2. held' \in Seq(Msg) /\ Len(held') <= 1
    BY <1>1, <2>1 DEF Fetch
  <2>3. fetchPos' \in [Partition -> 0 .. LogLen]
    BY <1>1 DEF Fetch, TypeOK
  <2>4. QED
    BY <1>1, <2>2, <2>3 DEF Fetch, TypeOK, callVars, signalVars, sinkVars
<1>2. CASE Send
  BY <1>2 DEF Send, TypeOK, kafkaVars, callVars, signalVars, sinkVars
<1>3. CASE FetcherStop
  BY <1>3 DEF FetcherStop, TypeOK, kafkaVars, callVars, signalVars, sinkVars
<1>4. CASE Recv
  <2>1. Head(msgChan) \in Msg /\ Tail(msgChan) \in Seq(Msg)
    BY <1>4 DEF Recv, TypeOK
  <2>2. batch' = Append(batch, Head(msgChan))
    BY <1>4 DEF Recv, Call
  <2>3. /\ batch' \in Seq(Msg)
        /\ DOMAIN batch \subseteq DOMAIN batch'
        /\ \A i \in DOMAIN batch : batch'[i] = batch[i]
    BY <2>1, <2>2, AppendFacts DEF TypeOK
  <2>4. validIdx \in Seq(DOMAIN batch')
    BY <2>3 DEF TypeOK
  <2>5. safe \subseteq RangeOf(batch)'
    BY <2>3 DEF TypeOK, RangeOf
  <2>6. /\ UNCHANGED <<cursor, validIdx, accepted, safe>>
        /\ pc' \in {pc, "parse"} /\ ctx' \in {ctx, "run"}
    BY <1>4 DEF Recv, Call, callVars
  <2>7. QED
    BY <1>4, <2>1, <2>3, <2>4, <2>5, <2>6 DEF Recv, TypeOK, kafkaVars, signalVars, sinkVars
<1>5. CASE Tick
  BY <1>5 DEF Tick, Call, TypeOK, kafkaVars, fetcherVars, signalVars, sinkVars
<1>6. CASE Flush
  BY <1>6 DEF Flush, Call, TypeOK, kafkaVars, fetcherVars, callVars, signalVars, sinkVars
<1>7. CASE ParseValid
  <2>1. cursor \in DOMAIN batch
    BY <1>7 DEF ParseValid, TypeOK
  <2>2. /\ validIdx' \in Seq(DOMAIN batch)
        /\ DOMAIN validIdx \subseteq DOMAIN validIdx'
    BY <1>7, <2>1 DEF ParseValid, TypeOK
  <2>3. QED
    BY <1>7, <2>2 DEF ParseValid, TypeOK, kafkaVars, fetcherVars, signalVars, sinkVars
<1>8. CASE ParsePoison
  <2>1. batch[cursor] \in Msg /\ batch[cursor] \in RangeOf(batch)
    BY <1>8 DEF ParsePoison, TypeOK, RangeOf
  <2>2. QED
    BY <1>8, <2>1 DEF ParsePoison, TypeOK, kafkaVars, fetcherVars, signalVars
<1>9. CASE ParsePoisonFail
  <2>1. batch[cursor] \in Msg
    BY <1>9 DEF ParsePoisonFail, TypeOK
  <2>2. RangeOf(batch) \subseteq Msg
    BY DEF TypeOK, RangeOf
  <2>3. dropped' \subseteq Msg /\ dlq' \subseteq Msg
    BY <1>9, <2>1, <2>2 DEF ParsePoisonFail, Abort, TypeOK
  <2>4. QED
    BY <1>9, <2>3 DEF ParsePoisonFail, Abort, Return, RangeOf, TypeOK, kafkaVars,
                      fetcherVars, signalVars
<1>10. CASE ParseDone
  BY <1>10 DEF ParseDone, TypeOK, kafkaVars, fetcherVars, signalVars, sinkVars
<1>11. CASE IndexOk
  <2>1. PICK ok \in SUBSET Mappable :
          accepted' = ok /\ es' = es \union {Doc(j) : j \in ok}
    BY <1>11 DEF IndexOk
  <2>2. accepted' \subseteq DOMAIN validIdx /\ es' \subseteq Msg
    BY <2>1, DocInBatch DEF Mappable, TypeOK
  <2>3. QED
    BY <1>11, <2>2 DEF IndexOk, TypeOK, kafkaVars, fetcherVars, signalVars
<1>12. CASE IndexFail
  <2>1. es' \subseteq Msg
    BY <1>12, DocInBatch DEF IndexFail, Mappable, TypeOK
  <2>2. RangeOf(batch) \subseteq Msg
    BY DEF TypeOK, RangeOf
  <2>3. CASE CtxDone
    BY <1>12, <2>1, <2>2, <2>3 DEF IndexFail, Abort, Return, RangeOf, TypeOK, kafkaVars,
                                   fetcherVars, signalVars
  <2>4. CASE ~CtxDone
    BY <1>12, <2>1, <2>4 DEF IndexFail, TypeOK, kafkaVars, fetcherVars, callVars, signalVars
  <2>5. QED
    BY <2>3, <2>4
<1>13. CASE ItemAccepted
  <2>1. Doc(cursor) \in RangeOf(batch)
    BY <1>13, DocInBatch DEF ItemAccepted, TypeOK
  <2>2. safe' \subseteq RangeOf(batch)
    BY <1>13, <2>1 DEF ItemAccepted, TypeOK
  <2>3. cursor' \in Nat \ {0}
    BY <1>13 DEF ItemAccepted, TypeOK
  <2>4. QED
    BY <1>13, <2>2, <2>3 DEF ItemAccepted, TypeOK, RangeOf, kafkaVars, fetcherVars, signalVars,
                             sinkVars
<1>14. CASE ItemRejected
  <2>1. Doc(cursor) \in Msg /\ Doc(cursor) \in RangeOf(batch)
    BY <1>14, DocInBatch DEF ItemRejected
  <2>2. dlq' \subseteq Msg /\ safe' \subseteq RangeOf(batch) /\ cursor' \in Nat \ {0}
    BY <1>14, <2>1 DEF ItemRejected, TypeOK
  <2>3. UNCHANGED <<committed, fetchPos, held, msgChan, closed, batch, pc, ctx, validIdx,
                    accepted, cancelled, expired, es, redis, dropped, faults>>
    BY <1>14 DEF ItemRejected, kafkaVars, fetcherVars, signalVars
  <2>4. QED
    BY <2>2, <2>3 DEF TypeOK
<1>15. CASE ItemRejectedFail
  <2>1. Doc(cursor) \in Msg
    BY <1>15, DocInBatch DEF ItemRejectedFail
  <2>2. dlq' \subseteq Msg /\ dropped' \subseteq Msg /\ cursor' \in Nat \ {0}
    BY <1>15, <2>1 DEF ItemRejectedFail, TypeOK
  <2>3. UNCHANGED <<committed, fetchPos, held, msgChan, closed, batch, pc, ctx, validIdx,
                    accepted, safe, cancelled, expired, es, redis, faults>>
    BY <1>15 DEF ItemRejectedFail, kafkaVars, fetcherVars, signalVars
  <2>4. QED
    BY <2>2, <2>3 DEF TypeOK
<1>16. CASE ItemsDone
  BY <1>16 DEF ItemsDone, TypeOK, kafkaVars, fetcherVars, callVars, signalVars, sinkVars
<1>17. CASE RecordOk
  <2>1. Len(validIdx) \in Nat
    BY DEF TypeOK
  <2>2. redis' \in [Msg -> Nat]
    BY <1>17, <2>1, CountedProperties DEF RecordOk
  <2>3. QED
    BY <1>17, <2>2 DEF RecordOk, TypeOK, kafkaVars, fetcherVars, callVars, signalVars
<1>18. CASE RecordFail
  <2>1. redis' \in [Msg -> Nat]
    BY <1>18, CountedProperties DEF RecordFail, TypeOK
  <2>2. RangeOf(batch) \subseteq Msg
    BY DEF TypeOK, RangeOf
  <2>3. CASE Abort /\ UNCHANGED faults
    BY <1>18, <2>1, <2>2, <2>3 DEF RecordFail, Abort, Return, RangeOf, TypeOK, kafkaVars,
                                   fetcherVars, signalVars
  <2>4. CASE faults < MaxFaults /\ faults' = faults + 1
             /\ UNCHANGED <<batch, pc, callVars, dropped>>
    BY <1>18, <2>1, <2>4 DEF RecordFail, TypeOK, kafkaVars, fetcherVars, callVars, signalVars
  <2>5. QED
    BY <1>18, <2>3, <2>4 DEF RecordFail
<1>19. CASE CommitOk
  BY <1>19 DEF CommitOk, Return, RangeOf, TypeOK, fetcherVars, signalVars, sinkVars
<1>20. CASE CommitFail
  BY <1>20 DEF CommitFail, Return, RangeOf, TypeOK, fetcherVars, signalVars, sinkVars
<1>21. CASE Cancel
  BY <1>21 DEF Cancel, Inject, TypeOK, kafkaVars, fetcherVars, callVars, sinkVars
<1>22. CASE Expire
  BY <1>22 DEF Expire, TypeOK, kafkaVars, fetcherVars, callVars, sinkVars
<1>23. CASE Crash
  <2>1. LoseMemory
    BY <1>23 DEF Crash
  <2>2. /\ UNCHANGED <<committed, fetchPos, es, redis, dlq, dropped>>
        /\ faults' = faults + 1 /\ faults < MaxFaults /\ pc' = "down"
    BY <1>23 DEF Crash, Inject, kafkaVars, sinkVars
  <2>3. QED
    BY <2>1, <2>2, LoseMemoryType DEF TypeOK
<1>24. CASE Restart
  <2>1. LoseMemory
    BY <1>24 DEF Restart
  <2>2. /\ UNCHANGED <<committed, es, redis, dlq, dropped, faults>>
        /\ fetchPos' = committed /\ pc' = "select"
    BY <1>24 DEF Restart, sinkVars
  <2>3. QED
    BY <2>1, <2>2, LoseMemoryType DEF TypeOK
<1>25. CASE Rebalance
  BY <1>25 DEF Rebalance, Inject, TypeOK, fetcherVars, callVars, signalVars, sinkVars
<1>26. CASE UNCHANGED vars
  BY <1>26 DEF vars, TypeOK, kafkaVars, fetcherVars, callVars, signalVars, sinkVars
<1>27. QED
  BY <1>1, <1>2, <1>3, <1>4, <1>5, <1>6, <1>7, <1>8, <1>9, <1>10, <1>11, <1>12, <1>13,
     <1>14, <1>15, <1>16, <1>17, <1>18, <1>19, <1>20, <1>21, <1>22, <1>23, <1>24,
     <1>25, <1>26
  DEF Next, Fetcher, Run, ProcessBatch, Environment

(* Every variable keeps its type: positions of the bulk response stay      *)
(* inside the batch they refer to, and only messages of the batch are ever *)
(* collected for the commit.                                               *)
THEOREM TypeCorrect == Spec => []TypeOK
BY TypeInit, TypeStep, PTL DEF Spec

-----------------------------------------------------------------------------
(***************************************************************************)
(* The inductive invariant.  A message is settled when it was handled or   *)
(* given up.  A message the reader has passed is settled or in memory      *)
(* (Ahead), and the memory is in order: whatever precedes a message in its *)
(* partition is settled or will be settled no later than the message, for  *)
(* it is in the same batch or before it in the channel (BatchOrder,        *)
(* ChanOrder, HeldOrder).  So when a batch has been settled its highest    *)
(* offsets can be committed.  This is what makes the commit of only the    *)
(* highest offset safe, in spite of rebalances that put a message in       *)
(* memory twice.                                                           *)
(***************************************************************************)
Settled(m) == Handled(m) \/ m \in dropped

InBatch(m) == \E i \in DOMAIN batch : batch[i] = m
InChan(m) == \E i \in DOMAIN msgChan : msgChan[i] = m
IsHeld(m) == \E i \in DOMAIN held : held[i] = m

Earlier(m) == Below(m[1], m[2])

Ahead ==
  Running /\ ~closed =>
    \A p \in Partition : \A m \in Below(p, fetchPos[p]) :
      Settled(m) \/ InBatch(m) \/ InChan(m) \/ IsHeld(m)

BatchOrder ==
  \A i \in DOMAIN batch : \A m \in Earlier(batch[i]) : Settled(m) \/ InBatch(m)

ChanOrder ==
  \A i \in DOMAIN msgChan : \A m \in Earlier(msgChan[i]) :
    Settled(m) \/ InBatch(m) \/ \E k \in 1 .. i - 1 : msgChan[k] = m

HeldOrder ==
  \A i \in DOMAIN held : \A m \in Earlier(held[i]) :
    Settled(m) \/ InBatch(m) \/ InChan(m)

OrderInv == Ahead /\ BatchOrder /\ ChanOrder /\ HeldOrder /\ CommitAccounted

(***************************************************************************)
(* Where ProcessBatch is, and what it has settled by then.                 *)
(***************************************************************************)
Parsed(i) == batch[i] \in dlq \/ \E j \in DOMAIN validIdx : validIdx[j] = i

IdleInv ==
  /\ pc \notin Phases => cursor = 1 /\ validIdx = << >> /\ accepted = {} /\ safe = {}
  /\ pc \in {"parse", "index"} => accepted = {}
  /\ pc = "index" => cursor = 1

ParseInv ==
  /\ pc = "parse" => \A i \in DOMAIN batch : i < cursor => Parsed(i)
  /\ pc \in {"index", "items", "record"} => \A i \in DOMAIN batch : Parsed(i)

AcceptedInv == \A j \in accepted : Doc(j) \in es

ItemsInv ==
  /\ pc = "items" => \A j \in DOMAIN validIdx :
                       j < cursor => j \in accepted \/ Settled(Doc(j))
  /\ pc = "record" => \A j \in DOMAIN validIdx : j \in accepted \/ Settled(Doc(j))

CommitInv == pc = "commit" => \A i \in DOMAIN batch : Settled(batch[i])

PhaseInv == IdleInv /\ ParseInv /\ AcceptedInv /\ ItemsInv /\ CommitInv

Inv == TypeOK /\ DualSinkOrder /\ PhaseInv /\ OrderInv

-----------------------------------------------------------------------------
(***************************************************************************)
(* No step takes a message out of a sink or lowers a counter.              *)
(***************************************************************************)
Grows ==
  /\ es \subseteq es' /\ dlq \subseteq dlq' /\ dropped \subseteq dropped'
  /\ \A m \in Msg : redis'[m] >= redis[m]

LEMMA GrowsStep == TypeOK /\ [Next]_vars => Grows
<1> SUFFICES ASSUME TypeOK, [Next]_vars
             PROVE  Grows
  OBVIOUS
<1>1. \A m \in Msg : redis[m] \in Nat
  BY DEF TypeOK
<1>2. Len(validIdx) \in Nat
  BY DEF TypeOK
<1>3. ASSUME NEW n \in Nat, redis' = Counted(n)
      PROVE  \A m \in Msg : redis'[m] >= redis[m]
  BY <1>3, CountedProperties
<1>4. CASE UNCHANGED <<es, redis, dlq, dropped>>
  BY <1>1, <1>4 DEF Grows
<1>5. CASE ParsePoison \/ ParsePoisonFail \/ IndexOk \/ IndexFail
           \/ ItemRejected \/ ItemRejectedFail
  <2>1. UNCHANGED redis
    BY <1>5 DEF ParsePoison, ParsePoisonFail, IndexOk, IndexFail, ItemRejected,
                ItemRejectedFail
  <2>2. es \subseteq es' /\ dlq \subseteq dlq' /\ dropped \subseteq dropped'
    BY <1>5 DEF ParsePoison, ParsePoisonFail, IndexOk, IndexFail, ItemRejected,
                ItemRejectedFail, Abort
  <2>3. QED
    BY <1>1, <2>1, <2>2 DEF Grows
<1>6. CASE RecordOk
  BY <1>2, <1>3, <1>6 DEF RecordOk, Grows
<1>7. CASE RecordFail
  <2>1. \A m \in Msg : redis'[m] >= redis[m]
    BY <1>2, <1>3, <1>7 DEF RecordFail
  <2>2. UNCHANGED <<es, dlq>> /\ dropped \subseteq dropped'
    BY <1>7 DEF RecordFail, Abort
  <2>3. QED
    BY <2>1, <2>2 DEF Grows
<1>8. QED
  <2>1. CASE Fetcher \/ Environment
    BY <1>4, <2>1 DEF Fetcher, Environment, Fetch, Send, FetcherStop, Cancel, Expire,
                      Crash, Restart, Rebalance, sinkVars
  <2>2. CASE Recv \/ Tick \/ Flush \/ ParseValid \/ ParseDone \/ ItemAccepted
             \/ ItemsDone \/ CommitOk \/ CommitFail
    BY <1>4, <2>2 DEF Recv, Tick, Flush, ParseValid, ParseDone, ItemAccepted,
                      ItemsDone, CommitOk, CommitFail, sinkVars
  <2>3. CASE UNCHANGED vars
    BY <1>4, <2>3 DEF vars, sinkVars
  <2>4. QED
    BY <1>5, <1>6, <1>7, <2>1, <2>2, <2>3 DEF Next, Run, ProcessBatch

(* What was settled stays settled. *)
LEMMA SettledGrows ==
  ASSUME TypeOK, TypeOK', Grows, NEW m \in Msg, Settled(m)
  PROVE  Settled(m)'
<1>1. redis[m] \in Nat /\ redis'[m] \in Nat /\ redis'[m] >= redis[m]
  BY DEF TypeOK, Grows
<1>2. QED
  BY <1>1 DEF Settled, Handled, Grows

-----------------------------------------------------------------------------
(***************************************************************************)
(* Redis counts only what is indexed.                                      *)
(***************************************************************************)
LEMMA DualSinkStep ==
  ASSUME TypeOK, DualSinkOrder, AcceptedInv, [Next]_vars
  PROVE  DualSinkOrder'
<1>1. Grows
  BY GrowsStep
<1>2. CASE UNCHANGED redis
  BY <1>1, <1>2 DEF DualSinkOrder, Grows
<1>3. ASSUME NEW n \in Nat, redis' = Counted(n)
      PROVE  DualSinkOrder'
  <2> SUFFICES ASSUME NEW m \in Msg, redis'[m] > 0
               PROVE  m \in es'
    BY DEF DualSinkOrder
  <2>1. CASE redis'[m] = redis[m]
    BY <1>1, <2>1 DEF DualSinkOrder, Grows
  <2>2. CASE redis'[m] # redis[m]
    <3>1. PICK j \in accepted : Doc(j) = m
      BY <1>3, <2>2, CountedProperties
    <3>2. QED
      BY <1>1, <3>1 DEF AcceptedInv, Grows
  <2>3. QED
    BY <2>1, <2>2
<1>4. CASE RecordOk
  BY <1>3, <1>4 DEF RecordOk, TypeOK
<1>5. CASE RecordFail
  <2>1. PICK n \in 0 .. Len(validIdx) : redis' = Counted(n)
    BY <1>5 DEF RecordFail
  <2>2. n \in Nat
    BY DEF TypeOK
  <2>3. QED
    BY <1>3, <2>1, <2>2
<1>6. QED
  <2>1. CASE Fetcher \/ Environment
    BY <1>2, <2>1 DEF Fetcher, Environment, Fetch, Send, FetcherStop, Cancel, Expire,
                      Crash, Restart, Rebalance, sinkVars
  <2>2. CASE Run /\ ~RecordOk /\ ~RecordFail
    BY <1>2, <2>2 DEF Run, ProcessBatch, Recv, Tick, Flush, ParseValid, ParsePoison,
                      ParsePoisonFail, ParseDone, IndexOk, IndexFail, ItemAccepted,
                      ItemRejected, ItemRejectedFail, ItemsDone, CommitOk, CommitFail,
                      sinkVars
  <2>3. CASE UNCHANGED vars
    BY <1>2, <2>3 DEF vars, sinkVars
  <2>4. QED
    BY <1>4, <1>5, <2>1, <2>2, <2>3 DEF Next

-----------------------------------------------------------------------------
(***************************************************************************)
(* ProcessBatch settles the messages of the batch one phase after another. *)
(***************************************************************************)

(* Steps of the fetcher, of the environment and of a failed retry.         *)
LEMMA PhaseStable ==
  ASSUME TypeOK, TypeOK', PhaseInv, Grows,
         UNCHANGED <<batch, pc, cursor, validIdx, accepted, safe>>
  PROVE  PhaseInv'
<1>1. \A j \in DOMAIN validIdx : Doc(j)' = Doc(j) /\ Doc(j) \in Msg
  BY DocInBatch DEF Doc
<1>2. \A i \in DOMAIN batch : batch[i] \in Msg
  BY DEF TypeOK
<1>3. IdleInv'
  BY DEF PhaseInv, IdleInv
<1>4. ParseInv'
  BY DEF PhaseInv, ParseInv, Parsed, Grows
<1>5. AcceptedInv'
  BY <1>1 DEF PhaseInv, AcceptedInv, Grows, TypeOK
<1>6. ItemsInv'
  BY <1>1, SettledGrows DEF PhaseInv, ItemsInv
<1>7. CommitInv'
  BY <1>2, SettledGrows DEF PhaseInv, CommitInv
<1>8. QED
  BY <1>3, <1>4, <1>5, <1>6, <1>7 DEF PhaseInv

(* ProcessBatch returns, the process crashes or starts again.              *)
LEMMA PhaseEmpty ==
  ASSUME pc' \notin Phases, batch' = << >>,
         cursor' = 1, validIdx' = << >>, accepted' = {}, safe' = {}
  PROVE  PhaseInv'
BY DEF PhaseInv, IdleInv, ParseInv, AcceptedInv, ItemsInv, CommitInv, Phases

(* ProcessBatch is called, or Run goes on waiting.                         *)
LEMMA PhaseIdle ==
  ASSUME PhaseInv, pc \notin Phases, pc' \in {pc, "parse", "exit"},
         UNCHANGED <<cursor, validIdx, accepted, safe>>, batch' \in Seq(Msg)
  PROVE  PhaseInv'
<1>1. cursor' = 1 /\ validIdx' = << >> /\ accepted' = {} /\ safe' = {}
  BY DEF PhaseInv, IdleInv
<1>2. pc' \notin {"index", "items", "record", "commit"}
  BY DEF Phases
<1>3. \A i \in DOMAIN batch' : ~(i < 1)
  OBVIOUS
<1>4. QED
  BY <1>1, <1>2, <1>3 DEF PhaseInv, IdleInv, ParseInv, AcceptedInv, ItemsInv, CommitInv, Phases

LEMMA PhaseStep ==
  ASSUME TypeOK, TypeOK', PhaseInv, [Next]_vars
  PROVE  PhaseInv'
<1>1. Grows
  BY GrowsStep
<1>2. \A i \in DOMAIN batch : batch[i] \in Msg
  BY DEF TypeOK
<1>3. \A j \in DOMAIN validIdx : Doc(j) \in Msg /\ validIdx[j] \in DOMAIN batch
  BY DocInBatch
<1>0. /\ DOMAIN batch = 1 .. Len(batch) /\ Len(batch) \in Nat
      /\ DOMAIN validIdx = 1 .. Len(validIdx) /\ Len(validIdx) \in Nat
      /\ cursor \in Nat
  BY DEF TypeOK
<1>4. CASE UNCHANGED <<batch, pc, cursor, validIdx, accepted, safe>>
  BY <1>1, <1>4, PhaseStable
<1>5. CASE Return
  BY <1>5, PhaseEmpty DEF Return, Phases
<1>6. CASE Crash \/ Restart
  BY <1>6, PhaseEmpty DEF Crash, Restart, LoseMemory, Phases
<1>7. CASE Recv \/ Tick \/ Flush
  <2>1. pc \notin Phases /\ batch' \in Seq(Msg)
    BY <1>7 DEF Recv, Tick, Flush, Phases, TypeOK
  <2>2. pc' \in {pc, "parse", "exit"} /\ UNCHANGED <<cursor, validIdx, accepted, safe>>
    BY <1>7 DEF Recv, Tick, Flush, Call, callVars
  <2>3. QED
    BY <2>1, <2>2, PhaseIdle
<1>8. CASE ParseValid
  <2>1. /\ cursor \in DOMAIN batch /\ cursor' = cursor + 1 /\ pc = "parse" /\ pc' = "parse"
        /\ validIdx' = Append(validIdx, cursor)
        /\ UNCHANGED <<batch, accepted, safe, dlq>>
    BY <1>8 DEF ParseValid, TypeOK, sinkVars
  <2>2. /\ DOMAIN validIdx \subseteq DOMAIN validIdx'
        /\ \A j \in DOMAIN validIdx : validIdx'[j] = validIdx[j]
        /\ Len(validIdx) + 1 \in DOMAIN validIdx'
        /\ validIdx'[Len(validIdx) + 1] = cursor
    <3>1. validIdx \in Seq(DOMAIN batch)
      BY DEF TypeOK
    <3> QED
      BY <2>1, <3>1, AppendFacts
  <2>3. \A i \in DOMAIN batch : Parsed(i) => Parsed(i)'
    BY <2>1, <2>2 DEF Parsed
  <2>4. \A i \in DOMAIN batch : i = cursor => Parsed(i)'
    <3> SUFFICES ASSUME NEW i \in DOMAIN batch, i = cursor PROVE Parsed(i)'
      BY Zenon
    <3>1. \E j \in DOMAIN validIdx' : validIdx'[j] = i
      BY <2>2, Zenon
    <3> QED BY <3>1, Zenon DEF Parsed
  <2>5. \A i \in DOMAIN batch : i < cursor' => i < cursor \/ i = cursor
    BY <1>0, <2>1
  <2>6. ParseInv'
    BY <2>1, <2>3, <2>4, <2>5 DEF PhaseInv, ParseInv
  <2>7. accepted' = {}
    BY <2>1 DEF PhaseInv, IdleInv
  <2>8. QED
    BY <2>1, <2>6, <2>7 DEF PhaseInv, IdleInv, AcceptedInv, ItemsInv, CommitInv, Phases
<1>9. CASE ParsePoison
  <2>1. /\ cursor \in DOMAIN batch /\ cursor' = cursor + 1 /\ pc = "parse" /\ pc' = "parse"
        /\ UNCHANGED <<batch, accepted, validIdx>>
        /\ dlq' = dlq \union {batch[cursor]}
    BY <1>9 DEF ParsePoison, TypeOK
  <2>2. \A i \in DOMAIN batch : Parsed(i) => Parsed(i)'
    BY <2>1 DEF Parsed
  <2>3. \A i \in DOMAIN batch : i = cursor => Parsed(i)'
    BY <2>1 DEF Parsed
  <2>4. \A i \in DOMAIN batch : i < cursor' => i < cursor \/ i = cursor
    BY <1>0, <2>1
  <2>5. ParseInv'
    BY <2>1, <2>2, <2>3, <2>4 DEF PhaseInv, ParseInv
  <2>6. accepted' = {}
    BY <2>1 DEF PhaseInv, IdleInv
  <2>7. QED
    BY <2>1, <2>5, <2>6 DEF PhaseInv, IdleInv, AcceptedInv, ItemsInv, CommitInv, Phases
<1>10. CASE ParseDone
  <2>1. /\ pc = "parse" /\ cursor > Len(batch) /\ cursor' = 1
        /\ pc' = (IF validIdx # << >> THEN "index" ELSE "commit")
        /\ UNCHANGED <<batch, validIdx, accepted, safe, es, redis, dlq, dropped>>
    BY <1>10 DEF ParseDone, sinkVars
  <2>2. \A i \in DOMAIN batch : i < cursor
    BY <2>1 DEF TypeOK
  <2>3. \A i \in DOMAIN batch : Parsed(i) /\ Parsed(i)'
    BY <2>1, <2>2 DEF PhaseInv, ParseInv, Parsed
  <2>4. validIdx = << >> => \A i \in DOMAIN batch : batch[i] \in dlq
    BY <2>3 DEF Parsed
  <2>5. CommitInv'
    BY <2>1, <2>4 DEF CommitInv, Settled, Handled
  <2>6. accepted' = {}
    BY <2>1 DEF PhaseInv, IdleInv
  <2>7. QED
    BY <2>1, <2>3, <2>5, <2>6 DEF PhaseInv, IdleInv, ParseInv, AcceptedInv, ItemsInv, Phases
<1>11. CASE IndexOk
  <2>1. /\ pc = "index" /\ pc' = "items" /\ cursor' = 1
        /\ UNCHANGED <<batch, validIdx, dlq>>
    BY <1>11 DEF IndexOk, PhaseInv, IdleInv
  <2>2. PICK ok \in SUBSET Mappable :
          accepted' = ok /\ es' = es \union {Doc(j) : j \in ok}
    BY <1>11 DEF IndexOk
  <2>3. AcceptedInv'
    BY <2>1, <2>2 DEF AcceptedInv, Doc
  <2>4. ParseInv'
    BY <2>1 DEF PhaseInv, ParseInv, Parsed
  <2>5. ItemsInv'
    <3>1. \A j \in DOMAIN validIdx' : ~(j < 1)
      BY DEF TypeOK
    <3>2. QED
      BY <2>1, <3>1 DEF ItemsInv
  <2>6. QED
    BY <2>1, <2>3, <2>4, <2>5 DEF PhaseInv, IdleInv, CommitInv, Phases
<1>12. CASE ItemAccepted \/ ItemRejected \/ ItemRejectedFail
  <2>1. /\ pc = "items" /\ pc' = "items" /\ cursor' = cursor + 1
        /\ cursor \in DOMAIN validIdx
        /\ UNCHANGED <<batch, validIdx, accepted>>
    BY <1>12 DEF ItemAccepted, ItemRejected, ItemRejectedFail, TypeOK
  <2>2. \A j \in DOMAIN validIdx : Doc(j)' = Doc(j)
    BY <2>1 DEF Doc
  <2>3. ASSUME NEW j \in DOMAIN validIdx, j = cursor
        PROVE  j \in accepted \/ Settled(Doc(j))'
    <3>1. CASE ItemAccepted
      BY <2>3, <3>1 DEF ItemAccepted
    <3>2. CASE ItemRejected
      BY <2>2, <2>3, <3>2 DEF ItemRejected, Settled, Handled
    <3>3. CASE ItemRejectedFail
      <4>1. CASE Handled(Doc(j))
        <5>1. Settled(Doc(j))
          BY <4>1 DEF Settled
        <5>2. \A m \in Msg : Settled(m) => Settled(m)'
          BY <1>1, SettledGrows
        <5>3. QED
          BY <1>3, <2>2, <5>1, <5>2 DEF Settled, Handled
      <4>2. CASE ~Handled(Doc(j))
        BY <2>2, <2>3, <3>3, <4>2 DEF ItemRejectedFail, Settled
      <4>3. QED
        BY <4>1, <4>2
    <3>4. QED
      BY <1>12, <3>1, <3>2, <3>3
  <2>4. \A j \in DOMAIN validIdx : Settled(Doc(j)) => Settled(Doc(j))'
    BY <1>1, <1>3, <2>1, SettledGrows DEF Doc
  <2>5. \A j \in DOMAIN validIdx : j < cursor' => j < cursor \/ j = cursor
    BY <1>0, <2>1
  <2>6. ItemsInv'
    BY <2>1, <2>3, <2>4, <2>5 DEF PhaseInv, ItemsInv
  <2>7. AcceptedInv'
    BY <1>1, <2>1, <2>2 DEF PhaseInv, AcceptedInv, Grows, TypeOK
  <2>8. ParseInv'
    BY <1>1, <2>1 DEF PhaseInv, ParseInv, Parsed, Grows
  <2>9. QED
    BY <2>1, <2>6, <2>7, <2>8 DEF PhaseInv, IdleInv, CommitInv, Phases
<1>13. CASE ItemsDone
  <2>1. /\ pc = "items" /\ cursor > Len(validIdx)
        /\ pc' = (IF accepted # {} THEN "record" ELSE "commit")
        /\ UNCHANGED <<batch, validIdx, cursor, accepted, safe, es, redis, dlq, dropped>>
    BY <1>13 DEF ItemsDone, callVars, sinkVars
  <2>2. \A j \in DOMAIN validIdx : j < cursor
    BY <2>1 DEF TypeOK
  <2>3. \A j \in DOMAIN validIdx : j \in accepted \/ Settled(Doc(j))
    BY <2>1, <2>2 DEF PhaseInv, ItemsInv
  <2>4. \A i \in DOMAIN batch : Parsed(i)
    BY <2>1 DEF PhaseInv, ParseInv
  <2>5. ASSUME accepted = {}, NEW i \in DOMAIN batch
        PROVE  Settled(batch[i])
    BY <2>3, <2>4, <2>5 DEF Parsed, Settled, Handled, Doc
  <2>6. /\ \A m : Settled(m)' = Settled(m)
        /\ \A j : Doc(j)' = Doc(j)
        /\ \A i : Parsed(i)' = Parsed(i)
    BY <2>1 DEF Settled, Handled, Doc, Parsed
  <2>7. QED
    BY <2>1, <2>3, <2>4, <2>5, <2>6
       DEF PhaseInv, IdleInv, ParseInv, AcceptedInv, ItemsInv, CommitInv, Phases
<1>14. CASE RecordOk
  <2>1. /\ pc = "record" /\ pc' = "commit" /\ redis' = Counted(Len(validIdx))
        /\ UNCHANGED <<batch, validIdx, cursor, accepted, safe, es, dlq, dropped>>
    BY <1>14 DEF RecordOk, callVars
  <2>2. ASSUME NEW i \in DOMAIN batch
        PROVE  Settled(batch[i])'
    <3>1. CASE batch[i] \in dlq
      BY <2>1, <3>1 DEF Settled, Handled
    <3>2. ASSUME NEW j \in DOMAIN validIdx, validIdx[j] = i
          PROVE  Settled(batch[i])'
      <4>1. Doc(j) = batch[i]
        BY <3>2 DEF Doc
      <4>2. CASE j \in accepted
        <5>1. Len(validIdx) \in Nat /\ j <= Len(validIdx)
          BY <1>0
        <5>2. redis'[Doc(j)] > 0
          BY <2>1, <4>2, <5>1, CountedProperties
        <5>3. Doc(j) \in es
          BY <4>2 DEF PhaseInv, AcceptedInv
        <5>4. QED
          BY <2>1, <4>1, <5>2, <5>3 DEF Settled, Handled
      <4>3. CASE Settled(Doc(j))
        BY <1>1, <1>2, <2>1, <4>1, <4>3, SettledGrows
      <4>4. QED
        BY <2>1, <4>2, <4>3 DEF PhaseInv, ItemsInv
    <3>3. Parsed(i)
      BY <2>1 DEF PhaseInv, ParseInv
    <3>4. QED
      BY <3>1, <3>2, <3>3 DEF Parsed
  <2>3. CommitInv'
    BY <2>1, <2>2 DEF CommitInv
  <2>4. AcceptedInv'
    BY <2>1 DEF PhaseInv, AcceptedInv, Doc
  <2>5. QED
    BY <2>1, <2>3, <2>4 DEF PhaseInv, IdleInv, ParseInv, ItemsInv, Phases
<1>15. QED
  <2>1. CASE Fetcher \/ Cancel \/ Expire \/ Rebalance \/ UNCHANGED vars
    BY <1>4, <2>1 DEF Fetcher, Fetch, Send, FetcherStop, Cancel, Expire, Rebalance,
                      vars, callVars
  <2>2. CASE IndexFail \/ RecordFail \/ ParsePoisonFail \/ CommitOk \/ CommitFail
    BY <1>4, <1>5, <2>2 DEF IndexFail, RecordFail, ParsePoisonFail, CommitOk, CommitFail,
                            Abort, callVars
  <2>3. QED
    BY <1>6, <1>7, <1>8, <1>9, <1>10, <1>11, <1>12, <1>13, <1>14, <2>1, <2>2
    DEF Next, Run, ProcessBatch, Environment

-----------------------------------------------------------------------------
(***************************************************************************)
(* The order of the messages in memory.                                    *)
(***************************************************************************)

(* The messages before an offset that is in range, and before a message.   *)
LEMMA BelowMsg ==
  /\ \A p \in Partition, n \in 0 .. LogLen : Below(p, n) \subseteq Msg
  /\ \A m \in Msg : Earlier(m) \subseteq Msg
BY SizesAssumption DEF Below, Earlier, Msg, Offset

(* Every message that the order invariants speak about is a message.       *)
LEMMA MemoryMsg ==
  ASSUME TypeOK
  PROVE  /\ \A i \in DOMAIN batch : batch[i] \in Msg /\ Earlier(batch[i]) \subseteq Msg
         /\ \A i \in DOMAIN msgChan : msgChan[i] \in Msg /\ Earlier(msgChan[i]) \subseteq Msg
         /\ \A i \in DOMAIN held : held[i] \in Msg /\ Earlier(held[i]) \subseteq Msg
         /\ \A p \in Partition : Below(p, fetchPos[p]) \subseteq Msg
         /\ \A p \in Partition : Below(p, committed[p]) \subseteq Msg
BY BelowMsg DEF TypeOK

(* Nothing enters or leaves the memory.                                    *)
LEMMA OrderStable ==
  ASSUME TypeOK, OrderInv,
         \A m \in Msg : Settled(m) => Settled(m)',
         UNCHANGED <<committed, fetchPos, held, msgChan, closed, batch>>,
         Running' => Running
  PROVE  OrderInv'
<1>1. /\ \A m : InBatch(m)' = InBatch(m)
      /\ \A m : InChan(m)' = InChan(m)
      /\ \A m : IsHeld(m)' = IsHeld(m)
  BY DEF InBatch, InChan, IsHeld
<1>2. Ahead'
  BY <1>1, MemoryMsg DEF OrderInv, Ahead
<1>3. BatchOrder'
  BY <1>1, MemoryMsg DEF OrderInv, BatchOrder
<1>4. ChanOrder'
  BY <1>1, MemoryMsg DEF OrderInv, ChanOrder
<1>5. HeldOrder'
  BY <1>1, MemoryMsg DEF OrderInv, HeldOrder
<1>6. CommitAccounted'
  BY MemoryMsg DEF OrderInv, CommitAccounted, Settled
<1>7. QED
  BY <1>2, <1>3, <1>4, <1>5, <1>6 DEF OrderInv

(* ProcessBatch returns, and all of the batch is settled.                  *)
LEMMA OrderReturn ==
  ASSUME TypeOK, OrderInv, CommitAccounted',
         \A m \in Msg : Settled(m) => Settled(m)',
         \A m \in Msg : InBatch(m) => Settled(m)',
         UNCHANGED <<fetchPos, held, msgChan, closed>>,
         batch' = << >>, Running
  PROVE  OrderInv'
<1>1. \A m : InBatch(m) => Settled(m)'
  BY MemoryMsg DEF InBatch
<1>2. /\ \A m : InChan(m)' = InChan(m)
      /\ \A m : IsHeld(m)' = IsHeld(m)
  BY DEF InChan, IsHeld
<1>3. Ahead'
  BY <1>1, <1>2, MemoryMsg DEF OrderInv, Ahead
<1>4. BatchOrder'
  BY DEF BatchOrder
<1>5. ChanOrder'
  BY <1>1, <1>2, MemoryMsg DEF OrderInv, ChanOrder
<1>6. HeldOrder'
  BY <1>1, <1>2, MemoryMsg DEF OrderInv, HeldOrder
<1>7. QED
  BY <1>3, <1>4, <1>5, <1>6 DEF OrderInv

(* An empty memory is in order.                                            *)
LEMMA OrderEmpty ==
  ASSUME OrderInv, TypeOK,
         \A m \in Msg : Settled(m) => Settled(m)',
         committed' = committed, ~Running' \/ fetchPos' = committed',
         held' = << >>, msgChan' = << >>, batch' = << >>
  PROVE  OrderInv'
<1>1. CommitAccounted'
  BY MemoryMsg DEF OrderInv, CommitAccounted, Settled
<1>2. Ahead'
  BY <1>1 DEF Ahead, CommitAccounted, Settled
<1>3. BatchOrder' /\ ChanOrder' /\ HeldOrder'
  BY DEF BatchOrder, ChanOrder, HeldOrder
<1>4. QED
  BY <1>1, <1>2, <1>3 DEF OrderInv

(* The highest offsets of a settled batch can be committed: what precedes  *)
(* them is settled too.                                                    *)
LEMMA CommitSettled ==
  ASSUME TypeOK, OrderInv, PhaseInv, pc = "commit",
         UNCHANGED <<es, redis, dlq, dropped>>,
         committed' = committed \/
           committed' \in {c \in [Partition -> 0 .. LogLen] : CommitTo(c)}
  PROVE  CommitAccounted'
<1>1. \A m : Settled(m)' = Settled(m)
  BY DEF Settled, Handled
<1>2. \A m : InBatch(m) => Settled(m)
  BY DEF PhaseInv, CommitInv, InBatch
<1>3. CASE committed' = committed
  BY <1>1, <1>3 DEF OrderInv, CommitAccounted, Settled
<1>4. CASE committed' \in {c \in [Partition -> 0 .. LogLen] : CommitTo(c)}
  <2> SUFFICES ASSUME NEW p \in Partition, NEW m \in Below(p, committed'[p])
               PROVE  Settled(m)
    BY <1>1 DEF CommitAccounted, Settled
  <2>1. CommitTo(committed') /\ committed'[p] \in 0 .. LogLen
    BY <1>4
  <2>2. CASE SafeOn(p) = {}
    BY <2>1, <2>2 DEF CommitTo, OrderInv, CommitAccounted, Settled
  <2>3. CASE SafeOn(p) # {}
    <3>1. committed'[p] - 1 \in SafeOn(p)
      BY <2>1, <2>3 DEF CommitTo
    <3>2. <<p, committed'[p] - 1>> \in safe
      BY <3>1 DEF SafeOn
    <3>3. PICK i \in DOMAIN batch : batch[i] = <<p, committed'[p] - 1>>
      BY <3>2 DEF TypeOK, RangeOf
    <3>4. PICK o \in 0 .. committed'[p] - 1 : m = <<p, o>>
      BY DEF Below
    <3>5. CASE o = committed'[p] - 1
      BY <1>2, <3>3, <3>4, <3>5 DEF InBatch
    <3>6. CASE o # committed'[p] - 1
      <4>1. o \in 0 .. (committed'[p] - 1) - 1
        BY <2>1, <3>6
      <4>2. m \in Earlier(batch[i])
        BY <3>3, <3>4, <4>1 DEF Earlier, Below
      <4>3. QED
        BY <1>2, <4>2 DEF OrderInv, BatchOrder
    <3>7. QED
      BY <3>5, <3>6
  <2>4. QED
    BY <2>2, <2>3
<1>5. QED
  BY <1>3, <1>4

LEMMA OrderStep ==
  ASSUME TypeOK, TypeOK', PhaseInv, OrderInv, [Next]_vars
  PROVE  OrderInv'
<1>1. \A m \in Msg : Settled(m) => Settled(m)'
  BY GrowsStep, SettledGrows
<1>2. CASE UNCHANGED <<committed, fetchPos, held, msgChan, closed, batch>>
           /\ (Running' => Running)
  BY <1>1, <1>2, OrderStable
<1>3. CASE Abort /\ UNCHANGED <<committed, fetchPos, held, msgChan, closed>>
           /\ pc \in Phases
  <2>1. Running /\ batch' = << >>
    BY <1>3 DEF Running, Phases, Abort, Return
  <2>2. ASSUME NEW m \in Msg, InBatch(m)
        PROVE  Settled(m)'
    <3>1. CASE Handled(m)
      BY <1>1, <3>1 DEF Settled
    <3>2. CASE ~Handled(m)
      BY <1>3, <2>2, <3>2 DEF Abort, RangeOf, Settled, InBatch
    <3>3. QED
      BY <3>1, <3>2
  <2>3. CommitAccounted'
    BY <1>1, <1>3, MemoryMsg DEF OrderInv, CommitAccounted, Settled
  <2>4. QED
    BY <1>1, <1>3, <2>1, <2>2, <2>3, OrderReturn
<1>4. CASE CommitOk \/ CommitFail
  <2>1. /\ pc = "commit" /\ batch' = << >>
        /\ UNCHANGED <<es, redis, dlq, dropped, fetchPos, held, msgChan, closed>>
        /\ \/ committed' = committed
           \/ committed' \in {c \in [Partition -> 0 .. LogLen] : CommitTo(c)}
    BY <1>4 DEF CommitOk, CommitFail, Return, sinkVars, fetcherVars
  <2>2. CommitAccounted'
    BY <2>1, CommitSettled
  <2>3. \A m \in Msg : InBatch(m) => Settled(m)'
    BY <2>1 DEF PhaseInv, CommitInv, Settled, Handled, InBatch
  <2>4. Running
    BY <2>1 DEF Running
  <2>5. QED
    BY <1>1, <2>1, <2>2, <2>3, <2>4, OrderReturn
<1>5. CASE Crash \/ Restart
  <2>1. /\ committed' = committed /\ (~Running' \/ fetchPos' = committed')
        /\ held' = << >> /\ msgChan' = << >> /\ batch' = << >>
    BY <1>5 DEF Crash, Restart, LoseMemory, Running, kafkaVars
  <2>2. QED
    BY <1>1, <2>1, OrderEmpty
<1>6. CASE Rebalance
  <2>1. /\ fetchPos' = committed /\ UNCHANGED <<committed, held, msgChan, closed, batch>>
        /\ UNCHANGED <<es, redis, dlq, dropped>>
    BY <1>6 DEF Rebalance, fetcherVars, sinkVars
  <2>2. /\ \A m : Settled(m)' = Settled(m)
        /\ \A m : InBatch(m)' = InBatch(m)
        /\ \A m : InChan(m)' = InChan(m)
        /\ \A m : IsHeld(m)' = IsHeld(m)
    BY <2>1 DEF Settled, Handled, InBatch, InChan, IsHeld
  <2>3. CommitAccounted'
    BY <2>1, <2>2 DEF OrderInv, CommitAccounted, Settled
  <2>4. Ahead'
    BY <2>1, <2>3 DEF Ahead, CommitAccounted, Settled
  <2>5. BatchOrder' /\ ChanOrder' /\ HeldOrder'
    BY <2>1, <2>2 DEF OrderInv, BatchOrder, ChanOrder, HeldOrder
  <2>6. QED
    BY <2>3, <2>4, <2>5 DEF OrderInv
<1>7. ASSUME NEW p \in Partition, Fetch(p)
      PROVE  OrderInv'
  <2>1. /\ Running /\ ~closed /\ held = << >> /\ held' = << <<p, fetchPos[p]>> >>
        /\ fetchPos' = [fetchPos EXCEPT ![p] = @ + 1]
        /\ UNCHANGED <<committed, msgChan, closed, batch, es, redis, dlq, dropped>>
    BY <1>7 DEF Fetch, sinkVars
  <2>2. /\ \A m : Settled(m)' = Settled(m)
        /\ \A m : InBatch(m)' = InBatch(m)
        /\ \A m : InChan(m)' = InChan(m)
    BY <2>1 DEF Settled, Handled, InBatch, InChan
  <2>3. \A m : ~IsHeld(m) /\ (IsHeld(m)' <=> m = <<p, fetchPos[p]>>)
    BY <2>1 DEF IsHeld
  <2>4. \A q \in Partition : \A m \in Below(q, fetchPos[q]) :
          Settled(m) \/ InBatch(m) \/ InChan(m)
    BY <2>1, <2>3 DEF OrderInv, Ahead
  <2>5. Ahead'
    <3> SUFFICES ASSUME NEW q \in Partition, NEW m \in Below(q, fetchPos'[q])
                 PROVE  Settled(m) \/ InBatch(m) \/ InChan(m) \/ m = <<p, fetchPos[p]>>
      BY <2>2, <2>3 DEF Ahead
    <3>1. fetchPos[q] \in Nat /\ fetchPos[p] \in Nat
      BY DEF TypeOK
    <3>2. PICK o \in 0 .. fetchPos'[q] - 1 : m = <<q, o>>
      BY DEF Below
    <3>3. o < fetchPos[q] \/ (q = p /\ o = fetchPos[p])
      <4>1. q # p => fetchPos'[q] = fetchPos[q]
        BY <2>1
      <4>2. q = p => fetchPos'[q] = fetchPos[q] + 1
        BY <2>1 DEF TypeOK
      <4>3. QED
        BY <3>1, <3>2, <4>1, <4>2
    <3>4. CASE o < fetchPos[q]
      <4>1. m \in Below(q, fetchPos[q])
        BY <3>1, <3>2, <3>4 DEF Below
      <4>2. QED
        BY <2>4, <4>1
    <3>5. QED
      BY <3>2, <3>3, <3>4
  <2>6. HeldOrder'
    <3>1. \A i \in DOMAIN held' : Earlier(held'[i]) = Below(p, fetchPos[p])
      BY <2>1 DEF Earlier
    <3>2. QED
      BY <2>2, <2>4, <3>1 DEF HeldOrder
  <2>7. BatchOrder' /\ ChanOrder' /\ CommitAccounted'
    BY <2>1, <2>2 DEF OrderInv, BatchOrder, ChanOrder, CommitAccounted, Settled
  <2>8. QED
    BY <2>5, <2>6, <2>7 DEF OrderInv
<1>8. CASE Send
  <2>1. /\ held # << >> /\ held' = << >> /\ msgChan' = msgChan \o held
        /\ UNCHANGED <<committed, fetchPos, closed, batch, pc, es, redis, dlq, dropped>>
    BY <1>8 DEF Send, sinkVars, kafkaVars
  <2>0. held \in Seq(Msg) /\ Len(held) <= 1 /\ msgChan \in Seq(Msg)
    BY DEF TypeOK
  <2>2. Len(held) = 1
    BY <2>0, <2>1, SingletonSeq
  <2>3. held[1] \in Msg /\ DOMAIN held = {1}
    BY <2>0, <2>1, SingletonSeq
  <2>4. /\ DOMAIN msgChan = 1 .. Len(msgChan) /\ Len(msgChan) \in Nat
        /\ DOMAIN msgChan' = 1 .. Len(msgChan) + 1
        /\ \A i \in DOMAIN msgChan : msgChan'[i] = msgChan[i]
        /\ msgChan'[Len(msgChan) + 1] = held[1]
    BY <2>0, <2>1, <2>2, ConcatFacts
  <2>5. /\ \A m : Settled(m)' = Settled(m)
        /\ \A m : InBatch(m)' = InBatch(m)
        /\ \A m : InChan(m) => InChan(m)'
        /\ \A m : IsHeld(m) => InChan(m)'
    BY <2>1, <2>3, <2>4 DEF Settled, Handled, InBatch, InChan, IsHeld
  <2>6. Ahead'
    BY <2>1, <2>5 DEF OrderInv, Ahead, Running
  <2>7. ChanOrder'
    <3> SUFFICES ASSUME NEW i \in DOMAIN msgChan', NEW m \in Earlier(msgChan'[i])
                 PROVE  Settled(m) \/ InBatch(m) \/ \E k \in 1 .. i - 1 : msgChan'[k] = m
      BY <2>5 DEF ChanOrder
    <3>1. CASE i \in DOMAIN msgChan
      <4>1. m \in Earlier(msgChan[i]) /\ 1 .. i - 1 \subseteq DOMAIN msgChan
        BY <2>4, <3>1
      <4>2. QED
        BY <2>4, <3>1, <4>1 DEF OrderInv, ChanOrder
    <3>2. CASE i = Len(msgChan) + 1
      <4>1. m \in Earlier(held[1]) /\ 1 .. i - 1 = DOMAIN msgChan
        BY <2>4, <3>2
      <4>2. Settled(m) \/ InBatch(m) \/ InChan(m)
        BY <2>3, <4>1 DEF OrderInv, HeldOrder
      <4>3. QED
        BY <2>4, <4>1, <4>2 DEF InChan
    <3>3. QED
      BY <2>4, <3>1, <3>2
  <2>8. BatchOrder' /\ HeldOrder' /\ CommitAccounted'
    BY <2>1, <2>5 DEF OrderInv, BatchOrder, HeldOrder, CommitAccounted, Settled
  <2>9. QED
    BY <2>6, <2>7, <2>8 DEF OrderInv
<1>9. CASE FetcherStop
  <2>1. /\ held' = << >> /\ closed'
        /\ UNCHANGED <<committed, fetchPos, msgChan, batch, es, redis, dlq, dropped>>
    BY <1>9 DEF FetcherStop, sinkVars, kafkaVars
  <2>2. /\ \A m : Settled(m)' = Settled(m)
        /\ \A m : InBatch(m)' = InBatch(m)
    BY <2>1 DEF Settled, Handled, InBatch
  <2>3. Ahead'
    BY <2>1 DEF Ahead
  <2>4. BatchOrder' /\ ChanOrder' /\ HeldOrder' /\ CommitAccounted'
    BY <2>1, <2>2 DEF OrderInv, BatchOrder, ChanOrder, HeldOrder, CommitAccounted, Settled
  <2>5. QED
    BY <2>3, <2>4 DEF OrderInv
<1>10. CASE Recv
  <2>1. /\ msgChan # << >> /\ msgChan' = Tail(msgChan)
        /\ batch' = Append(batch, Head(msgChan))
        /\ UNCHANGED <<committed, fetchPos, held, closed, es, redis, dlq, dropped>>
        /\ Running
    BY <1>10 DEF Recv, Call, sinkVars, kafkaVars, Running
  <2>2. /\ DOMAIN msgChan = 1 .. Len(msgChan) /\ Len(msgChan) \in Nat \ {0}
        /\ Head(msgChan) = msgChan[1] /\ msgChan[1] \in Msg
        /\ DOMAIN msgChan' = 1 .. Len(msgChan) - 1
        /\ \A i \in DOMAIN msgChan' : msgChan'[i] = msgChan[i + 1]
    BY <2>1 DEF TypeOK
  <2>3. /\ DOMAIN batch = 1 .. Len(batch) /\ Len(batch) \in Nat
        /\ DOMAIN batch' = 1 .. Len(batch) + 1
        /\ \A i \in DOMAIN batch : batch'[i] = batch[i]
        /\ batch'[Len(batch) + 1] = msgChan[1]
    BY <2>1, <2>2, AppendFacts DEF TypeOK
  <2>4. \A m : Settled(m)' = Settled(m)
    BY <2>1 DEF Settled, Handled
  <2>5. \A m : InBatch(m)' <=> InBatch(m) \/ m = msgChan[1]
    BY <2>3 DEF InBatch
  <2>6. \A m : InChan(m) => InBatch(m)' \/ InChan(m)'
    <3> SUFFICES ASSUME NEW m, NEW i \in DOMAIN msgChan, msgChan[i] = m, i # 1
                 PROVE  InChan(m)'
      BY <2>5 DEF InChan
    <3>1. i - 1 \in DOMAIN msgChan' /\ msgChan'[i - 1] = m
      BY <2>2
    <3>2. QED
      BY <3>1 DEF InChan
  <2>7. Ahead'
    BY <2>1, <2>4, <2>5, <2>6 DEF OrderInv, Ahead, IsHeld
  <2>8. BatchOrder'
    <3> SUFFICES ASSUME NEW i \in DOMAIN batch', NEW m \in Earlier(batch'[i])
                 PROVE  Settled(m) \/ InBatch(m)
      BY <2>4, <2>5 DEF BatchOrder
    <3>1. CASE i \in DOMAIN batch
      BY <2>3, <3>1 DEF OrderInv, BatchOrder
    <3>2. CASE i = Len(batch) + 1
      <4>1. m \in Earlier(msgChan[1]) /\ 1 \in DOMAIN msgChan
        BY <2>2, <2>3, <3>2
      <4>2. ~ \E k \in 1 .. 1 - 1 : msgChan[k] = m
        OBVIOUS
      <4>3. QED
        BY <4>1, <4>2 DEF OrderInv, ChanOrder
    <3>3. QED
      BY <2>3, <3>1, <3>2
  <2>9. ChanOrder'
    <3> SUFFICES ASSUME NEW i \in DOMAIN msgChan', NEW m \in Earlier(msgChan'[i])
                 PROVE  Settled(m) \/ InBatch(m) \/ m = msgChan[1]
                          \/ \E k \in 1 .. i - 1 : msgChan'[k] = m
      BY <2>4, <2>5 DEF ChanOrder
    <3>1. i + 1 \in DOMAIN msgChan /\ m \in Earlier(msgChan[i + 1])
      BY <2>2
    <3>2. CASE Settled(m) \/ InBatch(m)
      BY <3>2
    <3>3. ASSUME NEW k \in 1 .. (i + 1) - 1, msgChan[k] = m, k # 1
          PROVE  \E x \in 1 .. i - 1 : msgChan'[x] = m
      <4>1. k - 1 \in 1 .. i - 1 /\ k - 1 \in DOMAIN msgChan' /\ (k - 1) + 1 = k
        BY <2>2, <3>3
      <4>2. msgChan'[k - 1] = m
        BY <2>2, <3>3, <4>1
      <4>3. QED
        BY <4>1, <4>2
    <3>4. QED
      BY <3>1, <3>2, <3>3 DEF OrderInv, ChanOrder
  <2>10. HeldOrder'
    BY <2>1, <2>4, <2>5, <2>6 DEF OrderInv, HeldOrder
  <2>11. CommitAccounted'
    BY <2>1, <2>4 DEF OrderInv, CommitAccounted, Settled
  <2>12. QED
    BY <2>7, <2>8, <2>9, <2>10, <2>11 DEF OrderInv
<1>11. QED
  <2>1. CASE Tick \/ Flush
    BY <1>2, <2>1 DEF Tick, Flush, Call, Running, kafkaVars, fetcherVars
  <2>2. CASE ParseValid \/ ParsePoison \/ ParseDone \/ IndexOk \/ ItemAccepted
             \/ ItemRejected \/ ItemRejectedFail \/ ItemsDone \/ RecordOk
    BY <1>2, <2>2 DEF ParseValid, ParsePoison, ParseDone, IndexOk, ItemAccepted,
       ItemRejected, ItemRejectedFail, ItemsDone, RecordOk, Running, kafkaVars, fetcherVars
  <2>3. CASE ParsePoisonFail \/ IndexFail \/ RecordFail
    BY <1>2, <1>3, <2>3 DEF ParsePoisonFail, IndexFail, RecordFail, Phases, Running,
       kafkaVars, fetcherVars
  <2>4. CASE Cancel \/ Expire \/ UNCHANGED vars
    BY <1>2, <2>4 DEF Cancel, Expire, vars, Running, kafkaVars, fetcherVars
  <2>5. QED
    BY <1>4, <1>5, <1>6, <1>7, <1>8, <1>9, <1>10, <2>1, <2>2, <2>3, <2>4
    DEF Next, Fetcher, Run, ProcessBatch, Environment


-----------------------------------------------------------------------------
(***************************************************************************)
(* Without a failing dead letter topic and without a stop nothing is ever  *)
(* given up.                                                               *)
(***************************************************************************)
CanLose == Faults \intersect {"dlq", "cancel"} # {}

Calm == ~cancelled /\ ~closed /\ ~expired /\ ctx = "run" /\ dropped = {}

CalmInv == ~CanLose => Calm

LEMMA CalmInit == Init => CalmInv
BY DEF Init, CalmInv, Calm

LEMMA CalmStep == CalmInv /\ [Next]_vars => CalmInv'
<1> SUFFICES ASSUME Calm, ~CanLose, [Next]_vars
             PROVE  Calm'
  BY DEF CalmInv, CanLose
<1>1. "dlq" \notin Faults /\ "cancel" \notin Faults
  BY DEF CanLose
<1>2. ~CtxDone
  BY DEF Calm, CtxDone
<1>3. ~CallMayFail("dlq")
  BY <1>1, <1>2 DEF CallMayFail
<1>4. ~FetcherStop /\ ~Flush /\ ~Cancel /\ ~Expire
  BY <1>1 DEF FetcherStop, Flush, Cancel, Expire, Inject, Calm
<1>5. ~ParsePoisonFail /\ ~ItemRejectedFail
  BY <1>3 DEF ParsePoisonFail, ItemRejectedFail
<1>6. CASE Crash \/ Restart
  BY <1>6 DEF Crash, Restart, LoseMemory, Calm
<1>7. CASE (\E p \in Partition : Fetch(p)) \/ Send \/ Rebalance
  BY <1>7 DEF Fetch, Send, Rebalance, Calm, signalVars, fetcherVars, callVars
<1>8. CASE Recv \/ Tick
  BY <1>8 DEF Recv, Tick, Call, Calm, signalVars, fetcherVars, callVars
<1>9. CASE ParseValid \/ ParsePoison \/ ParseDone \/ IndexOk \/ ItemAccepted
           \/ ItemRejected \/ ItemsDone \/ RecordOk
  BY <1>9 DEF ParseValid, ParsePoison, ParseDone, IndexOk, ItemAccepted, ItemRejected,
              ItemsDone, RecordOk, Calm, signalVars, fetcherVars, callVars
<1>10. CASE IndexFail \/ RecordFail
  BY <1>2, <1>10 DEF IndexFail, RecordFail, Calm, signalVars, fetcherVars, callVars
<1>11. CASE CommitOk \/ CommitFail
  BY <1>11 DEF CommitOk, CommitFail, Return, Calm, signalVars, fetcherVars
<1>12. CASE UNCHANGED vars
  BY <1>12 DEF vars, Calm, signalVars, fetcherVars, callVars
<1>13. QED
  BY <1>4, <1>5, <1>6, <1>7, <1>8, <1>9, <1>10, <1>11, <1>12
     DEF Next, Fetcher, Run, ProcessBatch, Environment

-----------------------------------------------------------------------------
(***************************************************************************)
(* The theorems.                                                           *)
(***************************************************************************)
LEMMA InvInit == Init => Inv
<1> SUFFICES ASSUME Init
             PROVE  Inv
  OBVIOUS
<1>1. TypeOK
  BY TypeInit
<1>2. DualSinkOrder
  BY DEF Init, DualSinkOrder
<1>3. PhaseInv
  BY DEF Init, PhaseInv, IdleInv, ParseInv, AcceptedInv, ItemsInv, CommitInv, Phases
<1>4. \A p \in Partition : Below(p, 0) = {}
  BY DEF Below
<1>5. OrderInv
  BY <1>4 DEF Init, OrderInv, Ahead, BatchOrder, ChanOrder, HeldOrder, CommitAccounted
<1>6. QED
  BY <1>1, <1>2, <1>3, <1>5 DEF Inv

LEMMA InvStep == Inv /\ [Next]_vars => Inv'
BY TypeStep, DualSinkStep, PhaseStep, OrderStep DEF Inv, PhaseInv

LEMMA InvCorrect == Spec => []Inv
BY InvInit, InvStep, PTL DEF Spec

LEMMA CalmCorrect == Spec => []CalmInv
BY CalmInit, CalmStep, PTL DEF Spec

(* Every offset below the committed one belongs to a message that was      *)
(* handled, or that an aborted batch or a failed dead letter publish gave  *)
(* up; whatever crashes, rebalances, retries and stops happen.             *)
THEOREM CommitsAccounted == Spec => []CommitAccounted
<1>1. Inv => CommitAccounted
  BY DEF Inv, OrderInv
<1>2. QED
  BY <1>1, InvCorrect, PTL

(* Redis never counts a message that is not in the index.                  *)
THEOREM CountedIsIndexed == Spec => []DualSinkOrder
<1>1. Inv => DualSinkOrder
  BY DEF Inv
<1>2. QED
  BY <1>1, InvCorrect, PTL

(* With a dead letter topic that accepts what is published, and as long as *)
(* the process is not told to stop, an offset is committed only when every *)
(* message below it is indexed and counted or dead lettered, whatever      *)
(* Elasticsearch, Redis, the broker and crashes do.                        *)
THEOREM OffsetsSafe ==
  ASSUME "dlq" \notin Faults, "cancel" \notin Faults
  PROVE  Spec => []OffsetSafety
<1>1. ~CanLose
  BY DEF CanLose
<1>2. Inv /\ CalmInv => OffsetSafety
  BY <1>1 DEF Inv, CalmInv, Calm, OrderInv, CommitAccounted, OffsetSafety
<1>3. QED
  BY <1>2, InvCorrect, CalmCorrect, PTL

(* Every step of the processor is a step of the abstract delivery, or      *)
(* leaves what it speaks about alone.                                      *)
LEMMA DeliveryStep ==
  ASSUME TypeOK, TypeOK', CommitAccounted', CalmInv, CalmInv', [Next]_vars
  PROVE  [D!Next]_(D!vars)
<1> DEFINE H == {m \in Msg : Handled(m)}
<1>1. H' = {m \in Msg : Handled(m)'}
  OBVIOUS
<1>2. CASE UNCHANGED committed
  <2>1. Grows
    BY GrowsStep
  <2>2. \A m \in Msg : redis[m] \in Nat /\ redis'[m] \in Nat /\ redis'[m] >= redis[m]
    BY <2>1 DEF TypeOK, Grows
  <2>3. H \subseteq H'
    BY <2>1, <2>2 DEF Handled, Grows
  <2>4. dropped \subseteq dropped' /\ dropped' \in SUBSET Msg
    BY <2>1 DEF Grows, TypeOK
  <2>5. CanLose \/ dropped' = dropped
    BY DEF CalmInv, Calm
  <2>6. H' \in SUBSET Msg
    BY <1>1
  <2>7. Msg = Partition \X (0 .. LogLen - 1)
    BY DEF Msg, Offset
  <2>8. D!Settle
    BY <1>2, <2>3, <2>4, <2>5, <2>6, <2>7 DEF D!Settle, D!Msg, CanLose
  <2>9. QED
    BY <2>8 DEF D!Next
<1>3. CASE CommitOk \/ CommitFail
  <2>1. UNCHANGED <<es, redis, dlq, dropped>>
    BY <1>3 DEF CommitOk, CommitFail, sinkVars
  <2>2. H' = H
    BY <2>1 DEF Handled
  <2>3. committed' \in [Partition -> 0 .. LogLen]
    BY DEF TypeOK
  <2>4. ASSUME NEW p \in Partition, NEW o \in 0 .. committed'[p] - 1
        PROVE  <<p, o>> \in H \union dropped
    <3>1. <<p, o>> \in Msg
      BY <2>3, SizesAssumption DEF Msg, Offset
    <3>2. <<p, o>> \in Below(p, committed'[p])
      BY DEF Below
    <3>3. Handled(<<p, o>>)' \/ <<p, o>> \in dropped'
      BY <3>2 DEF CommitAccounted
    <3>4. QED
      BY <2>1, <3>1, <3>3 DEF Handled
  <2>5. D!Commit
    BY <2>1, <2>2, <2>3, <2>4 DEF D!Commit
  <2>6. QED
    BY <2>5 DEF D!Next
<1>4. QED
  <2>1. CASE Fetcher \/ Environment \/ UNCHANGED vars
    BY <1>2, <2>1 DEF Fetcher, Fetch, Send, FetcherStop, Environment, Cancel, Expire, Crash,
                      Restart, Rebalance, vars, kafkaVars
  <2>2. CASE Run /\ ~CommitOk /\ ~CommitFail
    BY <1>2, <2>2 DEF Run, ProcessBatch, Recv, Tick, Flush, ParseValid, ParsePoison,
                      ParsePoisonFail, ParseDone, IndexOk, IndexFail, ItemAccepted,
                      ItemRejected, ItemRejectedFail, ItemsDone, RecordOk, RecordFail,
                      kafkaVars
  <2>3. QED
    BY <1>3, <2>1, <2>2 DEF Next

(* The processor implements the abstract specification of delivery, under  *)
(* the mapping of D.                                                       *)
THEOREM ImplementsDelivery == Spec => DeliverySpec
<1>1. Init => D!Init
  <2> SUFFICES ASSUME Init
               PROVE  D!Init
    OBVIOUS
  <2>1. {m \in Msg : Handled(m)} = {}
    BY DEF Init, Handled
  <2>2. QED
    BY <2>1 DEF Init, D!Init
<1>2. Inv /\ Inv' /\ CalmInv /\ CalmInv' /\ [Next]_vars => [D!Next]_(D!vars)
  BY DeliveryStep DEF Inv, OrderInv
<1>3. QED
  BY <1>1, <1>2, InvCorrect, CalmCorrect, PTL DEF Spec, DeliverySpec, D!Spec

-----------------------------------------------------------------------------
(***************************************************************************)
(* Memory.  The loop waits for messages only while the batch has room, and *)
(* a batch that is full is processed at once; the channel is never longer  *)
(* than its capacity.                                                      *)
(***************************************************************************)
RoomInv ==
  /\ Len(msgChan) <= BulkSize
  /\ Len(batch) <= BulkSize
  /\ pc = "select" => Len(batch) < BulkSize

LEMMA RoomInit == Init => RoomInv
BY SizesAssumption DEF Init, RoomInv

LEMMA RoomStep == TypeOK /\ RoomInv /\ [Next]_vars => RoomInv'
<1> SUFFICES ASSUME TypeOK, RoomInv, [Next]_vars
             PROVE  RoomInv'
  OBVIOUS
<1>1. /\ BulkSize \in Nat \ {0}
      /\ batch \in Seq(Msg) /\ Len(batch) \in Nat
      /\ msgChan \in Seq(Msg) /\ Len(msgChan) \in Nat
      /\ held \in Seq(Msg) /\ Len(held) <= 1
  BY SizesAssumption DEF TypeOK
<1>2. CASE UNCHANGED <<msgChan, batch>> /\ (pc' = pc \/ pc' # "select")
  BY <1>2 DEF RoomInv
<1>3. CASE Return /\ UNCHANGED msgChan
  <2>1. batch' = << >> /\ Len(batch') = 0
    BY <1>3 DEF Return
  <2>2. QED
    BY <1>1, <1>3, <2>1 DEF RoomInv
<1>4. CASE Crash \/ Restart
  <2>1. batch' = << >> /\ msgChan' = << >> /\ Len(batch') = 0 /\ Len(msgChan') = 0
    BY <1>4 DEF Crash, Restart, LoseMemory
  <2>2. QED
    BY <1>1, <2>1 DEF RoomInv
<1>5. CASE Send
  <2>1. /\ held # << >> /\ Len(msgChan) < BulkSize
        /\ msgChan' = msgChan \o held /\ UNCHANGED <<batch, pc>>
    BY <1>5 DEF Send
  <2>2. Len(held) = 1
    BY <1>1, <2>1, SingletonSeq
  <2>3. Len(msgChan \o held) = Len(msgChan) + Len(held)
    BY <1>1, ConcatProperties
  <2>4. Len(msgChan') <= BulkSize
    BY <1>1, <2>1, <2>2, <2>3
  <2>5. QED
    BY <2>1, <2>4 DEF RoomInv
<1>6. CASE Recv
  <2>1. /\ pc = "select" /\ msgChan # << >> /\ msgChan' = Tail(msgChan)
    BY <1>6 DEF Recv
  <2>2. Head(msgChan) \in Msg /\ Len(msgChan') = Len(msgChan) - 1
    BY <1>1, <2>1
  <2>3. batch' = Append(batch, Head(msgChan))
    BY <1>6 DEF Recv, Call
  <2>4. Len(batch') = Len(batch) + 1
    BY <1>1, <2>2, <2>3
  <2>5. Len(batch') <= BulkSize
    BY <1>1, <2>1, <2>4 DEF RoomInv
  <2>6. pc' = "parse" \/ Len(batch') < BulkSize
    <3>1. Len(batch') >= BulkSize => pc' = "parse"
      BY <1>6, <2>3 DEF Recv, Call
    <3>2. QED
      BY <1>1, <2>4, <3>1
  <2>7. Len(msgChan') <= BulkSize
    BY <1>1, <2>2 DEF RoomInv
  <2>8. QED
    BY <2>5, <2>6, <2>7 DEF RoomInv
<1>7. QED
  <2>1. CASE (\E p \in Partition : Fetch(p)) \/ FetcherStop \/ Cancel \/ Expire \/ Rebalance
    BY <1>2, <2>1 DEF Fetch, FetcherStop, Cancel, Expire, Rebalance, fetcherVars
  <2>2. CASE Tick \/ Flush
    BY <1>2, <2>2 DEF Tick, Flush, Call, fetcherVars
  <2>3. CASE ParseValid \/ ParsePoison \/ ParseDone \/ IndexOk \/ ItemAccepted
             \/ ItemRejected \/ ItemRejectedFail \/ ItemsDone \/ RecordOk
    BY <1>2, <2>3 DEF ParseValid, ParsePoison, ParseDone, IndexOk, ItemAccepted,
       ItemRejected, ItemRejectedFail, ItemsDone, RecordOk, fetcherVars
  <2>4. CASE ParsePoisonFail \/ CommitOk \/ CommitFail
    BY <1>3, <2>4 DEF ParsePoisonFail, Abort, CommitOk, CommitFail, fetcherVars
  <2>5. CASE IndexFail \/ RecordFail
    BY <1>2, <1>3, <2>5 DEF IndexFail, RecordFail, Abort, fetcherVars
  <2>6. CASE UNCHANGED vars
    BY <1>2, <2>6 DEF vars, fetcherVars
  <2>7. QED
    BY <1>4, <1>5, <1>6, <2>1, <2>2, <2>3, <2>4, <2>5, <2>6
    DEF Next, Fetcher, Run, ProcessBatch, Environment

(* However long the sinks are down, the process holds at most a batch, a   *)
(* full channel and the message being sent.                                *)
THEOREM MemoryBounded == Spec => []MemoryBound
<1>1. Init => TypeOK /\ RoomInv
  BY TypeInit, RoomInit
<1>2. TypeOK /\ RoomInv /\ [Next]_vars => (TypeOK /\ RoomInv)'
  BY TypeStep, RoomStep
<1>3. TypeOK /\ RoomInv => MemoryBound
  <2> SUFFICES ASSUME TypeOK, RoomInv
               PROVE  MemoryBound
    OBVIOUS
  <2>1. Len(batch) \in Nat /\ Len(msgChan) \in Nat /\ Len(held) \in Nat /\ Len(held) <= 1
    BY DEF TypeOK
  <2>2. QED
    BY <2>1, SizesAssumption DEF RoomInv, MemoryBound
<1>4. QED
  BY <1>1, <1>2, <1>3, PTL DEF Spec

-----------------------------------------------------------------------------
(***************************************************************************)
(* The dead letter topic.  While the cluster sheds no load the bulk        *)
(* response refuses exactly the documents that cannot be mapped.           *)
(***************************************************************************)
VerdictInv == pc = "items" => accepted = Mappable

LEMMA VerdictInit == Init => VerdictInv
BY DEF Init, VerdictInv

LEMMA VerdictStep ==
  ASSUME "throttle" \notin Faults, VerdictInv, [Next]_vars
  PROVE  VerdictInv'
<1>1. CASE UNCHANGED <<pc, batch, validIdx, accepted>>
  BY <1>1 DEF VerdictInv, Mappable, Doc
<1>2. CASE pc' # "items"
  BY <1>2 DEF VerdictInv
<1>3. CASE IndexOk
  BY <1>3 DEF IndexOk, VerdictInv, Mappable, Doc
<1>4. CASE (\E p \in Partition : Fetch(p)) \/ Send \/ FetcherStop \/ Cancel \/ Expire
           \/ Rebalance
  BY <1>1, <1>4 DEF Fetch, Send, FetcherStop, Cancel, Expire, Rebalance, callVars
<1>5. CASE Recv \/ Tick \/ Flush
  BY <1>2, <1>5 DEF Recv, Tick, Flush, Call
<1>6. CASE Crash \/ Restart \/ CommitOk \/ CommitFail \/ ParsePoisonFail
  BY <1>2, <1>6 DEF Crash, Restart, CommitOk, CommitFail, ParsePoisonFail, Abort, Return
<1>7. CASE ParseValid \/ ParsePoison \/ ParseDone \/ ItemsDone \/ RecordOk
  BY <1>2, <1>7 DEF ParseValid, ParsePoison, ParseDone, ItemsDone, RecordOk
<1>8. CASE IndexFail \/ RecordFail
  BY <1>1, <1>2, <1>8 DEF IndexFail, RecordFail, Abort, Return, callVars
<1>9. CASE ItemAccepted \/ ItemRejected \/ ItemRejectedFail
  BY <1>1, <1>9 DEF ItemAccepted, ItemRejected, ItemRejectedFail
<1>10. CASE UNCHANGED vars
  BY <1>1, <1>10 DEF vars, callVars
<1>11. QED
  BY <1>3, <1>4, <1>5, <1>6, <1>7, <1>8, <1>9, <1>10
  DEF Next, Fetcher, Run, ProcessBatch, Environment

LEMMA DeadLetterStep ==
  ASSUME TypeOK, VerdictInv, OnlyBadDeadLettered, [Next]_vars
  PROVE  OnlyBadDeadLettered'
<1>1. CASE UNCHANGED dlq
  BY <1>1 DEF OnlyBadDeadLettered
<1>2. CASE ParsePoison \/ ParsePoisonFail
  BY <1>2 DEF ParsePoison, ParsePoisonFail, OnlyBadDeadLettered
<1>3. CASE ItemRejected \/ ItemRejectedFail
  <2>1. cursor \in DOMAIN validIdx \ Mappable
    BY <1>3 DEF ItemRejected, ItemRejectedFail, VerdictInv
  <2>2. Doc(cursor) \in Unmappable
    BY <2>1 DEF Mappable
  <2>3. QED
    BY <1>3, <2>2 DEF ItemRejected, ItemRejectedFail, OnlyBadDeadLettered
<1>4. CASE Fetcher \/ Environment \/ UNCHANGED vars
  BY <1>1, <1>4 DEF Fetcher, Fetch, Send, FetcherStop, Environment, Cancel, Expire, Crash,
                    Restart, Rebalance, vars, sinkVars
<1>5. CASE Recv \/ Tick \/ Flush \/ ParseValid \/ ParseDone \/ IndexOk \/ IndexFail
           \/ ItemAccepted \/ ItemsDone \/ RecordOk \/ RecordFail \/ CommitOk \/ CommitFail
  BY <1>1, <1>5 DEF Recv, Tick, Flush, ParseValid, ParseDone, IndexOk, IndexFail,
     ItemAccepted, ItemsDone, RecordOk, RecordFail, CommitOk, CommitFail, sinkVars
<1>6. QED
  BY <1>2, <1>3, <1>4, <1>5 DEF Next, Run, ProcessBatch

(* As long as the cluster does not answer single items with 429 or 503,    *)
(* only messages that cannot be parsed or cannot be mapped are published   *)
(* to the dead letter topic, whatever else fails or is retried.  Without   *)
(* the assumption this is false, as the run proc_throttle shows.           *)
THEOREM DeadLettersAreBad ==
  ASSUME "throttle" \notin Faults
  PROVE  Spec => []OnlyBadDeadLettered
<1>1. Init => OnlyBadDeadLettered
  BY DEF Init, OnlyBadDeadLettered
<1>2. VerdictInv /\ [Next]_vars => VerdictInv'
  BY VerdictStep
<1>3. TypeOK /\ VerdictInv /\ OnlyBadDeadLettered /\ [Next]_vars => OnlyBadDeadLettered'
  BY DeadLetterStep
<1>4. QED
  BY <1>1, <1>2, <1>3, VerdictInit, TypeInit, TypeStep, PTL DEF Spec

-----------------------------------------------------------------------------
(***************************************************************************)
(* How often a message can be counted.  Every copy of a message that is in *)
(* memory or still to be fetched is counted at most once if nothing fails; *)
(* a stop, and a process that is not running, owe one more delivery.  What *)
(* is counted and what is due never exceed a power of two that a fault     *)
(* doubles: a fault delivers each message once more, or counts the copies  *)
(* in the batch without taking them out.                                   *)
(***************************************************************************)
Count(s, m) == Cardinality({i \in DOMAIN s : s[i] = m})

DueInBatch(m) == IF pc = "commit" THEN 0 ELSE Count(batch, m)
ToFetch(m) == IF Running /\ fetchPos[m[1]] <= m[2] THEN 1 ELSE 0
Owed == IF cancelled \/ ~Running THEN 1 ELSE 0

Due(m) == redis[m] + DueInBatch(m) + Count(msgChan, m) + Count(held, m)
            + ToFetch(m) + Owed

DueInv == \A m \in Msg : Due(m) <= 2 ^ faults

(* Only a stop closes the channel or ends the process. *)
StopCause == pc = "exit" \/ closed \/ ctx = "shutdown" => cancelled

(* The bulk request holds every position of the batch at most once. *)
IndexInv ==
  /\ \A j, k \in DOMAIN validIdx : validIdx[j] = validIdx[k] => j = k
  /\ pc = "parse" => \A j \in DOMAIN validIdx : validIdx[j] < cursor

LEMMA CountType ==
  ASSUME NEW S, NEW s \in Seq(S), NEW m
  PROVE  /\ IsFiniteSet({i \in DOMAIN s : s[i] = m})
         /\ Count(s, m) \in Nat
<1>1. IsFiniteSet(1 .. Len(s))
  BY FS_Interval
<1>2. {i \in DOMAIN s : s[i] = m} \subseteq 1 .. Len(s)
  OBVIOUS
<1>3. IsFiniteSet({i \in DOMAIN s : s[i] = m})
  BY <1>1, <1>2, FS_Subset
<1> QED
  BY <1>3, FS_CardinalityType DEF Count

LEMMA CountEmpty == \A m : Count(<< >>, m) = 0
<1> TAKE m
<1>1. {i \in DOMAIN << >> : << >>[i] = m} = {}
  OBVIOUS
<1> QED
  BY <1>1, FS_EmptySet DEF Count

(* One more element at the end. *)
LEMMA CountExtend ==
  ASSUME NEW S, NEW s \in Seq(S), NEW t, NEW m,
         DOMAIN t = 1 .. Len(s) + 1,
         \A i \in DOMAIN s : t[i] = s[i]
  PROVE  Count(t, m) = Count(s, m) + (IF t[Len(s) + 1] = m THEN 1 ELSE 0)
<1> DEFINE A == {i \in DOMAIN s : s[i] = m}
           B == {i \in DOMAIN t : t[i] = m}
           n == Len(s) + 1
<1>1. /\ DOMAIN s = 1 .. Len(s) /\ Len(s) \in Nat
      /\ n \notin DOMAIN s /\ DOMAIN t = DOMAIN s \union {n}
  OBVIOUS
<1>2. IsFiniteSet(A) /\ Cardinality(A) \in Nat
  BY CountType DEF Count
<1>3. B = IF t[n] = m THEN A \union {n} ELSE A
  BY <1>1
<1>4. n \notin A
  BY <1>1
<1>5. Cardinality(A \union {n}) = Cardinality(A) + 1
  BY <1>2, <1>4, FS_AddElement
<1>6. Count(t, m) = Cardinality(B) /\ Count(s, m) = Cardinality(A)
  BY DEF Count
<1> HIDE DEF A, B
<1> QED
  BY <1>2, <1>3, <1>5, <1>6

(* One element less at the front. *)
LEMMA CountTail ==
  ASSUME NEW S, NEW s \in Seq(S), s # << >>, NEW m
  PROVE  Count(s, m) = Count(Tail(s), m) + (IF Head(s) = m THEN 1 ELSE 0)
<1> DEFINE t == Tail(s)
           A == {i \in DOMAIN t : t[i] = m}
           B == {i \in DOMAIN s : s[i] = m /\ i # 1}
           C == {i \in DOMAIN s : s[i] = m}
           f == [i \in A |-> i + 1]
<1>1. /\ DOMAIN s = 1 .. Len(s) /\ Len(s) \in Nat \ {0}
      /\ t \in Seq(S) /\ Len(t) = Len(s) - 1 /\ DOMAIN t = 1 .. Len(s) - 1
      /\ \A i \in DOMAIN t : t[i] = s[i + 1]
      /\ Head(s) = s[1]
  BY EmptySeq, HeadTailProperties
<1> HIDE DEF t
<1>2. IsFiniteSet(A) /\ Cardinality(A) \in Nat
  BY <1>1, CountType DEF Count
<1>3. f \in Bijection(A, B)
  <2>1. f \in [A -> B]
    <3>1. \A i \in A : i + 1 \in DOMAIN s /\ i + 1 # 1 /\ s[i + 1] = m
      BY <1>1
    <3> QED
      BY <3>1
  <2>2. \A i, j \in A : f[i] = f[j] => i = j
    BY <1>1
  <2>3. ASSUME NEW k \in B
        PROVE  \E i \in A : f[i] = k
    <3>1. k - 1 \in A /\ (k - 1) + 1 = k
      BY <1>1
    <3> QED
      BY <3>1
  <2> QED
    BY <2>1, <2>2, <2>3 DEF Bijection, Injection, Surjection, IsInjective
<1>4. IsFiniteSet(B) /\ Cardinality(B) = Cardinality(A)
  BY <1>2, <1>3, FS_Bijection DEF ExistsBijection
<1>5. C = IF Head(s) = m THEN B \union {1} ELSE B
  BY <1>1
<1>6. 1 \notin B
  OBVIOUS
<1>7. Cardinality(B \union {1}) = Cardinality(B) + 1
  BY <1>4, <1>6, FS_AddElement
<1>8. Count(s, m) = Cardinality(C) /\ Count(t, m) = Cardinality(A)
  BY DEF Count
<1>9. Count(s, m) = Count(t, m) + (IF Head(s) = m THEN 1 ELSE 0)
  <2> HIDE DEF A, B, C
  <2> QED
    BY <1>2, <1>4, <1>5, <1>7, <1>8
<1> QED
  BY <1>9 DEF t

(* A sequence of one element. *)
LEMMA CountSingle ==
  ASSUME NEW S, NEW s \in Seq(S), Len(s) = 1, NEW m
  PROVE  Count(s, m) = IF s[1] = m THEN 1 ELSE 0
<1>1. DOMAIN s = {1}
  OBVIOUS
<1>2. {i \in DOMAIN s : s[i] = m} = IF s[1] = m THEN {1} ELSE {}
  BY <1>1
<1> QED
  BY <1>2, FS_Singleton, FS_EmptySet DEF Count

(* A run of the Redis pipeline counts a message at most as often as it is  *)
(* in the batch.                                                           *)
LEMMA CountedBound ==
  ASSUME TypeOK, IndexInv, NEW n \in Nat, NEW m \in Msg
  PROVE  /\ Counted(n)[m] \in Nat
         /\ Counted(n)[m] <= redis[m] + Count(batch, m)
<1> DEFINE A == {j \in accepted : j <= n /\ Doc(j) = m}
           B == {i \in DOMAIN batch : batch[i] = m}
           f == [j \in A |-> validIdx[j]]
<1>1. \A j \in A : j \in DOMAIN validIdx
  BY DEF TypeOK
<1>2. f \in [A -> B]
  BY <1>1, DocInBatch DEF Doc
<1>3. \A j, k \in A : f[j] = f[k] => j = k
  BY <1>1 DEF IndexInv
<1>4. f \in Injection(A, B)
  BY <1>2, <1>3 DEF Injection, IsInjective
<1>5. IsFiniteSet(B) /\ Count(batch, m) = Cardinality(B) /\ Cardinality(B) \in Nat
  <2>1. batch \in Seq(Msg)
    BY DEF TypeOK
  <2>2. IsFiniteSet(B) /\ Count(batch, m) \in Nat
    BY <2>1, CountType
  <2>3. QED
    BY <2>2 DEF Count
<1>6. IsFiniteSet(A) /\ Cardinality(A) <= Cardinality(B)
  BY <1>4, <1>5, FS_Injection
<1>7. Cardinality(A) \in Nat
  BY <1>6, FS_CardinalityType
<1>8. Counted(n)[m] = redis[m] + Cardinality(A) /\ redis[m] \in Nat
  BY DEF Counted, TypeOK
<1> HIDE DEF A, B
<1> QED
  BY <1>5, <1>6, <1>7, <1>8

LEMMA StopCauseStep ==
  ASSUME TypeOK, StopCause, [Next]_vars
  PROVE  StopCause'
<1>1. CASE UNCHANGED <<pc, closed, ctx>> /\ (cancelled => cancelled')
  BY <1>1 DEF StopCause
<1>2. CASE Return /\ UNCHANGED <<closed, cancelled>>
  BY <1>2 DEF Return, StopCause, TypeOK
<1>3. CASE Crash \/ Restart
  BY <1>3 DEF Crash, Restart, LoseMemory, StopCause
<1>4. CASE FetcherStop
  BY <1>4 DEF FetcherStop, StopCause, signalVars
<1>5. CASE Recv \/ Tick
  BY <1>5 DEF Recv, Tick, Call, StopCause, fetcherVars, signalVars, callVars
<1>6. CASE Flush
  BY <1>6 DEF Flush, Call, StopCause, fetcherVars, signalVars, callVars
<1>7. CASE (\E p \in Partition : Fetch(p)) \/ Send \/ Cancel \/ Expire \/ Rebalance
  BY <1>1, <1>7 DEF Fetch, Send, Cancel, Expire, Rebalance, fetcherVars, signalVars,
                    callVars
<1>8. CASE ParseValid \/ ParsePoison \/ ParseDone \/ IndexOk \/ ItemAccepted
           \/ ItemRejected \/ ItemRejectedFail \/ ItemsDone \/ RecordOk
  BY <1>8 DEF ParseValid, ParsePoison, ParseDone, IndexOk, ItemAccepted, ItemRejected,
              ItemRejectedFail, ItemsDone, RecordOk, StopCause, fetcherVars, signalVars,
              callVars
<1>9. CASE IndexFail \/ RecordFail
  BY <1>1, <1>2, <1>9 DEF IndexFail, RecordFail, Abort, fetcherVars, signalVars, callVars
<1>10. CASE ParsePoisonFail \/ CommitOk \/ CommitFail
  BY <1>2, <1>10 DEF ParsePoisonFail, Abort, CommitOk, CommitFail, fetcherVars, signalVars
<1>11. CASE UNCHANGED vars
  BY <1>1, <1>11 DEF vars, fetcherVars, signalVars, callVars
<1>12. QED
  BY <1>3, <1>4, <1>5, <1>6, <1>7, <1>8, <1>9, <1>10, <1>11
  DEF Next, Fetcher, Run, ProcessBatch, Environment

LEMMA IndexStep ==
  ASSUME TypeOK, PhaseInv, IndexInv, [Next]_vars
  PROVE  IndexInv'
<1>0. cursor \in Nat /\ \A j \in DOMAIN validIdx : validIdx[j] \in Nat
  <2>1. cursor \in Nat /\ DOMAIN batch = 1 .. Len(batch)
    BY DEF TypeOK
  <2>2. \A j \in DOMAIN validIdx : validIdx[j] \in DOMAIN batch
    BY DocInBatch
  <2>3. QED
    BY <2>1, <2>2
<1>1. CASE UNCHANGED <<validIdx, cursor>> /\ (pc' = "parse" => pc = "parse")
  BY <1>1 DEF IndexInv
<1>2. CASE validIdx' = << >>
  BY <1>2 DEF IndexInv
<1>3. CASE UNCHANGED validIdx /\ pc' # "parse"
  BY <1>3 DEF IndexInv
<1>4. CASE Recv \/ Tick \/ Flush
  <2>1. pc \notin Phases /\ UNCHANGED validIdx
    BY <1>4 DEF Recv, Tick, Flush, Call, callVars, Phases
  <2>2. validIdx' = << >>
    BY <2>1 DEF PhaseInv, IdleInv
  <2>3. QED
    BY <1>2, <2>2
<1>5. CASE ParseValid
  <2>1. /\ pc = "parse" /\ cursor \in DOMAIN batch /\ cursor' = cursor + 1
        /\ validIdx' = Append(validIdx, cursor)
    BY <1>5 DEF ParseValid, TypeOK
  <2>2. /\ DOMAIN validIdx' = 1 .. Len(validIdx) + 1
        /\ DOMAIN validIdx = 1 .. Len(validIdx) /\ Len(validIdx) \in Nat
        /\ \A j \in DOMAIN validIdx : validIdx'[j] = validIdx[j]
        /\ validIdx'[Len(validIdx) + 1] = cursor
    <3>1. validIdx \in Seq(DOMAIN batch)
      BY DEF TypeOK
    <3> QED
      BY <2>1, <3>1, AppendFacts
  <2>4. \A j \in DOMAIN validIdx : validIdx[j] < cursor
    BY <2>1 DEF IndexInv
  <2>5. \A j \in DOMAIN validIdx' : j \in DOMAIN validIdx \/ j = Len(validIdx) + 1
    BY <2>2
  <2>6. ASSUME NEW j \in DOMAIN validIdx', NEW k \in DOMAIN validIdx',
               validIdx'[j] = validIdx'[k]
        PROVE  j = k
    BY <1>0, <2>2, <2>4, <2>5, <2>6 DEF IndexInv
  <2>7. \A j \in DOMAIN validIdx' : validIdx'[j] < cursor'
    BY <1>0, <2>1, <2>2, <2>4, <2>5
  <2>8. QED
    BY <2>6, <2>7 DEF IndexInv
<1>6. CASE ParsePoison
  <2>2. pc = "parse" /\ cursor' = cursor + 1 /\ UNCHANGED validIdx
    BY <1>6 DEF ParsePoison
  <2>3. \A j \in DOMAIN validIdx' : validIdx'[j] < cursor'
    BY <1>0, <2>2 DEF IndexInv
  <2>4. QED
    BY <2>2, <2>3 DEF IndexInv
<1>7. CASE ParseDone \/ IndexOk \/ ItemAccepted \/ ItemRejected \/ ItemRejectedFail
           \/ ItemsDone \/ RecordOk
  BY <1>3, <1>7 DEF ParseDone, IndexOk, ItemAccepted, ItemRejected, ItemRejectedFail,
                    ItemsDone, RecordOk, callVars
<1>8. CASE ParsePoisonFail \/ CommitOk \/ CommitFail \/ Crash \/ Restart
  BY <1>2, <1>8 DEF ParsePoisonFail, Abort, Return, CommitOk, CommitFail, Crash, Restart,
                    LoseMemory
<1>9. CASE IndexFail \/ RecordFail
  BY <1>1, <1>2, <1>9 DEF IndexFail, RecordFail, Abort, Return, callVars
<1>10. CASE (\E p \in Partition : Fetch(p)) \/ Send \/ FetcherStop \/ Cancel \/ Expire
            \/ Rebalance \/ UNCHANGED vars
  BY <1>1, <1>10 DEF Fetch, Send, FetcherStop, Cancel, Expire, Rebalance, vars, callVars
<1>11. QED
  BY <1>4, <1>5, <1>6, <1>7, <1>8, <1>9, <1>10
  DEF Next, Fetcher, Run, ProcessBatch, Environment

LEMMA DueStep ==
  ASSUME TypeOK, TypeOK', IndexInv, StopCause', DueInv, [Next]_vars
  PROVE  DueInv'
<1> SUFFICES ASSUME NEW m \in Msg
             PROVE  Due(m)' <= 2 ^ faults'
  BY DEF DueInv
<1> DEFINE rest == Count(msgChan, m) + Count(held, m) + ToFetch(m) + Owed
<1>1. /\ redis[m] \in Nat /\ redis'[m] \in Nat
      /\ Count(batch, m) \in Nat /\ Count(batch', m) \in Nat
      /\ Count(msgChan, m) \in Nat /\ Count(msgChan', m) \in Nat
      /\ Count(held, m) \in Nat /\ Count(held', m) \in Nat
  BY CountType DEF TypeOK
<1>2. /\ DueInBatch(m) \in {0, Count(batch, m)}
      /\ DueInBatch(m)' \in {0, Count(batch', m)}
      /\ ToFetch(m) \in {0, 1} /\ ToFetch(m)' \in {0, 1}
      /\ Owed \in {0, 1} /\ Owed' \in {0, 1}
  BY DEF DueInBatch, ToFetch, Owed
<1>3. /\ redis[m] + DueInBatch(m) + rest <= 2 ^ faults
      /\ Due(m)' = redis'[m] + DueInBatch(m)' + rest'
  BY <1>1, <1>2 DEF DueInv, Due
<1>4. /\ 2 ^ faults \in Nat /\ 2 ^ faults # 0
      /\ 2 ^ (faults + 1) = 2 ^ faults + 2 ^ faults
  BY PowerDoubles DEF TypeOK
<1>5. /\ DueInBatch(m) \in Nat /\ DueInBatch(m)' \in Nat
      /\ rest \in Nat /\ rest' \in Nat
  BY <1>1, <1>2
<1>6. /\ m[1] \in Partition /\ m[2] \in 0 .. LogLen - 1
      /\ \A p \in Partition : fetchPos[p] \in Nat
      /\ LogLen \in Nat
  BY SizesAssumption DEF TypeOK, Msg, Offset
<1>7. /\ Count(<< >>, m) = 0
  BY CountEmpty

(* A step that is not a fault. *)
<1>8. ASSUME faults' = faults, redis'[m] + DueInBatch(m)' <= redis[m] + DueInBatch(m),
             rest' <= rest
      PROVE  Due(m)' <= 2 ^ faults'
  <2> HIDE DEF rest
  <2> QED
    BY <1>1, <1>3, <1>4, <1>5, <1>8

(* A fault that delivers once more. *)
<1>9. ASSUME faults' = faults + 1,
             redis'[m] + DueInBatch(m)' <= redis[m] + DueInBatch(m), rest' <= rest + 1
      PROVE  Due(m)' <= 2 ^ faults'
  <2> HIDE DEF rest
  <2> QED
    BY <1>1, <1>3, <1>4, <1>5, <1>9

(* A fault that counts the batch and keeps it. *)
<1>10. ASSUME faults' = faults + 1, redis'[m] <= redis[m] + DueInBatch(m),
              DueInBatch(m)' = DueInBatch(m), rest' <= rest
       PROVE  Due(m)' <= 2 ^ faults'
  <2> HIDE DEF rest
  <2>1. redis'[m] + DueInBatch(m)' + rest'
          <= (redis[m] + DueInBatch(m) + rest) + (redis[m] + DueInBatch(m) + rest)
    BY <1>1, <1>5, <1>10
  <2> QED
    BY <1>1, <1>3, <1>4, <1>5, <1>10, <2>1

(* Steps of ProcessBatch leave what is not in the batch alone. *)
<1>11. ASSUME Running, pc' # "down",
              UNCHANGED <<fetchPos, held, msgChan, cancelled>>
       PROVE  rest' <= rest
  <2>1. pc' = "exit" => cancelled
    BY <1>11 DEF StopCause
  <2>2. Owed' <= Owed
    BY <1>11, <2>1 DEF Owed, Running
  <2>3. ToFetch(m)' <= ToFetch(m)
    BY <1>11 DEF ToFetch, Running
  <2>4. QED
    BY <1>1, <1>2, <1>11, <2>2, <2>3

<1>12. ASSUME NEW p \in Partition, Fetch(p)
       PROVE  Due(m)' <= 2 ^ faults'
  <2>1. /\ UNCHANGED <<redis, faults, pc, batch, msgChan, cancelled>>
        /\ held = << >> /\ held' = << <<p, fetchPos[p]>> >>
        /\ fetchPos' = [fetchPos EXCEPT ![p] = @ + 1] /\ Running
    BY <1>12 DEF Fetch, callVars, signalVars, sinkVars
  <2>2. Count(held', m) = IF <<p, fetchPos[p]>> = m THEN 1 ELSE 0
    <3>1. held' \in Seq(Msg) /\ Len(held') = 1 /\ held'[1] = <<p, fetchPos[p]>>
      BY <2>1 DEF TypeOK
    <3>2. QED
      BY <3>1, CountSingle
  <2>3. /\ fetchPos'[m[1]] >= fetchPos[m[1]]
        /\ <<p, fetchPos[p]>> = m => fetchPos[m[1]] <= m[2] /\ ~(fetchPos'[m[1]] <= m[2])
    <3>1. fetchPos \in [Partition -> 0 .. LogLen] /\ fetchPos[p] \in Nat
      BY <1>6 DEF TypeOK
    <3>2. /\ <<p, fetchPos[p]>>[1] = p
          /\ <<p, fetchPos[p]>>[2] = fetchPos[p]
      OBVIOUS
    <3>3. \A q \in Partition :
            fetchPos'[q] = IF q = p THEN fetchPos[p] + 1 ELSE fetchPos[q]
      BY <2>1, <3>1
    <3>4. QED
      BY <1>6, <3>1, <3>2, <3>3
  <2>4. Count(held', m) + ToFetch(m)' <= ToFetch(m)
    <3>1. CASE <<p, fetchPos[p]>> = m
      BY <2>1, <2>2, <2>3, <3>1 DEF ToFetch, Running
    <3>2. CASE <<p, fetchPos[p]>> # m
      <4>1. fetchPos'[m[1]] <= m[2] => fetchPos[m[1]] <= m[2]
        <5>1. fetchPos' \in [Partition -> 0 .. LogLen] /\ fetchPos \in [Partition -> 0 .. LogLen]
          BY DEF TypeOK
        <5>2. fetchPos'[m[1]] \in Nat /\ fetchPos[m[1]] \in Nat /\ m[2] \in Nat
          BY <1>6, <5>1
        <5>3. QED
          BY <2>3, <5>2
      <4>2. QED
        BY <2>1, <2>2, <3>2, <4>1 DEF ToFetch, Running
    <3>3. QED
      BY <3>1, <3>2
  <2>5. Owed' = Owed /\ DueInBatch(m)' = DueInBatch(m)
    BY <2>1 DEF Owed, Running, DueInBatch
  <2>6. rest' <= rest
    BY <1>1, <1>2, <2>1, <2>4, <2>5
  <2>7. QED
    BY <1>1, <1>5, <1>8, <2>1, <2>5, <2>6
<1>13. CASE Send
  <2>1. /\ UNCHANGED <<redis, faults, pc, batch, fetchPos, cancelled>>
        /\ held # << >> /\ held' = << >> /\ msgChan' = msgChan \o held
    BY <1>13 DEF Send, kafkaVars, signalVars, sinkVars
  <2>2. Len(held) = 1 /\ held \in Seq(Msg) /\ msgChan \in Seq(Msg)
    BY <2>1, SingletonSeq DEF TypeOK
  <2>3. Count(held, m) = IF held[1] = m THEN 1 ELSE 0
    BY <2>2, CountSingle
  <2>4. Count(msgChan \o held, m)
          = Count(msgChan, m) + (IF held[1] = m THEN 1 ELSE 0)
    <3> DEFINE t == msgChan \o held
    <3>1. /\ DOMAIN t = 1 .. Len(msgChan) + 1
          /\ \A i \in DOMAIN msgChan : t[i] = msgChan[i]
          /\ t[Len(msgChan) + 1] = held[1]
      BY <2>2, ConcatFacts
    <3> HIDE DEF t
    <3>2. Count(t, m) = Count(msgChan, m) + (IF t[Len(msgChan) + 1] = m THEN 1 ELSE 0)
      BY <2>2, <3>1, CountExtend
    <3>3. QED
      BY <3>1, <3>2 DEF t
  <2>5. /\ Owed' = Owed /\ DueInBatch(m)' = DueInBatch(m) /\ ToFetch(m)' = ToFetch(m)
    BY <2>1 DEF Owed, Running, DueInBatch, ToFetch
  <2>6. rest' <= rest
    BY <1>1, <1>2, <1>7, <2>1, <2>3, <2>4, <2>5
  <2>7. QED
    BY <1>1, <1>5, <1>8, <2>1, <2>5, <2>6
<1>14. CASE FetcherStop
  <2>1. UNCHANGED <<redis, faults, pc, batch, fetchPos, cancelled, msgChan>> /\ held' = << >>
    BY <1>14 DEF FetcherStop, kafkaVars, signalVars, sinkVars
  <2>2. /\ Owed' = Owed /\ DueInBatch(m)' = DueInBatch(m) /\ ToFetch(m)' = ToFetch(m)
    BY <2>1 DEF Owed, Running, DueInBatch, ToFetch
  <2>3. rest' <= rest
    BY <1>1, <1>2, <1>7, <2>1, <2>2
  <2>4. QED
    BY <1>1, <1>5, <1>8, <2>1, <2>2, <2>3
<1>15. CASE Recv
  <2>1. /\ UNCHANGED <<redis, faults, fetchPos, cancelled, held>>
        /\ pc = "select" /\ pc' \in {"select", "parse"}
        /\ msgChan # << >> /\ msgChan' = Tail(msgChan)
        /\ batch' = Append(batch, Head(msgChan))
    BY <1>15 DEF Recv, Call, kafkaVars, signalVars, sinkVars
  <2>2. Count(msgChan, m) = Count(msgChan', m) + (IF Head(msgChan) = m THEN 1 ELSE 0)
    BY <2>1, CountTail DEF TypeOK
  <2>3. Count(Append(batch, Head(msgChan)), m)
          = Count(batch, m) + (IF Head(msgChan) = m THEN 1 ELSE 0)
    <3>1. Head(msgChan) \in Msg /\ batch \in Seq(Msg)
      BY <2>1 DEF TypeOK
    <3> DEFINE t == Append(batch, Head(msgChan))
    <3>2. /\ DOMAIN t = 1 .. Len(batch) + 1
          /\ \A i \in DOMAIN batch : t[i] = batch[i]
          /\ t[Len(batch) + 1] = Head(msgChan)
      BY <3>1, AppendFacts
    <3> HIDE DEF t
    <3>3. Count(t, m) = Count(batch, m) + (IF t[Len(batch) + 1] = m THEN 1 ELSE 0)
      BY <3>1, <3>2, CountExtend
    <3>4. QED
      BY <3>2, <3>3 DEF t
  <2>4. /\ Owed' = Owed /\ ToFetch(m)' = ToFetch(m)
        /\ DueInBatch(m) = Count(batch, m) /\ DueInBatch(m)' = Count(batch', m)
    BY <2>1 DEF Owed, Running, DueInBatch, ToFetch
  <2>5. Due(m)' <= Due(m)
    <3>1. Count(batch', m) = Count(batch, m) + (IF Head(msgChan) = m THEN 1 ELSE 0)
      BY <2>1, <2>3
    <3>2. /\ redis'[m] = redis[m] /\ Count(held', m) = Count(held, m)
      BY <2>1
    <3>3. QED
      BY <1>1, <1>2, <2>2, <2>4, <3>1, <3>2 DEF Due
  <2>6. Due(m) \in Nat /\ Due(m)' \in Nat
    BY <1>1, <1>2 DEF Due
  <2>7. QED
    BY <1>4, <2>1, <2>5, <2>6 DEF DueInv
<1>16. CASE Tick \/ Flush
  <2>1. /\ UNCHANGED <<redis, faults, fetchPos, cancelled, held, msgChan, batch>>
        /\ pc = "select" /\ pc' \in {"parse", "exit"}
    BY <1>16 DEF Tick, Flush, Call, kafkaVars, fetcherVars, signalVars, sinkVars
  <2>2. rest' <= rest
    BY <1>11, <2>1 DEF Running
  <2>3. DueInBatch(m)' = DueInBatch(m)
    BY <2>1 DEF DueInBatch
  <2>4. QED
    BY <1>1, <1>5, <1>8, <2>1, <2>2, <2>3
<1>17. CASE /\ pc \in Phases \ {"commit"} /\ pc' \in Phases
            /\ UNCHANGED <<redis, faults, fetchPos, cancelled, held, msgChan, batch>>
  <2>1. rest' <= rest
    BY <1>11, <1>17 DEF Running, Phases
  <2>2. DueInBatch(m)' <= DueInBatch(m)
    BY <1>1, <1>17 DEF DueInBatch
  <2>3. QED
    BY <1>1, <1>5, <1>8, <1>17, <2>1, <2>2
<1>18. ASSUME pc \in Phases, pc' \in Phases \union {"select", "exit"}, DueInBatch(m)' = 0,
              UNCHANGED <<faults, fetchPos, cancelled, held, msgChan>>,
              redis'[m] <= redis[m] + DueInBatch(m)
       PROVE  Due(m)' <= 2 ^ faults'
  <2>1. rest' <= rest
    BY <1>11, <1>18 DEF Running, Phases
  <2>2. QED
    BY <1>1, <1>5, <1>8, <1>18, <2>1
<1>19. ASSUME Return
       PROVE  DueInBatch(m)' = 0 /\ pc' \in {"select", "exit"}
  BY <1>7, <1>19 DEF Return, DueInBatch
<1>20. CASE ParseValid \/ ParsePoison \/ ParseDone \/ IndexOk \/ ItemAccepted
            \/ ItemRejected \/ ItemRejectedFail \/ ItemsDone
  BY <1>17, <1>20 DEF ParseValid, ParsePoison, ParseDone, IndexOk, ItemAccepted,
     ItemRejected, ItemRejectedFail, ItemsDone, Phases, kafkaVars, fetcherVars,
     signalVars, sinkVars
<1>21. CASE ParsePoisonFail \/ CommitOk \/ CommitFail
  <2>1. /\ Return /\ pc \in Phases
        /\ UNCHANGED <<redis, faults, fetchPos, cancelled, held, msgChan>>
    BY <1>21 DEF ParsePoisonFail, Abort, CommitOk, CommitFail, Phases, kafkaVars,
       fetcherVars, signalVars, sinkVars
  <2>2. redis'[m] <= redis[m] + DueInBatch(m)
    BY <1>1, <1>5, <2>1
  <2>3. QED
    BY <1>18, <1>19, <2>1, <2>2
<1>22. CASE IndexFail
  <2>1. /\ UNCHANGED <<redis, faults, fetchPos, cancelled, held, msgChan>> /\ pc = "index"
    BY <1>22 DEF IndexFail, kafkaVars, fetcherVars, signalVars
  <2>2. Return \/ UNCHANGED <<batch, pc>>
    BY <1>22 DEF IndexFail, Abort
  <2>3. redis'[m] <= redis[m] + DueInBatch(m)
    BY <1>1, <1>5, <2>1
  <2>4. QED
    BY <1>17, <1>18, <1>19, <2>1, <2>2, <2>3 DEF Phases
<1>23. ASSUME pc = "record", NEW n \in Nat, redis' = Counted(n)
       PROVE  redis'[m] <= redis[m] + Count(batch, m) /\ DueInBatch(m) = Count(batch, m)
  BY <1>23, CountedBound DEF DueInBatch
<1>24. CASE RecordOk
  <2>1. /\ UNCHANGED <<faults, fetchPos, cancelled, held, msgChan>>
        /\ pc = "record" /\ pc' = "commit" /\ redis' = Counted(Len(validIdx))
    BY <1>24 DEF RecordOk, kafkaVars, fetcherVars, signalVars
  <2>2. Len(validIdx) \in Nat /\ DueInBatch(m)' = 0
    BY <2>1 DEF TypeOK, DueInBatch
  <2>3. QED
    BY <1>18, <1>23, <2>1, <2>2 DEF Phases
<1>25. CASE RecordFail
  <2>1. PICK n \in 0 .. Len(validIdx) : redis' = Counted(n)
    BY <1>25 DEF RecordFail
  <2>2. /\ UNCHANGED <<fetchPos, cancelled, held, msgChan>> /\ pc = "record"
    BY <1>25 DEF RecordFail, kafkaVars, fetcherVars, signalVars
  <2>3. n \in Nat
    BY DEF TypeOK
  <2>4. redis'[m] <= redis[m] + DueInBatch(m) /\ DueInBatch(m) = Count(batch, m)
    BY <1>23, <2>1, <2>2, <2>3
  <2>5. CASE Abort /\ UNCHANGED faults
    BY <1>18, <1>19, <2>2, <2>4, <2>5 DEF Abort, Phases
  <2>6. CASE faults' = faults + 1 /\ UNCHANGED <<batch, pc, callVars, dropped>>
    <3>1. rest' <= rest /\ DueInBatch(m)' = DueInBatch(m)
      BY <1>11, <2>2, <2>6 DEF Running, DueInBatch
    <3>2. QED
      BY <1>10, <2>4, <2>6, <3>1
  <2>7. QED
    BY <1>25, <2>5, <2>6 DEF RecordFail
<1>26. CASE Cancel \/ Rebalance
  <2>1. /\ UNCHANGED <<redis, held, msgChan, batch, pc>> /\ faults' = faults + 1
        /\ UNCHANGED fetchPos \/ UNCHANGED cancelled
    BY <1>26 DEF Cancel, Rebalance, Inject, kafkaVars, fetcherVars, signalVars, sinkVars
  <2>2. Owed' = Owed \/ ToFetch(m)' = ToFetch(m)
    BY <2>1 DEF Owed, ToFetch, Running
  <2>3. rest' <= rest + 1 /\ DueInBatch(m)' = DueInBatch(m)
    BY <1>1, <1>2, <2>1, <2>2 DEF DueInBatch
  <2>4. QED
    BY <1>1, <1>5, <1>9, <2>1, <2>3
<1>27. CASE Crash
  <2>1. /\ UNCHANGED redis /\ faults' = faults + 1
        /\ batch' = << >> /\ msgChan' = << >> /\ held' = << >> /\ pc' = "down"
    BY <1>27 DEF Crash, Inject, LoseMemory, sinkVars
  <2>2. rest' <= rest + 1 /\ DueInBatch(m)' = 0
    <3>1. ToFetch(m)' = 0 /\ Owed' = 1 /\ DueInBatch(m)' = 0
      BY <1>7, <2>1 DEF ToFetch, Owed, Running, DueInBatch
    <3>2. rest' = 1
      BY <1>7, <2>1, <3>1
    <3>3. QED
      BY <1>5, <3>1, <3>2
  <2>3. QED
    BY <1>1, <1>5, <1>9, <2>1, <2>2
<1>28. CASE Restart
  <2>1. /\ UNCHANGED <<redis, faults>> /\ ~Running
        /\ batch' = << >> /\ msgChan' = << >> /\ held' = << >> /\ pc' = "select"
        /\ cancelled' = FALSE
    BY <1>28 DEF Restart, LoseMemory, sinkVars
  <2>2. Owed = 1 /\ Owed' = 0 /\ DueInBatch(m)' = 0
    BY <1>7, <2>1 DEF Owed, Running, DueInBatch
  <2>3. rest' <= rest
    <3>1. Count(msgChan', m) = 0 /\ Count(held', m) = 0
      BY <1>7, <2>1
    <3>2. QED
      BY <1>1, <1>2, <2>2, <3>1
  <2>4. QED
    BY <1>1, <1>5, <1>8, <2>1, <2>2, <2>3
<1>29. CASE UNCHANGED <<redis, faults, fetchPos, cancelled, held, msgChan, batch, pc>>
  <2>1. Due(m)' = Due(m)
    BY <1>29 DEF Due, DueInBatch, ToFetch, Owed, Running
  <2>2. QED
    BY <1>29, <2>1 DEF DueInv
<1>30. CASE Expire \/ UNCHANGED vars
  BY <1>29, <1>30 DEF Expire, vars, kafkaVars, fetcherVars, signalVars, sinkVars
<1>31. QED
  BY <1>12, <1>13, <1>14, <1>15, <1>16, <1>20, <1>21, <1>22, <1>24, <1>25, <1>26, <1>27,
     <1>28, <1>30
  DEF Next, Fetcher, Run, ProcessBatch, Environment

(* Redelivery after a crash, a stop or a rebalance, and a pipeline that is *)
(* run again, count a message at most twice per fault, on top of what all  *)
(* the faults before it did; without a fault a message is counted once.    *)
THEOREM OverCountBounded == Spec => []OverCountBound
<1>1. Init => DueInv /\ StopCause /\ IndexInv
  <2> SUFFICES ASSUME Init
               PROVE  DueInv /\ StopCause /\ IndexInv
    OBVIOUS
  <2>1. StopCause /\ IndexInv
    BY DEF Init, StopCause, IndexInv
  <2>2. ASSUME NEW m \in Msg
        PROVE  Due(m) <= 2 ^ faults
    <3>1. DueInBatch(m) = 0 /\ Count(msgChan, m) = 0 /\ Count(held, m) = 0
      BY CountEmpty DEF Init, DueInBatch
    <3>2. redis[m] = 0 /\ ToFetch(m) \in {0, 1} /\ Owed = 0
      BY DEF Init, ToFetch, Owed, Running
    <3>3. 2 ^ faults = 1
      BY PowerOfZero DEF Init
    <3>4. QED
      BY <3>1, <3>2, <3>3 DEF Due
  <2>3. QED
    BY <2>1, <2>2 DEF DueInv
<1>2. Inv /\ Inv' /\ StopCause /\ IndexInv /\ DueInv /\ [Next]_vars
        => (StopCause /\ IndexInv /\ DueInv)'
  BY StopCauseStep, IndexStep, DueStep DEF Inv
<1>3. Inv /\ DueInv => OverCountBound
  <2> SUFFICES ASSUME TypeOK, DueInv, NEW m \in Msg
               PROVE  redis[m] <= 2 ^ faults
    BY DEF Inv, OverCountBound
  <2>1. /\ redis[m] \in Nat /\ Count(batch, m) \in Nat
        /\ Count(msgChan, m) \in Nat /\ Count(held, m) \in Nat
        /\ 2 ^ faults \in Nat
    <3>1. /\ batch \in Seq(Msg) /\ msgChan \in Seq(Msg) /\ held \in Seq(Msg)
          /\ faults \in Nat /\ redis \in [Msg -> Nat]
      BY DEF TypeOK
    <3>2. Count(batch, m) \in Nat /\ Count(msgChan, m) \in Nat /\ Count(held, m) \in Nat
      BY <3>1, CountType
    <3>3. 2 ^ faults \in Nat
      BY <3>1, PowerDoubles
    <3>4. QED
      BY <3>1, <3>2, <3>3
  <2>2. DueInBatch(m) \in Nat /\ ToFetch(m) \in Nat /\ Owed \in Nat
    BY <2>1 DEF DueInBatch, ToFetch, Owed
  <2>3. QED
    BY <2>1, <2>2 DEF DueInv, Due
<1>4. QED
  BY <1>1, <1>2, <1>3, InvCorrect, PTL DEF Spec
=============================================================================
