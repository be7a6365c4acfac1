------------------------- MODULE RedisMetricsProofs -------------------------
(***************************************************************************)
(* Proofs about RedisMetrics, for any number of processors and services,   *)
(* any batches of logs, and any interleaving of their commands with broken *)
(* connections, expiring keys and the query of the live metrics.           *)
(***************************************************************************)
EXTENDS RedisMetrics, SumFacts, SequenceTheorems

(* The log whose commands Redis executes for w. *)
Here(w) == batch[w][nth[w]]

(* The writers that wait for one of the commands in P of a log of a service *)
(* in S.                                                                   *)
At(S, P) == {w \in Writer : Left(w) /\ cmd[w] \in P /\ Here(w)[1] \in S}

-----------------------------------------------------------------------------
(* Keys of different kinds, or of different services, are different. *)
LEMMA KeysDiffer ==
  ASSUME NEW s \in Service, NEW t \in Service, NEW l \in Level, NEW m \in Log
  PROVE  /\ Total # OfService(t) /\ Total # Ranked(t) /\ Total # Errors(t) /\ Total # Last5m(t)
         /\ OfService(s) # Ranked(t) /\ OfService(s) # Errors(t) /\ OfService(s) # Last5m(t)
         /\ Ranked(s) # Errors(t) /\ Ranked(s) # Last5m(t) /\ Errors(s) # Last5m(t)
         /\ OfLevel(l) # Total /\ OfLevel(l) # OfService(t) /\ OfLevel(l) # Ranked(t)
         /\ OfLevel(l) # Errors(t) /\ OfLevel(l) # Last5m(t)
         /\ Message(m) # Total /\ Message(m) # OfService(t) /\ Message(m) # Ranked(t)
         /\ Message(m) # Errors(t) /\ Message(m) # Last5m(t)
         /\ (OfService(s) = OfService(t) => s = t)
         /\ (Ranked(s) = Ranked(t) => s = t)
         /\ (Errors(s) = Errors(t) => s = t)
         /\ (Last5m(s) = Last5m(t) => s = t)
BY DEF Total, OfService, Ranked, Errors, Last5m, OfLevel, Message

LEMMA KeysTyped ==
  /\ Total \in Key
  /\ \A s \in Service : {OfService(s), Ranked(s), Errors(s), Last5m(s)} \subseteq Key
  /\ \A l \in Level : OfLevel(l) \in Key
  /\ \A m \in Log : Message(m) \in Key
BY DEF Key

LEMMA LogParts ==
  ASSUME NEW m \in Log
  PROVE  m[1] \in Service /\ m[2] \in Level
BY LogAssumption

(* The commands of a log, one by one. *)
LEMMA CommandsOfInfo ==
  ASSUME NEW m \in Log, m[2] # "ERROR"
  PROVE  /\ Len(Commands(m)) = 4 /\ DOMAIN Commands(m) = 1 .. 4
         /\ Commands(m)[1] = Incr(Total) /\ Commands(m)[2] = Incr(OfService(m[1]))
         /\ Commands(m)[3] = Incr(OfLevel(m[2])) /\ Commands(m)[4] = Incr(Ranked(m[1]))
<1>1. Commands(m) = << Incr(Total), Incr(OfService(m[1])), Incr(OfLevel(m[2])), Incr(Ranked(m[1])) >>
                      \o << >>
  BY DEF Commands
<1>2. Commands(m) = << Incr(Total), Incr(OfService(m[1])), Incr(OfLevel(m[2])), Incr(Ranked(m[1])) >>
  BY <1>1
<1> QED
  BY <1>2

LEMMA CommandsOfError ==
  ASSUME NEW m \in Log, m[2] = "ERROR"
  PROVE  /\ Len(Commands(m)) = 10 /\ DOMAIN Commands(m) = 1 .. 10
         /\ Commands(m)[1] = Incr(Total) /\ Commands(m)[2] = Incr(OfService(m[1]))
         /\ Commands(m)[3] = Incr(OfLevel(m[2])) /\ Commands(m)[4] = Incr(Ranked(m[1]))
         /\ Commands(m)[5] = Incr(Errors(m[1])) /\ Commands(m)[6] = Incr(Last5m(m[1]))
         /\ Commands(m)[7] = [op |-> "expire", service |-> m[1]]
         /\ Commands(m)[8] = Incr(Message(m))
         /\ Commands(m)[9] = [op |-> "lpush", service |-> m[1]]
         /\ Commands(m)[10] = [op |-> "ltrim", service |-> m[1]]
<1> DEFINE a1 == Incr(Total)
           a2 == Incr(OfService(m[1]))
           a3 == Incr(OfLevel(m[2]))
           a4 == Incr(Ranked(m[1]))
           b1 == Incr(Errors(m[1]))
           b2 == Incr(Last5m(m[1]))
           b3 == [op |-> "expire", service |-> m[1]]
           b4 == Incr(Message(m))
           b5 == [op |-> "lpush", service |-> m[1]]
           b6 == [op |-> "ltrim", service |-> m[1]]
<1>1. Commands(m) = << a1, a2, a3, a4 >> \o << b1, b2, b3, b4, b5, b6 >>
  BY DEF Commands, OnError
<1> DEFINE S == {a1, a2, a3, a4, b1, b2, b3, b4, b5, b6}
           p == << a1, a2, a3, a4 >>
           q == << b1, b2, b3, b4, b5, b6 >>
<1> HIDE DEF a1, a2, a3, a4, b1, b2, b3, b4, b5, b6
<1>2. p \in Seq(S) /\ Len(p) = 4
  OBVIOUS
<1>3. q \in Seq(S) /\ Len(q) = 6
  OBVIOUS
<1>4. /\ p[1] = a1 /\ p[2] = a2 /\ p[3] = a3 /\ p[4] = a4
      /\ q[1] = b1 /\ q[2] = b2 /\ q[3] = b3 /\ q[4] = b4 /\ q[5] = b5 /\ q[6] = b6
  OBVIOUS
<1> HIDE DEF S, p, q
<1> DEFINE r == p \o q
<1>5. /\ r \in Seq(S) /\ Len(r) = 10 /\ DOMAIN r = 1 .. 10
      /\ \A i \in 1 .. 10 : r[i] = IF i <= 4 THEN p[i] ELSE q[i - 4]
  <2>1. /\ p \o q \in Seq(S) /\ Len(p \o q) = Len(p) + Len(q)
        /\ \A i \in 1 .. Len(p) + Len(q) :
             (p \o q)[i] = IF i <= Len(p) THEN p[i] ELSE q[i - Len(p)]
    BY <1>2, <1>3, ConcatProperties, Zenon
  <2>2. Len(p) + Len(q) = 10
    BY <1>2, <1>3
  <2> HIDE DEF r
  <2>3. /\ r \in Seq(S) /\ Len(r) = 10
        /\ \A i \in 1 .. 10 : r[i] = IF i <= 4 THEN p[i] ELSE q[i - 4]
    BY <1>2, <2>1, <2>2, Zenon DEF r
  <2>4. DOMAIN r = 1 .. 10
    BY <2>3
  <2> QED
    BY <2>3, <2>4
<1>6. Commands(m) = r
  BY <1>1 DEF p, q
<1> HIDE DEF r
<1>7. r[1] = p[1] /\ r[2] = p[2] /\ r[3] = p[3] /\ r[4] = p[4]
  BY <1>5
<1>8. r[5] = q[1] /\ r[6] = q[2] /\ r[7] = q[3]
  BY <1>5
<1>9. r[8] = q[4] /\ r[9] = q[5] /\ r[10] = q[6]
  BY <1>5
<1> QED
  BY <1>4, <1>5, <1>6, <1>7, <1>8, <1>9, Zenon DEF a1, a2, a3, a4, b1, b2, b3, b4, b5, b6

-----------------------------------------------------------------------------
(***************************************************************************)
(* One command.                                                            *)
(***************************************************************************)

(* Where a writer can be. *)
LEMMA PlaceTyped ==
  ASSUME TypeOK, NEW w \in Writer
  PROVE  /\ batch[w] \in Seq(Log) /\ nth[w] \in Nat /\ cmd[w] \in Nat
         /\ (~Left(w) => nth[w] = Len(batch[w]) + 1 /\ cmd[w] = 1)
         /\ (Left(w) => /\ nth[w] \in 1 .. Len(batch[w]) /\ Here(w) \in Log
                        /\ Here(w)[1] \in Service /\ Here(w)[2] \in Level
                        /\ Queued(w) = Commands(Here(w)) /\ cmd[w] \in DOMAIN Queued(w)
                        /\ cmd[w] \in 1 .. 10
                        /\ (cmd[w] > 4 => Here(w)[2] = "ERROR"))
<1>1. batch[w] \in Batches \union {<< >>} /\ nth[w] \in Nat /\ cmd[w] \in Nat
  BY DEF TypeOK
<1>2. batch[w] \in Seq(Log)
  <2>1. << >> \in Seq(Log)
    OBVIOUS
  <2>2. Batches \subseteq Seq(Log)
    BY LogAssumption
  <2> QED
    BY <1>1, <2>1, <2>2, Zenon
<1>3. IF Left(w) THEN cmd[w] \in DOMAIN Queued(w) ELSE nth[w] = Len(batch[w]) + 1 /\ cmd[w] = 1
  BY DEF TypeOK
<1>4. ASSUME Left(w)
      PROVE  /\ nth[w] \in 1 .. Len(batch[w]) /\ Here(w) \in Log
             /\ Here(w)[1] \in Service /\ Here(w)[2] \in Level
             /\ Queued(w) = Commands(Here(w)) /\ cmd[w] \in DOMAIN Queued(w)
             /\ cmd[w] \in 1 .. 10
             /\ (cmd[w] > 4 => Here(w)[2] = "ERROR")
  <2>1. nth[w] \in 1 .. Len(batch[w])
    BY <1>2, <1>4 DEF Left
  <2>2. Here(w) \in Log
    BY <1>2, <2>1 DEF Here
  <2>3. Here(w)[1] \in Service /\ Here(w)[2] \in Level
    BY <2>2, LogParts
  <2>4. Queued(w) = Commands(Here(w)) /\ cmd[w] \in DOMAIN Queued(w)
    BY <1>3, <1>4 DEF Queued, Here
  <2>5. CASE Here(w)[2] = "ERROR"
    <3>1. DOMAIN Commands(Here(w)) = 1 .. 10
      BY <2>2, <2>5, CommandsOfError
    <3> QED
      BY <2>1, <2>2, <2>3, <2>4, <2>5, <3>1
  <2>6. CASE Here(w)[2] # "ERROR"
    <3>1. DOMAIN Commands(Here(w)) = 1 .. 4
      BY <2>2, <2>6, CommandsOfInfo
    <3> QED
      BY <2>1, <2>2, <2>3, <2>4, <2>6, <3>1
  <2> QED
    BY <2>5, <2>6
<1> QED
  BY <1>1, <1>2, <1>3, <1>4

(* How the place of w changes, and what the command does. *)
Moves(w) ==
  /\ nth' \in [Writer -> Nat] /\ cmd' \in [Writer -> Nat] /\ batch' = batch
  /\ \A v \in Writer \ {w} : nth'[v] = nth[v] /\ cmd'[v] = cmd[v]
  /\ IF cmd[w] < Len(Queued(w)) THEN nth'[w] = nth[w] /\ cmd'[w] = cmd[w] + 1
                                ELSE nth'[w] = nth[w] + 1 /\ cmd'[w] = 1

Raises(k) ==
  k \in Key /\ count' = [count EXCEPT ![k] = @ + 1] /\ UNCHANGED <<expiry, recent, oldest>>

Effect(w) ==
  LET s == Here(w)[1] IN
    \/ cmd[w] = 1 /\ Raises(Total)
    \/ cmd[w] = 2 /\ Raises(OfService(s))
    \/ cmd[w] = 3 /\ Raises(OfLevel(Here(w)[2]))
    \/ cmd[w] = 4 /\ Raises(Ranked(s))
    \/ cmd[w] = 5 /\ Raises(Errors(s))
    \/ cmd[w] = 6 /\ Raises(Last5m(s))
    \/ /\ cmd[w] = 7
       /\ IF count[Last5m(s)] > 0
          THEN /\ expiry' = [expiry EXCEPT ![s] = now + Window]
               /\ oldest' = [oldest EXCEPT ![s] = IF @ = 0 THEN now ELSE @]
          ELSE UNCHANGED <<expiry, oldest>>
       /\ UNCHANGED <<count, recent>>
    \/ cmd[w] = 8 /\ Raises(Message(Here(w)))
    \/ /\ cmd[w] = 9
       /\ recent' = [recent EXCEPT ![s] = @ + 1]
       /\ UNCHANGED <<count, expiry, oldest>>
    \/ /\ cmd[w] = 10
       /\ recent' = [recent EXCEPT ![s] = IF @ > RecentMax THEN RecentMax ELSE @]
       /\ UNCHANGED <<count, expiry, oldest>>

Exec(w) == ExecIncr(w) \/ ExecExpire(w) \/ ExecPush(w) \/ ExecTrim(w)

(* The command at each place. *)
LEMMA CommandAt ==
  ASSUME TypeOK, NEW w \in Writer, Left(w)
  PROVE  LET s == Here(w)[1] IN
           \/ cmd[w] = 1 /\ Current(w) = Incr(Total)
           \/ cmd[w] = 2 /\ Current(w) = Incr(OfService(s))
           \/ cmd[w] = 3 /\ Current(w) = Incr(OfLevel(Here(w)[2]))
           \/ cmd[w] = 4 /\ Current(w) = Incr(Ranked(s))
           \/ cmd[w] = 5 /\ Current(w) = Incr(Errors(s))
           \/ cmd[w] = 6 /\ Current(w) = Incr(Last5m(s))
           \/ cmd[w] = 7 /\ Current(w) = [op |-> "expire", service |-> s]
           \/ cmd[w] = 8 /\ Current(w) = Incr(Message(Here(w)))
           \/ cmd[w] = 9 /\ Current(w) = [op |-> "lpush", service |-> s]
           \/ cmd[w] = 10 /\ Current(w) = [op |-> "ltrim", service |-> s]
<1>1. /\ Here(w) \in Log /\ cmd[w] \in 1 .. 10 /\ (cmd[w] > 4 => Here(w)[2] = "ERROR")
      /\ Queued(w) = Commands(Here(w)) /\ cmd[w] \in DOMAIN Queued(w)
  BY PlaceTyped
<1>2. Current(w) = Commands(Here(w))[cmd[w]]
  BY <1>1 DEF Current
<1>3. CASE Here(w)[2] # "ERROR"
  <2>1. cmd[w] \in 1 .. 4
    BY <1>1, <1>3
  <2>2. cmd[w] = 1 \/ cmd[w] = 2 \/ cmd[w] = 3 \/ cmd[w] = 4
    BY <2>1
  <2>3. /\ Commands(Here(w))[1] = Incr(Total) /\ Commands(Here(w))[2] = Incr(OfService(Here(w)[1]))
        /\ Commands(Here(w))[3] = Incr(OfLevel(Here(w)[2]))
        /\ Commands(Here(w))[4] = Incr(Ranked(Here(w)[1]))
    BY <1>1, <1>3, CommandsOfInfo, Zenon
  <2> QED
    BY <1>2, <2>2, <2>3, Zenon
<1>4. CASE Here(w)[2] = "ERROR"
  <2>1. \/ cmd[w] = 1 \/ cmd[w] = 2 \/ cmd[w] = 3 \/ cmd[w] = 4 \/ cmd[w] = 5
        \/ cmd[w] = 6 \/ cmd[w] = 7 \/ cmd[w] = 8 \/ cmd[w] = 9 \/ cmd[w] = 10
    BY <1>1
  <2> DEFINE m == Here(w)
  <2>2. /\ Commands(m)[1] = Incr(Total) /\ Commands(m)[2] = Incr(OfService(m[1]))
        /\ Commands(m)[3] = Incr(OfLevel(m[2])) /\ Commands(m)[4] = Incr(Ranked(m[1]))
        /\ Commands(m)[5] = Incr(Errors(m[1])) /\ Commands(m)[6] = Incr(Last5m(m[1]))
        /\ Commands(m)[7] = [op |-> "expire", service |-> m[1]]
        /\ Commands(m)[8] = Incr(Message(m))
        /\ Commands(m)[9] = [op |-> "lpush", service |-> m[1]]
        /\ Commands(m)[10] = [op |-> "ltrim", service |-> m[1]]
    BY <1>1, <1>4, CommandsOfError, Zenon
  <2>3. \A i : cmd[w] = i => Current(w) = Commands(m)[i]
    BY <1>2
  <2> HIDE DEF m
  <2> QED
    BY <2>1, <2>2, <2>3, Zenon DEF m
<1> QED
  BY <1>3, <1>4

(* A command does what its place says and goes on to the next place. *)
LEMMA ExecStep ==
  ASSUME TypeOK, NEW w \in Writer, Exec(w)
  PROVE  Left(w) /\ Moves(w) /\ Effect(w) /\ UNCHANGED <<now, batch, reader, calls, breaks>>
<1>1. Left(w) /\ Advance(w) /\ UNCHANGED <<now, batch, reader, calls, breaks>>
  BY DEF Exec, ExecIncr, ExecExpire, ExecPush, ExecTrim, Executes, boundVars
<1>2. Moves(w)
  <2>1. nth \in [Writer -> Nat] /\ cmd \in [Writer -> Nat]
    BY DEF TypeOK
  <2>2. CASE cmd[w] < Len(Queued(w))
    <3>1. cmd' = [cmd EXCEPT ![w] = @ + 1] /\ nth' = nth
      BY <1>1, <2>2 DEF Advance
    <3> QED
      BY <1>1, <2>1, <2>2, <3>1 DEF Moves
  <2>3. CASE ~(cmd[w] < Len(Queued(w)))
    <3>1. cmd' = [cmd EXCEPT ![w] = 1] /\ nth' = [nth EXCEPT ![w] = @ + 1]
      BY <1>1, <2>3 DEF Advance
    <3> QED
      BY <1>1, <2>1, <2>3, <3>1 DEF Moves
  <2> QED
    BY <2>2, <2>3
<1>3. /\ Here(w) \in Log /\ Here(w)[1] \in Service /\ Here(w)[2] \in Level
  BY <1>1, PlaceTyped
<1> DEFINE s == Here(w)[1]
<1>4. /\ Total \in Key /\ OfService(s) \in Key /\ Ranked(s) \in Key /\ Errors(s) \in Key
      /\ Last5m(s) \in Key /\ OfLevel(Here(w)[2]) \in Key /\ Message(Here(w)) \in Key
  BY <1>3, KeysTyped
<1>5. \/ cmd[w] = 1 /\ Current(w) = Incr(Total)
      \/ cmd[w] = 2 /\ Current(w) = Incr(OfService(s))
      \/ cmd[w] = 3 /\ Current(w) = Incr(OfLevel(Here(w)[2]))
      \/ cmd[w] = 4 /\ Current(w) = Incr(Ranked(s))
      \/ cmd[w] = 5 /\ Current(w) = Incr(Errors(s))
      \/ cmd[w] = 6 /\ Current(w) = Incr(Last5m(s))
      \/ cmd[w] = 7 /\ Current(w) = [op |-> "expire", service |-> s]
      \/ cmd[w] = 8 /\ Current(w) = Incr(Message(Here(w)))
      \/ cmd[w] = 9 /\ Current(w) = [op |-> "lpush", service |-> s]
      \/ cmd[w] = 10 /\ Current(w) = [op |-> "ltrim", service |-> s]
  BY <1>1, CommandAt
<1>6. ASSUME NEW k, k \in Key, Current(w) = Incr(k)
      PROVE  Raises(k)
  <2>1. Current(w).op = "incr" /\ Current(w).key = k
    BY <1>6 DEF Incr
  <2>2. ExecIncr(w)
    BY <2>1 DEF Exec, ExecIncr, ExecExpire, ExecPush, ExecTrim, Executes
  <2> QED
    BY <1>6, <2>1, <2>2 DEF ExecIncr, Raises
<1>7. ASSUME cmd[w] = 7, Current(w) = [op |-> "expire", service |-> s]
      PROVE  Effect(w)
  <2>1. Current(w).op = "expire" /\ Current(w).service = s
    BY <1>7
  <2>2. ExecExpire(w)
    BY <2>1 DEF Exec, ExecIncr, ExecExpire, ExecPush, ExecTrim, Executes
  <2>3. /\ IF count[Last5m(s)] > 0
           THEN /\ expiry' = [expiry EXCEPT ![s] = now + Window]
                /\ oldest' = [oldest EXCEPT ![s] = IF @ = 0 THEN now ELSE @]
           ELSE UNCHANGED <<expiry, oldest>>
        /\ UNCHANGED <<count, recent>>
    BY <2>1, <2>2 DEF ExecExpire
  <2> QED
    BY <1>7, <2>3, Zenon DEF Effect
<1>8. ASSUME cmd[w] = 9, Current(w) = [op |-> "lpush", service |-> s]
      PROVE  Effect(w)
  <2>1. Current(w).op = "lpush" /\ Current(w).service = s
    BY <1>8
  <2>2. ExecPush(w)
    BY <2>1 DEF Exec, ExecIncr, ExecExpire, ExecPush, ExecTrim, Executes
  <2>3. recent' = [recent EXCEPT ![s] = @ + 1] /\ UNCHANGED <<count, expiry, oldest>>
    BY <2>1, <2>2 DEF ExecPush
  <2> QED
    BY <1>8, <2>3, Zenon DEF Effect
<1>9. ASSUME cmd[w] = 10, Current(w) = [op |-> "ltrim", service |-> s]
      PROVE  Effect(w)
  <2>1. Current(w).op = "ltrim" /\ Current(w).service = s
    BY <1>9
  <2>2. ExecTrim(w)
    BY <2>1 DEF Exec, ExecIncr, ExecExpire, ExecPush, ExecTrim, Executes
  <2>3. /\ recent' = [recent EXCEPT ![s] = IF @ > RecentMax THEN RecentMax ELSE @]
        /\ UNCHANGED <<count, expiry, oldest>>
    BY <2>1, <2>2 DEF ExecTrim
  <2> QED
    BY <1>9, <2>3, Zenon DEF Effect
<1>10. Effect(w)
  BY <1>4, <1>5, <1>6, <1>7, <1>8, <1>9, Zenon DEF Effect
<1> QED
  BY <1>1, <1>2, <1>10

-----------------------------------------------------------------------------
(***************************************************************************)
(* Types.                                                                  *)
(***************************************************************************)

(* A place in the commands of a batch; TypeOK says that each writer is at  *)
(* one.                                                                    *)
Place(b, n, c) ==
  IF n \in DOMAIN b THEN c \in DOMAIN Commands(b[n]) ELSE n = Len(b) + 1 /\ c = 1

LEMMA CommandsTyped ==
  ASSUME NEW m \in Log
  PROVE  Len(Commands(m)) \in {4, 10} /\ DOMAIN Commands(m) = 1 .. Len(Commands(m))
<1>1. CASE m[2] = "ERROR"
  BY <1>1, CommandsOfError
<1>2. CASE m[2] # "ERROR"
  BY <1>2, CommandsOfInfo
<1> QED
  BY <1>1, <1>2

LEMMA PlaceFirst ==
  ASSUME NEW b \in Seq(Log)
  PROVE  Place(b, 1, 1)
<1>1. CASE 1 \in DOMAIN b
  <2>1. b[1] \in Log
    BY <1>1
  <2>2. 1 \in DOMAIN Commands(b[1])
    BY <2>1, CommandsTyped
  <2> QED
    BY <1>1, <2>2 DEF Place
<1>2. CASE 1 \notin DOMAIN b
  <2>1. DOMAIN b = 1 .. Len(b) /\ Len(b) \in Nat
    OBVIOUS
  <2>2. Len(b) = 0
    BY <1>2, <2>1
  <2> QED
    BY <1>2, <2>2 DEF Place
<1> QED
  BY <1>1, <1>2

LEMMA PlaceNext ==
  ASSUME NEW b \in Seq(Log), NEW n \in DOMAIN b, NEW c \in DOMAIN Commands(b[n])
  PROVE  IF c < Len(Commands(b[n])) THEN Place(b, n, c + 1) ELSE Place(b, n + 1, 1)
<1>1. b[n] \in Log
  OBVIOUS
<1>2. /\ Len(Commands(b[n])) \in {4, 10} /\ DOMAIN Commands(b[n]) = 1 .. Len(Commands(b[n]))
  BY <1>1, CommandsTyped
<1>3. CASE c < Len(Commands(b[n]))
  <2>1. c + 1 \in DOMAIN Commands(b[n])
    BY <1>2, <1>3
  <2> QED
    BY <1>3, <2>1 DEF Place
<1>4. CASE ~(c < Len(Commands(b[n])))
  <2>1. DOMAIN b = 1 .. Len(b) /\ Len(b) \in Nat
    OBVIOUS
  <2>2. CASE n + 1 \in DOMAIN b
    <3>1. b[n + 1] \in Log
      BY <2>2
    <3>2. 1 \in DOMAIN Commands(b[n + 1])
      BY <3>1, CommandsTyped
    <3> QED
      BY <1>4, <2>2, <3>2 DEF Place
  <2>3. CASE n + 1 \notin DOMAIN b
    <3>1. n + 1 = Len(b) + 1
      BY <2>1, <2>3
    <3> QED
      BY <1>4, <2>3, <3>1 DEF Place
  <2> QED
    BY <2>2, <2>3
<1> QED
  BY <1>3, <1>4

(* The part of TypeOK about the writers, and the rest. *)
WriterTypes ==
  /\ batch \in [Writer -> Batches \union {<< >>}]
  /\ nth \in [Writer -> Nat] /\ cmd \in [Writer -> Nat]
  /\ \A w \in Writer : Place(batch[w], nth[w], cmd[w])

RedisTypes ==
  /\ count \in [Key -> Nat]
  /\ expiry \in [Service -> 0 .. MaxTime + Window]
  /\ recent \in [Service -> Nat]
  /\ now \in Time
  /\ oldest \in [Service -> 0 .. MaxTime]

ReaderTypes ==
  reader \in [phase : {"idle", "list", "query", "done"}, total : Nat,
              todo : SUBSET Service, logs : Nat, open : Nat, failed : BOOLEAN]

BoundTypes == calls \in 0 .. MaxBatches /\ breaks \in 0 .. MaxBreaks

LEMMA TypeParts == TypeOK <=> WriterTypes /\ RedisTypes /\ ReaderTypes /\ BoundTypes
<1>1. ASSUME NEW w \in Writer
      PROVE  Place(batch[w], nth[w], cmd[w])
               <=> IF Left(w) THEN cmd[w] \in DOMAIN Queued(w)
                              ELSE nth[w] = Len(batch[w]) + 1 /\ cmd[w] = 1
  BY DEF Place, Left, Queued
<1> QED
  BY <1>1 DEF TypeOK, WriterTypes, RedisTypes, ReaderTypes, BoundTypes

LEMMA BatchSeq ==
  ASSUME NEW b \in Batches \union {<< >>}
  PROVE  b \in Seq(Log)
<1>1. << >> \in Seq(Log)
  OBVIOUS
<1>2. Batches \subseteq Seq(Log)
  BY LogAssumption
<1> QED
  BY <1>1, <1>2, Zenon

(* The steps of the writers. *)
LEMMA WriterTypesStep ==
  ASSUME TypeOK, Next
  PROVE  WriterTypes'
<1>1. WriterTypes
  BY TypeParts
<1>2. /\ batch \in [Writer -> Batches \union {<< >>}]
      /\ nth \in [Writer -> Nat] /\ cmd \in [Writer -> Nat]
      /\ \A w \in Writer : Place(batch[w], nth[w], cmd[w])
  BY <1>1 DEF WriterTypes
<1>3. << >> \in Seq(Log)
  OBVIOUS
<1>4. ASSUME NEW w \in Writer, NEW b \in Batches, RecordBatch(w, b)
      PROVE  WriterTypes'
  <2>1. batch[w] = << >> /\ batch' = [batch EXCEPT ![w] = b] /\ nth' = nth /\ cmd' = cmd
    BY <1>4 DEF RecordBatch
  <2>2. nth[w] = 1 /\ cmd[w] = 1
    <3>1. Place(batch[w], nth[w], cmd[w]) /\ batch[w] = << >>
      BY <1>2, <2>1
    <3> QED
      BY <3>1 DEF Place
  <2>3. Place(b, 1, 1)
    BY PlaceFirst, BatchSeq
  <2>4. \A v \in Writer : Place(batch'[v], nth'[v], cmd'[v])
    BY <1>2, <2>1, <2>2, <2>3
  <2>5. batch' \in [Writer -> Batches \union {<< >>}]
    BY <1>2, <2>1
  <2> QED
    BY <1>2, <2>1, <2>4, <2>5 DEF WriterTypes
<1>5. ASSUME NEW w \in Writer, Exec(w)
      PROVE  WriterTypes'
  <2>1. Left(w) /\ Moves(w)
    BY <1>5, ExecStep
  <2>2. /\ nth' \in [Writer -> Nat] /\ cmd' \in [Writer -> Nat] /\ batch' = batch
        /\ \A v \in Writer \ {w} : nth'[v] = nth[v] /\ cmd'[v] = cmd[v]
        /\ IF cmd[w] < Len(Commands(batch[w][nth[w]]))
             THEN nth'[w] = nth[w] /\ cmd'[w] = cmd[w] + 1
             ELSE nth'[w] = nth[w] + 1 /\ cmd'[w] = 1
    BY <2>1 DEF Moves, Queued
  <2>3. batch[w] \in Seq(Log) /\ nth[w] \in DOMAIN batch[w]
    BY <1>2, <2>1, BatchSeq DEF Left
  <2>4. cmd[w] \in DOMAIN Commands(batch[w][nth[w]])
    BY <1>2, <2>3 DEF Place
  <2>5. Place(batch[w], nth'[w], cmd'[w])
    <3>1. IF cmd[w] < Len(Commands(batch[w][nth[w]]))
          THEN Place(batch[w], nth[w], cmd[w] + 1) ELSE Place(batch[w], nth[w] + 1, 1)
      BY <2>3, <2>4, PlaceNext
    <3> QED
      BY <2>2, <3>1
  <2>6. \A v \in Writer : Place(batch'[v], nth'[v], cmd'[v])
    BY <1>2, <2>2, <2>5
  <2> QED
    BY <1>2, <2>2, <2>6 DEF WriterTypes
<1>6. ASSUME NEW w \in Writer, Recorded(w) \/ Break(w)
      PROVE  WriterTypes'
  <2>1. /\ nth' = [nth EXCEPT ![w] = 1]
        /\ batch' = batch \/ batch' = [batch EXCEPT ![w] = << >>]
    BY <1>6 DEF Recorded, Break
  <2>2. cmd' = [cmd EXCEPT ![w] = 1]
    <3>1. CASE Recorded(w)
      <4>1. cmd' = cmd /\ ~Left(w)
        BY <3>1 DEF Recorded
      <4>2. cmd[w] = 1
        BY <4>1, PlaceTyped
      <4> QED
        BY <1>2, <4>1, <4>2
    <3>2. CASE Break(w)
      BY <3>2 DEF Break
    <3> QED
      BY <1>6, <3>1, <3>2
  <2>3. batch' \in [Writer -> Batches \union {<< >>}]
    BY <1>2, <2>1
  <2>4. batch'[w] \in Seq(Log)
    BY <2>3, BatchSeq
  <2>5. Place(batch'[w], 1, 1)
    BY <2>4, PlaceFirst
  <2>6. \A v \in Writer \ {w} : batch'[v] = batch[v]
    BY <1>2, <2>1
  <2>7. \A v \in Writer : Place(batch'[v], nth'[v], cmd'[v])
    BY <1>2, <2>1, <2>2, <2>5, <2>6
  <2> QED
    BY <1>2, <2>1, <2>2, <2>3, <2>7 DEF WriterTypes
<1>7. ASSUME Clock \/ GetLiveMetrics
      PROVE  WriterTypes'
  <2>1. batch' = batch /\ nth' = nth /\ cmd' = cmd
    BY <1>7 DEF Clock, GetLiveMetrics, ReadTotal, ListServices, ReadService, ReadBreaks, Respond,
                writerVars
  <2> QED
    BY <1>2, <2>1 DEF WriterTypes
<1> QED
  BY <1>4, <1>5, <1>6, <1>7 DEF Next, Record, Exec

(* The calls that send no command: a call begins, or returns nil. *)
Call(w) == (\E b \in Batches : RecordBatch(w, b)) \/ Recorded(w)

LEMMA StepKinds ==
  ASSUME Next
  PROVE  (\E w \in Writer : Exec(w) \/ Call(w) \/ Break(w)) \/ Clock \/ GetLiveMetrics
BY DEF Next, Record, Exec, Call

(* What Redis holds changes only with a command and with the clock. *)
LEMMA RedisKept ==
  ASSUME TypeOK
  PROVE  /\ \A w \in Writer : Call(w) => UNCHANGED <<redisVars, now, oldest, reader, breaks>>
         /\ \A w \in Writer : Break(w) =>
              UNCHANGED <<redisVars, now, oldest, reader>> /\ breaks' = breaks + 1
         /\ Clock => UNCHANGED <<recent, writerVars, reader, breaks>>
         /\ GetLiveMetrics => UNCHANGED <<redisVars, now, writerVars, oldest, breaks>>
BY DEF Call, RecordBatch, Recorded, Break, Clock, GetLiveMetrics, ReadTotal, ListServices,
       ReadService, ReadBreaks, Respond, redisVars, writerVars, boundVars

LEMMA RaiseTyped ==
  ASSUME TypeOK, NEW k, Raises(k)
  PROVE  /\ k \in Key /\ count' \in [Key -> Nat]
         /\ \A j \in Key : count'[j] = count[j] + (IF j = k THEN 1 ELSE 0)
         /\ UNCHANGED <<expiry, recent, oldest>>
<1>1. count \in [Key -> Nat]
  BY DEF TypeOK
<1>2. k \in Key /\ count' = [count EXCEPT ![k] = count[k] + 1] /\ UNCHANGED <<expiry, recent, oldest>>
  BY DEF Raises
<1> QED
  BY <1>1, <1>2

(* The clock changes nothing but the window counters that expire. *)
Gone(s) == expiry[s] # 0 /\ expiry[s] <= now + 1

LEMMA ClockStep ==
  ASSUME TypeOK, Clock
  PROVE  /\ now' = now + 1 /\ now' \in Time
         /\ count' \in [Key -> Nat]
         /\ \A k \in Key : (\A s \in Service : k # Last5m(s)) => count'[k] = count[k]
         /\ \A s \in Service : count'[Last5m(s)] = IF Gone(s) THEN 0 ELSE count[Last5m(s)]
         /\ \A s \in Service : expiry'[s] = IF Gone(s) THEN 0 ELSE expiry[s]
         /\ expiry' \in [Service -> 0 .. MaxTime + Window]
         /\ oldest' \in [Service -> 0 .. MaxTime]
<1>1. /\ count \in [Key -> Nat] /\ expiry \in [Service -> 0 .. MaxTime + Window]
      /\ oldest \in [Service -> 0 .. MaxTime] /\ now \in 1 .. MaxTime
      /\ MaxTime \in Nat /\ Window \in Nat
  BY BoundsAssumption DEF TypeOK, Time
<1>2. now < MaxTime /\ now' = now + 1
  BY DEF Clock
<1>3. \A s \in Service : Gone(s) <=> expiry[s] # 0 /\ expiry[s] <= now'
  BY <1>2 DEF Gone
<1>4. count' = [k \in Key |-> IF \E s \in Service : k = Last5m(s) /\ Gone(s) THEN 0 ELSE count[k]]
  <2>1. count' = [k \in Key |-> IF \E s \in Service :
                                     k = Last5m(s) /\ (expiry[s] # 0 /\ expiry[s] <= now')
                                THEN 0 ELSE count[k]]
    BY DEF Clock
  <2> QED
    BY <1>3, <2>1
<1>5. expiry' = [s \in Service |-> IF Gone(s) THEN 0 ELSE expiry[s]]
  <2>1. expiry' = [s \in Service |-> IF expiry[s] # 0 /\ expiry[s] <= now' THEN 0 ELSE expiry[s]]
    BY DEF Clock
  <2> QED
    BY <1>3, <2>1
<1>6. oldest' = [s \in Service |-> IF Gone(s) THEN 0 ELSE oldest[s]]
  <2>1. oldest' = [s \in Service |-> IF expiry[s] # 0 /\ expiry[s] <= now' THEN 0 ELSE oldest[s]]
    BY DEF Clock
  <2> QED
    BY <1>3, <2>1
<1>7. now' \in Time
  BY <1>1, <1>2 DEF Time
<1>8. count' \in [Key -> Nat]
  BY <1>1, <1>4
<1>9. ASSUME NEW s \in Service
      PROVE  count'[Last5m(s)] = IF Gone(s) THEN 0 ELSE count[Last5m(s)]
  <2>1. Last5m(s) \in Key
    BY KeysTyped
  <2>2. \A t \in Service : Last5m(s) = Last5m(t) => s = t
    BY DEF Last5m
  <2>3. (\E t \in Service : Last5m(s) = Last5m(t) /\ Gone(t)) <=> Gone(s)
    BY <2>2
  <2> QED
    BY <1>4, <2>1, <2>3
<1>10. \A k \in Key : (\A s \in Service : k # Last5m(s)) => count'[k] = count[k]
  BY <1>4
<1>11. \A s \in Service : expiry'[s] = IF Gone(s) THEN 0 ELSE expiry[s]
  BY <1>5
<1>12. expiry' \in [Service -> 0 .. MaxTime + Window]
  <2>1. 0 \in 0 .. MaxTime + Window
    BY <1>1
  <2> QED
    BY <1>1, <1>5, <2>1
<1>13. oldest' \in [Service -> 0 .. MaxTime]
  <2>1. 0 \in 0 .. MaxTime
    BY <1>1
  <2> QED
    BY <1>1, <1>6, <2>1
<1> QED
  BY <1>2, <1>7, <1>8, <1>9, <1>10, <1>11, <1>12, <1>13

LEMMA RedisTypesStep ==
  ASSUME TypeOK, Next
  PROVE  RedisTypes'
<1>1. /\ count \in [Key -> Nat] /\ expiry \in [Service -> 0 .. MaxTime + Window]
      /\ recent \in [Service -> Nat] /\ now \in Time /\ oldest \in [Service -> 0 .. MaxTime]
  BY DEF TypeOK
<1>2. MaxTime \in Nat /\ Window \in Nat /\ RecentMax \in Nat
  BY BoundsAssumption
<1>3. ASSUME NEW w \in Writer, Exec(w)
      PROVE  RedisTypes'
  <2>1. Left(w) /\ Effect(w) /\ now' = now
    BY <1>3, ExecStep
  <2>2. Here(w)[1] \in Service
    BY <2>1, PlaceTyped
  <2>3. ASSUME NEW k, Raises(k)
        PROVE  RedisTypes'
    <3>1. count' \in [Key -> Nat] /\ UNCHANGED <<expiry, recent, oldest>>
      BY <2>3, RaiseTyped
    <3> QED
      BY <1>1, <2>1, <3>1 DEF RedisTypes
  <2> DEFINE s == Here(w)[1]
  <2>4. ASSUME /\ IF count[Last5m(s)] > 0
                  THEN /\ expiry' = [expiry EXCEPT ![s] = now + Window]
                       /\ oldest' = [oldest EXCEPT ![s] = IF @ = 0 THEN now ELSE @]
                  ELSE UNCHANGED <<expiry, oldest>>
               /\ UNCHANGED <<count, recent>>
        PROVE  RedisTypes'
    <3>1. now \in 0 .. MaxTime /\ now + Window \in 0 .. MaxTime + Window
      BY <1>1, <1>2 DEF Time
    <3>2. expiry' \in [Service -> 0 .. MaxTime + Window]
      BY <1>1, <2>4, <3>1
    <3>3. oldest' \in [Service -> 0 .. MaxTime]
      BY <1>1, <2>4, <3>1
    <3> QED
      BY <1>1, <2>1, <2>4, <3>2, <3>3 DEF RedisTypes
  <2>5. ASSUME recent' = [recent EXCEPT ![s] = @ + 1], UNCHANGED <<count, expiry, oldest>>
        PROVE  RedisTypes'
    <3>1. recent[s] + 1 \in Nat
      BY <1>1, <2>2
    <3>2. recent' \in [Service -> Nat]
      BY <1>1, <2>5, <3>1
    <3> QED
      BY <1>1, <2>1, <2>5, <3>2 DEF RedisTypes
  <2>6. ASSUME recent' = [recent EXCEPT ![s] = IF @ > RecentMax THEN RecentMax ELSE @],
               UNCHANGED <<count, expiry, oldest>>
        PROVE  RedisTypes'
    <3>1. recent[s] \in Nat
      BY <1>1, <2>2
    <3>2. (IF recent[s] > RecentMax THEN RecentMax ELSE recent[s]) \in Nat
      BY <1>2, <3>1
    <3>3. recent' \in [Service -> Nat]
      BY <1>1, <2>6, <3>2
    <3> QED
      BY <1>1, <2>1, <2>6, <3>3 DEF RedisTypes
  <2> QED
    BY <2>1, <2>3, <2>4, <2>5, <2>6, Zenon DEF Effect
<1>4. ASSUME Clock
      PROVE  RedisTypes'
  <2>1. recent' = recent
    BY <1>4 DEF Clock
  <2> QED
    BY <1>1, <1>4, <2>1, ClockStep DEF RedisTypes
<1>5. ASSUME UNCHANGED <<redisVars, now, oldest>>
      PROVE  RedisTypes'
  BY <1>1, <1>5 DEF RedisTypes, redisVars
<1> QED
  BY <1>3, <1>4, <1>5, StepKinds, RedisKept

LEMMA ReaderTypesStep ==
  ASSUME TypeOK, Next
  PROVE  ReaderTypes'
<1> DEFINE R == [phase : {"idle", "list", "query", "done"}, total : Nat,
                 todo : SUBSET Service, logs : Nat, open : Nat, failed : BOOLEAN]
<1>1. reader \in R /\ count \in [Key -> Nat] /\ breaks \in Nat
  BY BoundsAssumption DEF TypeOK
<1>2. Cardinality(InProgress) \in Nat
  <2>1. InProgress \in SUBSET Writer
    BY DEF InProgress
  <2> QED
    BY <2>1, FiniteAssumption, FS_Subset, FS_CardinalityType
<1>3. Quiet \in R
  BY DEF Quiet
<1>4. ASSUME ReadTotal
      PROVE  reader' \in R
  <2>1. count[Total] \in Nat
    BY <1>1, KeysTyped
  <2>2. Cardinality(InProgress) + breaks \in Nat
    BY <1>1, <1>2
  <2>3. reader' = [Quiet EXCEPT !.phase = "list", !.total = count[Total],
                   !.open = Cardinality(InProgress) + breaks]
    BY <1>4 DEF ReadTotal
  <2>4. reader' = [phase |-> "list", total |-> count[Total], todo |-> {}, logs |-> 0,
                   open |-> Cardinality(InProgress) + breaks, failed |-> FALSE]
    BY <2>3, Zenon DEF Quiet
  <2> QED
    BY <2>1, <2>2, <2>4
<1>5. ASSUME ListServices
      PROVE  reader' \in R
  <2>1. Trimmed(Listed) \in SUBSET Service
    BY TrimAssumption DEF Trimmed, Listed
  <2> QED
    BY <1>1, <1>5, <2>1 DEF ListServices
<1>6. ASSUME ReadService
      PROVE  reader' \in R
  <2>1. PICK s \in reader.todo :
          reader' = [reader EXCEPT !.todo = @ \ {s}, !.logs = @ + count[OfService(s)]]
    BY <1>6 DEF ReadService
  <2>2. s \in Service
    BY <1>1
  <2>3. count[OfService(s)] \in Nat
    BY <1>1, <2>2, KeysTyped
  <2>4. /\ reader.phase \in {"idle", "list", "query", "done"} /\ reader.total \in Nat
        /\ reader.todo \in SUBSET Service /\ reader.logs \in Nat /\ reader.open \in Nat
        /\ reader.failed \in BOOLEAN
    BY <1>1
  <2>5. reader = [phase |-> reader.phase, total |-> reader.total, todo |-> reader.todo,
                  logs |-> reader.logs, open |-> reader.open, failed |-> reader.failed]
    BY <1>1, Zenon
  <2>6. reader' = [phase |-> reader.phase, total |-> reader.total, todo |-> reader.todo \ {s},
                   logs |-> reader.logs + count[OfService(s)], open |-> reader.open,
                   failed |-> reader.failed]
    BY <2>1, <2>5
  <2>7. reader.todo \ {s} \in SUBSET Service /\ reader.logs + count[OfService(s)] \in Nat
    BY <2>3, <2>4
  <2> QED
    BY <2>4, <2>6, <2>7
<1>7. ASSUME ReadBreaks
      PROVE  reader' \in R
  BY <1>1, <1>7 DEF ReadBreaks
<1>8. ASSUME Respond
      PROVE  reader' \in R
  BY <1>1, <1>3, <1>8 DEF Respond
<1>9. ASSUME UNCHANGED reader
      PROVE  reader' \in R
  BY <1>1, <1>9
<1>10. GetLiveMetrics \/ UNCHANGED reader
  <2>1. \A w \in Writer : Exec(w) => UNCHANGED reader
    BY ExecStep
  <2> QED
    BY <2>1, StepKinds, RedisKept
<1>11. reader' \in R
  <2> HIDE DEF R
  <2> QED
    BY <1>4, <1>5, <1>6, <1>7, <1>8, <1>9, <1>10 DEF GetLiveMetrics
<1> QED
  BY <1>11 DEF ReaderTypes

LEMMA BoundTypesStep ==
  ASSUME TypeOK, Next
  PROVE  BoundTypes'
<1>1. calls \in 0 .. MaxBatches /\ breaks \in 0 .. MaxBreaks /\ MaxBatches \in Nat /\ MaxBreaks \in Nat
  BY BoundsAssumption DEF TypeOK
<1>2. ASSUME UNCHANGED boundVars
      PROVE  BoundTypes'
  BY <1>1, <1>2 DEF BoundTypes, boundVars
<1>3. ASSUME NEW w \in Writer, Exec(w) \/ Recorded(w)
      PROVE  UNCHANGED boundVars
  BY <1>3 DEF Exec, ExecIncr, ExecExpire, ExecPush, ExecTrim, Executes, Recorded
<1>4. ASSUME NEW w \in Writer, NEW b \in Batches, RecordBatch(w, b)
      PROVE  BoundTypes'
  BY <1>1, <1>4 DEF RecordBatch, BoundTypes
<1>5. ASSUME NEW w \in Writer, Break(w)
      PROVE  BoundTypes'
  BY <1>1, <1>5 DEF Break, BoundTypes
<1>6. ASSUME Clock \/ GetLiveMetrics
      PROVE  UNCHANGED boundVars
  BY <1>6 DEF Clock, GetLiveMetrics, ReadTotal, ListServices, ReadService, ReadBreaks, Respond
<1> QED
  BY <1>2, <1>3, <1>4, <1>5, <1>6, StepKinds DEF Call

LEMMA TypeInit == Init => TypeOK
<1> SUFFICES ASSUME Init
             PROVE  TypeOK
  OBVIOUS
<1>1. WriterTypes
  <2>1. Place(<< >>, 1, 1)
    <3>1. << >> \in Seq(Log)
      OBVIOUS
    <3> QED
      BY <3>1, PlaceFirst
  <2> QED
    BY <2>1 DEF Init, WriterTypes
<1>2. RedisTypes
  BY BoundsAssumption DEF Init, RedisTypes, Time
<1>3. ReaderTypes
  BY DEF Init, Quiet, ReaderTypes
<1>4. BoundTypes
  BY BoundsAssumption DEF Init, BoundTypes
<1> QED
  BY <1>1, <1>2, <1>3, <1>4, TypeParts

LEMMA TypeStep == TypeOK /\ [Next]_vars => TypeOK'
<1>1. ASSUME TypeOK, Next
      PROVE  TypeOK'
  <2>1. WriterTypes' /\ RedisTypes' /\ ReaderTypes' /\ BoundTypes'
    BY <1>1, WriterTypesStep, RedisTypesStep, ReaderTypesStep, BoundTypesStep
  <2>2. WriterTypes' /\ RedisTypes' /\ ReaderTypes' /\ BoundTypes' => TypeOK'
    <3>1. ASSUME NEW w \in Writer
          PROVE  Place(batch'[w], nth'[w], cmd'[w])
                   <=> IF Left(w)' THEN cmd'[w] \in DOMAIN Queued(w)'
                                   ELSE nth'[w] = Len(batch'[w]) + 1 /\ cmd'[w] = 1
      BY DEF Place, Left, Queued
    <3> QED
      BY <3>1 DEF TypeOK, WriterTypes, RedisTypes, ReaderTypes, BoundTypes
  <2> QED
    BY <2>1, <2>2
<1>2. ASSUME TypeOK, UNCHANGED vars
      PROVE  TypeOK'
  BY <1>2 DEF TypeOK, vars, redisVars, writerVars, boundVars, Left, Queued, Time
<1> QED
  BY <1>1, <1>2

(* What Redis, the writers and the reader hold, and every writer is at a   *)
(* command of its batch, or behind the last one.                           *)
THEOREM TypeCorrect == Spec => []TypeOK
BY TypeInit, TypeStep, PTL DEF Spec

-----------------------------------------------------------------------------
(***************************************************************************)
(* How many writers are at which command.  Nobody waits for a command that *)
(* is not the first one of a log without having executed those before it.  *)
(***************************************************************************)
Behind == 2 .. 10

LEMMA AtTyped ==
  ASSUME TypeOK, NEW S, NEW P
  PROVE  /\ At(S, P) \in SUBSET InProgress /\ Cardinality(At(S, P)) \in Nat
         /\ Cardinality(At(S, P)) <= Cardinality(InProgress)
         /\ Cardinality(InProgress) \in Nat
<1>1. InProgress \in SUBSET Writer
  BY DEF InProgress
<1>2. IsFiniteSet(InProgress) /\ Cardinality(InProgress) \in Nat
  BY <1>1, FiniteAssumption, FS_Subset, FS_CardinalityType
<1>3. \A w \in Writer : Left(w) => w \in InProgress
  BY DEF Left, InProgress
<1>4. At(S, P) \in SUBSET InProgress
  BY <1>3 DEF At
<1> QED
  BY <1>2, <1>4, FS_Subset, FS_CardinalityType

(* A command: the writer leaves its place for the next one, or for the     *)
(* first one of a log.                                                     *)
LEMMA AtExec ==
  ASSUME TypeOK, NEW w \in Writer, Exec(w), NEW S, NEW P \in SUBSET Behind
  PROVE  /\ Cardinality(At(S, P)) \in Nat /\ Cardinality(At(S, P)') \in Nat
         /\ Cardinality(At(S, P)') + (IF Here(w)[1] \in S /\ cmd[w] \in P THEN 1 ELSE 0)
              = Cardinality(At(S, P)) + (IF Here(w)[1] \in S /\ cmd'[w] \in P THEN 1 ELSE 0)
<1>1. Left(w) /\ Moves(w)
  BY ExecStep
<1>2. /\ batch' = batch /\ \A v \in Writer \ {w} : nth'[v] = nth[v] /\ cmd'[v] = cmd[v]
      /\ (nth'[w] = nth[w] \/ cmd'[w] = 1)
  BY <1>1 DEF Moves
<1> DEFINE A == At(S, P)
           B == At(S, P)'
<1>3. A \in SUBSET Writer /\ B \in SUBSET Writer
  BY DEF At
<1>4. \A v \in Writer \ {w} : v \in A <=> v \in B
  BY <1>2 DEF At, Left, Here
<1>5. w \in A <=> Here(w)[1] \in S /\ cmd[w] \in P
  BY <1>1 DEF At
<1>6. w \in B <=> Here(w)[1] \in S /\ cmd'[w] \in P
  <2>1. 1 \notin P
    BY DEF Behind
  <2>2. CASE cmd'[w] = 1
    BY <2>1, <2>2 DEF At
  <2>3. CASE nth'[w] = nth[w]
    BY <1>1, <1>2, <2>3 DEF At, Left, Here
  <2> QED
    BY <1>2, <2>2, <2>3
<1> HIDE DEF A, B
<1>7. /\ Cardinality(A) \in Nat /\ Cardinality(B) \in Nat
      /\ Cardinality(B) + (IF w \in A THEN 1 ELSE 0)
           = Cardinality(A) + (IF w \in B THEN 1 ELSE 0)
  BY <1>3, <1>4, FiniteAssumption, CardinalityMove
<1> QED
  BY <1>5, <1>6, <1>7 DEF A, B

(* The same for all services, and for one. *)
LEMMA AtExecAll ==
  ASSUME TypeOK, NEW w \in Writer, Exec(w), NEW P \in SUBSET Behind
  PROVE  /\ Cardinality(At(Service, P)) \in Nat /\ Cardinality(At(Service, P)') \in Nat
         /\ (cmd[w] \in P <=> cmd'[w] \in P)
              => Cardinality(At(Service, P)') = Cardinality(At(Service, P))
         /\ cmd[w] \in P /\ cmd'[w] \notin P
              => Cardinality(At(Service, P)') + 1 = Cardinality(At(Service, P))
         /\ cmd[w] \notin P /\ cmd'[w] \in P
              => Cardinality(At(Service, P)') = Cardinality(At(Service, P)) + 1
<1>1. Here(w)[1] \in Service
  BY ExecStep, PlaceTyped
<1>2. /\ Cardinality(At(Service, P)) \in Nat /\ Cardinality(At(Service, P)') \in Nat
      /\ Cardinality(At(Service, P)') + (IF Here(w)[1] \in Service /\ cmd[w] \in P THEN 1 ELSE 0)
           = Cardinality(At(Service, P)) + (IF Here(w)[1] \in Service /\ cmd'[w] \in P THEN 1 ELSE 0)
  BY AtExec
<1> QED
  BY <1>1, <1>2

LEMMA AtExecOf ==
  ASSUME TypeOK, NEW w \in Writer, Exec(w), NEW s, NEW P \in SUBSET Behind
  PROVE  /\ Cardinality(At({s}, P)) \in Nat /\ Cardinality(At({s}, P)') \in Nat
         /\ Here(w)[1] # s => Cardinality(At({s}, P)') = Cardinality(At({s}, P))
         /\ (cmd[w] \in P <=> cmd'[w] \in P) => Cardinality(At({s}, P)') = Cardinality(At({s}, P))
         /\ Here(w)[1] = s /\ cmd[w] \in P /\ cmd'[w] \notin P
              => Cardinality(At({s}, P)') + 1 = Cardinality(At({s}, P))
         /\ Here(w)[1] = s /\ cmd[w] \notin P /\ cmd'[w] \in P
              => Cardinality(At({s}, P)') = Cardinality(At({s}, P)) + 1
<1> DEFINE S == {s}
<1>1. Here(w)[1] \in S <=> Here(w)[1] = s
  OBVIOUS
<1> HIDE DEF S
<1>2. /\ Cardinality(At(S, P)) \in Nat /\ Cardinality(At(S, P)') \in Nat
      /\ Cardinality(At(S, P)') + (IF Here(w)[1] \in S /\ cmd[w] \in P THEN 1 ELSE 0)
           = Cardinality(At(S, P)) + (IF Here(w)[1] \in S /\ cmd'[w] \in P THEN 1 ELSE 0)
  BY AtExec
<1>3. /\ Here(w)[1] # s => Cardinality(At(S, P)') = Cardinality(At(S, P))
      /\ (cmd[w] \in P <=> cmd'[w] \in P) => Cardinality(At(S, P)') = Cardinality(At(S, P))
      /\ Here(w)[1] = s /\ cmd[w] \in P /\ cmd'[w] \notin P
           => Cardinality(At(S, P)') + 1 = Cardinality(At(S, P))
      /\ Here(w)[1] = s /\ cmd[w] \notin P /\ cmd'[w] \in P
           => Cardinality(At(S, P)') = Cardinality(At(S, P)) + 1
  BY <1>1, <1>2
<1> QED
  BY <1>2, <1>3 DEF S

(* A broken connection: the writer goes back to the first command. *)
LEMMA AtBreak ==
  ASSUME TypeOK, NEW w \in Writer, Break(w), NEW S, NEW P \in SUBSET Behind
  PROVE  /\ At(S, P)' = At(S, P) \ {w}
         /\ Cardinality(At(S, P)) \in Nat /\ Cardinality(At(S, P)') \in Nat
         /\ Cardinality(At(S, P)') <= Cardinality(At(S, P))
         /\ Cardinality(At(S, P)) <= Cardinality(At(S, P)') + 1
<1>1. /\ nth' = [nth EXCEPT ![w] = 1] /\ cmd' = [cmd EXCEPT ![w] = 1]
      /\ batch' = batch \/ batch' = [batch EXCEPT ![w] = << >>]
  BY DEF Break
<1>2. nth \in [Writer -> Nat] /\ cmd \in [Writer -> Nat] /\ DOMAIN batch = Writer
  BY DEF TypeOK
<1>3. /\ \A v \in Writer \ {w} : nth'[v] = nth[v] /\ cmd'[v] = cmd[v] /\ batch'[v] = batch[v]
      /\ cmd'[w] = 1
  BY <1>1, <1>2
<1> DEFINE A == At(S, P)
           B == At(S, P)'
<1>4. A \in SUBSET Writer /\ B \in SUBSET Writer
  BY DEF At
<1>5. \A v \in Writer \ {w} : v \in A <=> v \in B
  BY <1>3 DEF At, Left, Here
<1>6. w \notin B
  <2>1. 1 \notin P
    BY DEF Behind
  <2> QED
    BY <1>3, <2>1 DEF At
<1> HIDE DEF A, B
<1>7. /\ Cardinality(A) \in Nat /\ Cardinality(B) \in Nat
      /\ Cardinality(B) + (IF w \in A THEN 1 ELSE 0)
           = Cardinality(A) + (IF w \in B THEN 1 ELSE 0)
  BY <1>4, <1>5, FiniteAssumption, CardinalityMove
<1>8. B = A \ {w}
  BY <1>4, <1>5, <1>6
<1>9. Cardinality(B) <= Cardinality(A) /\ Cardinality(A) <= Cardinality(B) + 1
  BY <1>6, <1>7
<1> QED
  BY <1>7, <1>8, <1>9 DEF A, B

(* Every other step leaves the writers where they are. *)
LEMMA AtKept ==
  ASSUME TypeOK, NEW S, NEW P \in SUBSET Behind,
         (\E w \in Writer : Call(w)) \/ Clock \/ GetLiveMetrics
  PROVE  At(S, P)' = At(S, P)
<1>1. CASE Clock \/ GetLiveMetrics
  <2>1. batch' = batch /\ nth' = nth /\ cmd' = cmd
    BY <1>1, RedisKept DEF writerVars
  <2> QED
    BY <2>1 DEF At, Left, Here
<1>2. ASSUME NEW w \in Writer, Call(w)
      PROVE  At(S, P)' = At(S, P)
  <2>1. DOMAIN batch = Writer /\ nth \in [Writer -> Nat] /\ cmd \in [Writer -> Nat]
    BY DEF TypeOK
  <2>2. cmd[w] = 1
    <3>1. ~Left(w)
      BY <1>2 DEF Call, RecordBatch, Recorded, Left
    <3> QED
      BY <3>1, PlaceTyped
  <2>3. cmd' = cmd /\ \A v \in Writer \ {w} : nth'[v] = nth[v] /\ batch'[v] = batch[v]
    BY <1>2, <2>1 DEF Call, RecordBatch, Recorded
  <2>4. 1 \notin P
    BY DEF Behind
  <2>5. \A v \in Writer : v \in At(S, P)' <=> v \in At(S, P)
    BY <2>2, <2>3, <2>4 DEF At, Left, Here
  <2> QED
    BY <2>5 DEF At
<1> QED
  BY <1>1, <1>2

-----------------------------------------------------------------------------
(***************************************************************************)
(* The counters.                                                           *)
(***************************************************************************)
LogSum == SumFunctionOnSet([s \in Service |-> count[OfService(s)]], Service)
RankSum == SumFunctionOnSet([s \in Service |-> count[Ranked(s)]], Service)

LEMMA CountsTyped ==
  ASSUME TypeOK
  PROVE  /\ count[Total] \in Nat
         /\ \A s \in Service : /\ count[OfService(s)] \in Nat /\ count[Ranked(s)] \in Nat
                               /\ count[Errors(s)] \in Nat /\ count[Last5m(s)] \in Nat
         /\ LogSum \in Nat /\ RankSum \in Nat
<1>1. count \in [Key -> Nat]
  BY DEF TypeOK
<1>2. /\ count[Total] \in Nat
      /\ \A s \in Service : /\ count[OfService(s)] \in Nat /\ count[Ranked(s)] \in Nat
                            /\ count[Errors(s)] \in Nat /\ count[Last5m(s)] \in Nat
  BY <1>1, KeysTyped
<1> DEFINE f == [s \in Service |-> count[OfService(s)]]
           g == [s \in Service |-> count[Ranked(s)]]
<1>3. f \in [Service -> Nat] /\ g \in [Service -> Nat]
  BY <1>2
<1> HIDE DEF f, g
<1>4. SumFunctionOnSet(f, Service) \in Nat /\ SumFunctionOnSet(g, Service) \in Nat
  BY <1>3, FiniteAssumption, SumType
<1> QED
  BY <1>2, <1>4, Zenon DEF f, g, LogSum, RankSum

(* The sums of two databases. *)
LEMMA SumsKept ==
  ASSUME \A s \in Service : count'[OfService(s)] = count[OfService(s)],
         \A s \in Service : count'[Ranked(s)] = count[Ranked(s)]
  PROVE  LogSum' = LogSum /\ RankSum' = RankSum
<1>1. [s \in Service |-> count'[OfService(s)]] = [s \in Service |-> count[OfService(s)]]
  OBVIOUS
<1>2. [s \in Service |-> count'[Ranked(s)]] = [s \in Service |-> count[Ranked(s)]]
  OBVIOUS
<1> QED
  BY <1>1, <1>2, Zenon DEF LogSum, RankSum

LEMMA SumRaised ==
  ASSUME NEW f \in [Service -> Nat], NEW h \in [Service -> Nat], NEW P \in BOOLEAN, NEW t \in Service,
         \A s \in Service : h[s] = f[s] + (IF P /\ s = t THEN 1 ELSE 0)
  PROVE  SumFunctionOnSet(h, Service) = SumFunctionOnSet(f, Service) + (IF P THEN 1 ELSE 0)
<1>1. CASE P
  <2>1. h[t] = f[t] + 1 /\ \A s \in Service \ {t} : f[s] = h[s]
    BY <1>1
  <2>2. SumFunctionOnSet(h, Service) = SumFunctionOnSet(f, Service) + 1
    BY <2>1, FiniteAssumption, SumPlusOne
  <2> QED
    BY <1>1, <2>2
<1>2. CASE ~P
  <2>1. \A s \in Service : h[s] = f[s]
    BY <1>2
  <2>2. h = f
    BY <2>1
  <2>3. SumFunctionOnSet(f, Service) \in Nat
    BY FiniteAssumption, SumType
  <2> QED
    BY <1>2, <2>2, <2>3
<1> QED
  BY <1>1, <1>2

(* What a command counts, and where the writer goes on. *)
LEMMA ExecCounts ==
  ASSUME TypeOK, NEW w \in Writer, Exec(w)
  PROVE  LET i == cmd[w]
             j == cmd'[w]
             t == Here(w)[1]
         IN  /\ i \in 1 .. 10 /\ t \in Service
             /\ \/ i \in {1, 2, 3, 5, 6, 7, 8, 9} /\ j = i + 1
                \/ i = 4 /\ j \in {1, 5}
                \/ i = 10 /\ j = 1
             /\ count'[Total] = count[Total] + (IF i = 1 THEN 1 ELSE 0)
             /\ \A s \in Service :
                  /\ count'[OfService(s)] = count[OfService(s)] + (IF i = 2 /\ s = t THEN 1 ELSE 0)
                  /\ count'[Ranked(s)] = count[Ranked(s)] + (IF i = 4 /\ s = t THEN 1 ELSE 0)
                  /\ count'[Errors(s)] = count[Errors(s)] + (IF i = 5 /\ s = t THEN 1 ELSE 0)
                  /\ count'[Last5m(s)] = count[Last5m(s)] + (IF i = 6 /\ s = t THEN 1 ELSE 0)
             /\ LogSum' = LogSum + (IF i = 2 THEN 1 ELSE 0)
             /\ RankSum' = RankSum + (IF i = 4 THEN 1 ELSE 0)
<1> DEFINE i == cmd[w]
           j == cmd'[w]
           t == Here(w)[1]
<1>1. Left(w) /\ Moves(w) /\ Effect(w)
  BY ExecStep
<1>2. /\ Here(w) \in Log /\ t \in Service /\ Here(w)[2] \in Level /\ i \in 1 .. 10
      /\ Queued(w) = Commands(Here(w)) /\ (i > 4 => Here(w)[2] = "ERROR")
  BY <1>1, PlaceTyped
<1>3. \/ i \in {1, 2, 3, 5, 6, 7, 8, 9} /\ j = i + 1
      \/ i = 4 /\ j \in {1, 5}
      \/ i = 10 /\ j = 1
  <2>1. IF i < Len(Queued(w)) THEN j = i + 1 ELSE j = 1
    BY <1>1 DEF Moves
  <2>2. CASE Here(w)[2] = "ERROR"
    <3>1. Len(Queued(w)) = 10
      BY <1>2, <2>2, CommandsOfError
    <3> QED
      BY <1>2, <2>1, <3>1
  <2>3. CASE Here(w)[2] # "ERROR"
    <3>1. Len(Queued(w)) = 4 /\ i \in 1 .. 4
      BY <1>2, <2>3, CommandsOfInfo
    <3> QED
      BY <2>1, <3>1
  <2> QED
    BY <2>2, <2>3
<1>4. /\ count[Total] \in Nat
      /\ \A s \in Service : /\ count[OfService(s)] \in Nat /\ count[Ranked(s)] \in Nat
                            /\ count[Errors(s)] \in Nat /\ count[Last5m(s)] \in Nat
  BY CountsTyped
<1>5. /\ Total \in Key
      /\ \A s \in Service : /\ OfService(s) \in Key /\ Ranked(s) \in Key
                            /\ Errors(s) \in Key /\ Last5m(s) \in Key
  BY KeysTyped
<1> DEFINE Counts ==
      /\ count'[Total] = count[Total] + (IF i = 1 THEN 1 ELSE 0)
      /\ \A s \in Service :
           /\ count'[OfService(s)] = count[OfService(s)] + (IF i = 2 /\ s = t THEN 1 ELSE 0)
           /\ count'[Ranked(s)] = count[Ranked(s)] + (IF i = 4 /\ s = t THEN 1 ELSE 0)
           /\ count'[Errors(s)] = count[Errors(s)] + (IF i = 5 /\ s = t THEN 1 ELSE 0)
           /\ count'[Last5m(s)] = count[Last5m(s)] + (IF i = 6 /\ s = t THEN 1 ELSE 0)
<1>6. Counts
  <2> HIDE DEF i, j, t
  <2>1. ASSUME NEW k, Raises(k)
        PROVE  \A q \in Key : count'[q] = count[q] + (IF q = k THEN 1 ELSE 0)
    BY <2>1, RaiseTyped
  <2>2. CASE i = 1 /\ Raises(Total)
    BY <1>4, <1>5, <2>1, <2>2, KeysDiffer, <1>2
  <2>3. CASE i = 2 /\ Raises(OfService(t))
    BY <1>2, <1>4, <1>5, <2>1, <2>3, KeysDiffer
  <2>4. CASE i = 3 /\ Raises(OfLevel(Here(w)[2]))
    BY <1>2, <1>4, <1>5, <2>1, <2>4, KeysDiffer
  <2>5. CASE i = 4 /\ Raises(Ranked(t))
    BY <1>2, <1>4, <1>5, <2>1, <2>5, KeysDiffer
  <2>6. CASE i = 5 /\ Raises(Errors(t))
    BY <1>2, <1>4, <1>5, <2>1, <2>6, KeysDiffer
  <2>7. CASE i = 6 /\ Raises(Last5m(t))
    BY <1>2, <1>4, <1>5, <2>1, <2>7, KeysDiffer
  <2>8. CASE i = 8 /\ Raises(Message(Here(w)))
    BY <1>2, <1>4, <1>5, <2>1, <2>8, KeysDiffer
  <2>9. CASE i \in {7, 9, 10} /\ count' = count
    BY <1>4, <2>9
  <2>10. \/ i = 1 /\ Raises(Total)
         \/ i = 2 /\ Raises(OfService(t))
         \/ i = 3 /\ Raises(OfLevel(Here(w)[2]))
         \/ i = 4 /\ Raises(Ranked(t))
         \/ i = 5 /\ Raises(Errors(t))
         \/ i = 6 /\ Raises(Last5m(t))
         \/ i = 8 /\ Raises(Message(Here(w)))
         \/ i \in {7, 9, 10} /\ count' = count
    BY <1>1 DEF Effect, i, t
  <2> QED
    BY <2>2, <2>3, <2>4, <2>5, <2>6, <2>7, <2>8, <2>9, <2>10
<1>7. LogSum' = LogSum + (IF i = 2 THEN 1 ELSE 0)
  <2> DEFINE f == [s \in Service |-> count[OfService(s)]]
             h == [s \in Service |-> count'[OfService(s)]]
             P == i = 2
  <2>1. \A s \in Service : h[s] = f[s] + (IF P /\ s = t THEN 1 ELSE 0)
    BY <1>6
  <2>2. f \in [Service -> Nat]
    BY <1>4
  <2>3. h \in [Service -> Nat]
    BY <1>4, <1>6
  <2>4. LogSum = SumFunctionOnSet(f, Service) /\ LogSum' = SumFunctionOnSet(h, Service)
    BY Zenon DEF LogSum
  <2> HIDE DEF f, h, P, i, t, Counts
  <2>5. P \in BOOLEAN
    BY DEF P
  <2>6. SumFunctionOnSet(h, Service) = SumFunctionOnSet(f, Service) + (IF P THEN 1 ELSE 0)
    BY <1>2, <2>1, <2>2, <2>3, <2>5, SumRaised
  <2> QED
    BY <2>4, <2>6 DEF P
<1>8. RankSum' = RankSum + (IF i = 4 THEN 1 ELSE 0)
  <2> DEFINE f == [s \in Service |-> count[Ranked(s)]]
             h == [s \in Service |-> count'[Ranked(s)]]
             P == i = 4
  <2>1. \A s \in Service : h[s] = f[s] + (IF P /\ s = t THEN 1 ELSE 0)
    BY <1>6
  <2>2. f \in [Service -> Nat]
    BY <1>4
  <2>3. h \in [Service -> Nat]
    BY <1>4, <1>6
  <2>4. RankSum = SumFunctionOnSet(f, Service) /\ RankSum' = SumFunctionOnSet(h, Service)
    BY Zenon DEF RankSum
  <2> HIDE DEF f, h, P, i, t, Counts
  <2>5. P \in BOOLEAN
    BY DEF P
  <2>6. SumFunctionOnSet(h, Service) = SumFunctionOnSet(f, Service) + (IF P THEN 1 ELSE 0)
    BY <1>2, <2>1, <2>2, <2>3, <2>5, SumRaised
  <2> QED
    BY <2>4, <2>6 DEF P
<1> QED
  BY <1>2, <1>3, <1>6, <1>7, <1>8, Zenon

(* Every other step keeps the counters, except that the clock may remove a *)
(* window counter.                                                         *)
LEMMA OtherCounts ==
  ASSUME TypeOK, (\E w \in Writer : Call(w) \/ Break(w)) \/ Clock \/ GetLiveMetrics
  PROVE  /\ count'[Total] = count[Total]
         /\ \A s \in Service : /\ count'[OfService(s)] = count[OfService(s)]
                               /\ count'[Ranked(s)] = count[Ranked(s)]
                               /\ count'[Errors(s)] = count[Errors(s)]
                               /\ count'[Last5m(s)] \in Nat
                               /\ count'[Last5m(s)] <= count[Last5m(s)]
         /\ LogSum' = LogSum /\ RankSum' = RankSum
<1>1. /\ count'[Total] = count[Total]
      /\ \A s \in Service : /\ count'[OfService(s)] = count[OfService(s)]
                            /\ count'[Ranked(s)] = count[Ranked(s)]
                            /\ count'[Errors(s)] = count[Errors(s)]
                            /\ count'[Last5m(s)] \in Nat
                            /\ count'[Last5m(s)] <= count[Last5m(s)]
  <2>1. CASE Clock
    <3>1. /\ \A k \in Key : (\A s \in Service : k # Last5m(s)) => count'[k] = count[k]
          /\ \A s \in Service : count'[Last5m(s)] = IF Gone(s) THEN 0 ELSE count[Last5m(s)]
      BY <2>1, ClockStep
    <3>2. \A s \in Service : count[Last5m(s)] \in Nat
      BY CountsTyped
    <3>3. /\ Total \in Key /\ \A s \in Service : Total # Last5m(s)
          /\ \A t \in Service : /\ OfService(t) \in Key /\ \A s \in Service : OfService(t) # Last5m(s)
                                /\ Ranked(t) \in Key /\ \A s \in Service : Ranked(t) # Last5m(s)
                                /\ Errors(t) \in Key /\ \A s \in Service : Errors(t) # Last5m(s)
      BY KeysTyped DEF Total, OfService, Ranked, Errors, Last5m
    <3> QED
      BY <3>1, <3>2, <3>3
  <2>2. CASE (\E w \in Writer : Call(w) \/ Break(w)) \/ GetLiveMetrics
    <3>1. count' = count
      BY <2>2, RedisKept DEF redisVars
    <3> QED
      BY <3>1, CountsTyped
  <2> QED
    BY <2>1, <2>2
<1> QED
  BY <1>1, SumsKept

-----------------------------------------------------------------------------
(***************************************************************************)
(* CounterOrder: the difference between two counters is at least the       *)
(* number of writers between their commands.                               *)
(***************************************************************************)
CountInv ==
  /\ LogSum + Cardinality(At(Service, {2})) <= count[Total]
  /\ \A s \in Service :
       /\ count[Ranked(s)] + Cardinality(At({s}, {3, 4})) <= count[OfService(s)]
       /\ count[Errors(s)] + Cardinality(At({s}, {5})) <= count[Ranked(s)]
       /\ count[Last5m(s)] + Cardinality(At({s}, {6})) <= count[Errors(s)]

LEMMA PlacesBehind ==
  /\ {2} \in SUBSET Behind /\ {3, 4} \in SUBSET Behind /\ {5} \in SUBSET Behind
  /\ {6} \in SUBSET Behind /\ {2, 3, 4} \in SUBSET Behind /\ {7} \in SUBSET Behind
  /\ {10} \in SUBSET Behind
BY DEF Behind

LEMMA CountExec ==
  ASSUME TypeOK, CountInv, NEW w \in Writer, Exec(w)
  PROVE  CountInv'
<1> DEFINE i == cmd[w]
           j == cmd'[w]
           t == Here(w)[1]
<1>1. /\ i \in 1 .. 10 /\ t \in Service
      /\ \/ i \in {1, 2, 3, 5, 6, 7, 8, 9} /\ j = i + 1
         \/ i = 4 /\ j \in {1, 5}
         \/ i = 10 /\ j = 1
      /\ count'[Total] = count[Total] + (IF i = 1 THEN 1 ELSE 0)
      /\ \A s \in Service :
           /\ count'[OfService(s)] = count[OfService(s)] + (IF i = 2 /\ s = t THEN 1 ELSE 0)
           /\ count'[Ranked(s)] = count[Ranked(s)] + (IF i = 4 /\ s = t THEN 1 ELSE 0)
           /\ count'[Errors(s)] = count[Errors(s)] + (IF i = 5 /\ s = t THEN 1 ELSE 0)
           /\ count'[Last5m(s)] = count[Last5m(s)] + (IF i = 6 /\ s = t THEN 1 ELSE 0)
      /\ LogSum' = LogSum + (IF i = 2 THEN 1 ELSE 0)
  BY ExecCounts
<1>2. /\ count[Total] \in Nat /\ LogSum \in Nat
      /\ \A s \in Service : /\ count[OfService(s)] \in Nat /\ count[Ranked(s)] \in Nat
                            /\ count[Errors(s)] \in Nat /\ count[Last5m(s)] \in Nat
  BY CountsTyped
<1>3. LogSum' + Cardinality(At(Service, {2})') <= count'[Total]
  <2> DEFINE a == Cardinality(At(Service, {2}))
             b == Cardinality(At(Service, {2})')
  <2>1. /\ a \in Nat /\ b \in Nat
        /\ (i \in {2} <=> j \in {2}) => b = a
        /\ i \in {2} /\ j \notin {2} => b + 1 = a
        /\ i \notin {2} /\ j \in {2} => b = a + 1
    BY AtExecAll, PlacesBehind, Zenon
  <2>2. LogSum + a <= count[Total]
    BY DEF CountInv
  <2> HIDE DEF a, b, i, j, t
  <2>3. b + (IF i = 2 THEN 1 ELSE 0) = a + (IF i = 1 THEN 1 ELSE 0)
    BY <1>1, <2>1
  <2>4. LogSum' + b <= count'[Total]
    BY <1>1, <1>2, <2>1, <2>2, <2>3
  <2> QED
    BY <2>4 DEF b
<1>4. ASSUME NEW s \in Service
      PROVE  count'[Ranked(s)] + Cardinality(At({s}, {3, 4})') <= count'[OfService(s)]
  <2> DEFINE a == Cardinality(At({s}, {3, 4}))
             b == Cardinality(At({s}, {3, 4})')
  <2>1. /\ a \in Nat /\ b \in Nat
        /\ t # s => b = a
        /\ (i \in {3, 4} <=> j \in {3, 4}) => b = a
        /\ t = s /\ i \in {3, 4} /\ j \notin {3, 4} => b + 1 = a
        /\ t = s /\ i \notin {3, 4} /\ j \in {3, 4} => b = a + 1
    BY AtExecOf, PlacesBehind, Zenon
  <2>2. count[Ranked(s)] + a <= count[OfService(s)]
    BY DEF CountInv
  <2> HIDE DEF a, b, i, j, t
  <2>3. CASE t = s
    <3>1. b + (IF i = 4 THEN 1 ELSE 0) = a + (IF i = 2 THEN 1 ELSE 0)
      BY <1>1, <2>1, <2>3
    <3>2. count'[Ranked(s)] + b <= count'[OfService(s)]
      BY <1>1, <1>2, <2>1, <2>2, <2>3, <3>1
    <3> QED
      BY <3>2 DEF b
  <2>4. CASE t # s
    <3>1. b = a
      BY <2>1, <2>4
    <3>2. count'[Ranked(s)] + b <= count'[OfService(s)]
      BY <1>1, <1>2, <2>1, <2>2, <2>4, <3>1
    <3> QED
      BY <3>2 DEF b
  <2> QED
    BY <2>3, <2>4
<1>5. ASSUME NEW s \in Service
      PROVE  count'[Errors(s)] + Cardinality(At({s}, {5})') <= count'[Ranked(s)]
  <2> DEFINE a == Cardinality(At({s}, {5}))
             b == Cardinality(At({s}, {5})')
  <2>1. /\ a \in Nat /\ b \in Nat
        /\ t # s => b = a
        /\ (i \in {5} <=> j \in {5}) => b = a
        /\ t = s /\ i \in {5} /\ j \notin {5} => b + 1 = a
        /\ t = s /\ i \notin {5} /\ j \in {5} => b = a + 1
    BY AtExecOf, PlacesBehind, Zenon
  <2>2. count[Errors(s)] + a <= count[Ranked(s)]
    BY DEF CountInv
  <2> HIDE DEF a, b, i, j, t
  <2>3. CASE t = s
    <3>1. b + (IF i = 5 THEN 1 ELSE 0) <= a + (IF i = 4 THEN 1 ELSE 0)
      BY <1>1, <2>1, <2>3
    <3>2. count'[Errors(s)] + b <= count'[Ranked(s)]
      BY <1>1, <1>2, <2>1, <2>2, <2>3, <3>1
    <3> QED
      BY <3>2 DEF b
  <2>4. CASE t # s
    <3>1. b = a
      BY <2>1, <2>4
    <3>2. count'[Errors(s)] + b <= count'[Ranked(s)]
      BY <1>1, <1>2, <2>1, <2>2, <2>4, <3>1
    <3> QED
      BY <3>2 DEF b
  <2> QED
    BY <2>3, <2>4
<1>6. ASSUME NEW s \in Service
      PROVE  count'[Last5m(s)] + Cardinality(At({s}, {6})') <= count'[Errors(s)]
  <2> DEFINE a == Cardinality(At({s}, {6}))
             b == Cardinality(At({s}, {6})')
  <2>1. /\ a \in Nat /\ b \in Nat
        /\ t # s => b = a
        /\ (i \in {6} <=> j \in {6}) => b = a
        /\ t = s /\ i \in {6} /\ j \notin {6} => b + 1 = a
        /\ t = s /\ i \notin {6} /\ j \in {6} => b = a + 1
    BY AtExecOf, PlacesBehind, Zenon
  <2>2. count[Last5m(s)] + a <= count[Errors(s)]
    BY DEF CountInv
  <2> HIDE DEF a, b, i, j, t
  <2>3. CASE t = s
    <3>1. b + (IF i = 6 THEN 1 ELSE 0) = a + (IF i = 5 THEN 1 ELSE 0)
      BY <1>1, <2>1, <2>3
    <3>2. count'[Last5m(s)] + b <= count'[Errors(s)]
      BY <1>1, <1>2, <2>1, <2>2, <2>3, <3>1
    <3> QED
      BY <3>2 DEF b
  <2>4. CASE t # s
    <3>1. b = a
      BY <2>1, <2>4
    <3>2. count'[Last5m(s)] + b <= count'[Errors(s)]
      BY <1>1, <1>2, <2>1, <2>2, <2>4, <3>1
    <3> QED
      BY <3>2 DEF b
  <2> QED
    BY <2>3, <2>4
<1> QED
  BY <1>3, <1>4, <1>5, <1>6 DEF CountInv

LEMMA CountOther ==
  ASSUME TypeOK, CountInv, (\E w \in Writer : Call(w) \/ Break(w)) \/ Clock \/ GetLiveMetrics
  PROVE  CountInv'
<1>1. ASSUME NEW S, NEW P \in SUBSET Behind
      PROVE  /\ Cardinality(At(S, P)) \in Nat /\ Cardinality(At(S, P)') \in Nat
             /\ Cardinality(At(S, P)') <= Cardinality(At(S, P))
  <2>1. CASE \E w \in Writer : Break(w)
    BY <2>1, AtBreak
  <2>2. CASE (\E w \in Writer : Call(w)) \/ Clock \/ GetLiveMetrics
    <3>1. At(S, P)' = At(S, P)
      BY <2>2, AtKept
    <3>2. Cardinality(At(S, P)) \in Nat
      BY AtTyped
    <3> QED
      BY <3>1, <3>2
  <2> QED
    BY <2>1, <2>2
<1>2. /\ count[Total] \in Nat /\ LogSum \in Nat
      /\ \A s \in Service : /\ count[OfService(s)] \in Nat /\ count[Ranked(s)] \in Nat
                            /\ count[Errors(s)] \in Nat /\ count[Last5m(s)] \in Nat
  BY CountsTyped
<1>3. /\ count'[Total] = count[Total] /\ LogSum' = LogSum
      /\ \A s \in Service : /\ count'[OfService(s)] = count[OfService(s)]
                            /\ count'[Ranked(s)] = count[Ranked(s)]
                            /\ count'[Errors(s)] = count[Errors(s)]
                            /\ count'[Last5m(s)] \in Nat
                            /\ count'[Last5m(s)] <= count[Last5m(s)]
  BY OtherCounts
<1>4. LogSum' + Cardinality(At(Service, {2})') <= count'[Total]
  <2>1. LogSum + Cardinality(At(Service, {2})) <= count[Total]
    BY DEF CountInv
  <2>2. /\ Cardinality(At(Service, {2})) \in Nat /\ Cardinality(At(Service, {2})') \in Nat
        /\ Cardinality(At(Service, {2})') <= Cardinality(At(Service, {2}))
    BY <1>1, PlacesBehind
  <2> QED
    BY <1>2, <1>3, <2>1, <2>2
<1>5. ASSUME NEW s \in Service, NEW P \in {{3, 4}, {5}, {6}}
      PROVE  /\ Cardinality(At({s}, P)) \in Nat /\ Cardinality(At({s}, P)') \in Nat
             /\ Cardinality(At({s}, P)') <= Cardinality(At({s}, P))
  <2>1. P \in SUBSET Behind
    BY PlacesBehind
  <2> QED
    BY <1>1, <2>1
<1>6. ASSUME NEW s \in Service
      PROVE  count'[Ranked(s)] + Cardinality(At({s}, {3, 4})') <= count'[OfService(s)]
  <2>1. count[Ranked(s)] + Cardinality(At({s}, {3, 4})) <= count[OfService(s)]
    BY DEF CountInv
  <2>2. /\ Cardinality(At({s}, {3, 4})) \in Nat /\ Cardinality(At({s}, {3, 4})') \in Nat
        /\ Cardinality(At({s}, {3, 4})') <= Cardinality(At({s}, {3, 4}))
    BY <1>5
  <2> QED
    BY <1>2, <1>3, <2>1, <2>2
<1>7. ASSUME NEW s \in Service
      PROVE  count'[Errors(s)] + Cardinality(At({s}, {5})') <= count'[Ranked(s)]
  <2>1. count[Errors(s)] + Cardinality(At({s}, {5})) <= count[Ranked(s)]
    BY DEF CountInv
  <2>2. /\ Cardinality(At({s}, {5})) \in Nat /\ Cardinality(At({s}, {5})') \in Nat
        /\ Cardinality(At({s}, {5})') <= Cardinality(At({s}, {5}))
    BY <1>5
  <2> QED
    BY <1>2, <1>3, <2>1, <2>2
<1>8. ASSUME NEW s \in Service
      PROVE  count'[Last5m(s)] + Cardinality(At({s}, {6})') <= count'[Errors(s)]
  <2>1. count[Last5m(s)] + Cardinality(At({s}, {6})) <= count[Errors(s)]
    BY DEF CountInv
  <2>2. /\ Cardinality(At({s}, {6})) \in Nat /\ Cardinality(At({s}, {6})') \in Nat
        /\ Cardinality(At({s}, {6})') <= Cardinality(At({s}, {6}))
    BY <1>5
  <2> QED
    BY <1>2, <1>3, <2>1, <2>2
<1> QED
  BY <1>4, <1>6, <1>7, <1>8 DEF CountInv

(* At the beginning nobody has sent anything and nothing is counted. *)
LEMMA NothingCounted ==
  ASSUME Init
  PROVE  /\ \A S, P : At(S, P) = {} /\ Cardinality(At(S, P)) = 0
         /\ count[Total] = 0 /\ LogSum = 0 /\ RankSum = 0 /\ breaks = 0
         /\ \A s \in Service : /\ count[OfService(s)] = 0 /\ count[Ranked(s)] = 0
                               /\ count[Errors(s)] = 0 /\ count[Last5m(s)] = 0
                               /\ recent[s] = 0
<1>1. ASSUME NEW S, NEW P
      PROVE  At(S, P) = {}
  BY DEF Init, At, Left
<1>2. \A S, P : At(S, P) = {} /\ Cardinality(At(S, P)) = 0
  BY <1>1, FS_EmptySet
<1>3. count = [k \in Key |-> 0] /\ recent = [s \in Service |-> 0] /\ breaks = 0
  BY DEF Init
<1>4. /\ count[Total] = 0
      /\ \A s \in Service : /\ count[OfService(s)] = 0 /\ count[Ranked(s)] = 0
                            /\ count[Errors(s)] = 0 /\ count[Last5m(s)] = 0
                            /\ recent[s] = 0
  BY <1>3, KeysTyped
<1> DEFINE f == [s \in Service |-> count[OfService(s)]]
           g == [s \in Service |-> count[Ranked(s)]]
<1>5. f \in [Service -> Nat] /\ g \in [Service -> Nat] /\ \A s \in Service : f[s] = 0 /\ g[s] = 0
  BY <1>4
<1> HIDE DEF f, g
<1>6. SumFunctionOnSet(f, Service) = 0 /\ SumFunctionOnSet(g, Service) = 0
  BY <1>5, FiniteAssumption, SumZero
<1>7. LogSum = 0 /\ RankSum = 0
  BY <1>6, Zenon DEF f, g, LogSum, RankSum
<1> QED
  BY <1>2, <1>3, <1>4, <1>7

(* However the commands of the processors interleave, and wherever a       *)
(* pipeline breaks and begins again, the counters are ordered as the       *)
(* commands of RecordBatch are.                                            *)
THEOREM CountersOrdered == Spec => []CounterOrder
<1>1. Init => CountInv
  BY NothingCounted DEF CountInv
<1>2. TypeOK /\ CountInv /\ [Next]_vars => CountInv'
  <2>1. ASSUME TypeOK, CountInv, Next
        PROVE  CountInv'
    BY <2>1, CountExec, CountOther, StepKinds
  <2>2. ASSUME CountInv, UNCHANGED vars
        PROVE  CountInv'
    BY <2>2 DEF CountInv, LogSum, At, Left, Here, vars, redisVars, writerVars
  <2> QED
    BY <2>1, <2>2
<1>3. TypeOK /\ CountInv => CounterOrder
  <2> SUFFICES ASSUME TypeOK, CountInv
               PROVE  CounterOrder
    OBVIOUS
  <2>1. \A S, P : Cardinality(At(S, P)) \in Nat
    BY AtTyped
  <2>2. SumOf(OfService) = LogSum
    BY DEF SumOf, LogSum
  <2>3. SumOf(OfService) <= count[Total]
    <3>1. LogSum + Cardinality(At(Service, {2})) <= count[Total]
      BY DEF CountInv
    <3>2. Cardinality(At(Service, {2})) \in Nat
      BY <2>1
    <3>3. LogSum <= count[Total]
      BY <3>1, <3>2, CountsTyped
    <3> QED
      BY <2>2, <3>3
  <2>4. ASSUME NEW s \in Service
        PROVE  /\ count[Last5m(s)] <= count[Errors(s)]
               /\ count[Errors(s)] <= count[Ranked(s)]
               /\ count[Ranked(s)] <= count[OfService(s)]
    <3>1. /\ count[Ranked(s)] + Cardinality(At({s}, {3, 4})) <= count[OfService(s)]
          /\ count[Errors(s)] + Cardinality(At({s}, {5})) <= count[Ranked(s)]
          /\ count[Last5m(s)] + Cardinality(At({s}, {6})) <= count[Errors(s)]
      BY DEF CountInv
    <3>2. /\ Cardinality(At({s}, {3, 4})) \in Nat /\ Cardinality(At({s}, {5})) \in Nat
          /\ Cardinality(At({s}, {6})) \in Nat
      BY <2>1
    <3> QED
      BY <3>1, <3>2, CountsTyped
  <2> QED
    BY <2>3, <2>4 DEF CounterOrder
<1>4. Init => TypeOK
  BY TypeInit
<1>5. TypeOK /\ [Next]_vars => TypeOK'
  BY TypeStep
<1> QED
  BY <1>1, <1>2, <1>3, <1>4, <1>5, PTL DEF Spec

-----------------------------------------------------------------------------
(***************************************************************************)
(* DriftBound: what the total is ahead of the leaderboard belongs to a     *)
(* writer between the two commands, or to one that broke there.            *)
(***************************************************************************)
DriftInv == count[Total] <= RankSum + Cardinality(At(Service, {2, 3, 4})) + breaks

LEMMA BreaksTyped ==
  ASSUME TypeOK
  PROVE  breaks \in Nat
BY BoundsAssumption DEF TypeOK

LEMMA DriftExec ==
  ASSUME TypeOK, DriftInv, NEW w \in Writer, Exec(w)
  PROVE  DriftInv'
<1> DEFINE i == cmd[w]
           j == cmd'[w]
           t == Here(w)[1]
           a == Cardinality(At(Service, {2, 3, 4}))
           b == Cardinality(At(Service, {2, 3, 4})')
<1>1. /\ i \in 1 .. 10 /\ t \in Service
      /\ \/ i \in {1, 2, 3, 5, 6, 7, 8, 9} /\ j = i + 1
         \/ i = 4 /\ j \in {1, 5}
         \/ i = 10 /\ j = 1
      /\ count'[Total] = count[Total] + (IF i = 1 THEN 1 ELSE 0)
      /\ RankSum' = RankSum + (IF i = 4 THEN 1 ELSE 0)
  BY ExecCounts
<1>2. /\ a \in Nat /\ b \in Nat
      /\ (i \in {2, 3, 4} <=> j \in {2, 3, 4}) => b = a
      /\ i \in {2, 3, 4} /\ j \notin {2, 3, 4} => b + 1 = a
      /\ i \notin {2, 3, 4} /\ j \in {2, 3, 4} => b = a + 1
  BY AtExecAll, PlacesBehind, Zenon
<1>3. count[Total] \in Nat /\ RankSum \in Nat /\ breaks \in Nat
  BY CountsTyped, BreaksTyped
<1>4. breaks' = breaks
  BY ExecStep
<1>5. count[Total] <= RankSum + a + breaks
  BY DEF DriftInv
<1> HIDE DEF a, b, i, j, t
<1>6. b + (IF i = 4 THEN 1 ELSE 0) = a + (IF i = 1 THEN 1 ELSE 0)
  <2>1. i \in {2, 3, 4} <=> i = 2 \/ i = 3 \/ i = 4
    OBVIOUS
  <2>2. j \in {2, 3, 4} <=> i = 1 \/ i = 2 \/ i = 3
    BY <1>1
  <2> QED
    BY <1>1, <1>2, <2>1, <2>2
<1>7. count'[Total] <= RankSum' + b + breaks'
  BY <1>1, <1>2, <1>3, <1>4, <1>5, <1>6
<1> QED
  BY <1>7 DEF DriftInv, b

LEMMA DriftOther ==
  ASSUME TypeOK, DriftInv, (\E w \in Writer : Call(w) \/ Break(w)) \/ Clock \/ GetLiveMetrics
  PROVE  DriftInv'
<1> DEFINE a == Cardinality(At(Service, {2, 3, 4}))
           b == Cardinality(At(Service, {2, 3, 4})')
<1>1. count[Total] <= RankSum + a + breaks
  BY DEF DriftInv
<1>2. count'[Total] = count[Total] /\ RankSum' = RankSum
  BY OtherCounts
<1>3. count[Total] \in Nat /\ RankSum \in Nat /\ breaks \in Nat
  BY CountsTyped, BreaksTyped
<1>4. /\ a \in Nat /\ b \in Nat
      /\ \/ b = a /\ breaks' = breaks
         \/ a <= b + 1 /\ breaks' = breaks + 1
  <2>1. CASE \E w \in Writer : Break(w)
    <3>1. a \in Nat /\ b \in Nat /\ a <= b + 1
      BY <2>1, AtBreak, PlacesBehind
    <3>2. breaks' = breaks + 1
      BY <2>1, RedisKept
    <3> QED
      BY <3>1, <3>2
  <2>2. CASE (\E w \in Writer : Call(w)) \/ Clock \/ GetLiveMetrics
    <3>1. At(Service, {2, 3, 4})' = At(Service, {2, 3, 4})
      BY <2>2, AtKept, PlacesBehind
    <3>2. b = a /\ a \in Nat
      BY <3>1, AtTyped
    <3>3. breaks' = breaks
      BY <2>2, RedisKept
    <3> QED
      BY <3>2, <3>3
  <2> QED
    BY <2>1, <2>2
<1> HIDE DEF a, b
<1>5. count'[Total] <= RankSum' + b + breaks'
  BY <1>1, <1>2, <1>3, <1>4
<1> QED
  BY <1>5 DEF DriftInv, b

(* Every pipeline drifts the total and the leaderboard apart by one log    *)
(* while it is in progress, and by one more each time it breaks, however   *)
(* long its batch is.                                                      *)
THEOREM DriftBounded == Spec => []DriftBound
<1>1. Init => DriftInv
  BY NothingCounted DEF DriftInv
<1>2. TypeOK /\ DriftInv /\ [Next]_vars => DriftInv'
  <2>1. ASSUME TypeOK, DriftInv, Next
        PROVE  DriftInv'
    BY <2>1, DriftExec, DriftOther, StepKinds
  <2>2. ASSUME DriftInv, UNCHANGED vars
        PROVE  DriftInv'
    BY <2>2 DEF DriftInv, RankSum, At, Left, Here, vars, redisVars, writerVars, boundVars
  <2> QED
    BY <2>1, <2>2
<1>3. TypeOK /\ DriftInv => DriftBound
  <2> SUFFICES ASSUME TypeOK, DriftInv
               PROVE  DriftBound
    OBVIOUS
  <2>1. /\ Cardinality(At(Service, {2, 3, 4})) \in Nat /\ Cardinality(InProgress) \in Nat
        /\ Cardinality(At(Service, {2, 3, 4})) <= Cardinality(InProgress)
    BY AtTyped
  <2>2. SumOf(Ranked) = RankSum
    BY DEF SumOf, RankSum
  <2>3. count[Total] - RankSum <= Cardinality(InProgress) + breaks
    BY <2>1, CountsTyped, BreaksTyped DEF DriftInv
  <2> QED
    BY <2>2, <2>3 DEF DriftBound
<1>4. Init => TypeOK
  BY TypeInit
<1>5. TypeOK /\ [Next]_vars => TypeOK'
  BY TypeStep
<1> QED
  BY <1>1, <1>2, <1>3, <1>4, <1>5, PTL DEF Spec

-----------------------------------------------------------------------------
(***************************************************************************)
(* RecentBound: an element beyond the cap is between its LPUSH and the     *)
(* LTRIM, or its LTRIM was not executed.                                   *)
(***************************************************************************)
RecentInv ==
  \A s \in Service : recent[s] <= RecentMax + Cardinality(At({s}, {10})) + breaks

(* The effect of a command on the lists. *)
LEMMA ExecRecent ==
  ASSUME TypeOK, NEW w \in Writer, Exec(w)
  PROVE  \A s \in Service :
           /\ recent'[s] \in Nat
           /\ (cmd[w] \notin {9, 10} \/ Here(w)[1] # s => recent'[s] = recent[s])
           /\ (cmd[w] = 9 /\ Here(w)[1] = s => recent'[s] = recent[s] + 1)
           /\ (cmd[w] = 10 /\ Here(w)[1] = s => recent'[s] <= RecentMax)
<1> DEFINE t == Here(w)[1]
<1>1. Left(w) /\ Effect(w)
  BY ExecStep
<1>2. t \in Service
  BY <1>1, PlaceTyped
<1>3. recent \in [Service -> Nat] /\ RecentMax \in Nat
  BY BoundsAssumption DEF TypeOK
<1>4. \/ cmd[w] \notin {9, 10} /\ recent' = recent
      \/ cmd[w] = 9 /\ recent' = [recent EXCEPT ![t] = @ + 1]
      \/ cmd[w] = 10 /\ recent' = [recent EXCEPT ![t] = IF @ > RecentMax THEN RecentMax ELSE @]
  BY <1>1 DEF Effect, Raises
<1> HIDE DEF t
<1>5. CASE cmd[w] \notin {9, 10} /\ recent' = recent
  BY <1>3, <1>5
<1>6. CASE cmd[w] = 9 /\ recent' = [recent EXCEPT ![t] = @ + 1]
  BY <1>2, <1>3, <1>6 DEF t
<1>7. CASE cmd[w] = 10 /\ recent' = [recent EXCEPT ![t] = IF @ > RecentMax THEN RecentMax ELSE @]
  BY <1>2, <1>3, <1>7 DEF t
<1> QED
  BY <1>4, <1>5, <1>6, <1>7

LEMMA RecentStep ==
  ASSUME TypeOK, RecentInv, Next
  PROVE  RecentInv'
<1>1. /\ RecentMax \in Nat /\ breaks \in Nat
      /\ \A s \in Service : recent[s] \in Nat
  BY BoundsAssumption, BreaksTyped DEF TypeOK
<1>2. ASSUME NEW s \in Service
      PROVE  recent'[s] <= RecentMax + Cardinality(At({s}, {10})') + breaks'
  <2> DEFINE a == Cardinality(At({s}, {10}))
             b == Cardinality(At({s}, {10})')
  <2>1. recent[s] <= RecentMax + a + breaks
    BY DEF RecentInv
  <2>2. ASSUME NEW w \in Writer, Exec(w)
        PROVE  recent'[s] <= RecentMax + b + breaks'
    <3> DEFINE i == cmd[w]
               j == cmd'[w]
               t == Here(w)[1]
    <3>1. /\ i \in 1 .. 10
          /\ \/ i \in {1, 2, 3, 5, 6, 7, 8, 9} /\ j = i + 1
             \/ i = 4 /\ j \in {1, 5}
             \/ i = 10 /\ j = 1
      BY <2>2, ExecCounts
    <3>2. /\ a \in Nat /\ b \in Nat
          /\ t # s => b = a
          /\ (i \in {10} <=> j \in {10}) => b = a
          /\ t = s /\ i \in {10} /\ j \notin {10} => b + 1 = a
          /\ t = s /\ i \notin {10} /\ j \in {10} => b = a + 1
      BY <2>2, AtExecOf, PlacesBehind, Zenon
    <3>3. /\ recent'[s] \in Nat
          /\ (i \notin {9, 10} \/ t # s => recent'[s] = recent[s])
          /\ (i = 9 /\ t = s => recent'[s] = recent[s] + 1)
          /\ (i = 10 /\ t = s => recent'[s] <= RecentMax)
      BY <2>2, ExecRecent
    <3>4. breaks' = breaks
      BY <2>2, ExecStep
    <3> HIDE DEF a, b, i, j, t
    <3>5. CASE t # s
      BY <1>1, <2>1, <3>2, <3>3, <3>4, <3>5
    <3>6. CASE t = s /\ i = 9
      BY <1>1, <2>1, <3>1, <3>2, <3>3, <3>4, <3>6
    <3>7. CASE t = s /\ i = 10
      BY <1>1, <2>1, <3>1, <3>2, <3>3, <3>4, <3>7
    <3>8. CASE i \notin {9, 10}
      BY <1>1, <2>1, <3>1, <3>2, <3>3, <3>4, <3>8
    <3> QED
      BY <3>5, <3>6, <3>7, <3>8
  <2>3. ASSUME NEW w \in Writer, Break(w)
        PROVE  recent'[s] <= RecentMax + b + breaks'
    <3>1. a \in Nat /\ b \in Nat /\ a <= b + 1
      BY <2>3, AtBreak, PlacesBehind
    <3>2. breaks' = breaks + 1 /\ recent' = recent
      BY <2>3, RedisKept DEF redisVars
    <3> HIDE DEF a, b
    <3> QED
      BY <1>1, <2>1, <3>1, <3>2
  <2>4. ASSUME (\E w \in Writer : Call(w)) \/ Clock \/ GetLiveMetrics
        PROVE  recent'[s] <= RecentMax + b + breaks'
    <3>1. At({s}, {10})' = At({s}, {10})
      BY <2>4, AtKept, PlacesBehind
    <3>2. b = a
      BY <3>1
    <3>3. breaks' = breaks /\ recent' = recent
      BY <2>4, RedisKept DEF redisVars
    <3> HIDE DEF a, b
    <3> QED
      BY <2>1, <3>2, <3>3
  <2> QED
    BY <2>2, <2>3, <2>4, StepKinds
<1> QED
  BY <1>2 DEF RecentInv

(* The lists of recent errors stay at their cap, but for one element per   *)
(* pipeline in progress and one per broken connection, though LPUSH and    *)
(* LTRIM are two commands.                                                 *)
THEOREM RecentBounded == Spec => []RecentBound
<1>1. Init => RecentInv
  <2> SUFFICES ASSUME Init, NEW s \in Service
               PROVE  recent[s] <= RecentMax + Cardinality(At({s}, {10})) + breaks
    BY DEF RecentInv
  <2>1. recent[s] = 0 /\ Cardinality(At({s}, {10})) = 0 /\ breaks = 0
    BY NothingCounted
  <2> QED
    BY <2>1, BoundsAssumption
<1>2. TypeOK /\ RecentInv /\ [Next]_vars => RecentInv'
  <2>1. ASSUME RecentInv, UNCHANGED vars
        PROVE  RecentInv'
    BY <2>1 DEF RecentInv, At, Left, Here, vars, redisVars, writerVars, boundVars
  <2> QED
    BY <2>1, RecentStep
<1>3. TypeOK /\ RecentInv => RecentBound
  <2> SUFFICES ASSUME TypeOK, RecentInv, NEW s \in Service
               PROVE  recent[s] <= RecentMax + Cardinality(InProgress) + breaks
    BY DEF RecentBound
  <2>1. /\ Cardinality(At({s}, {10})) \in Nat /\ Cardinality(InProgress) \in Nat
        /\ Cardinality(At({s}, {10})) <= Cardinality(InProgress)
    BY AtTyped
  <2>2. recent[s] <= RecentMax + Cardinality(At({s}, {10})) + breaks
    BY DEF RecentInv
  <2>3. recent[s] \in Nat /\ RecentMax \in Nat /\ breaks \in Nat
    BY BoundsAssumption, BreaksTyped DEF TypeOK
  <2> QED
    BY <2>1, <2>2, <2>3
<1>4. Init => TypeOK
  BY TypeInit
<1>5. TypeOK /\ [Next]_vars => TypeOK'
  BY TypeStep
<1> QED
  BY <1>1, <1>2, <1>3, <1>4, <1>5, PTL DEF Spec

-----------------------------------------------------------------------------
(***************************************************************************)
(* WindowExpires: a window counter without a time to live waits for its    *)
(* EXPIRE, or is one of at most as many whose pipeline broke before it.    *)
(***************************************************************************)
Lasting(s) == count[Last5m(s)] > 0 /\ expiry[s] = 0

WindowInv ==
  \E B \in SUBSET Service :
    /\ Cardinality(B) <= breaks
    /\ \A s \in Service : Lasting(s) => s \in B \/ At({s}, {7}) # {}

(* Whether a service has a writer before its EXPIRE. *)
LEMMA WaitingExec ==
  ASSUME TypeOK, NEW w \in Writer, Exec(w), NEW s \in Service
  PROVE  /\ (Here(w)[1] = s /\ cmd[w] = 6 => At({s}, {7})' # {})
         /\ (At({s}, {7}) # {} /\ ~(Here(w)[1] = s /\ cmd[w] = 7) => At({s}, {7})' # {})
<1>1. Left(w) /\ Moves(w)
  BY ExecStep
<1>2. /\ batch' = batch /\ \A v \in Writer \ {w} : nth'[v] = nth[v] /\ cmd'[v] = cmd[v]
      /\ (nth'[w] = nth[w] \/ cmd'[w] = 1)
  BY <1>1 DEF Moves
<1>3. ASSUME Here(w)[1] = s, cmd[w] = 6
      PROVE  w \in At({s}, {7})'
  <2>1. cmd'[w] = 7
    BY <1>3, ExecCounts
  <2>2. nth'[w] = nth[w]
    BY <1>2, <2>1
  <2> QED
    BY <1>1, <1>2, <1>3, <2>1, <2>2 DEF At, Left, Here
<1>4. ASSUME NEW v \in At({s}, {7}), ~(Here(w)[1] = s /\ cmd[w] = 7)
      PROVE  v \in At({s}, {7})'
  <2>1. v \in Writer /\ v # w
    BY <1>4 DEF At
  <2> QED
    BY <1>2, <1>4, <2>1 DEF At, Left, Here
<1> QED
  BY <1>3, <1>4

(* A command makes a window counter last only before its EXPIRE. *)
LEMMA LastingExec ==
  ASSUME TypeOK, NEW w \in Writer, Exec(w), NEW s \in Service, Lasting(s)'
  PROVE  /\ Lasting(s) \/ (Here(w)[1] = s /\ cmd[w] = 6)
         /\ ~(Here(w)[1] = s /\ cmd[w] = 7)
<1> DEFINE t == Here(w)[1]
<1>1. Left(w) /\ Effect(w)
  BY ExecStep
<1>2. t \in Service
  BY <1>1, PlaceTyped
<1>3. /\ expiry \in [Service -> 0 .. MaxTime + Window] /\ now \in Nat \ {0} /\ Window \in Nat
      /\ count[Last5m(s)] \in Nat
  <2>1. expiry \in [Service -> 0 .. MaxTime + Window] /\ now \in 1 .. MaxTime
    BY DEF TypeOK, Time
  <2>2. Window \in Nat /\ MaxTime \in Nat
    BY BoundsAssumption
  <2>3. count[Last5m(s)] \in Nat
    BY CountsTyped
  <2> QED
    BY <2>1, <2>2, <2>3
<1>4. count'[Last5m(s)] = count[Last5m(s)] + (IF cmd[w] = 6 /\ s = t THEN 1 ELSE 0)
  BY ExecCounts
<1>5. \/ cmd[w] # 7 /\ expiry' = expiry
      \/ /\ cmd[w] = 7
         /\ count' = count
         /\ IF count[Last5m(t)] > 0 THEN expiry' = [expiry EXCEPT ![t] = now + Window]
                                    ELSE expiry' = expiry
  BY <1>1 DEF Effect, Raises
<1>6. count'[Last5m(s)] > 0 /\ expiry'[s] = 0
  BY DEF Lasting
<1> HIDE DEF t
<1>7. CASE cmd[w] # 7 /\ expiry' = expiry
  <2>1. Lasting(s) \/ (t = s /\ cmd[w] = 6)
    BY <1>3, <1>4, <1>6, <1>7 DEF Lasting
  <2> QED
    BY <1>7, <2>1 DEF t
<1>8. CASE /\ cmd[w] = 7 /\ count' = count
           /\ IF count[Last5m(t)] > 0 THEN expiry' = [expiry EXCEPT ![t] = now + Window]
                                      ELSE expiry' = expiry
  <2>1. t # s
    <3> SUFFICES ASSUME t = s
                 PROVE  FALSE
      OBVIOUS
    <3>1. count[Last5m(t)] > 0
      BY <1>6, <1>8
    <3>2. expiry' = [expiry EXCEPT ![t] = now + Window]
      BY <1>8, <3>1
    <3>3. expiry'[t] = now + Window
      BY <1>2, <1>3, <3>2
    <3> QED
      BY <1>3, <1>6, <3>3
  <2>2. expiry'[s] = expiry[s]
    BY <1>2, <1>3, <1>8, <2>1
  <2>3. Lasting(s)
    BY <1>6, <1>8, <2>2 DEF Lasting
  <2> QED
    BY <2>1, <2>3 DEF t
<1> QED
  BY <1>5, <1>7, <1>8

(* The clock and the other steps make none last. *)
LEMMA LastingOther ==
  ASSUME TypeOK, NEW s \in Service, Lasting(s)',
         (\E w \in Writer : Call(w) \/ Break(w)) \/ Clock \/ GetLiveMetrics
  PROVE  Lasting(s)
<1>1. CASE Clock
  <2>1. /\ count'[Last5m(s)] = IF Gone(s) THEN 0 ELSE count[Last5m(s)]
        /\ expiry'[s] = IF Gone(s) THEN 0 ELSE expiry[s]
    BY <1>1, ClockStep
  <2>2. count'[Last5m(s)] > 0 /\ expiry'[s] = 0
    BY DEF Lasting
  <2>3. ~Gone(s)
    BY <2>1, <2>2
  <2> QED
    BY <2>1, <2>2, <2>3 DEF Lasting
<1>2. CASE (\E w \in Writer : Call(w) \/ Break(w)) \/ GetLiveMetrics
  <2>1. count' = count /\ expiry' = expiry
    BY <1>2, RedisKept DEF redisVars
  <2> QED
    BY <2>1 DEF Lasting
<1> QED
  BY <1>1, <1>2

LEMMA WindowStep ==
  ASSUME TypeOK, WindowInv, Next
  PROVE  WindowInv'
<1>1. PICK B \in SUBSET Service :
        /\ Cardinality(B) <= breaks
        /\ \A s \in Service : Lasting(s) => s \in B \/ At({s}, {7}) # {}
  BY DEF WindowInv
<1>2. IsFiniteSet(B) /\ Cardinality(B) \in Nat /\ breaks \in Nat
  BY FiniteAssumption, FS_Subset, FS_CardinalityType, BreaksTyped
<1>3. ASSUME NEW w \in Writer, Exec(w)
      PROVE  WindowInv'
  <2>1. ASSUME NEW s \in Service, Lasting(s)'
        PROVE  s \in B \/ At({s}, {7})' # {}
    BY <1>1, <1>3, <2>1, LastingExec, WaitingExec
  <2>2. breaks' = breaks
    BY <1>3, ExecStep
  <2> QED
    BY <1>1, <2>1, <2>2 DEF WindowInv
<1>4. ASSUME NEW w \in Writer, Break(w)
      PROVE  WindowInv'
  <2> DEFINE t == Here(w)[1]
             C == B \union ({t} \intersect Service)
  <2>1. C \in SUBSET Service
    OBVIOUS
  <2>2. Cardinality(C) <= breaks'
    <3>1. breaks' = breaks + 1
      BY <1>4, RedisKept
    <3>2. CASE t \in Service
      <4>1. C = B \union {t}
        BY <3>2
      <4>2. Cardinality(B \union {t}) = IF t \in B THEN Cardinality(B)
                                                  ELSE Cardinality(B) + 1
        BY <1>2, FS_AddElement, Zenon
      <4>3. Cardinality(C) = Cardinality(B) \/ Cardinality(C) = Cardinality(B) + 1
        BY <4>1, <4>2, Zenon
      <4> HIDE DEF C
      <4> QED
        BY <1>1, <1>2, <3>1, <4>3
    <3>3. CASE t \notin Service
      <4>1. C = B
        BY <3>3
      <4> QED
        BY <1>1, <1>2, <3>1, <4>1
    <3> QED
      BY <3>2, <3>3
  <2>3. ASSUME NEW s \in Service, Lasting(s)'
        PROVE  s \in C \/ At({s}, {7})' # {}
    <3>1. Lasting(s)
      BY <1>4, <2>3, LastingOther
    <3>2. At({s}, {7})' = At({s}, {7}) \ {w}
      BY <1>4, AtBreak, PlacesBehind
    <3>3. CASE At({s}, {7})' = {} /\ s \notin B
      <4>1. w \in At({s}, {7})
        BY <1>1, <3>1, <3>2, <3>3
      <4>2. t = s
        BY <4>1 DEF At
      <4> QED
        BY <4>2
    <3> QED
      BY <3>3
  <2> HIDE DEF C
  <2> QED
    BY <2>1, <2>2, <2>3 DEF WindowInv
<1>5. ASSUME (\E w \in Writer : Call(w)) \/ Clock \/ GetLiveMetrics
      PROVE  WindowInv'
  <2>1. ASSUME NEW s \in Service, Lasting(s)'
        PROVE  s \in B \/ At({s}, {7})' # {}
    <3>1. Lasting(s)
      BY <1>5, <2>1, LastingOther
    <3>2. At({s}, {7})' = At({s}, {7})
      BY <1>5, AtKept, PlacesBehind
    <3> QED
      BY <1>1, <3>1, <3>2
  <2>2. breaks' = breaks
    BY <1>5, RedisKept
  <2> QED
    BY <1>1, <2>1, <2>2 DEF WindowInv
<1> QED
  BY <1>3, <1>4, <1>5, StepKinds

LEMMA WindowCount ==
  ASSUME TypeOK, WindowInv
  PROVE  WindowExpires
<1> DEFINE D == {s \in Service : count[Last5m(s)] > 0 /\ expiry[s] = 0}
<1>1. PICK B \in SUBSET Service :
        /\ Cardinality(B) <= breaks
        /\ \A s \in Service : Lasting(s) => s \in B \/ At({s}, {7}) # {}
  BY DEF WindowInv
<1> DEFINE E == D \ B
           f == [s \in E |-> CHOOSE w \in At({s}, {7}) : TRUE]
<1>2. ASSUME NEW s \in E
      PROVE  f[s] \in At({s}, {7})
  <2>1. At({s}, {7}) # {}
    BY <1>1 DEF Lasting
  <2>2. f[s] = CHOOSE w \in At({s}, {7}) : TRUE
    OBVIOUS
  <2> HIDE DEF f, E
  <2> QED
    BY <2>1, <2>2
<1>3. ASSUME NEW s \in E
      PROVE  f[s] \in InProgress /\ Here(f[s])[1] = s
  <2>1. f[s] \in At({s}, {7})
    BY <1>2
  <2>2. At({s}, {7}) \in SUBSET InProgress
    BY AtTyped
  <2> HIDE DEF f, E
  <2>3. Here(f[s])[1] \in {s}
    BY <2>1 DEF At
  <2> QED
    BY <2>1, <2>2, <2>3
<1>4. f \in Injection(E, InProgress)
  <2>1. f \in [E -> InProgress]
    BY <1>3
  <2>2. ASSUME NEW s \in E, NEW t \in E, f[s] = f[t]
        PROVE  s = t
    <3> HIDE DEF f, E
    <3> QED
      BY <1>3, <2>2
  <2> HIDE DEF f, E
  <2> QED
    BY <2>1, <2>2 DEF Injection, IsInjective
<1>5. IsFiniteSet(InProgress) /\ Cardinality(InProgress) \in Nat
  <2>1. InProgress \in SUBSET Writer
    BY DEF InProgress
  <2> QED
    BY <2>1, FiniteAssumption, FS_Subset, FS_CardinalityType
<1>6. IsFiniteSet(E) /\ Cardinality(E) <= Cardinality(InProgress)
  <2> HIDE DEF f, E
  <2> QED
    BY <1>4, <1>5, FS_Injection
<1>7. IsFiniteSet(B) /\ Cardinality(B) \in Nat /\ breaks \in Nat /\ Cardinality(E) \in Nat
  BY <1>6, FiniteAssumption, FS_Subset, FS_CardinalityType, BreaksTyped
<1>8. D \in SUBSET (B \union E)
  OBVIOUS
<1> HIDE DEF D, E
<1>9. /\ IsFiniteSet(B \union E)
      /\ Cardinality(B \union E) = Cardinality(B) + Cardinality(E) - Cardinality(B \intersect E)
  BY <1>6, <1>7, FS_Union, Zenon
<1>10. Cardinality(B \intersect E) \in Nat
  <2>1. B \intersect E \in SUBSET B
    OBVIOUS
  <2> QED
    BY <1>7, <2>1, FS_Subset, FS_CardinalityType
<1>11. Cardinality(D) \in Nat /\ Cardinality(D) <= Cardinality(B \union E)
  BY <1>8, <1>9, FS_Subset, FS_CardinalityType
<1>12. Cardinality(D) <= Cardinality(InProgress) + breaks
  BY <1>1, <1>5, <1>6, <1>7, <1>9, <1>10, <1>11
<1> QED
  BY <1>12 DEF D, WindowExpires

(* A window counter that never expires belongs to a pipeline in progress   *)
(* or was left behind by a broken connection, and no connection leaves     *)
(* more than one behind: INCR and EXPIRE are two commands.                 *)
THEOREM WindowsExpire == Spec => []WindowExpires
<1>1. Init => WindowInv
  <2> SUFFICES ASSUME Init
               PROVE  WindowInv
    OBVIOUS
  <2>1. \A s \in Service : ~Lasting(s)
    BY NothingCounted DEF Lasting
  <2>2. {} \in SUBSET Service /\ Cardinality({}) = 0 /\ breaks = 0
    BY NothingCounted, FS_EmptySet
  <2>3. Cardinality({}) <= breaks
    BY <2>2
  <2> QED
    BY <2>1, <2>2, <2>3 DEF WindowInv
<1>2. TypeOK /\ WindowInv /\ [Next]_vars => WindowInv'
  <2>1. ASSUME WindowInv, UNCHANGED vars
        PROVE  WindowInv'
    BY <2>1 DEF WindowInv, Lasting, At, Left, Here, vars, redisVars, writerVars, boundVars
  <2> QED
    BY <2>1, WindowStep
<1>3. TypeOK /\ WindowInv => WindowExpires
  BY WindowCount
<1>4. Init => TypeOK
  BY TypeInit
<1>5. TypeOK /\ [Next]_vars => TypeOK'
  BY TypeStep
<1> QED
  BY <1>1, <1>2, <1>3, <1>4, <1>5, PTL DEF Spec

-----------------------------------------------------------------------------
(***************************************************************************)
(* The live metrics.                                                       *)
(***************************************************************************)

(* What the query has still to read, and what it will not ask for. *)
DueOf(s) == (IF s \in reader.todo THEN count[OfService(s)] ELSE 0) + UnaskedOf(s)
Due == SumFunctionOnSet([s \in Service |-> DueOf(s)], Service)

(* What was read, what is still to be read and what is not asked for,      *)
(* together, make up for the total at every moment of the query: the       *)
(* leaderboard is read after the total, and each counter after it.         *)
LiveInv ==
  /\ reader.phase = "list" => reader.total <= RankSum + reader.open
  /\ reader.phase \in {"query", "done"} /\ ~reader.failed =>
       reader.total <= reader.logs + Due + reader.open
  /\ reader.phase = "done" => reader.todo = {}

LEMMA ReaderTyped ==
  ASSUME TypeOK
  PROVE  /\ reader.todo \in SUBSET Service
         /\ reader.total \in Nat /\ reader.logs \in Nat /\ reader.open \in Nat
         /\ DOMAIN reader = {"phase", "total", "todo", "logs", "open", "failed"}
         /\ reader = [reader EXCEPT !.phase = reader.phase]
BY DEF TypeOK

LEMMA DueTyped ==
  ASSUME TypeOK
  PROVE  /\ \A s \in Service : DueOf(s) \in Nat
         /\ [s \in Service |-> DueOf(s)] \in [Service -> Nat]
         /\ Due \in Nat
<1>1. \A s \in Service : DueOf(s) \in Nat
  BY CountsTyped DEF DueOf, UnaskedOf
<1>2. [s \in Service |-> DueOf(s)] \in [Service -> Nat]
  BY <1>1
<1>3. Due \in Nat
  BY <1>2, FiniteAssumption, SumType DEF Due
<1> QED
  BY <1>1, <1>2, <1>3

(* What others count in the meantime only adds to what is to be read. *)
LEMMA DueGrows ==
  ASSUME TypeOK, TypeOK', reader' = reader,
         \A s \in Service : count[OfService(s)] <= count'[OfService(s)]
  PROVE  Due' \in Nat /\ Due <= Due'
<1> DEFINE f == [s \in Service |-> DueOf(s)]
           h == [s \in Service |-> DueOf(s)']
<1>1. f \in [Service -> Nat] /\ \A s \in Service : f[s] = DueOf(s)
  BY DueTyped
<1>2. \A s \in Service : DueOf(s)' \in Nat
  <2>1. \A s \in Service : count'[OfService(s)] \in Nat
    BY KeysTyped DEF TypeOK
  <2> QED
    BY <2>1 DEF DueOf, UnaskedOf
<1>3. h \in [Service -> Nat] /\ \A s \in Service : h[s] = DueOf(s)'
  BY <1>2
<1>4. \A s \in Service : DueOf(s) <= DueOf(s)'
  <2>1. \A s \in Service : count[OfService(s)] \in Nat /\ count'[OfService(s)] \in Nat
    BY CountsTyped, KeysTyped DEF TypeOK
  <2> QED
    BY <2>1 DEF DueOf, UnaskedOf
<1>5. Due = SumFunctionOnSet(f, Service) /\ Due' = SumFunctionOnSet(h, Service)
  BY DEF Due
<1> HIDE DEF f, h
<1>6. \A s \in Service : f[s] <= h[s]
  BY <1>1, <1>3, <1>4
<1>7. SumFunctionOnSet(f, Service) <= SumFunctionOnSet(h, Service)
  BY <1>1, <1>3, <1>6, FiniteAssumption, SumMonotone
<1>8. SumFunctionOnSet(h, Service) \in Nat
  BY <1>3, FiniteAssumption, SumType
<1> QED
  BY <1>5, <1>7, <1>8

(* The writers and the clock leave the query as it is, and lower none of   *)
(* the counters that it reads.                                             *)
LEMMA LiveOthers ==
  ASSUME TypeOK, TypeOK', LiveInv, reader' = reader, RankSum' \in Nat, RankSum <= RankSum',
         \A s \in Service : count[OfService(s)] <= count'[OfService(s)]
  PROVE  LiveInv'
<1>1. Due' \in Nat /\ Due <= Due'
  BY DueGrows
<1>2. /\ reader.total \in Nat /\ reader.logs \in Nat /\ reader.open \in Nat
      /\ Due \in Nat /\ RankSum \in Nat
  BY ReaderTyped, DueTyped, CountsTyped
<1> DEFINE r == reader
           d == Due
           e == Due'
           k == RankSum
           l == RankSum'
<1>3. /\ r.phase = "list" => r.total <= k + r.open
      /\ r.phase \in {"query", "done"} /\ ~r.failed => r.total <= r.logs + d + r.open
      /\ r.phase = "done" => r.todo = {}
  BY DEF LiveInv
<1>4. /\ r.phase = "list" => r.total <= l + r.open
      /\ r.phase \in {"query", "done"} /\ ~r.failed => r.total <= r.logs + e + r.open
      /\ r.phase = "done" => r.todo = {}
  <2> HIDE DEF r, d, e, k, l
  <2>1. /\ d <= e /\ k <= l /\ d \in Nat /\ e \in Nat /\ k \in Nat /\ l \in Nat
        /\ r.total \in Nat /\ r.logs \in Nat /\ r.open \in Nat
    BY <1>1, <1>2 DEF r, d, e, k, l
  <2> QED
    BY <1>3, <2>1
<1> QED
  BY <1>4 DEF LiveInv

(* The steps of the query itself change nothing that it reads. *)
LEMMA LiveQuery ==
  ASSUME TypeOK, TypeOK', CountInv, DriftInv, LiveInv, GetLiveMetrics
  PROVE  LiveInv'
<1>1. count' = count /\ RankSum' = RankSum /\ breaks' = breaks
  BY RedisKept DEF redisVars, RankSum
<1>2. /\ reader.total \in Nat /\ reader.logs \in Nat /\ reader.open \in Nat
      /\ reader.todo \in SUBSET Service /\ Due \in Nat /\ RankSum \in Nat
  BY ReaderTyped, DueTyped, CountsTyped
<1>3. ASSUME ReadTotal
      PROVE  LiveInv'
  <2>1. /\ reader'.phase = "list" /\ reader'.total = count[Total]
        /\ reader'.open = Cardinality(InProgress) + breaks
    BY <1>3 DEF ReadTotal, Quiet
  <2>2. /\ Cardinality(At(Service, {2, 3, 4})) \in Nat /\ Cardinality(InProgress) \in Nat
        /\ Cardinality(At(Service, {2, 3, 4})) <= Cardinality(InProgress)
    BY AtTyped
  <2>3. count[Total] <= RankSum + (Cardinality(InProgress) + breaks)
    BY <1>2, <2>2, CountsTyped, BreaksTyped DEF DriftInv
  <2> QED
    BY <1>1, <2>1, <2>3 DEF LiveInv
<1>4. ASSUME ListServices
      PROVE  LiveInv'
  <2>1. /\ reader.phase = "list" /\ reader'.phase = "query"
        /\ reader'.todo = Trimmed(Listed)
        /\ reader'.total = reader.total /\ reader'.logs = reader.logs /\ reader'.open = reader.open
    BY <1>4, ReaderTyped DEF ListServices
  <2> DEFINE f == [s \in Service |-> count[Ranked(s)]]
             h == [s \in Service |-> DueOf(s)']
  <2>2. f \in [Service -> Nat] /\ h \in [Service -> Nat]
    <3>1. \A s \in Service : DueOf(s)' \in Nat
      BY <1>1, CountsTyped DEF DueOf, UnaskedOf
    <3> QED
      BY <3>1, CountsTyped
  <2>3. ASSUME NEW s \in Service
        PROVE  count[Ranked(s)] <= count[OfService(s)]
    <3>1. Cardinality(At({s}, {3, 4})) \in Nat
      BY AtTyped
    <3>2. count[Ranked(s)] + Cardinality(At({s}, {3, 4})) <= count[OfService(s)]
      BY DEF CountInv
    <3> QED
      BY <3>1, <3>2, CountsTyped
  <2>4. \A s \in Service : f[s] <= h[s]
    <3> SUFFICES ASSUME NEW s \in Service
                 PROVE  count[Ranked(s)] <= DueOf(s)'
      OBVIOUS
    <3>1. /\ count[Ranked(s)] \in Nat /\ count[OfService(s)] \in Nat
          /\ count[Ranked(s)] <= count[OfService(s)]
      BY <2>3, CountsTyped
    <3>2. CASE TrimSpace[s] # s
      BY <1>1, <3>1, <3>2 DEF DueOf, UnaskedOf
    <3>3. CASE TrimSpace[s] = s
      <4>1. s # ""
        BY TrimAssumption
      <4>2. s \in Listed => s \in reader'.todo
        BY <2>1, <3>3, <4>1 DEF Trimmed
      <4>3. s \notin Listed => count[Ranked(s)] = 0
        BY <3>1 DEF Listed
      <4> QED
        BY <1>1, <3>1, <3>3, <4>2, <4>3 DEF DueOf, UnaskedOf
    <3> QED
      BY <3>2, <3>3
  <2>5. RankSum = SumFunctionOnSet(f, Service)
    BY DEF RankSum
  <2>6. Due' = SumFunctionOnSet(h, Service)
    BY Zenon DEF Due
  <2> HIDE DEF f, h
  <2>7. /\ SumFunctionOnSet(f, Service) <= SumFunctionOnSet(h, Service)
        /\ SumFunctionOnSet(h, Service) \in Nat
    BY <2>2, <2>4, FiniteAssumption, SumMonotone, SumType
  <2>8. reader.total <= RankSum + reader.open
    BY <2>1 DEF LiveInv
  <2>9. reader.total <= reader.logs + Due' + reader.open
    BY <1>2, <2>5, <2>6, <2>7, <2>8
  <2> QED
    BY <2>1, <2>9 DEF LiveInv
<1>5. ASSUME ReadService
      PROVE  LiveInv'
  <2>1. PICK t \in reader.todo :
          reader' = [reader EXCEPT !.todo = @ \ {t}, !.logs = @ + count[OfService(t)]]
    BY <1>5 DEF ReadService
  <2>2. /\ reader.phase = "query" /\ reader'.phase = "query" /\ reader'.failed = reader.failed
        /\ reader'.todo = reader.todo \ {t} /\ reader'.logs = reader.logs + count[OfService(t)]
        /\ reader'.total = reader.total /\ reader'.open = reader.open
    BY <1>5, <2>1, ReaderTyped DEF ReadService
  <2>3. t \in Service /\ count[OfService(t)] \in Nat
    BY <1>2, CountsTyped
  <2> DEFINE f == [s \in Service |-> DueOf(s)]
             h == [s \in Service |-> DueOf(s)']
  <2>4. \A s \in Service \ {t} : DueOf(s)' = DueOf(s)
    BY <1>1, <2>2 DEF DueOf, UnaskedOf
  <2>5. UnaskedOf(t) \in Nat /\ UnaskedOf(t)' = UnaskedOf(t)
    BY <1>1, <2>3 DEF UnaskedOf
  <2>5a. DueOf(t)' = UnaskedOf(t) /\ DueOf(t) = count[OfService(t)] + UnaskedOf(t)
    BY <2>2, <2>3, <2>5 DEF DueOf
  <2>6. f \in [Service -> Nat] /\ h \in [Service -> Nat]
    <3>1. \A s \in Service : DueOf(s) \in Nat
      BY DueTyped
    <3>2. \A s \in Service : DueOf(s)' \in Nat
      BY <2>4, <2>5, <2>5a, <3>1
    <3> QED
      BY <3>1, <3>2
  <2>7. /\ \A s \in Service \ {t} : f[s] = h[s]
        /\ f[t] = count[OfService(t)] + h[t] /\ h[t] \in Nat
    BY <2>3, <2>4, <2>5, <2>5a
  <2>8. Due = SumFunctionOnSet(f, Service) /\ Due' = SumFunctionOnSet(h, Service)
    BY DEF Due
  <2> HIDE DEF f, h
  <2>9. /\ SumFunctionOnSet(f, Service) + h[t] = SumFunctionOnSet(h, Service) + f[t]
        /\ SumFunctionOnSet(h, Service) \in Nat
    BY <2>3, <2>6, <2>7, FiniteAssumption, SumUpdate, SumType
  <2>10. Due = Due' + count[OfService(t)] /\ Due' \in Nat
    BY <1>2, <2>3, <2>7, <2>8, <2>9
  <2>11. reader.logs + Due = (reader.logs + count[OfService(t)]) + Due'
    BY <1>2, <2>3, <2>10
  <2>12. ~reader.failed => reader.total <= (reader.logs + Due) + reader.open
    BY <2>2 DEF LiveInv
  <2> QED
    BY <2>2, <2>11, <2>12 DEF LiveInv
<1>6. ASSUME ReadBreaks
      PROVE  LiveInv'
  <2>1. reader'.phase = "query" /\ reader'.failed
    BY <1>6, ReaderTyped DEF ReadBreaks
  <2> QED
    BY <2>1 DEF LiveInv
<1>7. ASSUME Respond
      PROVE  LiveInv'
  <2>1. CASE reader.phase = "query" /\ reader.todo = {} /\ reader' = [reader EXCEPT !.phase = "done"]
    <3>1. /\ reader'.phase = "done" /\ reader'.failed = reader.failed
          /\ reader'.total = reader.total /\ reader'.logs = reader.logs /\ reader'.open = reader.open
          /\ reader'.todo = reader.todo
      BY <2>1, ReaderTyped
    <3>2. Due' = Due
      BY <1>1, <3>1 DEF Due, DueOf, UnaskedOf
    <3> QED
      BY <2>1, <3>1, <3>2 DEF LiveInv
  <2>2. CASE reader' = Quiet
    BY <2>2 DEF LiveInv, Quiet
  <2> QED
    BY <1>7, <2>1, <2>2 DEF Respond
<1> QED
  BY <1>3, <1>4, <1>5, <1>6, <1>7 DEF GetLiveMetrics

(* The total of the live metrics is covered by the services listed beside  *)
(* it, up to one log per pipeline that was in progress or had been         *)
(* interrupted when it was read and up to the logs of names with           *)
(* surrounding blanks, however many processors write between the reads:    *)
(* the counters are read in the opposite order of the writes, and none of  *)
(* those that are read ever falls.                                         *)
THEOREM LiveTotalsCover == Spec => []LiveTotals
<1> DEFINE Inv == CountInv /\ DriftInv /\ LiveInv
<1>1. Init => Inv
  <2> SUFFICES ASSUME Init
               PROVE  Inv
    OBVIOUS
  <2>1. DriftInv
    BY NothingCounted DEF DriftInv
  <2>2. CountInv
    BY NothingCounted DEF CountInv
  <2>3. LiveInv
    BY DEF Init, Quiet, LiveInv
  <2> QED
    BY <2>1, <2>2, <2>3
<1>2. TypeOK /\ TypeOK' /\ Inv /\ [Next]_vars => Inv'
  <2>1. ASSUME TypeOK, TypeOK', Inv, Next
        PROVE  Inv'
    <3>1. CountInv' /\ DriftInv'
      BY <2>1, CountExec, CountOther, DriftExec, DriftOther, StepKinds
    <3>2. ASSUME NEW w \in Writer, Exec(w)
          PROVE  LiveInv'
      <4>1. reader' = reader
        BY <2>1, <3>2, ExecStep
      <4>2. /\ \A s \in Service : count[OfService(s)] <= count'[OfService(s)]
            /\ RankSum' \in Nat /\ RankSum <= RankSum'
        BY <2>1, <3>2, ExecCounts, CountsTyped
      <4> QED
        BY <2>1, <4>1, <4>2, LiveOthers
    <3>3. ASSUME (\E w \in Writer : Call(w) \/ Break(w)) \/ Clock
          PROVE  LiveInv'
      <4>1. reader' = reader
        BY <2>1, <3>3, RedisKept
      <4>2. /\ \A s \in Service : count[OfService(s)] <= count'[OfService(s)]
            /\ RankSum' \in Nat /\ RankSum <= RankSum'
        BY <2>1, <3>3, OtherCounts, CountsTyped
      <4> QED
        BY <2>1, <4>1, <4>2, LiveOthers
    <3>4. ASSUME GetLiveMetrics
          PROVE  LiveInv'
      BY <2>1, <3>4, LiveQuery
    <3> QED
      BY <2>1, <3>1, <3>2, <3>3, <3>4, StepKinds
  <2>2. ASSUME Inv, UNCHANGED vars
        PROVE  Inv'
    <3>1. CountInv'
      BY <2>2 DEF CountInv, LogSum, At, Left, Here, vars, redisVars, writerVars, boundVars
    <3>2. DriftInv'
      BY <2>2 DEF DriftInv, RankSum, At, Left, Here, vars, redisVars, writerVars, boundVars
    <3>3. LiveInv'
      BY <2>2 DEF LiveInv, RankSum, Due, DueOf, UnaskedOf, vars, redisVars
    <3> QED
      BY <3>1, <3>2, <3>3
  <2> QED
    BY <2>1, <2>2
<1>3. TypeOK /\ Inv => LiveTotals
  <2> SUFFICES ASSUME TypeOK, Inv, reader.phase = "done", ~reader.failed
               PROVE  reader.total <= reader.logs + reader.open + Unasked
    BY DEF LiveTotals
  <2>1. reader.todo = {} /\ reader.total <= reader.logs + Due + reader.open
    BY DEF LiveInv
  <2>2. \A s \in Service : DueOf(s) = UnaskedOf(s)
    BY <2>1, CountsTyped DEF DueOf, UnaskedOf
  <2>3. [s \in Service |-> DueOf(s)] = [s \in Service |-> UnaskedOf(s)]
    BY <2>2
  <2>4. Due = Unasked
    BY <2>3, Zenon DEF Due, Unasked
  <2> QED
    BY <2>1, <2>4, ReaderTyped, DueTyped
<1>4. Init => TypeOK
  BY TypeInit
<1>5. TypeOK /\ [Next]_vars => TypeOK'
  BY TypeStep
<1> QED
  BY <1>1, <1>2, <1>3, <1>4, <1>5, PTL DEF Spec
=============================================================================
