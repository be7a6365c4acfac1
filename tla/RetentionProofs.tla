--------------------------- MODULE RetentionProofs ---------------------------
(***************************************************************************)
(* Proofs about Retention: the type invariant, and that no operation       *)
(* deletes an index that it may not delete at the moment it does so.       *)
(***************************************************************************)
EXTENDS Retention, TLAPS

(* What the job j of an operation that began on day j.active knows: its     *)
(* cutoff is not later than the clock allows, and every index left in todo *)
(* was selected by that cutoff.                                            *)
Selected(j) == \A d \in j.todo : d # j.active /\ Before(d, j.cutoff)

JobInv(j) ==
  /\ j.active <= today
  /\ j.kind = "idle" => j.todo = {}
  /\ j.kind = "retention" => /\ j.cutoff.day <= today - j.arg.day /\ j.cutoff.time = 0
                             /\ Selected(j)
  /\ j.kind = "before" => /\ j.cutoff = j.arg /\ j.arg.day <= j.active
                          /\ Selected(j)
  /\ j.kind = "name" => j.todo \subseteq {j.arg.day}

Inv == TypeOK /\ \A a \in Actor : JobInv(job[a])

-----------------------------------------------------------------------------
(* Idle is the job of an actor that does nothing. *)
LEMMA IdleFacts == Idle \in Job /\ Idle.kind = "idle" /\ Idle.todo = {} /\ Idle.active = 0
<1>1. 0 \in Day /\ 0 \in Time BY ClockAssumption DEF Day, Time
<1> QED BY <1>1 DEF Idle, Job, Instant

(* An instant of the model is an instant. *)
LEMMA NowFacts ==
  ASSUME TypeOK
  PROVE  Now \in Instant /\ today \in Int /\ today \in Day /\ 0 \in Time
<1> QED BY ClockAssumption DEF TypeOK, Now, Instant, Day, Time

(* Changing the job of one actor to a well-formed one keeps the types of   *)
(* the jobs and the invariant of the others.                               *)
LEMMA JobUpdate ==
  ASSUME Inv, UNCHANGED today, NEW a \in Actor, NEW j \in Job, JobInv(j),
         job' = [job EXCEPT ![a] = j]
  PROVE  job' \in [Actor -> Job] /\ (\A b \in Actor : JobInv(job[b])')
<1>1. job \in [Actor -> Job] BY DEF Inv, TypeOK
<1>2. job' \in [Actor -> Job] BY <1>1
<1>3. ASSUME NEW b \in Actor PROVE JobInv(job[b])'
  <2>1. CASE b = a
    <3>1. job'[b] = j BY <1>1, <2>1
    <3> QED BY <3>1 DEF JobInv, Selected, Before
  <2>2. CASE b # a
    <3>1. job'[b] = job[b] BY <1>1, <2>2
    <3>2. JobInv(job[b]) BY DEF Inv
    <3> QED BY <3>1, <3>2 DEF JobInv, Selected, Before
  <2> QED BY <2>1, <2>2
<1> QED BY <1>2, <1>3

(* The clock only goes forward, and a cutoff that was early enough stays so. *)
LEMMA ClockStep ==
  ASSUME Inv, today' \in Int, today <= today', UNCHANGED job
  PROVE  \A b \in Actor : JobInv(job[b])'
<1>1. job \in [Actor -> Job] BY DEF Inv, TypeOK
<1>2. SUFFICES ASSUME NEW b \in Actor PROVE JobInv(job[b])' OBVIOUS
<1>3. job[b] \in Job /\ JobInv(job[b]) BY <1>1 DEF Inv
<1>4. job[b].active \in Int /\ job[b].arg.day \in Int /\ job[b].cutoff.day \in Int
  BY <1>3, ClockAssumption DEF Job, Instant, Day
<1>5. today \in Int BY DEF Inv, TypeOK
<1>6. job'[b] = job[b] OBVIOUS
<1> QED BY <1>3, <1>4, <1>5, <1>6 DEF JobInv, Selected, Before

(* What Return leaves. *)
LEMMA ReturnFacts ==
  ASSUME Inv, UNCHANGED today, NEW a \in Actor, Return(a)
  PROVE  /\ job' \in [Actor -> Job] /\ (\A b \in Actor : JobInv(job[b])')
         /\ isRunning' = (job'[Runner].kind # "idle")
<1>1. job \in [Actor -> Job] /\ Runner \in Actor /\ isRunning = (job[Runner].kind # "idle")
  BY DEF Inv, TypeOK, Actor
<1>2. JobInv(Idle) BY IdleFacts DEF JobInv, Inv, TypeOK
<1>3. job' \in [Actor -> Job] /\ (\A b \in Actor : JobInv(job[b])')
  BY <1>2, IdleFacts, JobUpdate DEF Return
<1>4. isRunning' = (job'[Runner].kind # "idle")
  <2>1. CASE a = Runner
    <3>1. job'[Runner] = Idle BY <1>1, <2>1 DEF Return
    <3>2. isRunning' = FALSE BY <2>1 DEF Return
    <3> QED BY <3>1, <3>2, IdleFacts
  <2>2. CASE a # Runner
    <3>1. job'[Runner] = job[Runner] BY <1>1, <2>2 DEF Return
    <3>2. isRunning' = isRunning
      <4>1. isRunning \in BOOLEAN BY <1>1
      <4>2. isRunning' = (isRunning /\ a # Runner) BY DEF Return
      <4> QED BY <4>1, <4>2, <2>2, Zenon
    <3> QED BY <1>1, <3>1, <3>2
  <2> QED BY <2>1, <2>2
<1> QED BY <1>3, <1>4

(* Start of an operation with a well-formed cutoff. *)
LEMMA StartFacts ==
  ASSUME Inv, UNCHANGED today, NEW a \in Actor, NEW kind \in {"retention", "before"},
         NEW arg \in Instant, NEW cutoff \in Instant,
         kind = "retention" => cutoff.day <= today - arg.day /\ cutoff.time = 0,
         kind = "before" => cutoff = arg /\ arg.day <= today,
         Start(a, kind, arg, cutoff)
  PROVE  /\ job' \in [Actor -> Job] /\ (\A b \in Actor : JobInv(job[b])')
         /\ job'[a].kind # "idle" /\ (\A b \in Actor : b # a => job'[b] = job[b])
<1> DEFINE j == [kind |-> kind, phase |-> "list", arg |-> arg,
                 cutoff |-> cutoff, active |-> today, todo |-> {}]
<1>1. job \in [Actor -> Job] /\ today \in Day /\ today \in Int BY NowFacts DEF Inv, TypeOK
<1>2. j \in Job BY <1>1 DEF Job
<1>3. JobInv(j) BY <1>1 DEF JobInv, Selected
<1>4. job' = [job EXCEPT ![a] = j] BY DEF Start
<1> HIDE DEF j
<1>5. job' \in [Actor -> Job] /\ (\A b \in Actor : JobInv(job[b])')
  BY <1>2, <1>3, <1>4, JobUpdate
<1>6. job'[a] = j /\ (\A b \in Actor : b # a => job'[b] = job[b]) BY <1>1, <1>4
<1>7. j.kind # "idle" BY DEF j
<1> QED BY <1>5, <1>6, <1>7

-----------------------------------------------------------------------------
(***************************************************************************)
(* The invariant is inductive.                                             *)
(***************************************************************************)
THEOREM InvInit == Init => Inv
<1> SUFFICES ASSUME Init PROVE Inv OBVIOUS
<1>1. job = [a \in Actor |-> Idle] BY DEF Init
<1>2. TypeOK
  <2>1. job \in [Actor -> Job] BY <1>1, IdleFacts
  <2>2. isRunning = (job[Runner].kind # "idle") BY <1>1, IdleFacts DEF Init, Actor
  <2>3. today \in 0 .. LastDay /\ time \in Time /\ indices \subseteq Day
    BY ClockAssumption DEF Init, Time, Day
  <2>4. cancelled \in BOOLEAN /\ stopped \in BOOLEAN BY DEF Init
  <2>5. writes \in 0 .. MaxWrites /\ errors \in 0 .. MaxErrors BY ClockAssumption DEF Init
  <2> QED BY <2>1, <2>2, <2>3, <2>4, <2>5 DEF TypeOK
<1>3. ASSUME NEW a \in Actor PROVE JobInv(job[a])
  <2>1. job[a] = Idle BY <1>1
  <2>2. 0 <= today BY ClockAssumption DEF Init
  <2> QED BY <2>1, <2>2, IdleFacts DEF JobInv
<1> QED BY <1>2, <1>3 DEF Inv

(* Every action that starts or continues an operation. *)
LEMMA RunOnceInv == Inv /\ RunOnce => Inv'
<1> SUFFICES ASSUME Inv, RunOnce PROVE Inv' OBVIOUS
<1>1. TypeOK /\ UNCHANGED today BY DEF Inv, RunOnce, clockVars
<1>2. [day |-> RetentionDays, time |-> 0] \in Instant /\ CutoffDate(RetentionDays) \in Instant
  BY <1>1, NowFacts, DaysAssumption DEF CutoffDate, Instant
<1>3. CutoffDate(RetentionDays).day <= today - RetentionDays /\ CutoffDate(RetentionDays).time = 0
  BY <1>1, NowFacts, DaysAssumption DEF CutoffDate
<1>4. Start(Runner, "retention", [day |-> RetentionDays, time |-> 0], CutoffDate(RetentionDays))
  BY DEF RunOnce
<1>5. Runner \in Actor BY DEF Actor
<1> HIDE DEF Start
<1>6. /\ job' \in [Actor -> Job] /\ (\A b \in Actor : JobInv(job[b])')
      /\ job'[Runner].kind # "idle"
  BY <1>1, <1>2, <1>3, <1>4, <1>5, StartFacts
<1>7. isRunning' = (job'[Runner].kind # "idle") BY <1>6 DEF RunOnce
<1> QED BY <1>1, <1>6, <1>7 DEF Inv, TypeOK, RunOnce, clockVars, boundVars

LEMMA AdminInv == Inv /\ (\E a \in Request : Admin(a)) => Inv'
<1> SUFFICES ASSUME Inv, NEW a \in Request, Admin(a) PROVE Inv' OBVIOUS
<1>1. a \in Actor /\ a # Runner /\ Runner \in Actor BY ActorAssumption DEF Actor
<1>2. TypeOK BY DEF Inv
<1>3. UNCHANGED <<clockVars, indices, runnerVars, boundVars>>
  BY DEF Admin, RunRetention, DeleteIndicesBefore, DeleteIndexByName
<1>4. UNCHANGED today BY <1>3 DEF clockVars
<1>5. SUFFICES /\ job' \in [Actor -> Job] /\ (\A b \in Actor : JobInv(job[b])')
               /\ job'[Runner] = job[Runner]
  BY <1>2, <1>3 DEF Inv, TypeOK, clockVars, runnerVars, boundVars
<1>6. CASE \E days \in AdminDays : RunRetention(a, days)
  <2>1. PICK days \in AdminDays : RunRetention(a, days) BY <1>6
  <2>2. days \in Int BY DaysAssumption
  <2>3. [day |-> days, time |-> 0] \in Instant /\ CutoffDate(days) \in Instant
    BY <1>2, <2>2, NowFacts DEF CutoffDate, Instant
  <2>4. CutoffDate(days).day <= today - days /\ CutoffDate(days).time = 0
    BY <1>2, <2>2, NowFacts DEF CutoffDate
  <2>5. Start(a, "retention", [day |-> days, time |-> 0], CutoffDate(days))
    BY <2>1 DEF RunRetention
  <2> QED BY <1>1, <1>4, <2>3, <2>4, <2>5, StartFacts
<1>7. CASE \E d \in 0 .. today, i \in Time : DeleteIndicesBefore(a, [day |-> d, time |-> i])
  <2>1. PICK d \in 0 .. today, i \in Time : DeleteIndicesBefore(a, [day |-> d, time |-> i])
    BY <1>7
  <2> DEFINE t == [day |-> d, time |-> i]
  <2>2. t \in Instant /\ t.day <= today BY <1>2, NowFacts DEF Instant
  <2>3. Start(a, "before", t, t) BY <2>1 DEF DeleteIndicesBefore
  <2> HIDE DEF t
  <2> QED BY <1>1, <1>4, <2>2, <2>3, StartFacts
<1>8. CASE \E d \in Day : DeleteIndexByName(a, d)
  <2>1. PICK d \in Day : DeleteIndexByName(a, d) BY <1>8
  <2> DEFINE j == [Idle EXCEPT !.kind = "name", !.phase = "delete",
                               !.arg = [day |-> d, time |-> 0],
                               !.active = today, !.todo = {d}]
  <2>2. job' = [job EXCEPT ![a] = j] BY <2>1 DEF DeleteIndexByName
  <2>3. j \in Job
    <3>1. [day |-> d, time |-> 0] \in Instant
      BY <1>2, NowFacts, ClockAssumption DEF Instant, Day
    <3>2. Idle \in Job /\ today \in Day /\ {d} \subseteq Day BY <1>2, NowFacts, IdleFacts
    <3> QED BY <3>1, <3>2 DEF Job
  <2>4. JobInv(j) BY <1>2, NowFacts DEF JobInv, Idle
  <2> HIDE DEF j
  <2>5. job' \in [Actor -> Job] /\ (\A b \in Actor : JobInv(job[b])')
    BY <1>1, <1>4, <2>2, <2>3, <2>4, JobUpdate
  <2>6. job'[Runner] = job[Runner] BY <1>1, <1>2, <2>2 DEF TypeOK
  <2> QED BY <2>5, <2>6
<1> QED BY <1>6, <1>7, <1>8 DEF Admin

LEMMA StepInv == Inv /\ (\E a \in Actor : Step(a)) => Inv'
<1> SUFFICES ASSUME Inv, NEW a \in Actor, Step(a) PROVE Inv' OBVIOUS
<1>1. TypeOK /\ job \in [Actor -> Job] /\ Runner \in Actor BY DEF Inv, TypeOK, Actor
<1>2. job[a] \in Job /\ JobInv(job[a]) BY <1>1 DEF Inv
<1>3. CASE List(a)
  <2> DEFINE T == {d \in indices : d # job[a].active /\ Before(d, job[a].cutoff)}
             j == [job[a] EXCEPT !.phase = "delete", !.todo = T]
  <2>1. UNCHANGED <<clockVars, indices, runnerVars, boundVars>> BY <1>3 DEF List
  <2>2. job' = [job EXCEPT ![a] = j] BY <1>1, <1>3 DEF List
  <2>3. T \subseteq Day BY <1>1 DEF TypeOK
  <2>4. \A d \in T : d # job[a].active /\ Before(d, job[a].cutoff) OBVIOUS
  <2> HIDE DEF T
  <2>5. j \in Job BY <1>2, <2>3 DEF Job
  <2>6. j.kind = job[a].kind /\ j.arg = job[a].arg /\ j.cutoff = job[a].cutoff
        /\ j.active = job[a].active /\ j.todo = T
    BY <1>2 DEF Job
  <2>7. job[a].kind \in {"retention", "before"} BY <1>3 DEF List
  <2> HIDE DEF j
  <2>8. JobInv(j) BY <1>2, <2>4, <2>6, <2>7 DEF JobInv, Selected
  <2>9. job' \in [Actor -> Job] /\ (\A b \in Actor : JobInv(job[b])')
    BY <2>1, <2>2, <2>5, <2>8, JobUpdate DEF clockVars
  <2>10. job'[Runner].kind = job[Runner].kind BY <1>1, <2>2, <2>6
  <2> QED BY <1>1, <2>1, <2>9, <2>10 DEF Inv, TypeOK, clockVars, runnerVars, boundVars
<1>4. CASE Delete(a)
  <2>1. PICK d \in job[a].todo \intersect indices :
          /\ indices' = indices \ {d}
          /\ job' = [job EXCEPT ![a].todo = @ \ {d}]
          /\ UNCHANGED <<clockVars, runnerVars, boundVars>>
    BY <1>4 DEF Delete
  <2> DEFINE j == [job[a] EXCEPT !.todo = @ \ {d}]
  <2>2. job' = [job EXCEPT ![a] = j] BY <1>1, <2>1
  <2>3. j \in Job BY <1>2 DEF Job
  <2>4. j.kind = job[a].kind /\ j.arg = job[a].arg /\ j.cutoff = job[a].cutoff
        /\ j.active = job[a].active /\ j.todo = job[a].todo \ {d}
    BY <1>2 DEF Job
  <2> HIDE DEF j
  <2>5. JobInv(j) BY <1>2, <2>4 DEF JobInv, Selected
  <2>6. job' \in [Actor -> Job] /\ (\A b \in Actor : JobInv(job[b])')
    BY <2>1, <2>2, <2>3, <2>5, JobUpdate DEF clockVars
  <2>7. job'[Runner].kind = job[Runner].kind BY <1>1, <2>2, <2>4
  <2> QED BY <1>1, <2>1, <2>6, <2>7 DEF Inv, TypeOK, clockVars, runnerVars, boundVars
<1>5. CASE DeleteNotFound(a) \/ Finish(a)
  <2>1. Return(a) /\ UNCHANGED <<clockVars, indices, cancelled, stopped, boundVars>>
    BY <1>5 DEF DeleteNotFound, Finish
  <2>2. /\ job' \in [Actor -> Job] /\ (\A b \in Actor : JobInv(job[b])')
        /\ isRunning' = (job'[Runner].kind # "idle")
    BY <2>1, ReturnFacts DEF clockVars
  <2> QED BY <1>1, <2>1, <2>2 DEF Inv, TypeOK, clockVars, boundVars
<1>6. CASE CallFails(a)
  <2>1. Return(a) /\ UNCHANGED <<clockVars, cancelled, stopped, writes>>
    BY <1>6 DEF CallFails
  <2>2. /\ job' \in [Actor -> Job] /\ (\A b \in Actor : JobInv(job[b])')
        /\ isRunning' = (job'[Runner].kind # "idle")
    BY <2>1, ReturnFacts DEF clockVars
  <2>3. indices' \subseteq Day BY <1>1, <1>6 DEF CallFails, TypeOK
  <2>4. errors' \in 0 .. MaxErrors BY <1>1, <1>6, ClockAssumption DEF CallFails, TypeOK
  <2> QED BY <1>1, <2>1, <2>2, <2>3, <2>4 DEF Inv, TypeOK, clockVars
<1> QED BY <1>3, <1>4, <1>5, <1>6 DEF Step

THEOREM InvStep == Inv /\ [Next]_vars => Inv'
<1> SUFFICES ASSUME Inv, [Next]_vars PROVE Inv' OBVIOUS
<1>1. TypeOK BY DEF Inv
<1>2. CASE RunOnce BY <1>2, RunOnceInv
<1>3. CASE Cancel \/ Stop
  <2>1. UNCHANGED <<clockVars, indices, job, isRunning, boundVars>>
        /\ cancelled' \in BOOLEAN /\ stopped' \in BOOLEAN
    BY <1>1, <1>3 DEF Cancel, Stop, TypeOK
  <2> QED BY <2>1 DEF Inv, TypeOK, JobInv, Selected, Before, clockVars, boundVars
<1>4. CASE Tick
  <2>1. today' \in 0 .. LastDay /\ today <= today' /\ time' \in Time
    BY <1>1, <1>4, ClockAssumption DEF Tick, TypeOK, Time
  <2>2. UNCHANGED <<indices, job, runnerVars, boundVars>> BY <1>4 DEF Tick
  <2>3. \A b \in Actor : JobInv(job[b])' BY <2>1, <2>2, ClockStep
  <2> QED BY <1>1, <2>1, <2>2, <2>3 DEF Inv, TypeOK, runnerVars, boundVars
<1>5. CASE \E a \in Request : Admin(a) BY <1>5, AdminInv
<1>6. CASE \E a \in Actor : Step(a) BY <1>6, StepInv
<1>7. CASE \E d \in Day : Write(d)
  <2>1. UNCHANGED <<clockVars, job, runnerVars, errors>> /\ indices' \subseteq Day
        /\ writes' \in 0 .. MaxWrites
    BY <1>1, <1>7, ClockAssumption DEF Write, TypeOK
  <2> QED BY <2>1 DEF Inv, TypeOK, JobInv, Selected, Before, clockVars, runnerVars
<1>8. CASE UNCHANGED vars
  BY <1>8 DEF Inv, TypeOK, JobInv, Selected, Before, vars, clockVars, runnerVars, boundVars
<1> QED BY <1>2, <1>3, <1>4, <1>5, <1>6, <1>7, <1>8 DEF Next

(* Every reachable state satisfies the invariant. *)
THEOREM Invariant == Spec => []Inv
BY InvInit, InvStep, PTL DEF Spec

(* Type correctness, with the guard of RunOnce held exactly during a sweep. *)
THEOREM TypeCorrect == Spec => []TypeOK
<1>1. Inv => TypeOK BY DEF Inv
<1> QED BY <1>1, Invariant, PTL

-----------------------------------------------------------------------------
(***************************************************************************)
(* WindowRespected.                                                        *)
(***************************************************************************)
(* What is left in todo may be deleted now, whenever now is. *)
LEMMA TodoPermitted ==
  ASSUME Inv, NEW a \in Actor, NEW d \in job[a].todo
  PROVE  d \in Permitted(a)
<1>1. job[a] \in Job /\ JobInv(job[a]) /\ today \in Int BY DEF Inv, TypeOK
<1>2. d \in Day /\ d \in Int BY <1>1, ClockAssumption DEF Job, Day
<1>3. /\ job[a].active \in Int /\ job[a].active <= today
      /\ job[a].cutoff.day \in Int /\ job[a].arg.day \in Int
      /\ job[a].arg.time \in Int
  BY <1>1, ClockAssumption DEF Job, Day, Instant, JobInv, Time
<1>4. CASE job[a].kind = "retention"
  <2>1. Before(d, job[a].cutoff) /\ job[a].cutoff.time = 0
        /\ job[a].cutoff.day <= today - job[a].arg.day
    BY <1>1, <1>4 DEF JobInv, Selected
  <2>2. d < today - job[a].arg.day BY <1>1, <1>2, <1>3, <2>1 DEF Before
  <2> QED BY <1>2, <1>4, <2>2 DEF Permitted
<1>5. CASE job[a].kind = "before"
  <2>1. /\ Before(d, job[a].arg) /\ d # job[a].active /\ job[a].arg.day <= job[a].active
    BY <1>1, <1>5 DEF JobInv, Selected
  <2>2. d < today BY <1>1, <1>2, <1>3, <2>1 DEF Before
  <2> QED BY <1>2, <1>5, <2>1, <2>2 DEF Permitted
<1>6. CASE job[a].kind = "name" BY <1>1, <1>6 DEF JobInv, Permitted
<1>7. job[a].kind # "idle" BY <1>1 DEF JobInv
<1> QED BY <1>1, <1>4, <1>5, <1>6, <1>7 DEF Job

(* Only Delete and CallFails take an index away, and only one of todo. *)
LEMMA OnlyTodoDeleted ==
  ASSUME Next, NEW d \in indices \ indices'
  PROVE  \E a \in Actor : d \in job[a].todo
<1>1. CASE \E a \in Actor : Step(a)
  <2>1. PICK a \in Actor : Step(a) BY <1>1
  <2>2. CASE Delete(a) BY <2>2 DEF Delete
  <2>3. CASE CallFails(a) BY <2>3 DEF CallFails
  <2>4. CASE List(a) \/ DeleteNotFound(a) \/ Finish(a)
    BY <2>4 DEF List, DeleteNotFound, Finish
  <2> QED BY <2>1, <2>2, <2>3, <2>4 DEF Step
<1>2. CASE \E a \in Request : Admin(a)
  BY <1>2 DEF Admin, RunRetention, DeleteIndicesBefore, DeleteIndexByName
<1>3. CASE RunOnce \/ Cancel \/ Stop \/ Tick BY <1>3 DEF RunOnce, Cancel, Stop, Tick
<1>4. CASE \E e \in Day : Write(e) BY <1>4 DEF Write
<1> QED BY <1>1, <1>2, <1>3, <1>4 DEF Next

(* No operation deletes an index that it may not delete at that moment:     *)
(* midnight, other deletions and late logs between its calls cannot make a *)
(* sweep touch its retention window or the index of today.                 *)
THEOREM WindowKept == Spec => WindowRespected
<1> DEFINE A == \A d \in indices \ indices' : \E a \in Actor : d \in Permitted(a)
<1>1. Inv /\ [Next]_vars => [A]_vars
  <2> SUFFICES ASSUME Inv, Next PROVE A OBVIOUS
  <2>1. ASSUME NEW d \in indices \ indices' PROVE \E a \in Actor : d \in Permitted(a)
    BY OnlyTodoDeleted, TodoPermitted
  <2> QED BY <2>1
<1> HIDE DEF A
<1>2. Spec => [][A]_vars BY <1>1, Invariant, PTL DEF Spec
<1> QED BY <1>2 DEF A, WindowRespected
=============================================================================
