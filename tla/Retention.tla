------------------------------ MODULE Retention ------------------------------
(***************************************************************************)
(* Deletion of expired daily indices: the retention service (RunOnce and   *)
(* Start of internal/retention/runner.go), the lifecycle endpoints of the  *)
(* analytics API, and the retention manager of internal/retention/manager  *)
(* .go that both of them call, each in a process of its own.               *)
(*                                                                         *)
(* The three operations of the manager share a shape: read the clock,      *)
(* select the indices to delete, delete them one by one, and give up at    *)
(* the first error.  An operation in progress is a job.  Time passes, other *)
(* jobs delete, and the processor writes logs between any two calls of it. *)
(*                                                                         *)
(* Limits of the model.  An index is the day in its name; the indices      *)
(* whose name does not parse are left out, since every operation skips or  *)
(* rejects them.  All processes read one clock, which never goes back.     *)
(* Elasticsearch lists indices in an order of its own.  The interval of    *)
(* the runner's ticker is not timed.                                       *)
(***************************************************************************)
EXTENDS Integers

CONSTANTS
  Request,         \* concurrent requests to the analytics API
  RetentionDays,   \* LOG_RETENTION_DAYS of the retention service
  AdminDays,       \* values of the query parameter days
  Ticks,           \* instants of a day that the model tells apart
  FirstDay,        \* the day on which the model starts
  LastDay,         \* the day on which its clock stops (bounds the model)
  MaxWrites,       \* number of indices the processor creates (bounds the model)
  MaxErrors        \* number of failed Elasticsearch calls (bounds the model)

Runner == "runner"   \* the retention service
Actor == Request \union {Runner}
Day == 0 .. LastDay + 1
Time == 0 .. Ticks - 1

ASSUME DaysAssumption ==
  /\ RetentionDays \in Nat \ {0}
  /\ AdminDays \subseteq Nat \ {0}

ASSUME ClockAssumption ==
  /\ Ticks \in Nat \ {0}
  /\ FirstDay \in Nat /\ LastDay \in Nat /\ FirstDay <= LastDay
  /\ MaxWrites \in Nat /\ MaxErrors \in Nat

ASSUME ActorAssumption == Runner \notin Request

VARIABLES
  today, time,   \* the UTC clock: the day, and the instant of the day
  indices,       \* the days that have an index in Elasticsearch
  job,           \* what each actor is doing
  isRunning,     \* RetentionRunner.isRunning
  cancelled,     \* has the retention service received SIGTERM?
  stopped,       \* has RetentionRunner.Start returned?
  writes,        \* history: number of indices created so far
  errors         \* history: number of failed calls so far

clockVars == <<today, time>>
runnerVars == <<isRunning, cancelled, stopped>>
boundVars == <<writes, errors>>
vars == <<clockVars, indices, job, runnerVars, boundVars>>

(***************************************************************************)
(* kind is the operation, arg its argument as the caller gave it (a number *)
(* of days, a timestamp or an index name), cutoff and active the values it *)
(* computed from the clock when it started, todo the indices it is still   *)
(* going to delete.                                                        *)
(***************************************************************************)
Instant == [day : Int, time : Time]
Job == [kind : {"idle", "retention", "before", "name"}, phase : {"list", "delete"},
        arg : Instant, cutoff : Instant, active : Day, todo : SUBSET Day]

Idle == [kind |-> "idle", phase |-> "list", arg |-> [day |-> 0, time |-> 0],
         cutoff |-> [day |-> 0, time |-> 0], active |-> 0, todo |-> {}]

(* TypeOK: the type of each variable; isRunning is set exactly while RunOnce *)
(* of the runner is in progress.                                           *)
TypeOK ==
  /\ today \in 0 .. LastDay
  /\ time \in Time
  /\ indices \subseteq Day
  /\ job \in [Actor -> Job]
  /\ isRunning = (job[Runner].kind # "idle")
  /\ cancelled \in BOOLEAN
  /\ stopped \in BOOLEAN
  /\ writes \in 0 .. MaxWrites
  /\ errors \in 0 .. MaxErrors

Now == [day |-> today, time |-> time]

AtMost(s, t) == s.day < t.day \/ (s.day = t.day /\ s.time <= t.time)

(* idxDate.Before(t): an index is dated at the midnight its day starts.    *)
Before(d, t) == d < t.day \/ (d = t.day /\ t.time > 0)

(* Logs may arrive late, and their own clock may run ahead by a day.       *)
Init ==
  /\ today = FirstDay /\ time = 0
  /\ indices \in SUBSET (0 .. FirstDay + 1)
  /\ job = [a \in Actor |-> Idle]
  /\ isRunning = FALSE /\ cancelled = FALSE /\ stopped = FALSE
  /\ writes = 0 /\ errors = 0

-----------------------------------------------------------------------------
(***************************************************************************)
(* The start of an operation.                                              *)
(***************************************************************************)
Start(a, kind, arg, cutoff) ==
  job' = [job EXCEPT ![a] = [kind |-> kind, phase |-> "list", arg |-> arg,
                             cutoff |-> cutoff, active |-> today, todo |-> {}]]

(* MUTATION of CutoffDate: days before this instant, not before midnight.  *)
CutoffFromNow(days) == [day |-> today - days, time |-> time]

(* Midnight of today, days days ago. *)
CutoffDate(days) == [day |-> today - days, time |-> 0]

(* RunOnce, on startup and at each tick.  Start of the runner is its only  *)
(* caller, so that isRunning is never found set.                           *)
RunOnce ==
  /\ ~stopped /\ job[Runner] = Idle
  /\ ~isRunning
  /\ isRunning' = TRUE
  /\ Start(Runner, "retention", [day |-> RetentionDays, time |-> 0],
           CutoffDate(RetentionDays))
  /\ UNCHANGED <<clockVars, indices, cancelled, stopped, boundVars>>

(* POST /admin/logs/retention/run calls the manager and not RunOnce. *)
RunRetention(a, days) ==
  /\ job[a] = Idle
  /\ Start(a, "retention", [day |-> days, time |-> 0], CutoffDate(days))
  /\ UNCHANGED <<clockVars, indices, runnerVars, boundVars>>

(* DELETE /admin/logs?before=t; a later timestamp is ErrFutureCutoff. *)
DeleteIndicesBefore(a, t) ==
  /\ job[a] = Idle
  /\ AtMost(t, Now)
  /\ Start(a, "before", t, t)
  /\ UNCHANGED <<clockVars, indices, runnerVars, boundVars>>

(* DELETE /admin/logs/indices/{d}; the index of today is ErrProtectedIndex. *)
DeleteIndexByName(a, d) ==
  /\ job[a] = Idle
  /\ d # today
  /\ job' = [job EXCEPT ![a] = [Idle EXCEPT !.kind = "name", !.phase = "delete",
                                            !.arg = [day |-> d, time |-> 0],
                                            !.active = today, !.todo = {d}]]
  /\ UNCHANGED <<clockVars, indices, runnerVars, boundVars>>

-----------------------------------------------------------------------------
(***************************************************************************)
(* The calls of the operation of a to Elasticsearch.                       *)
(***************************************************************************)
(* MUTATION of Return: isRunning is reset on success only. *)
ReturnWithoutDefer(a) ==
  /\ job' = [job EXCEPT ![a] = Idle]
  /\ isRunning' = (isRunning /\ (a # Runner \/ job[a].todo # {}))

(* The operation returns; that of the runner resets isRunning. *)
Return(a) ==
  /\ job' = [job EXCEPT ![a] = Idle]
  /\ isRunning' = (isRunning /\ a # Runner)

(* ListIndices answers; the loop then visits the indices that qualify. *)
List(a) ==
  /\ job[a].kind \in {"retention", "before"} /\ job[a].phase = "list"
  /\ ~(a = Runner /\ cancelled)
  /\ job' = [job EXCEPT ![a].phase = "delete",
                        ![a].todo = {d \in indices : /\ d # job[a].active
                                                     /\ Before(d, job[a].cutoff)}]
  /\ UNCHANGED <<clockVars, indices, runnerVars, boundVars>>

Delete(a) ==
  \E d \in job[a].todo \intersect indices :
    /\ ~(a = Runner /\ cancelled)
    /\ indices' = indices \ {d}
    /\ job' = [job EXCEPT ![a].todo = @ \ {d}]
    /\ UNCHANGED <<clockVars, runnerVars, boundVars>>

(* Another job has deleted the index: 404 is an error like any other. *)
DeleteNotFound(a) ==
  /\ job[a].todo \ indices # {}
  /\ Return(a)
  /\ UNCHANGED <<clockVars, indices, cancelled, stopped, boundVars>>

(* All of todo is deleted: the operation reports success. *)
Finish(a) ==
  /\ job[a].phase = "delete" /\ job[a].todo = {}
  /\ Return(a)
  /\ UNCHANGED <<clockVars, indices, cancelled, stopped, boundVars>>

(* A call fails: its context is cancelled, or the service or the network   *)
(* is at fault, and then a deletion may still have been carried out.       *)
CallFails(a) ==
  /\ job[a].kind # "idle"
  /\ \/ a = Runner /\ cancelled /\ UNCHANGED errors
     \/ errors < MaxErrors /\ errors' = errors + 1
  /\ job[a].phase = "delete" => job[a].todo # {}
  /\ \/ UNCHANGED indices
     \/ \E d \in job[a].todo : indices' = indices \ {d}
  /\ Return(a)
  /\ UNCHANGED <<clockVars, cancelled, stopped, writes>>

-----------------------------------------------------------------------------
(***************************************************************************)
(* The surroundings.                                                       *)
(***************************************************************************)
(* The processor indexes a log of day d that has no index: a late one, a   *)
(* redelivered one, or the first one of its day.                           *)
Write(d) ==
  /\ d \notin indices /\ d <= today + 1
  /\ writes < MaxWrites
  /\ writes' = writes + 1
  /\ indices' = indices \union {d}
  /\ UNCHANGED <<clockVars, job, runnerVars, errors>>

Tick ==
  /\ \/ time < Ticks - 1 /\ time' = time + 1 /\ UNCHANGED today
     \/ time = Ticks - 1 /\ today < LastDay /\ today' = today + 1 /\ time' = 0
  /\ UNCHANGED <<indices, job, runnerVars, boundVars>>

Cancel ==
  /\ ~cancelled
  /\ cancelled' = TRUE
  /\ UNCHANGED <<clockVars, indices, job, isRunning, stopped, boundVars>>

(* Start leaves its select by ctx.Done(). *)
Stop ==
  /\ cancelled /\ ~stopped /\ job[Runner].kind = "idle"
  /\ stopped' = TRUE
  /\ UNCHANGED <<clockVars, indices, job, isRunning, cancelled, boundVars>>

Step(a) == List(a) \/ Delete(a) \/ DeleteNotFound(a) \/ Finish(a) \/ CallFails(a)

Admin(a) ==
  \/ \E days \in AdminDays : RunRetention(a, days)
  \/ \E d \in 0 .. today, i \in Time : DeleteIndicesBefore(a, [day |-> d, time |-> i])
  \/ \E d \in Day : DeleteIndexByName(a, d)

Next ==
  \/ RunOnce \/ Cancel \/ Stop \/ Tick
  \/ \E a \in Request : Admin(a)
  \/ \E a \in Actor : Step(a)
  \/ \E d \in Day : Write(d)

Spec == Init /\ [][Next]_vars

(***************************************************************************)
(* The ticker of the runner goes on firing, and Elasticsearch answers its  *)
(* calls.  Nothing is assumed of the requests to the API.                  *)
(***************************************************************************)
FairSpec == Spec /\ WF_vars(RunOnce) /\ WF_vars(Step(Runner))

-----------------------------------------------------------------------------
(***************************************************************************)
(* Properties.                                                             *)
(***************************************************************************)

(* The indices an operation may delete at this moment: those of days wholly *)
(* outside the window it was asked to keep, or the one it was asked for.    *)
Permitted(a) ==
  CASE job[a].kind = "retention" -> {d \in Day : d < today - job[a].arg.day}
    [] job[a].kind = "before"    -> {d \in Day : d < today /\ Before(d, job[a].arg)}
    [] job[a].kind = "name"      -> {job[a].arg.day}
    [] OTHER                     -> {}

(* WindowRespected: whenever an index disappears, some operation in         *)
(* progress may delete it as of that moment: although an operation works    *)
(* from the clock and the list it read when it started, and midnight, other *)
(* deletions and late logs come in between, no log inside its retention     *)
(* window is lost, and no sweep deletes the index of today.                 *)
WindowRespected == [][\A d \in indices \ indices' : \E a \in Actor : d \in Permitted(a)]_vars

(* EventuallyExpired: an index beyond the window of the retention service   *)
(* is deleted or the service is told to stop, although a failed call, or a  *)
(* deletion by a request to the API in the middle of a sweep, makes RunOnce *)
(* give up the indices that were still to come.                             *)
EventuallyExpired ==
  \A d \in Day : (d \in indices /\ d < today - RetentionDays)
                   ~> (d \notin indices \/ cancelled)

(* TodayProtected: the index of today, the active write index, is never     *)
(* deleted (README.md: "permanently protected from retention and manual     *)
(* deletion").                                                              *)
TodayProtected == [][today \notin indices \ indices']_vars
=============================================================================
