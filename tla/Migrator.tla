------------------------------- MODULE Migrator -------------------------------
(***************************************************************************)
(* The schema migrator, internal/metadata/migrator.go: Up and Down, run by *)
(* several processes on one database.                                      *)
(*                                                                         *)
(* Each operation reads the version table once, without a lock, and then   *)
(* works in transactions: the script of a migration and the record of its  *)
(* version commit together.  The scripts use IF EXISTS and IF NOT EXISTS,  *)
(* so that repeating one changes nothing.                                  *)
(***************************************************************************)
EXTENDS Integers, FiniteSets

CONSTANTS
  Directory,   \* directories of migrations: sets of files
  Proc,        \* processes that migrate
  MaxDowns,    \* number of calls of Down (bounds the model)
  MaxFaults    \* number of failing statements and lost answers (bounds the model)

(* The number in front of the name, 0 for none, and what the name ends in. *)
ASSUME MigrationsAssumption ==
  /\ \A d \in Directory :
       /\ IsFiniteSet(d)
       /\ \A f \in d : f.version \in Nat /\ f.ends \in {".up.sql", ".down.sql", ".sql", ""}
  /\ MaxDowns \in Nat /\ MaxFaults \in Nat

VARIABLES
  dir,        \* the directory of this deployment
  table,      \* schema_migrations
  objects,    \* the versions whose tables exist
  op,         \* what each process is doing
  todo,       \* the versions its operation has still to apply or to undo
  last,       \* how the last operation of each process ended
  fresh,      \* history: no version was undone since that operation began
  mixed,      \* history: an Up and a Down were in progress at the same time
  downs,      \* history: number of calls of Down
  faults      \* history: number of faults

migratorVars == <<dir, table, objects, op, todo, last, fresh, mixed, downs, faults>>

(***************************************************************************)
(* LoadMigrationsFromDir.  A name without a number is passed over; any     *)
(* other .sql file makes a migration, of which a file that is neither      *)
(* .up.sql nor .down.sql supplies no script: an empty one is run.          *)
(***************************************************************************)
Version == {f.version : f \in {g \in dir : g.version > 0 /\ g.ends # ""}}
HasScript(v, e) == \E f \in dir : f.version = v /\ f.ends = e
UpSQL == {v \in Version : HasScript(v, ".up.sql")}
DownSQL == {v \in Version : HasScript(v, ".down.sql")}

Least(S) == {v \in S : \A u \in S : v <= u}
Greatest(S) == {v \in S : \A u \in S : u <= v}

MigratorInit ==
  /\ dir \in Directory
  /\ table = {} /\ objects = {}
  /\ op = [p \in Proc |-> "idle"]
  /\ todo = [p \in Proc |-> {}]
  /\ last = [p \in Proc |-> "none"]
  /\ fresh = [p \in Proc |-> FALSE]
  /\ mixed = FALSE /\ downs = 0 /\ faults = 0

-----------------------------------------------------------------------------
Begin(p, kind, versions) ==
  /\ op' = [op EXCEPT ![p] = kind]
  /\ todo' = [todo EXCEPT ![p] = versions]
  /\ last' = [last EXCEPT ![p] = "none"]
  /\ fresh' = [fresh EXCEPT ![p] = TRUE]
  /\ mixed' = (mixed \/ \E q \in Proc : {kind, op[q]} = {"up", "down"})

End(p, outcome) ==
  /\ op' = [op EXCEPT ![p] = "idle"]
  /\ todo' = [todo EXCEPT ![p] = {}]
  /\ last' = [last EXCEPT ![p] = outcome]

(* AppliedVersions creates the table if need be and reads it.              *)
AppliedVersions == table

Fault == faults < MaxFaults /\ faults' = faults + 1

(* The version table cannot be created or read: Up or Down returns. *)
StartFail(p) ==
  /\ op[p] = "idle" /\ Fault
  /\ last' = [last EXCEPT ![p] = "error"]
  /\ UNCHANGED <<dir, table, objects, op, todo, fresh, mixed, downs>>

(* Up selects the versions it will apply. *)
StartUp(p) ==
  /\ op[p] = "idle"
  /\ Begin(p, "up", Version \ AppliedVersions)
  /\ UNCHANGED <<dir, table, objects, downs, faults>>

(* The transaction of the next version commits. *)
UpCommit(p) ==
  /\ op[p] = "up"
  /\ \E v \in Least(todo[p]) :
       /\ v \notin table
       /\ table' = table \union {v}
       /\ objects' = objects \union ({v} \intersect UpSQL)
       /\ todo' = [todo EXCEPT ![p] = @ \ {v}]
  /\ UNCHANGED <<dir, op, last, fresh, mixed, downs, faults>>

(* The version has been recorded since: the INSERT violates the primary    *)
(* key, the script is rolled back and Up returns.                          *)
UpConflict(p) ==
  /\ op[p] = "up" /\ Least(todo[p]) \intersect table # {}
  /\ End(p, "error")
  /\ UNCHANGED <<dir, table, objects, fresh, mixed, downs, faults>>

(* MUTATIONS of UpFail: Up goes on with the next version; or the script is *)
(* not rolled back.                                                        *)
UpFailGoesOn(p) ==
  /\ op[p] = "up" /\ todo[p] # {} /\ Fault
  /\ todo' = [todo EXCEPT ![p] = @ \ Least(@)]
  /\ UNCHANGED <<dir, table, objects, op, last, fresh, mixed, downs>>

UpFailCommitted(p) ==
  /\ op[p] = "up" /\ todo[p] # {} /\ Fault
  /\ objects' = objects \union (Least(todo[p]) \intersect UpSQL)
  /\ End(p, "error")
  /\ UNCHANGED <<dir, table, fresh, mixed, downs>>

(* A statement fails or the process dies, and the transaction is rolled    *)
(* back; or the commit succeeds and its answer is lost.                    *)
UpFail(p) ==
  /\ op[p] = "up" /\ todo[p] # {} /\ Fault
  /\ \/ UNCHANGED <<table, objects>>
     \/ \E v \in Least(todo[p]) \ table :
          /\ table' = table \union {v}
          /\ objects' = objects \union ({v} \intersect UpSQL)
  /\ End(p, "error")
  /\ UNCHANGED <<dir, fresh, mixed, downs>>

UpDone(p) ==
  /\ op[p] = "up" /\ todo[p] = {}
  /\ End(p, "up")
  /\ UNCHANGED <<dir, table, objects, fresh, mixed, downs, faults>>

-----------------------------------------------------------------------------
(* Down selects the highest version applied, and returns at once when      *)
(* there is none or it has no script.                                      *)
StartDown(p) ==
  /\ op[p] = "idle" /\ downs < MaxDowns
  /\ downs' = downs + 1
  /\ LET known == AppliedVersions \intersect Version IN
       \/ \E v \in Greatest(known) \intersect DownSQL : Begin(p, "down", {v})
       \/ /\ Greatest(known) \intersect DownSQL = {}
          /\ last' = [last EXCEPT ![p] = IF known = {} THEN "down" ELSE "error"]
          /\ UNCHANGED <<op, todo, fresh, mixed>>
  /\ UNCHANGED <<dir, table, objects, faults>>

(* The script and the deletion of the version, which nobody checks to have *)
(* deleted a row.                                                          *)
Undo(p) ==
  /\ table' = table \ todo[p]
  /\ objects' = objects \ todo[p]
  /\ fresh' = [q \in Proc |-> FALSE]

DownCommit(p) ==
  /\ op[p] = "down" /\ Undo(p) /\ End(p, "down")
  /\ UNCHANGED <<dir, mixed, downs, faults>>

DownFail(p) ==
  /\ op[p] = "down" /\ Fault
  /\ Undo(p) \/ UNCHANGED <<table, objects, fresh>>
  /\ End(p, "error")
  /\ UNCHANGED <<dir, mixed, downs>>

Up(p) == StartFail(p) \/ StartUp(p) \/ UpCommit(p) \/ UpConflict(p) \/ UpFail(p) \/ UpDone(p)
Down(p) == DownCommit(p) \/ DownFail(p)
=============================================================================
