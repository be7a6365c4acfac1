---------------------------- MODULE MCControlPlane ----------------------------
(***************************************************************************)
(* Two directories: one whose versions have both scripts, beside a file    *)
(* that is neither kind and one without a number, and one with a version   *)
(* that has no scripts and a version that cannot be undone.                *)
(***************************************************************************)
EXTENDS ControlPlane

Files(v, ends) == {[version |-> v, ends |-> e] : e \in ends}
Both == {".up.sql", ".down.sql"}

Plain == Files(1, Both \union {".sql"}) \union Files(2, Both) \union Files(0, {".sql"})
Odd == Files(1, Both) \union Files(2, {".sql"}) \union Files(3, Both)

MCDirectory == {Plain, Odd}

(* Bound: the repositories are called in behaviours in which one process   *)
(* migrates Plain and nothing fails.                                       *)
Alone ==
  /\ dir = Plain /\ faults = 0
  /\ \A p \in Proc \ {"m1"} : op[p] = "idle" /\ last[p] = "none"

Bound == pg' # pg \/ issued > 0 \/ now > 1 => Alone /\ Alone'

MCSpec == Init /\ [][Next /\ Bound]_vars
=============================================================================
