------------------------------- MODULE Delivery -------------------------------
(***************************************************************************)
(* What the log processor promises, without saying how: every message of   *)
(* the topic is settled before its offset is committed, that is, handled   *)
(* by the sinks or, if the process can lose messages at all, lost.         *)
(*                                                                         *)
(* Nothing that was settled is undone.  A commit may store a lower offset  *)
(* than an earlier one: a consumer that was handed a partition again       *)
(* commits what it has read since.                                         *)
(***************************************************************************)
EXTENDS Integers

CONSTANTS
  Partition,   \* partitions of the topic
  LogLen,      \* number of messages in each partition
  CanLose      \* can a message be given up without being handled?

VARIABLES
  handled,     \* messages the sinks hold
  lost,        \* messages given up
  committed    \* the group's committed offset of each partition

vars == <<handled, lost, committed>>

Msg == Partition \X (0 .. LogLen - 1)

Init ==
  /\ handled = {}
  /\ lost = {}
  /\ committed = [p \in Partition |-> 0]

Settle ==
  /\ handled' \in SUBSET Msg /\ handled \subseteq handled'
  /\ lost' \in SUBSET Msg /\ lost \subseteq lost'
  /\ CanLose \/ lost' = lost
  /\ UNCHANGED committed

Commit ==
  /\ committed' \in [Partition -> 0 .. LogLen]
  /\ \A p \in Partition : \A o \in 0 .. committed'[p] - 1 :
       <<p, o>> \in handled \union lost
  /\ UNCHANGED <<handled, lost>>

Next == Settle \/ Commit

Spec == Init /\ [][Next]_vars

(* No committed offset covers a message that is neither handled nor lost.  *)
(* The processor restates it as CommitAccounted.                           *)
Accounted ==
  \A p \in Partition : \A o \in 0 .. committed[p] - 1 :
    <<p, o>> \in handled \union lost

=============================================================================
