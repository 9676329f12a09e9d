---------------------------- MODULE DistinctSet ----------------------------
(***************************************************************************)
(* What DISTINCT, the aggregates over distinct values, CONSTRUCT and       *)
(* DESCRIBE expect of a DistinctBindingHash: a set of tuples.              *)
(***************************************************************************)
CONSTANTS Tuples, NoTuple, NoAnswer

VARIABLES
  set,
  tuple,     \* the tuple whose is_in_or_insert is under way, or NoTuple
  answer     \* whether the tuple of the last call was there, or NoAnswer

vars == <<set, tuple, answer>>

Init ==
  /\ set = {}
  /\ tuple = NoTuple
  /\ answer = NoAnswer

IsIn(t) ==
  /\ tuple = NoTuple
  /\ answer' = (t \in set)
  /\ UNCHANGED <<set, tuple>>

Call(t) ==
  /\ tuple = NoTuple
  /\ tuple' = t
  /\ answer' = NoAnswer
  /\ UNCHANGED set

Return ==
  /\ tuple # NoTuple
  /\ answer' = (tuple \in set)
  /\ set' = set \cup {tuple}
  /\ tuple' = NoTuple

Reset ==
  /\ tuple = NoTuple
  /\ set' = {}
  /\ answer' = NoAnswer
  /\ UNCHANGED tuple

Next ==
  \/ \E t \in Tuples : IsIn(t) \/ Call(t)
  \/ Return \/ Reset

Spec == Init /\ [][Next]_vars
=============================================================================
