---------------------------- MODULE SnapshotStore ----------------------------
(***************************************************************************)
(* What the versioned pages promise to queries (storage/buffer_manager.h,  *)
(* "the system implements MVCC using VPages"): a scope opened when version *)
(* v was the last stable one reads, on every page, the newest bytes        *)
(* written at or below v; one update at a time writes version v + 1, which *)
(* only scopes opened after its end can see.                               *)
(*                                                                         *)
(* There is no pool here, no frame, no file and no mutex.                  *)
(***************************************************************************)
EXTENDS Naturals

CONSTANTS Workers, Pages, MaxVersion

VARIABLES
  stable,   \* the last version whose update ended
  open,     \* Workers -> [kind, start]: the scope of each worker
  history,  \* Pages -> the versions that wrote the page
  view      \* Workers -> the <<page, bytes>> the worker is looking at

vars == <<stable, open, history, view>>

Version == 0 .. MaxVersion
NoScope == [kind |-> "none", start |-> 0]

At(w) == IF open[w].kind = "edit" THEN open[w].start + 1 ELSE open[w].start

\* The bytes of page p for a scope at version v.
Bytes(p, v) ==
  CHOOSE u \in history[p] : u <= v /\ \A t \in history[p] : t <= v => t <= u

Init ==
  /\ stable = 0
  /\ open = [w \in Workers |-> NoScope]
  /\ history = [p \in Pages |-> {0}]
  /\ view = [w \in Workers |-> {}]

OpenRead(w) ==
  /\ open[w] = NoScope
  /\ open' = [open EXCEPT ![w] = [kind |-> "read", start |-> stable]]
  /\ UNCHANGED <<stable, history, view>>

OpenUpdate(w) ==
  /\ \A u \in Workers : open[u].kind # "edit"
  /\ open[w] = NoScope
  /\ open' = [open EXCEPT ![w] = [kind |-> "edit", start |-> stable]]
  /\ UNCHANGED <<stable, history, view>>

CloseScope(w) ==
  /\ open[w] # NoScope /\ view[w] = {}
  /\ open' = [open EXCEPT ![w] = NoScope]
  /\ stable' = IF open[w].kind = "edit" THEN stable + 1 ELSE stable
  /\ UNCHANGED <<history, view>>

Look(w, p) ==
  /\ open[w] # NoScope
  /\ view' = [view EXCEPT ![w] = @ \cup {<<p, Bytes(p, At(w))>>}]
  /\ UNCHANGED <<stable, open, history>>

LookAway(w, x) ==
  /\ view' = [view EXCEPT ![w] = @ \ {x}]
  /\ UNCHANGED <<stable, open, history>>

\* The view of the writer follows its write, and only its view.
Write(w, p) ==
  /\ open[w].kind = "edit"
  /\ history' = [history EXCEPT ![p] = @ \cup {At(w)}]
  /\ view' = [view EXCEPT ![w] = {x \in @ : x[1] # p} \cup {<<p, At(w)>>}]
  /\ UNCHANGED <<stable, open>>

Next ==
  \E w \in Workers :
    \/ OpenRead(w) \/ OpenUpdate(w) \/ CloseScope(w)
    \/ \E p \in Pages : Look(w, p) \/ Write(w, p)
    \/ \E x \in view[w] : LookAway(w, x)

Spec == Init /\ [][Next]_vars
=============================================================================
