------------------------------ MODULE TmpFiles ------------------------------
(***************************************************************************)
(* What the private pages promise to the operators of a query              *)
(* (storage/buffer_manager.h, get_ppage): a temporary file is an array of  *)
(* pages that are zero at first, an operator sees in a page what was       *)
(* written there last, by whomever, and a file that could not be read or   *)
(* written is lost together with all files of its query.                   *)
(*                                                                         *)
(* There is no pool here, no clock and no file on disk.                    *)
(***************************************************************************)
CONSTANTS
  Users,     \* what may use a page at a time: buckets, runs, partitions
  Files,     \* numbers of temporary files
  PageNos,
  Bytes,
  Zero,
  NoUse      \* the user has no page

VARIABLES
  files,     \* the files in use
  data,      \* Files \X PageNos -> Bytes
  seen       \* Users -> NoUse or <<page, bytes>>: what the user looks at

vars == <<files, data, seen>>

Init ==
  /\ files = {}
  /\ data = [id \in Files \X PageNos |-> Zero]
  /\ seen = [u \in Users |-> NoUse]

Create(f) ==
  /\ f \notin files
  /\ files' = files \cup {f}
  /\ UNCHANGED <<data, seen>>

Open(u, id) ==
  /\ seen[u] = NoUse /\ id[1] \in files
  /\ seen' = [seen EXCEPT ![u] = <<id, data[id]>>]
  /\ UNCHANGED <<files, data>>

\* All users of the page see it.
Write(id, b) ==
  /\ id[1] \in files
  /\ \E u \in Users : seen[u] # NoUse /\ seen[u][1] = id
  /\ data' = [data EXCEPT ![id] = b]
  /\ seen' = [u \in Users |-> IF seen[u] # NoUse /\ seen[u][1] = id
                                THEN <<id, b>> ELSE seen[u]]
  /\ UNCHANGED files

Release(u) ==
  /\ seen[u] # NoUse
  /\ seen' = [seen EXCEPT ![u] = NoUse]
  /\ UNCHANGED <<files, data>>

Emptied(lost) == [id \in Files \X PageNos |-> IF id[1] \in lost THEN Zero ELSE data[id]]

\* Only a file that nobody looks at goes.
Remove(f) ==
  /\ f \in files
  /\ \A u \in Users : seen[u] # NoUse => seen[u][1][1] # f
  /\ files' = files \ {f}
  /\ data' = Emptied({f})
  /\ UNCHANGED seen

Lose ==
  /\ files' = {}
  /\ data' = Emptied(files)
  /\ UNCHANGED seen

Next ==
  \/ \E f \in Files : Create(f) \/ Remove(f)
  \/ \E u \in Users : Release(u) \/ \E id \in Files \X PageNos : Open(u, id)
  \/ \E id \in Files \X PageNos, b \in Bytes : Write(id, b)
  \/ Lose

Spec == Init /\ [][Next]_vars
=============================================================================
