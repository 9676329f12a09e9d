------------------------ MODULE PrivatePages_proofs ------------------------
(***************************************************************************)
(* Proofs about PrivatePages, for any number of users, frames, files and   *)
(* pages: its types, that a removed file leaves nothing behind, and that   *)
(* the pool implements plain files (TmpFiles).                             *)
(*                                                                         *)
(* The refinement rests on one observation: beyond the real size of a file *)
(* there are zeros, so a page that is not in the pool always is what the   *)
(* file has at its place, whether or not it was ever written; and a clean  *)
(* frame is equal to that.  Eviction then changes nothing that can be seen *)
(* and get_ppage finds what was there.  Only a failure breaks this, and    *)
(* the files it may concern are given up as a whole (failed).              *)
(***************************************************************************)
EXTENDS PrivatePages, FiniteSetTheorems, TLAPS

Holders(x) == {u \in Users : held[u] # NoUse /\ held[u][1] = x}

\* A frame has at least the pins of those who have it, and who has it has it
\* for the page that is in it.  (A request that failed may leave one pin.)
PinInv ==
  /\ \A x \in Frames : Cardinality(Holders(x)) <= pp_pool[x].pins
  /\ \A u \in Users : held[u] # NoUse => pp_pool[held[u][1]].id = held[u][2]

\* pp_map and the frames agree, but for files that were lost.
MapInv ==
  /\ \A id \in Ids : pp_map[id] # NoFrame => pp_pool[pp_map[id]].id = id
  /\ \A x \in Frames : pp_pool[x].id # NoId =>
       /\ pp_pool[x].id[1] \in alive
       /\ pp_pool[x].id[1] \notin failed => pp_map[pp_pool[x].id] = x

\* What get_ppage is looking for is not in the pool.
WantInv ==
  /\ Idle <=> want = NoId
  /\ ~Idle => /\ want[1] \in alive /\ failed = {}
              /\ pp_map[want] = NoFrame /\ held[user] = NoUse

\* Beyond the real size there are zeros, and a clean page is as on disk.
DiskInv ==
  /\ \A f \in Files : f \notin alive => disk[f] = Zeros
  /\ \A f \in Files, p \in PageNos :
       f \in alive /\ tmp_info[f].real <= p => disk[f][p] = Zero
  /\ \A x \in Frames :
       pp_pool[x].id # NoId /\ ~pp_pool[x].dirty /\ pp_pool[x].id[1] \notin failed =>
         pp_pool[x].bytes = disk[pp_pool[x].id[1]][pp_pool[x].id[2]]

ClosedInv == \A f \in Files : f \notin alive => ~tmp_info[f].open

IInv == TypeOK /\ PinInv /\ MapInv /\ WantInv /\ DiskInv /\ ClosedInv

\* Every pin has its holder, but for files a failure made the plan give up.
OwnedInv == \A x \in Frames :
  pp_pool[x].id[1] \in failed \/ pp_pool[x].pins = Cardinality(Holders(x))

-----------------------------------------------------------------------------
(* Constants and pins.                                                     *)

LEMMA Ranges ==
  /\ NFrames \in Nat \ {0} /\ MaxFiles \in Nat /\ MaxPages \in Nat
  /\ NoFrame \notin Frames /\ NoId \notin Ids /\ NoUse \notin Frames \X Ids
  /\ Zero \in Bytes /\ NoUser \notin Users /\ IsFiniteSet(Users)
  /\ \A id \in Ids : id[1] \in Files /\ id[2] \in PageNos /\ id = <<id[1], id[2]>>
  /\ \A f \in Files, p \in PageNos : <<f, p>> \in Ids
BY ConstantsAssumption DEF Frames, NoFrame, Files, PageNos, Ids, NoId, NoUse

LEMMA HandInRange ==
  ASSUME TypeOK
  PROVE  Hand \in Frames
BY Ranges DEF TypeOK, Hand, Frames

LEMMA HoldersFinite ==
  ASSUME NEW x
  PROVE  /\ IsFiniteSet(Holders(x)) /\ Cardinality(Holders(x)) \in Nat
         /\ Cardinality(Holders(x)) = 0 <=> Holders(x) = {}
<1>1. Holders(x) \subseteq Users
  BY DEF Holders
<1>2. IsFiniteSet(Holders(x))
  BY <1>1, Ranges, FS_Subset
<1> QED BY <1>2, FS_CardinalityType, FS_EmptySet

\* A frame without pins is held by nobody.
LEMMA UnpinnedIsFree ==
  ASSUME TypeOK, PinInv, NEW x \in Frames, pp_pool[x].pins = 0
  PROVE  \A u \in Users : held[u] # NoUse => held[u][1] # x
<1>1. Cardinality(Holders(x)) = 0
  BY HoldersFinite DEF PinInv
<1>2. Holders(x) = {}
  BY <1>1, HoldersFinite
<1> QED BY <1>2 DEF Holders

\* What a user holds.
LEMMA HeldFrame ==
  ASSUME TypeOK, PinInv, NEW u \in Users, held[u] # NoUse
  PROVE  /\ held[u][1] \in Frames /\ held[u][2] \in Ids
         /\ pp_pool[held[u][1]].id = held[u][2]
         /\ pp_pool[held[u][1]].pins > 0
<1>1. held[u][1] \in Frames /\ held[u][2] \in Ids
  BY DEF TypeOK
<1>2. pp_pool[held[u][1]].id = held[u][2]
  BY DEF PinInv
<1>3. pp_pool[held[u][1]].pins \in Nat
  BY <1>1 DEF TypeOK, PPage
<1> QED BY <1>1, <1>2, <1>3, UnpinnedIsFree

\* One user more on a frame, or one less.
LEMMA TakeHold ==
  ASSUME TypeOK, NEW u \in Users, held[u] = NoUse, NEW x \in Frames, NEW id \in Ids,
         held' = [held EXCEPT ![u] = <<x, id>>]
  PROVE  /\ Cardinality(Holders(x)') = Cardinality(Holders(x)) + 1
         /\ \A y : y # x => Holders(y)' = Holders(y)
<1>1. <<x, id>> # NoUse
  BY Ranges
<1>2. Holders(x)' = Holders(x) \cup {u} /\ u \notin Holders(x)
  BY <1>1 DEF Holders, TypeOK
<1>3. \A y : y # x => Holders(y)' = Holders(y)
  BY <1>1 DEF Holders, TypeOK
<1> QED BY <1>2, <1>3, HoldersFinite, FS_AddElement

LEMMA LetGo ==
  ASSUME TypeOK, NEW u \in Users, held[u] # NoUse, NEW x, held[u][1] = x,
         held' = [held EXCEPT ![u] = NoUse]
  PROVE  /\ Cardinality(Holders(x)') = Cardinality(Holders(x)) - 1
         /\ \A y : y # x => Holders(y)' = Holders(y)
<1>1. Holders(x)' = Holders(x) \ {u} /\ u \in Holders(x)
  BY DEF Holders, TypeOK
<1>2. \A y : y # x => Holders(y)' = Holders(y)
  BY DEF Holders, TypeOK
<1>3. IsFiniteSet(Holders(x))
  BY HoldersFinite
<1>4. Cardinality(Holders(x) \ {u}) = Cardinality(Holders(x)) - 1
  BY <1>1, <1>3, FS_RemoveElement, Zenon
<1> QED BY <1>1, <1>2, <1>4, Zenon

LEMMA SameHolders ==
  ASSUME UNCHANGED held
  PROVE  \A x : Holders(x)' = Holders(x)
BY DEF Holders

-----------------------------------------------------------------------------
(* The invariant holds at first, and files keep it.                        *)

LEMMA InitIInv ==
  ASSUME Init
  PROVE  IInv
<1>1. TypeOK
  BY Ranges DEF Init, TypeOK, PPage, EmptyFrame, TmpFileInfo, NewFile, Zeros, Frames
<1>2. PinInv
  <2>1. ASSUME NEW x \in Frames PROVE Cardinality(Holders(x)) <= pp_pool[x].pins
    <3>1. Holders(x) = {}
      BY DEF Init, Holders
    <3>2. pp_pool[x].pins = 0
      BY DEF Init, EmptyFrame
    <3> QED BY <3>1, <3>2, HoldersFinite
  <2> QED BY <2>1 DEF PinInv, Init
<1>3. MapInv
  BY DEF MapInv, Init, EmptyFrame
<1>4. WantInv
  BY DEF WantInv, Init, Idle
<1>5. DiskInv
  BY DEF DiskInv, Init, EmptyFrame, Zeros
<1>6. ClosedInv
  BY DEF ClosedInv, Init, NewFile
<1> QED BY <1>1, <1>2, <1>3, <1>4, <1>5, <1>6 DEF IInv

LEMMA InitVersionIInv ==
  ASSUME IInv, InitVersion
  PROVE  IInv'
<1> USE DEF IInv, InitVersion
<1>1. TypeOK'
  BY Ranges DEF TypeOK, NewFile, TmpFileInfo
<1>2. PinInv'
  BY SameHolders DEF PinInv
<1>3. MapInv' /\ WantInv'
  BY DEF MapInv, WantInv, Idle
<1>4. DiskInv'
  BY DEF DiskInv
<1>5. ClosedInv'
  BY DEF ClosedInv, NewFile
<1> QED BY <1>1, <1>2, <1>3, <1>4, <1>5

LEMMA GetTmpFileIdIInv ==
  ASSUME IInv, GetTmpFileId
  PROVE  IInv'
<1> USE DEF IInv, GetTmpFileId
<1>0. tmp_count \in Files /\ tmp_count \notin alive
  BY Ranges DEF TypeOK, Files
<1>1. TypeOK'
  <2>1. alive' \in SUBSET (0 .. tmp_count' - 1) /\ failed' \in SUBSET alive'
    BY Ranges DEF TypeOK
  <2>2. tmp_info' \in [Files -> TmpFileInfo]
    BY DEF TypeOK, NewFile, TmpFileInfo
  <2>3. tmp_count' \in 0 .. MaxFiles
    BY Ranges DEF TypeOK
  <2> QED BY <2>1, <2>2, <2>3 DEF TypeOK
<1>2. PinInv'
  BY SameHolders DEF PinInv
<1>3. MapInv' /\ WantInv'
  BY DEF MapInv, WantInv, Idle
<1>4. DiskInv'
  <2>1. disk[tmp_count] = Zeros
    BY <1>0 DEF DiskInv
  <2>2. \A f \in Files, p \in PageNos :
          f \in alive' /\ tmp_info'[f].real <= p => disk'[f][p] = Zero
    BY <1>0, <2>1 DEF DiskInv, TypeOK, Zeros
  <2>3. \A x \in Frames : pp_pool[x].id # NoId => pp_pool[x].id[1] \in alive
    BY DEF MapInv
  <2> QED BY <2>2, <2>3 DEF DiskInv
<1>5. ClosedInv'
  BY DEF ClosedInv, TypeOK
<1> QED BY <1>1, <1>2, <1>3, <1>4, <1>5

LEMMA RemoveTmpIInv ==
  ASSUME IInv, NEW f \in Files, RemoveTmp(f)
  PROVE  IInv'
<1> USE DEF IInv, RemoveTmp
<1>0. \A x \in Frames : IF FrameOf(x, f) THEN pp_pool'[x] = EmptyFrame
                          ELSE pp_pool'[x] = pp_pool[x]
  OBVIOUS
<1>1. TypeOK'
  <2>1. pp_pool' \in [Frames -> PPage]
    BY Ranges DEF TypeOK, PPage, EmptyFrame
  <2>2. pp_map' \in [Ids -> Frames \cup {NoFrame}]
    BY DEF TypeOK
  <2>3. tmp_info' \in [Files -> TmpFileInfo]
    BY DEF TypeOK, Closed, TmpFileInfo
  <2>4. disk' \in [Files -> [PageNos -> Bytes]]
    BY Ranges DEF TypeOK, Zeros
  <2> QED BY <2>1, <2>2, <2>3, <2>4 DEF TypeOK
<1>2. PinInv'
  <2>1. ASSUME NEW x \in Frames PROVE Cardinality(Holders(x)') <= pp_pool'[x].pins
    <3>1. CASE FrameOf(x, f)
      <4>1. Holders(x) = {}
        BY <3>1, HeldFrame DEF Holders, FrameOf, InUse
      <4>2. pp_pool'[x].pins = 0
        BY <1>0, <3>1 DEF EmptyFrame
      <4> QED BY <4>1, <4>2, SameHolders, HoldersFinite
    <3>2. CASE ~FrameOf(x, f)
      BY <3>2, <1>0, SameHolders DEF PinInv
    <3> QED BY <3>1, <3>2
  <2>2. ASSUME NEW u \in Users, held[u] # NoUse
        PROVE  pp_pool'[held[u][1]].id = held[u][2]
    <3>1. ~FrameOf(held[u][1], f)
      BY <2>2, HeldFrame DEF FrameOf, InUse
    <3> QED BY <2>2, <3>1, <1>0, HeldFrame
  <2> QED BY <2>1, <2>2 DEF PinInv
<1>3. MapInv'
  <2>1. ASSUME NEW id \in Ids, pp_map'[id] # NoFrame
        PROVE  pp_pool'[pp_map'[id]].id = id
    <3>1. pp_map'[id] = pp_map[id] /\ pp_map[id] \in Frames
      BY <2>1 DEF TypeOK
    <3>2. pp_pool[pp_map[id]].id = id
      BY <2>1, <3>1 DEF MapInv
    <3>3. ~FrameOf(pp_map[id], f)
      BY <2>1, <3>1, <3>2
    <3> QED BY <3>1, <3>2, <3>3, <1>0
  <2>2. ASSUME NEW x \in Frames, pp_pool'[x].id # NoId
        PROVE  /\ pp_pool'[x].id[1] \in alive'
               /\ pp_pool'[x].id[1] \notin failed' => pp_map'[pp_pool'[x].id] = x
    <3>1. ~FrameOf(x, f)
      BY <2>2, <1>0 DEF EmptyFrame
    <3>2. pp_pool'[x] = pp_pool[x] /\ pp_pool[x].id[1] # f /\ pp_pool[x].id \in Ids
      BY <2>2, <3>1, <1>0 DEF FrameOf, TypeOK, PPage
    <3>3. pp_map'[pp_pool[x].id] = pp_map[pp_pool[x].id]
      BY <3>2 DEF FrameOf
    <3> QED BY <2>2, <3>2, <3>3 DEF MapInv
  <2> QED BY <2>1, <2>2 DEF MapInv
<1>4. WantInv'
  BY DEF WantInv, Idle
<1>5. DiskInv'
  <2>1. \A g \in Files : g # f => disk'[g] = disk[g] /\ tmp_info'[g] = tmp_info[g]
    BY DEF TypeOK, Closed
  <2>2. disk'[f] = Zeros
    BY DEF TypeOK
  <2>3. ASSUME NEW x \in Frames, pp_pool'[x].id # NoId, ~pp_pool'[x].dirty,
               pp_pool'[x].id[1] \notin failed'
        PROVE  pp_pool'[x].bytes = disk'[pp_pool'[x].id[1]][pp_pool'[x].id[2]]
    <3>1. ~FrameOf(x, f)
      BY <2>3, <1>0 DEF EmptyFrame
    <3>2. pp_pool'[x] = pp_pool[x] /\ pp_pool[x].id[1] # f
      BY <2>3, <3>1, <1>0 DEF FrameOf
    <3>3. pp_pool[x].id[1] \in Files
      BY <2>3, <3>2, Ranges DEF TypeOK, PPage
    <3> QED BY <2>1, <2>3, <3>2, <3>3 DEF DiskInv
  <2>4. \A g \in Files : g \notin alive' => disk'[g] = Zeros
    BY <2>1, <2>2 DEF DiskInv
  <2>5. \A g \in Files, p \in PageNos :
          g \in alive' /\ tmp_info'[g].real <= p => disk'[g][p] = Zero
    BY <2>1 DEF DiskInv
  <2> QED BY <2>3, <2>4, <2>5 DEF DiskInv
<1>6. ClosedInv'
  BY DEF ClosedInv, Closed, TypeOK, TmpFileInfo
<1> QED BY <1>1, <1>2, <1>3, <1>4, <1>5, <1>6

-----------------------------------------------------------------------------
(* Requests.                                                               *)

LEMMA PinAgainFields ==
  ASSUME NEW page \in PPage
  PROVE  /\ PinAgain(page) \in PPage
         /\ PinAgain(page).id = page.id /\ PinAgain(page).pins = page.pins + 1
         /\ PinAgain(page).dirty = page.dirty /\ PinAgain(page).bytes = page.bytes
BY DEF PinAgain, PPage

LEMMA HitIInv ==
  ASSUME IInv, NEW u \in Users, NEW id \in Ids, GetPPageHit(u, id)
  PROVE  IInv'
<1> USE DEF IInv, GetPPageHit, MayAsk
<1>0. PICK f : f = pp_map[id]
  OBVIOUS
<1>1. f \in Frames /\ pp_pool[f].id = id
  BY <1>0 DEF TypeOK, MapInv
<1>2. pp_pool' = [pp_pool EXCEPT ![f] = PinAgain(pp_pool[f])]
  BY <1>0
<1>3. /\ pp_pool'[f].id = id /\ pp_pool'[f].pins = pp_pool[f].pins + 1
      /\ pp_pool'[f].dirty = pp_pool[f].dirty /\ pp_pool'[f].bytes = pp_pool[f].bytes
      /\ pp_pool'[f] \in PPage
      /\ \A y \in Frames : y # f => pp_pool'[y] = pp_pool[y]
  <2>1. pp_pool \in [Frames -> PPage] /\ pp_pool[f] \in PPage
    BY <1>1 DEF TypeOK
  <2>2. PICK page \in PPage : page = pp_pool[f]
    BY <2>1
  <2>3. pp_pool' = [pp_pool EXCEPT ![f] = PinAgain(page)]
    BY <1>2, <2>2
  <2>4. pp_pool'[f] = PinAgain(page) /\ \A y \in Frames : y # f => pp_pool'[y] = pp_pool[y]
    BY <1>1, <2>1, <2>3
  <2> QED BY <1>1, <2>2, <2>4, PinAgainFields
<1>4. TypeOK'
  <2>1. pp_pool' \in [Frames -> PPage]
    BY <1>1, <1>2, <1>3 DEF TypeOK
  <2>2. held' \in [Users -> (Frames \X Ids) \cup {NoUse}]
    BY <1>0, <1>1 DEF TypeOK
  <2> QED BY <2>1, <2>2 DEF TypeOK, fileVars
<1>5. PinInv'
  <2>1. held' = [held EXCEPT ![u] = <<f, id>>]
    BY <1>0
  <2>2. /\ Cardinality(Holders(f)') = Cardinality(Holders(f)) + 1
        /\ \A y : y # f => Holders(y)' = Holders(y)
    <3>1. TypeOK /\ held[u] = NoUse /\ f \in Frames
      BY <1>1
    <3> HIDE DEF IInv, GetPPageHit, MayAsk
    <3> QED BY <2>1, <3>1, TakeHold
  <2>3. ASSUME NEW y \in Frames PROVE Cardinality(Holders(y)') <= pp_pool'[y].pins
    BY <1>1, <1>3, <2>2, HoldersFinite DEF PinInv, TypeOK, PPage
  <2>4. ASSUME NEW v \in Users, held'[v] # NoUse
        PROVE  pp_pool'[held'[v][1]].id = held'[v][2]
    <3>1. CASE v = u
      BY <3>1, <1>3, <2>1 DEF TypeOK
    <3>2. CASE v # u
      <4>1. held'[v] = held[v]
        BY <3>2, <2>1 DEF TypeOK
      <4>2. held[v][1] \in Frames /\ pp_pool[held[v][1]].id = held[v][2]
        BY <2>4, <4>1, HeldFrame
      <4> QED BY <4>1, <4>2, <1>1, <1>3
    <3> QED BY <3>1, <3>2
  <2> QED BY <2>3, <2>4 DEF PinInv
<1>6. \A y \in Frames : /\ pp_pool'[y].id = pp_pool[y].id
                        /\ pp_pool'[y].dirty = pp_pool[y].dirty
                        /\ pp_pool'[y].bytes = pp_pool[y].bytes
  BY <1>1, <1>3
<1>7. MapInv'
  BY <1>6 DEF MapInv, TypeOK
<1>8. WantInv'
  BY DEF WantInv, Idle
<1>9. DiskInv' /\ ClosedInv'
  BY <1>6 DEF DiskInv, ClosedInv, fileVars
<1> QED BY <1>4, <1>5, <1>7, <1>8, <1>9

LEMMA MissIInv ==
  ASSUME IInv, NEW u \in Users, NEW id \in Ids, GetPPageMiss(u, id)
  PROVE  IInv'
<1> USE DEF IInv, GetPPageMiss, MayAsk
<1>1. TypeOK'
  BY DEF TypeOK, fileVars
<1>2. PinInv' /\ MapInv'
  BY SameHolders DEF PinInv, MapInv
<1>3. WantInv'
  BY Ranges DEF WantInv, Idle
<1>4. DiskInv' /\ ClosedInv'
  BY DEF DiskInv, ClosedInv, fileVars
<1> QED BY <1>1, <1>2, <1>3, <1>4

\* The clock moves and at most a second chance is used up.
LEMMA ScanIInv ==
  ASSUME IInv, ScanPinned \/ ScanSecondChance
  PROVE  IInv'
<1> USE DEF IInv
<1>1. pp_clock' \in Frames
  BY HandInRange DEF ScanPinned, ScanSecondChance, Scanning
<1>2. /\ pp_pool' \in [Frames -> PPage]
      /\ \A y \in Frames : /\ pp_pool'[y].id = pp_pool[y].id
                           /\ pp_pool'[y].pins = pp_pool[y].pins
                           /\ pp_pool'[y].dirty = pp_pool[y].dirty
                           /\ pp_pool'[y].bytes = pp_pool[y].bytes
  <2>1. CASE ScanPinned
    BY <2>1 DEF ScanPinned, TypeOK
  <2>2. CASE ScanSecondChance
    <3>1. pp_pool' = [pp_pool EXCEPT ![Hand].chance = FALSE]
      BY <2>2 DEF ScanSecondChance
    <3> HIDE DEF IInv
    <3>2. PICK h : h = Hand /\ h \in Frames
      BY HandInRange DEF IInv
    <3>3. pp_pool \in [Frames -> PPage]
      BY DEF IInv, TypeOK
    <3>4. pp_pool' = [pp_pool EXCEPT ![h].chance = FALSE]
      BY <3>1, <3>2
    <3> QED BY <3>2, <3>3, <3>4 DEF PPage
  <2> QED BY <2>1, <2>2
<1>3. UNCHANGED <<pp_map, fileVars, alive, failed, held, want, user>>
  BY DEF ScanPinned, ScanSecondChance
<1>4. TypeOK'
  BY <1>1, <1>2, <1>3 DEF TypeOK, fileVars
<1>5. PinInv'
  <2>1. \A u \in Users : held[u] # NoUse => held[u][1] \in Frames
    BY HeldFrame
  <2> QED BY <1>2, <1>3, <2>1, SameHolders DEF PinInv
<1>6. MapInv'
  BY <1>2, <1>3 DEF MapInv, TypeOK
<1>7. WantInv'
  BY <1>3 DEF WantInv, Idle
<1>8. DiskInv' /\ ClosedInv'
  BY <1>2, <1>3 DEF DiskInv, ClosedInv, fileVars
<1> QED BY <1>4, <1>5, <1>6, <1>7, <1>8

-----------------------------------------------------------------------------
(* A page leaves the pool.                                                 *)

\* The frame that was found and the page in it.
LEMMA FoundFrame ==
  ASSUME IInv, Found
  PROVE  /\ Hand \in Frames /\ pp_pool[Hand] \in PPage
         /\ \A u \in Users : held[u] # NoUse => held[u][1] # Hand
         /\ want \in Ids /\ want[1] \in alive /\ want[1] \in Files /\ want[2] \in PageNos
         /\ user \in Users /\ held[user] = NoUse
         /\ failed = {} /\ pp_map[want] = NoFrame
         /\ Evicts => /\ pp_pool[Hand].id \in Ids /\ OldFile \in alive
                      /\ OldFile \in Files /\ OldPage \in PageNos
                      /\ pp_pool[Hand].id = <<OldFile, OldPage>>
                      /\ pp_map[pp_pool[Hand].id] = Hand
                      /\ pp_pool[Hand].id # want
<1> USE DEF IInv
<1>1. Hand \in Frames
  BY HandInRange
<1>2. pp_pool[Hand] \in PPage
  BY <1>1 DEF TypeOK
<1>3. \A u \in Users : held[u] # NoUse => held[u][1] # Hand
  BY <1>1, UnpinnedIsFree DEF Found
<1>4. ~Idle
  BY DEF Found, Scanning
<1>5. want \in Ids /\ user \in Users
  BY <1>4 DEF WantInv, TypeOK, Idle
<1>6. want[1] \in alive /\ failed = {} /\ pp_map[want] = NoFrame /\ held[user] = NoUse
  BY <1>4 DEF WantInv
<1>7. ASSUME Evicts
      PROVE  /\ pp_pool[Hand].id \in Ids /\ OldFile \in alive
             /\ pp_map[pp_pool[Hand].id] = Hand
  BY <1>1, <1>2, <1>6, <1>7 DEF Evicts, OldFile, MapInv, PPage
<1>8. Hand # NoFrame
  BY <1>1, Ranges
<1> HIDE DEF IInv
<1>9. Evicts => pp_pool[Hand].id = <<OldFile, OldPage>> /\ OldFile \in Files /\ OldPage \in PageNos
  BY <1>7, Ranges DEF OldFile, OldPage
<1> QED BY <1>1, <1>2, <1>3, <1>5, <1>6, <1>7, <1>8, <1>9, Ranges

\* What the eviction does to the map, to the files and to their sizes.
LEMMA Evicted ==
  ASSUME IInv, Found
  PROVE  /\ MapErased \in [Ids -> Frames \cup {NoFrame}]
         /\ \A id \in Ids : MapErased[id] =
              IF Evicts /\ id = pp_pool[Hand].id THEN NoFrame ELSE pp_map[id]
         /\ DiskFlushed \in [Files -> [PageNos -> Bytes]]
         /\ \A f \in Files, p \in PageNos : DiskFlushed[f][p] =
              IF Writes /\ <<f, p>> = pp_pool[Hand].id THEN pp_pool[Hand].bytes
              ELSE disk[f][p]
         /\ InfoCreated \in [Files -> TmpFileInfo]
         /\ InfoResized \in [Files -> TmpFileInfo]
         /\ \A f \in Files :
              /\ InfoCreated[f].real = tmp_info[f].real
              /\ f \notin alive => InfoCreated[f] = tmp_info[f] /\ InfoResized[f] = tmp_info[f]
                                   /\ DiskFlushed[f] = disk[f]
              /\ \A p \in PageNos : InfoResized[f].real <= p =>
                   /\ tmp_info[f].real <= p
                   /\ ~(Writes /\ <<f, p>> = pp_pool[Hand].id)
<1> DEFINE old == pp_pool[Hand].id
<1>0. /\ Hand \in Frames /\ pp_pool[Hand] \in PPage
      /\ Evicts => /\ old \in Ids /\ OldFile \in alive /\ OldFile \in Files
                   /\ OldPage \in PageNos /\ old = <<OldFile, OldPage>>
  BY FoundFrame
<1>1. /\ pp_map \in [Ids -> Frames \cup {NoFrame}]
      /\ tmp_info \in [Files -> TmpFileInfo]
      /\ disk \in [Files -> [PageNos -> Bytes]]
      /\ pp_pool[Hand].bytes \in Bytes
  BY <1>0 DEF IInv, TypeOK, PPage
<1>2. /\ MapErased \in [Ids -> Frames \cup {NoFrame}]
      /\ \A id \in Ids : MapErased[id] =
           IF Evicts /\ id = pp_pool[Hand].id THEN NoFrame ELSE pp_map[id]
  BY <1>0, <1>1 DEF MapErased
<1>3. CASE ~Evicts
  <2>1. MapErased = pp_map /\ DiskFlushed = disk /\ InfoCreated = tmp_info
        /\ InfoResized = tmp_info /\ ~Writes
    BY <1>3 DEF MapErased, DiskFlushed, InfoCreated, InfoResized, Writes
  <2> QED BY <1>1, <1>2, <2>1
<1>4. CASE Evicts
  <2>1. PICK F \in Files, P \in PageNos :
          F = OldFile /\ P = OldPage /\ old = <<F, P>> /\ F \in alive
    BY <1>0, <1>4
  <2>2. InfoCreated = [tmp_info EXCEPT ![F].open = TRUE]
    BY <1>4, <2>1 DEF InfoCreated
  <2>3. /\ InfoCreated \in [Files -> TmpFileInfo]
        /\ \A f \in Files : f # F => InfoCreated[f] = tmp_info[f]
        /\ InfoCreated[F].real = tmp_info[F].real
    BY <1>1, <2>2 DEF TmpFileInfo
  <2>4. P \in Nat
    BY Ranges DEF PageNos
  <2>5. /\ InfoResized \in [Files -> TmpFileInfo]
        /\ \A f \in Files : f # F => InfoResized[f] = tmp_info[f]
        /\ InfoResized[F].real >= tmp_info[F].real
        /\ Writes => InfoResized[F].real > P
    <3>1. CASE Writes /\ TooShort(tmp_info)
      <4>1. InfoResized = [InfoCreated EXCEPT ![F].real = P + 1]
        BY <3>1, <2>1 DEF InfoResized
      <4>2. tmp_info[F].real <= P /\ tmp_info[F].real \in Nat
        BY <3>1, <2>1, <1>1 DEF TooShort, TmpFileInfo
      <4> QED BY <4>1, <4>2, <2>3, <2>4 DEF TmpFileInfo
    <3>2. CASE ~(Writes /\ TooShort(tmp_info))
      <4>1. InfoResized = InfoCreated
        BY <3>2 DEF InfoResized
      <4>2. Writes => tmp_info[F].real > P
        BY <3>2, <2>1, <2>4, <1>1 DEF TooShort, TmpFileInfo
      <4>3. tmp_info[F].real \in Nat
        BY <1>1 DEF TmpFileInfo
      <4> QED BY <4>1, <4>2, <4>3, <2>3
    <3> QED BY <3>1, <3>2
  <2>6. /\ DiskFlushed \in [Files -> [PageNos -> Bytes]]
        /\ \A f \in Files : f # F => DiskFlushed[f] = disk[f]
        /\ \A p \in PageNos : DiskFlushed[F][p] =
             IF Writes /\ p = P THEN pp_pool[Hand].bytes ELSE disk[F][p]
    <3>1. CASE Writes
      <4>1. DiskFlushed = [disk EXCEPT ![F][P] = pp_pool[Hand].bytes]
        BY <3>1, <2>1 DEF DiskFlushed
      <4> QED BY <4>1, <3>1, <1>1
    <3>2. CASE ~Writes
      BY <3>2, <1>1 DEF DiskFlushed
    <3> QED BY <3>1, <3>2
  <2>7. \A f \in Files : f \notin alive => f # F
    BY <2>1
  <2>8. ASSUME NEW f \in Files, NEW p \in PageNos, InfoResized[f].real <= p
        PROVE  tmp_info[f].real <= p /\ ~(Writes /\ <<f, p>> = old)
    <3>1. p \in Nat /\ tmp_info[f].real \in Nat /\ InfoResized[f].real \in Nat
      BY <1>1, <2>5, Ranges DEF PageNos, TmpFileInfo
    <3>2. CASE f # F
      BY <2>8, <3>1, <3>2, <2>1, <2>5
    <3>3. CASE f = F
      BY <2>8, <3>1, <3>3, <2>1, <2>4, <2>5
    <3> QED BY <3>2, <3>3
  <2>9. \A f \in Files, p \in PageNos : DiskFlushed[f][p] =
              IF Writes /\ <<f, p>> = old THEN pp_pool[Hand].bytes ELSE disk[f][p]
    BY <2>1, <2>6
  <2> QED BY <1>2, <2>3, <2>5, <2>6, <2>7, <2>8, <2>9
<1> QED BY <1>3, <1>4

\* Every other page keeps its place in the map.
LEMMA OthersStay ==
  ASSUME IInv, Found, NEW h, h = Hand, NEW x \in Frames, x # h, pp_pool[x].id # NoId
  PROVE  /\ pp_pool[x].id \in Ids /\ pp_pool[x].id[1] \in alive
         /\ pp_map[pp_pool[x].id] = x /\ pp_pool[x].id # want
         /\ ~(Evicts /\ pp_pool[x].id = pp_pool[h].id)
         /\ MapErased[pp_pool[x].id] = x
<1>1. failed = {} /\ pp_map[want] = NoFrame /\ (Evicts => pp_map[pp_pool[h].id] = h)
  BY FoundFrame
<1>2. /\ pp_pool[x].id \in Ids /\ pp_pool[x].id[1] \in alive
      /\ pp_map[pp_pool[x].id] = x
  BY <1>1 DEF IInv, MapInv, TypeOK, PPage
<1>3. pp_pool[x].id # want
  BY <1>1, <1>2, Ranges
<1>4. ~(Evicts /\ pp_pool[x].id = pp_pool[h].id)
  BY <1>1, <1>2
<1>5. \A id \in Ids : MapErased[id] =
        IF Evicts /\ id = pp_pool[h].id THEN NoFrame ELSE pp_map[id]
  BY Evicted
<1> QED BY <1>2, <1>3, <1>4, <1>5

\* What is still in the map is not in the frame that was found.
LEMMA StillMapped ==
  ASSUME IInv, Found, NEW h, h = Hand, NEW id \in Ids, MapErased[id] # NoFrame
  PROVE  /\ MapErased[id] = pp_map[id] /\ pp_map[id] \in Frames /\ pp_map[id] # h
         /\ pp_pool[pp_map[id]].id = id
<1>1. \A i \in Ids : MapErased[i] =
        IF Evicts /\ i = pp_pool[h].id THEN NoFrame ELSE pp_map[i]
  BY Evicted
<1>2. MapErased[id] = pp_map[id] /\ ~(Evicts /\ id = pp_pool[h].id)
  BY <1>1
<1>3. pp_map[id] \in Frames /\ pp_pool[pp_map[id]].id = id
  BY <1>2 DEF IInv, TypeOK, MapInv
<1>4. pp_map[id] # h
  BY <1>2, <1>3, Ranges DEF Evicts
<1> QED BY <1>2, <1>3, <1>4

\* Beyond the size a file has then, there are zeros.
LEMMA ZerosBeyond ==
  ASSUME IInv, Found, NEW f \in Files, NEW p \in PageNos, f \in alive,
         InfoResized[f].real <= p
  PROVE  DiskFlushed[f][p] = Zero
<1>1. tmp_info[f].real <= p /\ ~(Writes /\ <<f, p>> = pp_pool[Hand].id)
  BY Evicted
<1>2. DiskFlushed[f][p] = IF Writes /\ <<f, p>> = pp_pool[Hand].id
                          THEN pp_pool[Hand].bytes ELSE disk[f][p]
  BY Evicted
<1> QED BY <1>1, <1>2 DEF IInv, DiskInv

LEMMA BytesFoundFacts ==
  ASSUME IInv, Found
  PROVE  /\ BytesFound = DiskFlushed[want[1]][want[2]]
         /\ \A b \in Bytes : Reassigned(b) \in PPage
         /\ BytesFound \in Bytes
<1>1. want \in Ids /\ want[1] \in alive /\ want[1] \in Files /\ want[2] \in PageNos
  BY FoundFrame
<1>2. DiskFlushed \in [Files -> [PageNos -> Bytes]] /\ InfoResized \in [Files -> TmpFileInfo]
  BY Evicted
<1>3. BytesFound = DiskFlushed[want[1]][want[2]]
  <2>1. CASE IsOnDisk
    BY <2>1 DEF BytesFound
  <2>2. CASE ~IsOnDisk
    <3>1. InfoResized[want[1]].real <= want[2]
      BY <1>1, <1>2, <2>2, Ranges DEF IsOnDisk, TmpFileInfo, PageNos
    <3> QED BY <1>1, <2>2, <3>1, ZerosBeyond DEF BytesFound
  <2> QED BY <2>1, <2>2
<1>4. BytesFound \in Bytes
  BY <1>1, <1>2, <1>3
<1>5. ASSUME NEW b \in Bytes PROVE Reassigned(b) \in PPage
  BY <1>1 DEF Reassigned, PPage
<1> QED BY <1>3, <1>4, <1>5

-----------------------------------------------------------------------------
(* get_ppage ends, well or not.                                            *)

LEMMA FillIInv ==
  ASSUME IInv, FillPage
  PROVE  IInv'
<1>0. Found /\ TypeOK /\ PinInv /\ MapInv /\ DiskInv /\ ClosedInv
  BY DEF FillPage, IInv
<1>1. PICK h, w, u : h = Hand /\ w = want /\ u = user
  OBVIOUS
<1>2. /\ h \in Frames /\ w \in Ids /\ u \in Users /\ held[u] = NoUse
      /\ w[1] \in alive /\ w[1] \in Files /\ w[2] \in PageNos /\ failed = {}
      /\ \A v \in Users : held[v] # NoUse => held[v][1] # h
  BY <1>0, <1>1, FoundFrame
<1>3. PICK b \in Bytes : b = BytesFound /\ b = DiskFlushed[w[1]][w[2]]
  BY <1>0, <1>1, BytesFoundFacts
<1>4. PICK page \in PPage :
        page = Reassigned(b) /\ page.id = w /\ page.pins = 1 /\ page.bytes = b
  BY <1>0, <1>1, <1>3, BytesFoundFacts DEF Reassigned
<1>5. /\ pp_pool' \in [Frames -> PPage] /\ pp_pool'[h] = page
      /\ \A x \in Frames : x # h => pp_pool'[x] = pp_pool[x]
  <2>1. pp_pool' = [pp_pool EXCEPT ![h] = page]
    BY <1>1, <1>3, <1>4 DEF FillPage
  <2>2. pp_pool \in [Frames -> PPage]
    BY <1>0 DEF TypeOK
  <2> QED BY <1>2, <2>1, <2>2
<1>6. /\ MapErased \in [Ids -> Frames \cup {NoFrame}]
      /\ pp_map' = [MapErased EXCEPT ![w] = h]
  BY <1>0, <1>1, Evicted DEF FillPage
<1>7. /\ pp_map' \in [Ids -> Frames \cup {NoFrame}] /\ pp_map'[w] = h
      /\ \A id \in Ids : id # w => pp_map'[id] = MapErased[id]
  BY <1>2, <1>6
<1>8. /\ InfoResized \in [Files -> TmpFileInfo]
      /\ DiskFlushed \in [Files -> [PageNos -> Bytes]]
      /\ \A f \in Files : f \notin alive => /\ InfoResized[f] = tmp_info[f]
                                            /\ DiskFlushed[f] = disk[f]
  BY <1>0, Evicted
<1>9. /\ tmp_info' \in [Files -> TmpFileInfo]
      /\ \A f \in Files : /\ tmp_info'[f].real = InfoResized[f].real
                          /\ tmp_info'[f].open = InfoResized[f].open
  <2>1. w[2] + 1 \in Nat
    BY <1>2, Ranges DEF PageNos
  <2>2. CASE IsOnDisk
    BY <1>8, <2>2 DEF FillPage
  <2>3. CASE ~IsOnDisk
    <3>1. tmp_info' = [InfoResized EXCEPT ![w[1]].logical = w[2] + 1]
      BY <1>1, <2>3 DEF FillPage
    <3> QED BY <1>2, <1>8, <2>1, <3>1 DEF TmpFileInfo
  <2> QED BY <2>2, <2>3
<1>10. /\ pp_clock' = h /\ disk' = DiskFlushed /\ want' = NoId /\ user' = NoUser
       /\ held' = [held EXCEPT ![u] = <<h, w>>]
       /\ UNCHANGED <<tmp_count, alive, failed>>
  BY <1>0, <1>1 DEF FillPage, Found, Scanning
<1>11. TypeOK'
  <2>1. held' \in [Users -> (Frames \X Ids) \cup {NoUse}]
    BY <1>0, <1>2, <1>10 DEF TypeOK
  <2> QED BY <1>0, <1>2, <1>5, <1>7, <1>8, <1>9, <1>10, <2>1 DEF TypeOK
<1>12. PinInv'
  <2>1. /\ Cardinality(Holders(h)') = Cardinality(Holders(h)) + 1
        /\ \A y : y # h => Holders(y)' = Holders(y)
    <3>1. held' = [held EXCEPT ![u] = <<h, w>>]
      BY <1>10
    <3> QED BY <1>0, <1>2, <3>1, TakeHold
  <2>2. Holders(h) = {}
    BY <1>2 DEF Holders
  <2>3. ASSUME NEW y \in Frames PROVE Cardinality(Holders(y)') <= pp_pool'[y].pins
    <3>1. CASE y = h
      BY <3>1, <1>4, <1>5, <2>1, <2>2, HoldersFinite
    <3>2. CASE y # h
      BY <3>2, <1>0, <1>5, <2>1 DEF PinInv
    <3> QED BY <3>1, <3>2
  <2>4. ASSUME NEW v \in Users, held'[v] # NoUse
        PROVE  pp_pool'[held'[v][1]].id = held'[v][2]
    <3>1. CASE v = u
      BY <3>1, <1>0, <1>2, <1>4, <1>5, <1>10 DEF TypeOK
    <3>2. CASE v # u
      <4>1. held'[v] = held[v]
        BY <3>2, <1>0, <1>2, <1>10 DEF TypeOK
      <4>2. held[v][1] \in Frames /\ pp_pool[held[v][1]].id = held[v][2] /\ held[v][1] # h
        BY <1>0, <1>2, <2>4, <4>1, HeldFrame
      <4> QED BY <4>1, <4>2, <1>5
    <3> QED BY <3>1, <3>2
  <2> QED BY <2>3, <2>4 DEF PinInv
<1>13. MapInv'
  <2>1. ASSUME NEW id \in Ids, pp_map'[id] # NoFrame
        PROVE  pp_pool'[pp_map'[id]].id = id
    <3>1. CASE id = w
      BY <3>1, <1>4, <1>5, <1>7
    <3>2. CASE id # w
      <4>1. MapErased[id] # NoFrame /\ pp_map'[id] = MapErased[id]
        BY <2>1, <3>2, <1>7
      <4>2. /\ MapErased[id] = pp_map[id] /\ pp_map[id] \in Frames /\ pp_map[id] # h
            /\ pp_pool[pp_map[id]].id = id
        BY <1>0, <1>1, <4>1, StillMapped
      <4> QED BY <4>1, <4>2, <1>5
    <3> QED BY <3>1, <3>2
  <2>2. ASSUME NEW x \in Frames, pp_pool'[x].id # NoId
        PROVE  /\ pp_pool'[x].id[1] \in alive
               /\ pp_map'[pp_pool'[x].id] = x
    <3>1. CASE x = h
      BY <3>1, <1>2, <1>4, <1>5, <1>7
    <3>2. CASE x # h
      <4>1. pp_pool'[x] = pp_pool[x]
        BY <3>2, <1>5
      <4>2. /\ pp_pool[x].id \in Ids /\ pp_pool[x].id[1] \in alive
            /\ pp_pool[x].id # w /\ MapErased[pp_pool[x].id] = x
        BY <1>0, <1>1, <2>2, <3>2, <4>1, OthersStay
      <4> QED BY <4>1, <4>2, <1>7
    <3> QED BY <3>1, <3>2
  <2> QED BY <2>1, <2>2, <1>10 DEF MapInv
<1>14. WantInv'
  BY <1>10 DEF WantInv, Idle
<1>15. DiskInv'
  <2>1. \A f \in Files : f \notin alive' => disk'[f] = Zeros
    BY <1>0, <1>8, <1>10 DEF DiskInv
  <2>2. ASSUME NEW f \in Files, NEW p \in PageNos, f \in alive', tmp_info'[f].real <= p
        PROVE  disk'[f][p] = Zero
    <3>1. f \in alive /\ InfoResized[f].real <= p
      BY <2>2, <1>9, <1>10
    <3> QED BY <3>1, <1>0, <1>10, ZerosBeyond
  <2>3. ASSUME NEW x \in Frames, pp_pool'[x].id # NoId, ~pp_pool'[x].dirty
        PROVE  pp_pool'[x].bytes = disk'[pp_pool'[x].id[1]][pp_pool'[x].id[2]]
    <3>1. CASE x = h
      BY <3>1, <1>3, <1>4, <1>5, <1>10
    <3>2. CASE x # h
      <4>1. pp_pool'[x] = pp_pool[x]
        BY <3>2, <1>5
      <4>2. /\ pp_pool[x].id \in Ids /\ pp_pool[x].id[1] \in alive
            /\ ~(Evicts /\ pp_pool[x].id = pp_pool[h].id)
        BY <1>0, <1>1, <2>3, <3>2, <4>1, OthersStay
      <4>3. PICK f \in Files, p \in PageNos : pp_pool[x].id = <<f, p>>
        BY <4>2, Ranges
      <4>4. DiskFlushed[f][p] = disk[f][p]
        BY <1>0, <1>1, <4>2, <4>3, Evicted DEF Writes
      <4>5. pp_pool[x].bytes = disk[f][p]
        <5>1. pp_pool[x].id[1] = f /\ pp_pool[x].id[2] = p
          BY <4>3
        <5>2. pp_pool[x].id # NoId /\ ~pp_pool[x].dirty /\ pp_pool[x].id[1] \notin failed
          BY <1>2, <2>3, <4>1
        <5>3. pp_pool[x].bytes = disk[pp_pool[x].id[1]][pp_pool[x].id[2]]
          BY <1>0, <5>2 DEF DiskInv
        <5> QED BY <5>1, <5>3
      <4> QED BY <4>1, <4>3, <4>4, <4>5, <1>10
    <3> QED BY <3>1, <3>2
  <2> QED BY <2>1, <2>2, <2>3 DEF DiskInv
<1>16. ClosedInv'
  BY <1>0, <1>8, <1>9, <1>10 DEF ClosedInv
<1> QED BY <1>11, <1>12, <1>13, <1>14, <1>15, <1>16 DEF IInv

LEMMA ThrowIInv ==
  ASSUME IInv, TruncateFails \/ FlushFails \/ ReadFails
  PROVE  IInv'
<1>0. Found /\ TypeOK /\ PinInv /\ MapInv /\ DiskInv /\ ClosedInv
  BY DEF TruncateFails, FlushFails, ReadFails, IInv
<1>1. PICK h, w : h = Hand /\ w = want
  OBVIOUS
<1>2. /\ h \in Frames /\ w \in Ids /\ w[1] \in alive
      /\ \A v \in Users : held[v] # NoUse => held[v][1] # h
  BY <1>0, <1>1, FoundFrame
<1>3. /\ pp_clock' = h /\ pp_map' = MapErased /\ want' = NoId /\ user' = NoUser
      /\ failed' = alive /\ UNCHANGED <<tmp_count, alive, held>>
  BY <1>0, <1>1 DEF TruncateFails, FlushFails, ReadFails, Throw, Found, Scanning
<1>4. /\ InfoResized \in [Files -> TmpFileInfo] /\ InfoCreated \in [Files -> TmpFileInfo]
      /\ DiskFlushed \in [Files -> [PageNos -> Bytes]]
      /\ MapErased \in [Ids -> Frames \cup {NoFrame}]
      /\ \A f \in Files : f \notin alive => /\ InfoResized[f] = tmp_info[f]
                                            /\ InfoCreated[f] = tmp_info[f]
                                            /\ DiskFlushed[f] = disk[f]
      /\ \A f \in Files : InfoCreated[f].real = tmp_info[f].real
  BY <1>0, Evicted
<1>5. \/ tmp_info' = InfoCreated /\ disk' = disk
      \/ tmp_info' = InfoResized /\ (disk' = disk \/ disk' = DiskFlushed)
  BY DEF TruncateFails, FlushFails, ReadFails
<1>6. PICK page \in PPage : page = Reassigned(Zero) /\ page.id = w /\ page.pins = 1
  BY <1>0, <1>1, Ranges, BytesFoundFacts DEF Reassigned
<1>7. /\ pp_pool' \in [Frames -> PPage]
      /\ \A x \in Frames : x # h => pp_pool'[x] = pp_pool[x]
      /\ pp_pool'[h] \in {page, pp_pool[h]}
  <2>1. pp_pool' = pp_pool \/ pp_pool' = [pp_pool EXCEPT ![h] = page]
    BY <1>1, <1>6 DEF TruncateFails, FlushFails, ReadFails
  <2>2. pp_pool \in [Frames -> PPage]
    BY <1>0 DEF TypeOK
  <2> QED BY <1>2, <2>1, <2>2
<1>8. TypeOK'
  BY <1>0, <1>2, <1>3, <1>4, <1>5, <1>7 DEF TypeOK
<1>9. PinInv'
  <2>1. Holders(h) = {}
    BY <1>2 DEF Holders
  <2>2. ASSUME NEW y \in Frames PROVE Cardinality(Holders(y)') <= pp_pool'[y].pins
    <3>1. Holders(y)' = Holders(y)
      BY <1>3, SameHolders
    <3>2. CASE y = h
      <4>1. Cardinality(Holders(y)) = 0
        BY <2>1, <3>2, HoldersFinite
      <4>2. pp_pool'[y].pins \in Nat
        BY <1>7 DEF PPage
      <4> QED BY <3>1, <4>1, <4>2
    <3>3. CASE y # h
      BY <3>1, <3>3, <1>0, <1>7 DEF PinInv
    <3> QED BY <3>2, <3>3
  <2>3. ASSUME NEW v \in Users, held[v] # NoUse
        PROVE  pp_pool'[held[v][1]].id = held[v][2]
    <3>1. held[v][1] \in Frames /\ pp_pool[held[v][1]].id = held[v][2] /\ held[v][1] # h
      BY <1>0, <1>2, <2>3, HeldFrame
    <3> QED BY <3>1, <1>7
  <2> QED BY <2>2, <2>3, <1>3 DEF PinInv
<1>10. MapInv'
  <2>1. ASSUME NEW id \in Ids, pp_map'[id] # NoFrame
        PROVE  pp_pool'[pp_map'[id]].id = id
    <3>1. /\ MapErased[id] = pp_map[id] /\ pp_map[id] \in Frames /\ pp_map[id] # h
          /\ pp_pool[pp_map[id]].id = id
      BY <1>0, <1>1, <1>3, <2>1, StillMapped
    <3> QED BY <3>1, <1>3, <1>7
  <2>2. ASSUME NEW x \in Frames, pp_pool'[x].id # NoId
        PROVE  pp_pool'[x].id[1] \in alive
    <3>1. CASE pp_pool'[x] = pp_pool[x]
      BY <3>1, <2>2, <1>0 DEF MapInv
    <3>2. CASE pp_pool'[x] = page
      BY <3>2, <1>2, <1>6
    <3> QED BY <3>1, <3>2, <1>7
  <2> QED BY <2>1, <2>2, <1>3 DEF MapInv
<1>11. WantInv'
  BY <1>3 DEF WantInv, Idle
<1>12. DiskInv'
  <2>1. \A f \in Files : f \notin alive' => disk'[f] = Zeros
    BY <1>0, <1>3, <1>4, <1>5 DEF DiskInv
  <2>2. ASSUME NEW f \in Files, NEW p \in PageNos, f \in alive', tmp_info'[f].real <= p
        PROVE  disk'[f][p] = Zero
    <3>1. CASE tmp_info[f].real <= p /\ disk' = disk
      BY <3>1, <2>2, <1>0, <1>3 DEF DiskInv
    <3>2. CASE InfoResized[f].real <= p
      <4>1. tmp_info[f].real <= p
        BY <3>2, <1>0, Evicted
      <4>2. disk[f][p] = Zero
        BY <4>1, <2>2, <1>0, <1>3 DEF DiskInv
      <4>3. DiskFlushed[f][p] = Zero
        BY <3>2, <2>2, <1>0, <1>3, ZerosBeyond
      <4> QED BY <4>2, <4>3, <1>5
    <3> QED BY <3>1, <3>2, <2>2, <1>4, <1>5
  <2>3. \A x \in Frames : pp_pool'[x].id # NoId => pp_pool'[x].id[1] \in failed'
    <3>1. \A x \in Frames : pp_pool'[x] # pp_pool[x] => pp_pool'[x] = page
      BY <1>7
    <3>2. \A x \in Frames : pp_pool[x].id # NoId => pp_pool[x].id[1] \in alive
      BY <1>0 DEF MapInv
    <3> QED BY <1>2, <1>3, <1>6, <3>1, <3>2
  <2> QED BY <2>1, <2>2, <2>3 DEF DiskInv
<1>13. ClosedInv'
  BY <1>0, <1>3, <1>4, <1>5 DEF ClosedInv
<1> QED BY <1>8, <1>9, <1>10, <1>11, <1>12, <1>13 DEF IInv

-----------------------------------------------------------------------------
(* What users do with a page.                                              *)

\* The page a user writes.
LEMMA Written ==
  ASSUME IInv, NEW u \in Users, NEW b \in Bytes, WritePage(u, b), NEW x, x = held[u][1]
  PROVE  /\ x \in Frames /\ held[u] # NoUse /\ held[u][2] \in Ids
         /\ pp_pool[x].id = held[u][2]
         /\ pp_pool' \in [Frames -> PPage]
         /\ \A y \in Frames : y # x => pp_pool'[y] = pp_pool[y]
         /\ \A y \in Frames : pp_pool'[y].id = pp_pool[y].id /\ pp_pool'[y].pins = pp_pool[y].pins
         /\ pp_pool'[x].bytes = b /\ pp_pool'[x].dirty
<1>1. TypeOK /\ PinInv /\ held[u] # NoUse
  BY DEF IInv, WritePage
<1>2. x \in Frames /\ held[u][2] \in Ids /\ pp_pool[x].id = held[u][2]
  BY <1>1, HeldFrame
<1>3. pp_pool' = [pp_pool EXCEPT ![x].bytes = b, ![x].dirty = TRUE]
  BY DEF WritePage
<1>4. pp_pool \in [Frames -> PPage]
  BY <1>1 DEF TypeOK
<1>5. pp_pool'[x] = [pp_pool[x] EXCEPT !.bytes = b, !.dirty = TRUE]
  BY <1>2, <1>3, <1>4
<1>6. \A y \in Frames : y # x => pp_pool'[y] = pp_pool[y]
  BY <1>2, <1>3, <1>4
<1>7. /\ pp_pool'[x] \in PPage /\ pp_pool'[x].id = pp_pool[x].id
      /\ pp_pool'[x].pins = pp_pool[x].pins /\ pp_pool'[x].bytes = b /\ pp_pool'[x].dirty
  BY <1>2, <1>4, <1>5 DEF PPage
<1>8. pp_pool' \in [Frames -> PPage]
  BY <1>2, <1>3, <1>4, <1>7
<1> QED BY <1>1, <1>2, <1>6, <1>7, <1>8

LEMMA WritePageIInv ==
  ASSUME IInv, NEW u \in Users, NEW b \in Bytes, WritePage(u, b)
  PROVE  IInv'
<1>1. PICK x : x = held[u][1]
  OBVIOUS
<1>2. /\ x \in Frames /\ pp_pool' \in [Frames -> PPage]
      /\ \A y \in Frames : y # x => pp_pool'[y] = pp_pool[y]
      /\ \A y \in Frames : pp_pool'[y].id = pp_pool[y].id /\ pp_pool'[y].pins = pp_pool[y].pins
      /\ pp_pool'[x].dirty
  BY <1>1, Written
<1>3. UNCHANGED <<pp_map, pp_clock, fileVars, alive, failed, held, want, user>>
  BY DEF WritePage
<1>4. TypeOK /\ PinInv /\ MapInv /\ WantInv /\ DiskInv /\ ClosedInv
  BY DEF IInv
<1>5. TypeOK'
  BY <1>2, <1>3, <1>4 DEF TypeOK, fileVars
<1>6. PinInv'
  <2>1. \A v \in Users : held[v] # NoUse => held[v][1] \in Frames
    BY <1>4, HeldFrame
  <2> QED BY <1>2, <1>3, <1>4, <2>1, SameHolders DEF PinInv
<1>7. MapInv' /\ WantInv'
  BY <1>2, <1>3, <1>4 DEF MapInv, TypeOK, WantInv, Idle
<1>8. DiskInv' /\ ClosedInv'
  BY <1>2, <1>3, <1>4 DEF DiskInv, ClosedInv, fileVars
<1> QED BY <1>5, <1>6, <1>7, <1>8 DEF IInv

\* The page a user lets go.
LEMMA Unpinned ==
  ASSUME IInv, NEW u \in Users, NEW d \in BOOLEAN, Unpin(u, d), NEW x, x = held[u][1]
  PROVE  /\ x \in Frames /\ held[u] # NoUse /\ pp_pool' \in [Frames -> PPage]
         /\ \A y \in Frames : y # x => pp_pool'[y] = pp_pool[y]
         /\ pp_pool'[x].pins = pp_pool[x].pins - 1
         /\ \A y \in Frames : /\ pp_pool'[y].id = pp_pool[y].id
                              /\ pp_pool'[y].bytes = pp_pool[y].bytes
                              /\ pp_pool[y].dirty => pp_pool'[y].dirty
<1>1. TypeOK /\ PinInv /\ held[u] # NoUse
  BY DEF IInv, Unpin
<1>2. x \in Frames /\ pp_pool[x].pins > 0
  BY <1>1, HeldFrame
<1>3. pp_pool \in [Frames -> PPage] /\ pp_pool[x] \in PPage
  BY <1>1, <1>2 DEF TypeOK
<1>4. PICK e \in BOOLEAN : e = (pp_pool[x].dirty \/ d)
  OBVIOUS
<1>5. pp_pool' = [pp_pool EXCEPT ![x].pins = @ - 1, ![x].dirty = @ \/ d]
  BY DEF Unpin
<1>6. pp_pool'[x] = [pp_pool[x] EXCEPT !.pins = @ - 1, !.dirty = e]
  BY <1>2, <1>3, <1>4, <1>5
<1>7. \A y \in Frames : y # x => pp_pool'[y] = pp_pool[y]
  BY <1>2, <1>3, <1>5
<1>8. /\ pp_pool'[x].id = pp_pool[x].id /\ pp_pool'[x].bytes = pp_pool[x].bytes
      /\ pp_pool'[x].pins = pp_pool[x].pins - 1 /\ pp_pool'[x].dirty = e
      /\ pp_pool'[x] \in PPage
  <2>1. PICK page \in PPage : page = pp_pool[x]
    BY <1>3
  <2>2. page.pins - 1 \in Nat
    BY <1>2, <2>1 DEF PPage
  <2>3. PICK n \in Nat : n = page.pins - 1
    BY <2>2
  <2>4. pp_pool'[x] = [page EXCEPT !.pins = n, !.dirty = e]
    BY <1>6, <2>1, <2>3
  <2>5. /\ pp_pool'[x] \in PPage
        /\ pp_pool'[x].id = page.id /\ pp_pool'[x].bytes = page.bytes
        /\ pp_pool'[x].pins = n /\ pp_pool'[x].dirty = e
    BY <2>4 DEF PPage
  <2> QED BY <2>1, <2>3, <2>5
<1>9. pp_pool' \in [Frames -> PPage]
  BY <1>2, <1>3, <1>5, <1>8
<1>10. pp_pool[x].dirty => pp_pool'[x].dirty
  BY <1>4, <1>8
<1> QED BY <1>1, <1>2, <1>7, <1>8, <1>9, <1>10

LEMMA UnpinIInv ==
  ASSUME IInv, NEW u \in Users, NEW d \in BOOLEAN, Unpin(u, d)
  PROVE  IInv'
<1>1. PICK x : x = held[u][1]
  OBVIOUS
<1>2. /\ x \in Frames /\ held[u] # NoUse /\ pp_pool' \in [Frames -> PPage]
      /\ \A y \in Frames : y # x => pp_pool'[y] = pp_pool[y]
      /\ pp_pool'[x].pins = pp_pool[x].pins - 1
      /\ \A y \in Frames : /\ pp_pool'[y].id = pp_pool[y].id
                           /\ pp_pool'[y].bytes = pp_pool[y].bytes
                           /\ pp_pool[y].dirty => pp_pool'[y].dirty
  BY <1>1, Unpinned
<1>3. /\ UNCHANGED <<pp_map, pp_clock, fileVars, alive, failed, want, user>>
      /\ held' = [held EXCEPT ![u] = NoUse] /\ Idle
  BY DEF Unpin
<1>4. TypeOK /\ PinInv /\ MapInv /\ WantInv /\ DiskInv /\ ClosedInv
  BY DEF IInv
<1>5. TypeOK'
  BY <1>2, <1>3, <1>4 DEF TypeOK, fileVars
<1>6. PinInv'
  <2>1. /\ Cardinality(Holders(x)') = Cardinality(Holders(x)) - 1
        /\ \A y : y # x => Holders(y)' = Holders(y)
    <3>1. held' = [held EXCEPT ![u] = NoUse] /\ held[u] # NoUse /\ held[u][1] = x
      BY <1>1, <1>2, <1>3
    <3> QED BY <1>4, <3>1, LetGo
  <2>2. ASSUME NEW y \in Frames PROVE Cardinality(Holders(y)') <= pp_pool'[y].pins
    <3>1. Cardinality(Holders(y)) <= pp_pool[y].pins
      BY <1>4 DEF PinInv
    <3>2. pp_pool[y].pins \in Nat /\ Cardinality(Holders(y)) \in Nat
      BY <1>4, HoldersFinite DEF TypeOK, PPage
    <3> QED BY <3>1, <3>2, <1>2, <2>1
  <2>3. ASSUME NEW v \in Users, held'[v] # NoUse
        PROVE  pp_pool'[held'[v][1]].id = held'[v][2]
    <3>1. held'[v] = held[v] /\ held[v] # NoUse
      BY <1>3, <1>4, <2>3 DEF TypeOK
    <3>2. held[v][1] \in Frames /\ pp_pool[held[v][1]].id = held[v][2]
      BY <1>4, <3>1, HeldFrame
    <3> QED BY <3>1, <3>2, <1>2
  <2> QED BY <2>2, <2>3 DEF PinInv
<1>7. MapInv' /\ WantInv'
  BY <1>2, <1>3, <1>4 DEF MapInv, TypeOK, WantInv, Idle
<1>8. DiskInv' /\ ClosedInv'
  BY <1>2, <1>3, <1>4 DEF DiskInv, ClosedInv, fileVars
<1> QED BY <1>5, <1>6, <1>7, <1>8 DEF IInv

-----------------------------------------------------------------------------
LEMMA NextIInv ==
  ASSUME IInv, [Next]_vars
  PROVE  IInv'
<1>1. CASE InitVersion
  BY <1>1, InitVersionIInv
<1>2. CASE GetTmpFileId
  BY <1>2, GetTmpFileIdIInv
<1>3. CASE \E f \in Files : RemoveTmp(f)
  BY <1>3, RemoveTmpIInv
<1>4. CASE \E u \in Users : \E id \in Ids : GetPPageHit(u, id) \/ GetPPageMiss(u, id)
  BY <1>4, HitIInv, MissIInv
<1>5. CASE \E u \in Users : \E b \in Bytes : WritePage(u, b)
  BY <1>5, WritePageIInv
<1>6. CASE \E u \in Users : \E d \in BOOLEAN : Unpin(u, d)
  BY <1>6, UnpinIInv
<1>7. CASE GetFrame
  BY <1>7, ScanIInv, FillIInv, ThrowIInv DEF GetFrame
<1>8. CASE UNCHANGED vars
  <2>1. UNCHANGED <<pp_pool, pp_map, pp_clock, tmp_info, tmp_count, disk, alive, failed,
                    held, want, user>>
    BY <1>8 DEF vars, fileVars
  <2> QED BY <2>1, SameHolders DEF IInv, TypeOK, PinInv, MapInv, WantInv, DiskInv,
             ClosedInv, Idle
<1> QED BY <1>1, <1>2, <1>3, <1>4, <1>5, <1>6, <1>7, <1>8 DEF Next

-----------------------------------------------------------------------------
(* Pins and their holders.                                                 *)

LEMMA InitOwned ==
  ASSUME Init
  PROVE  OwnedInv
<1>1. \A x : Holders(x) = {}
  BY DEF Init, Holders
<1>2. \A x \in Frames : pp_pool[x].pins = 0
  BY DEF Init, EmptyFrame
<1> QED BY <1>1, <1>2, HoldersFinite DEF OwnedInv

\* Steps that neither pin nor unpin.
LEMMA SamePins ==
  ASSUME OwnedInv, UNCHANGED <<failed, held>>,
         \A y \in Frames : pp_pool'[y].id = pp_pool[y].id /\ pp_pool'[y].pins = pp_pool[y].pins
  PROVE  OwnedInv'
BY SameHolders DEF OwnedInv

LEMMA ScanOwned ==
  ASSUME IInv, OwnedInv, ScanPinned \/ ScanSecondChance
  PROVE  OwnedInv'
<1>1. UNCHANGED <<failed, held>>
  BY DEF ScanPinned, ScanSecondChance
<1>2. CASE ScanPinned
  BY <1>1, <1>2, SamePins DEF ScanPinned
<1>3. CASE ScanSecondChance
  <2>1. PICK h : h = Hand /\ h \in Frames
    BY HandInRange DEF IInv
  <2>2. pp_pool \in [Frames -> PPage]
    BY DEF IInv, TypeOK
  <2>3. pp_pool' = [pp_pool EXCEPT ![h].chance = FALSE]
    BY <1>3, <2>1 DEF ScanSecondChance
  <2>4. \A y \in Frames : pp_pool'[y].id = pp_pool[y].id /\ pp_pool'[y].pins = pp_pool[y].pins
    BY <2>1, <2>2, <2>3 DEF PPage
  <2> QED BY <1>1, <2>4, SamePins
<1> QED BY <1>2, <1>3

LEMMA WriteOwned ==
  ASSUME IInv, OwnedInv, NEW u \in Users, NEW b \in Bytes, WritePage(u, b)
  PROVE  OwnedInv'
<1>1. UNCHANGED <<failed, held>>
  BY DEF WritePage
<1>2. PICK x : x = held[u][1]
  OBVIOUS
<1>3. \A y \in Frames : pp_pool'[y].id = pp_pool[y].id /\ pp_pool'[y].pins = pp_pool[y].pins
  BY <1>2, Written
<1> QED BY <1>1, <1>3, SamePins

\* A frame without a page is not given up with a file.
LEMMA NoIdIsNotFailed ==
  ASSUME TypeOK
  PROVE  NoId[1] \notin alive /\ NoId[1] \notin failed
BY Ranges DEF TypeOK, NoId

LEMMA RemoveOwned ==
  ASSUME IInv, OwnedInv, NEW f \in Files, RemoveTmp(f)
  PROVE  OwnedInv'
<1>1. TypeOK /\ PinInv
  BY DEF IInv
<1>2. /\ \A x \in Frames : pp_pool'[x] = IF FrameOf(x, f) THEN EmptyFrame ELSE pp_pool[x]
      /\ failed' = failed \ {f} /\ held' = held /\ ~InUse(f)
  BY DEF RemoveTmp
<1>3. ASSUME NEW x \in Frames
      PROVE  pp_pool'[x].id[1] \in failed' \/ pp_pool'[x].pins = Cardinality(Holders(x)')
  <2>1. Holders(x)' = Holders(x)
    BY <1>2, SameHolders
  <2>2. CASE FrameOf(x, f)
    <3>1. Holders(x) = {}
      BY <1>1, <1>2, <2>2, HeldFrame DEF Holders, FrameOf, InUse
    <3>2. pp_pool'[x].pins = 0
      BY <1>2, <2>2 DEF EmptyFrame
    <3> QED BY <2>1, <3>1, <3>2, HoldersFinite
  <2>3. CASE ~FrameOf(x, f)
    <3>1. pp_pool'[x] = pp_pool[x]
      BY <1>2, <2>3
    <3>2. pp_pool[x].id[1] \in failed => pp_pool[x].id[1] \in failed'
      BY <1>1, <1>2, <2>3, NoIdIsNotFailed DEF FrameOf
    <3> QED BY <2>1, <3>1, <3>2 DEF OwnedInv
  <2> QED BY <2>2, <2>3
<1> QED BY <1>3 DEF OwnedInv

LEMMA HitOwned ==
  ASSUME IInv, OwnedInv, NEW u \in Users, NEW id \in Ids, GetPPageHit(u, id)
  PROVE  OwnedInv'
<1>1. TypeOK /\ MapInv
  BY DEF IInv
<1>2. PICK f : f = pp_map[id]
  OBVIOUS
<1>3. /\ failed = {} /\ failed' = failed /\ held[u] = NoUse
      /\ held' = [held EXCEPT ![u] = <<f, id>>]
      /\ pp_pool' = [pp_pool EXCEPT ![f] = PinAgain(pp_pool[f])]
      /\ f # NoFrame
  BY <1>2 DEF GetPPageHit, MayAsk
<1>4. f \in Frames
  BY <1>1, <1>2, <1>3 DEF TypeOK
<1>5. /\ Cardinality(Holders(f)') = Cardinality(Holders(f)) + 1
      /\ \A y : y # f => Holders(y)' = Holders(y)
  BY <1>1, <1>3, <1>4, TakeHold
<1>6. pp_pool \in [Frames -> PPage] /\ pp_pool[f] \in PPage
  BY <1>1, <1>4 DEF TypeOK
<1>7. pp_pool'[f].pins = pp_pool[f].pins + 1
  <2>1. PICK page \in PPage : page = pp_pool[f]
    BY <1>6
  <2>2. pp_pool'[f] = PinAgain(page)
    BY <1>3, <1>4, <1>6, <2>1
  <2> QED BY <2>1, <2>2, PinAgainFields
<1>8. \A y \in Frames : y # f => pp_pool'[y] = pp_pool[y]
  BY <1>3, <1>4, <1>6
<1>9. \A y \in Frames : pp_pool[y].pins = Cardinality(Holders(y))
  BY <1>3 DEF OwnedInv
<1>10. \A y \in Frames : pp_pool'[y].pins = Cardinality(Holders(y)')
  BY <1>4, <1>5, <1>7, <1>8, <1>9
<1> QED BY <1>10 DEF OwnedInv

LEMMA FillOwned ==
  ASSUME IInv, OwnedInv, FillPage
  PROVE  OwnedInv'
<1>1. Found /\ TypeOK
  BY DEF FillPage, IInv
<1>2. PICK h, w, u : h = Hand /\ w = want /\ u = user
  OBVIOUS
<1>3. /\ h \in Frames /\ w \in Ids /\ u \in Users /\ held[u] = NoUse /\ failed = {}
      /\ \A v \in Users : held[v] # NoUse => held[v][1] # h
  BY <1>1, <1>2, FoundFrame
<1>4. PICK b : b = BytesFound
  OBVIOUS
<1>5. pp_pool' = [pp_pool EXCEPT ![h] = Reassigned(b)] /\ held' = [held EXCEPT ![u] = <<h, w>>]
  BY <1>2, <1>4 DEF FillPage
<1>6. pp_pool'[h].pins = 1 /\ \A y \in Frames : y # h => pp_pool'[y] = pp_pool[y]
  BY <1>1, <1>3, <1>5 DEF TypeOK, Reassigned
<1>7. /\ Cardinality(Holders(h)') = Cardinality(Holders(h)) + 1
      /\ \A y : y # h => Holders(y)' = Holders(y)
  BY <1>1, <1>3, <1>5, TakeHold
<1>8. Cardinality(Holders(h)) = 0
  <2>1. Holders(h) = {}
    BY <1>3 DEF Holders
  <2> QED BY <2>1, HoldersFinite
<1>9. \A y \in Frames : pp_pool[y].pins = Cardinality(Holders(y))
  BY <1>3 DEF OwnedInv
<1>10. \A y \in Frames : pp_pool'[y].pins = Cardinality(Holders(y)')
  BY <1>6, <1>7, <1>8, <1>9
<1> QED BY <1>10 DEF OwnedInv

\* What get_ppage left when it threw is in files that are given up.
LEMMA ThrowOwned ==
  ASSUME IInv, OwnedInv, TruncateFails \/ FlushFails \/ ReadFails
  PROVE  OwnedInv'
<1>1. Found /\ TypeOK /\ MapInv
  BY DEF TruncateFails, FlushFails, ReadFails, IInv
<1>2. PICK h, w : h = Hand /\ w = want
  OBVIOUS
<1>3. h \in Frames /\ w \in Ids /\ w[1] \in alive /\ failed = {}
  BY <1>1, <1>2, FoundFrame
<1>4. failed' = alive /\ held' = held
  BY DEF TruncateFails, FlushFails, ReadFails, Throw
<1>5. pp_pool' = pp_pool \/ pp_pool' = [pp_pool EXCEPT ![h] = Reassigned(Zero)]
  BY <1>2 DEF TruncateFails, FlushFails, ReadFails
<1>6. ASSUME NEW y \in Frames
      PROVE  pp_pool'[y].id[1] \in failed' \/ pp_pool'[y].pins = Cardinality(Holders(y)')
  <2>1. CASE pp_pool'[y] = pp_pool[y]
    <3>1. pp_pool[y].pins = Cardinality(Holders(y))
      BY <1>3 DEF OwnedInv
    <3> QED BY <1>4, <2>1, <3>1, SameHolders
  <2>2. CASE pp_pool'[y] # pp_pool[y]
    <3>1. pp_pool'[y] = Reassigned(Zero)
      BY <1>1, <1>3, <1>5, <2>2 DEF TypeOK
    <3>2. pp_pool'[y].id = w
      BY <1>2, <3>1 DEF Reassigned
    <3> QED BY <1>3, <1>4, <3>2
  <2> QED BY <2>1, <2>2
<1> QED BY <1>6 DEF OwnedInv

LEMMA UnpinOwned ==
  ASSUME IInv, OwnedInv, NEW u \in Users, NEW d \in BOOLEAN, Unpin(u, d)
  PROVE  OwnedInv'
<1>1. PICK x : x = held[u][1]
  OBVIOUS
<1>2. /\ x \in Frames /\ held[u] # NoUse
      /\ \A y \in Frames : y # x => pp_pool'[y] = pp_pool[y]
      /\ pp_pool'[x].pins = pp_pool[x].pins - 1
      /\ \A y \in Frames : pp_pool'[y].id = pp_pool[y].id
  BY <1>1, Unpinned
<1>3. held' = [held EXCEPT ![u] = NoUse] /\ failed' = failed
  BY DEF Unpin
<1>4. TypeOK
  BY DEF IInv
<1>5. /\ Cardinality(Holders(x)') = Cardinality(Holders(x)) - 1
      /\ \A y : y # x => Holders(y)' = Holders(y)
  <2>1. held' = [held EXCEPT ![u] = NoUse] /\ held[u] # NoUse /\ held[u][1] = x
    BY <1>1, <1>2, <1>3
  <2> QED BY <1>4, <2>1, LetGo, Zenon
<1>6. ASSUME NEW y \in Frames
      PROVE  pp_pool'[y].id[1] \in failed' \/ pp_pool'[y].pins = Cardinality(Holders(y)')
  <2>1. pp_pool[y].id[1] \in failed \/ pp_pool[y].pins = Cardinality(Holders(y))
    BY DEF OwnedInv
  <2>2. CASE y = x
    BY <1>2, <1>3, <1>5, <2>1, <2>2
  <2>3. CASE y # x
    BY <1>2, <1>3, <1>5, <2>1, <2>3
  <2> QED BY <2>2, <2>3
<1> QED BY <1>6 DEF OwnedInv

LEMMA NextOwned ==
  ASSUME IInv, OwnedInv, [Next]_vars
  PROVE  OwnedInv'
<1>1. CASE InitVersion \/ GetTmpFileId
  BY <1>1, SamePins DEF InitVersion, GetTmpFileId
<1>2. CASE \E f \in Files : RemoveTmp(f)
  BY <1>2, RemoveOwned
<1>3. CASE \E u \in Users : \E id \in Ids : GetPPageHit(u, id) \/ GetPPageMiss(u, id)
  <2>1. CASE \E u \in Users : \E id \in Ids : GetPPageHit(u, id)
    BY <2>1, HitOwned
  <2>2. CASE \E u \in Users : \E id \in Ids : GetPPageMiss(u, id)
    BY <2>2, SamePins DEF GetPPageMiss
  <2> QED BY <1>3, <2>1, <2>2
<1>4. CASE \E u \in Users : \E b \in Bytes : WritePage(u, b)
  BY <1>4, WriteOwned
<1>5. CASE \E u \in Users : \E d \in BOOLEAN : Unpin(u, d)
  BY <1>5, UnpinOwned
<1>6. CASE GetFrame
  BY <1>6, ScanOwned, FillOwned, ThrowOwned DEF GetFrame
<1>7. CASE UNCHANGED vars
  BY <1>7, SamePins DEF vars
<1> QED BY <1>1, <1>2, <1>3, <1>4, <1>5, <1>6, <1>7 DEF Next

-----------------------------------------------------------------------------
\* The fields of frames, files and users always have the types of the code:
\* no page loses more pins than it has. (private_page.h, unpin)
THEOREM TypeCorrect == Spec => []TypeOK
<1>1. Init => IInv
  BY InitIInv
<1>2. IInv /\ [Next]_vars => IInv'
  BY NextIInv
<1>3. IInv => TypeOK
  BY DEF IInv
<1> QED BY <1>1, <1>2, <1>3, PTL DEF Spec

LEMMA IsNothingLeft ==
  ASSUME IInv
  PROVE  NothingIsLeft
<1> SUFFICES ASSUME NEW f \in Files \ alive
             PROVE  /\ \A x \in Frames : ~FrameOf(x, f)
                    /\ \A p \in PageNos : pp_map[<<f, p>>] = NoFrame
                    /\ ~tmp_info[f].open
  BY DEF NothingIsLeft
<1>1. ASSUME NEW x \in Frames PROVE ~FrameOf(x, f)
  BY DEF FrameOf, IInv, MapInv
<1>2. ASSUME NEW p \in PageNos, pp_map[<<f, p>>] # NoFrame PROVE FALSE
  <2>1. PICK id \in Ids : id = <<f, p>> /\ id[1] = f /\ id # NoId
    BY Ranges
  <2>2. pp_map[id] \in Frames /\ pp_pool[pp_map[id]].id = id
    BY <1>2, <2>1 DEF IInv, TypeOK, MapInv
  <2> QED BY <1>1, <2>1, <2>2 DEF FrameOf
<1>3. ~tmp_info[f].open
  BY DEF IInv, ClosedInv
<1> QED BY <1>1, <1>2, <1>3

LEMMA NoPinIsReset ==
  ASSUME IInv, OwnedInv
  PROVE  ResetMeetsNoPin
<1> SUFFICES ASSUME NEW f \in alive \ failed, ~InUse(f), NEW x \in Frames, FrameOf(x, f)
             PROVE  pp_pool[x].pins = 0
  BY DEF ResetMeetsNoPin
<1>1. TypeOK /\ PinInv
  BY DEF IInv
<1>2. pp_pool[x].pins = Cardinality(Holders(x))
  BY DEF OwnedInv, FrameOf
<1>3. Holders(x) = {}
  BY <1>1, HeldFrame DEF Holders, FrameOf, InUse
<1> QED BY <1>2, <1>3, HoldersFinite

\* A file that was removed has no frame, no entry of the map and no open
\* descriptor, and no frame of it was pinned when it could be removed, unless
\* get_ppage had failed its plan: for any number of files, frames and failures.
\* (remove_tmp, PPage::reset)
THEOREM NothingLeft == Spec => []RemovedFilesLeaveNothing
<1>1. Init => IInv /\ OwnedInv
  BY InitIInv, InitOwned
<1>2. IInv /\ OwnedInv /\ [Next]_vars => IInv' /\ OwnedInv'
  BY NextIInv, NextOwned
<1>3. IInv /\ OwnedInv => RemovedFilesLeaveNothing
  BY IsNothingLeft, NoPinIsReset DEF RemovedFilesLeaveNothing
<1> QED BY <1>1, <1>2, <1>3, PTL DEF Spec

-----------------------------------------------------------------------------
(* The pool implements plain files.                                        *)

\* A page of a file that is intact is in the pool or as the disk has it.
LEMMA ContentOf ==
  ASSUME IInv, NEW id \in Ids, id[1] \in Intact
  PROVE  Content(id) = IF pp_map[id] # NoFrame THEN pp_pool[pp_map[id]].bytes
                       ELSE disk[id[1]][id[2]]
<1>1. id[1] \in Files /\ id[2] \in PageNos /\ id[1] \in alive
  BY Ranges DEF Intact
<1>2. tmp_info[id[1]].real \in Nat /\ id[2] \in Nat
  BY <1>1, Ranges DEF IInv, TypeOK, TmpFileInfo, PageNos
<1>3. ~(id[2] < tmp_info[id[1]].real) => disk[id[1]][id[2]] = Zero
  BY <1>1, <1>2 DEF IInv, DiskInv
<1> QED BY <1>3 DEF Content

LEMMA ContentAfter ==
  ASSUME IInv', NEW id \in Ids, id[1] \in Intact'
  PROVE  Content(id)' = IF pp_map'[id] # NoFrame THEN pp_pool'[pp_map'[id]].bytes
                        ELSE disk'[id[1]][id[2]]
<1>1. id[1] \in Files /\ id[2] \in PageNos /\ id[1] \in alive'
  BY Ranges DEF Intact
<1>2. tmp_info'[id[1]].real \in Nat /\ id[2] \in Nat
  BY <1>1, Ranges DEF IInv, TypeOK, TmpFileInfo, PageNos
<1>3. ~(id[2] < tmp_info'[id[1]].real) => disk'[id[1]][id[2]] = Zero
  BY <1>1, <1>2 DEF IInv, DiskInv
<1> QED BY <1>3 DEF Content

\* A page of any other file is zeros.
LEMMA ContentLost ==
  ASSUME NEW id, id[1] \notin Intact
  PROVE  Content(id) = Zero
BY DEF Content

\* A page that is in the pool keeps its frame while its file is intact.
LEMMA WhereItIs ==
  ASSUME IInv, NEW x \in Frames, pp_pool[x].id # NoId, pp_pool[x].id[1] \notin failed
  PROVE  /\ pp_pool[x].id \in Ids /\ pp_pool[x].id[1] \in Intact
         /\ pp_map[pp_pool[x].id] = x /\ Content(pp_pool[x].id) = pp_pool[x].bytes
<1>1. /\ pp_pool[x].id \in Ids /\ pp_pool[x].id[1] \in Intact
      /\ pp_map[pp_pool[x].id] = x /\ x # NoFrame
  BY Ranges DEF IInv, TypeOK, PPage, MapInv, Intact
<1> QED BY <1>1, ContentOf

LEMMA SameSight ==
  ASSUME Intact' = Intact, \A id \in Ids : Content(id)' = Content(id),
         \A u \in Users : Seen(u)' = Seen(u)
  PROVE  UNCHANGED Store!vars
BY DEF Store!vars

\* What a user holds is what it sees.
LEMMA SeenHeld ==
  ASSUME IInv, NEW u \in Users
  PROVE  /\ Seen(u) = NoSight <=> held[u] = NoUse
         /\ held[u] # NoUse => Seen(u) = <<held[u][2], pp_pool[held[u][1]].bytes>>
<1>1. held[u] # NoUse => held[u][2] # NoId
  BY HeldFrame, Ranges DEF IInv
<1> QED BY <1>1 DEF Seen, NoSight

LEMMA InitStore ==
  ASSUME Init
  PROVE  Store!Init
<1>1. Intact = {}
  BY DEF Init, Intact
<1>2. \A id : Content(id) = Zero
  BY <1>1, ContentLost
<1>3. \A u \in Users : Seen(u) = NoSight
  BY DEF Init, Seen
<1> QED BY <1>1, <1>2, <1>3 DEF Store!Init, Ids

LEMMA InitVersionStep ==
  ASSUME IInv, InitVersion
  PROVE  UNCHANGED Store!vars
<1>1. Intact = {} /\ Intact' = {}
  BY DEF InitVersion, Intact
<1>2. \A id \in Ids : Content(id) = Zero /\ Content(id)' = Zero
  BY <1>1, ContentLost DEF Content
<1>3. \A u \in Users : Seen(u)' = Seen(u)
  BY DEF InitVersion, Seen
<1> QED BY <1>1, <1>2, <1>3, SameSight

LEMMA CreateStep ==
  ASSUME IInv, GetTmpFileId
  PROVE  \E f \in Files : Store!Create(f)
<1>1. PICK f : f = tmp_count
  OBVIOUS
<1>2. f \in Files /\ f \notin alive /\ f \notin Intact
  BY <1>1, Ranges DEF IInv, TypeOK, Files, GetTmpFileId, Intact
<1>3. Intact' = Intact \cup {f}
  BY <1>1, <1>2 DEF IInv, TypeOK, GetTmpFileId, Intact
<1>4. ASSUME NEW id \in Ids PROVE Content(id)' = Content(id)
  <2>1. id[1] \in Files /\ id[2] \in PageNos
    BY Ranges
  <2>2. CASE id[1] = f
    <3>1. pp_map[id] = NoFrame
      <4> SUFFICES ASSUME pp_map[id] # NoFrame PROVE FALSE
        OBVIOUS
      <4>1. pp_map[id] \in Frames /\ pp_pool[pp_map[id]].id = id /\ id # NoId
        BY Ranges DEF IInv, TypeOK, MapInv
      <4> QED BY <4>1, <1>2, <2>2 DEF IInv, MapInv
    <3>2. tmp_info'[f].real = 0
      BY <1>1, <1>2 DEF GetTmpFileId, NewFile, IInv, TypeOK
    <3>3. ~(id[2] < 0)
      BY <2>1, Ranges DEF PageNos
    <3>4. Content(id)' = Zero
      BY <2>2, <3>1, <3>2, <3>3 DEF Content, GetTmpFileId
    <3>5. Content(id) = Zero
      BY <1>2, <2>2, ContentLost
    <3> QED BY <3>4, <3>5
  <2>3. CASE id[1] # f
    <3>1. tmp_info'[id[1]] = tmp_info[id[1]]
      BY <1>1, <2>1, <2>3 DEF GetTmpFileId, IInv, TypeOK
    <3>2. id[1] \in Intact' <=> id[1] \in Intact
      BY <1>3, <2>3
    <3> QED BY <3>1, <3>2 DEF Content, GetTmpFileId
  <2> QED BY <2>2, <2>3
<1>5. \A u \in Users : Seen(u)' = Seen(u)
  BY DEF GetTmpFileId, Seen
<1>6. Store!Create(f)
  BY <1>2, <1>3, <1>4, <1>5 DEF Store!Create, Ids
<1> QED BY <1>2, <1>6

\* Removing a file that was lost already does not show.
LEMMA RemoveStep ==
  ASSUME IInv, NEW f \in Files, RemoveTmp(f)
  PROVE  Store!Remove(f) \/ UNCHANGED Store!vars
<1>0. \A x \in Frames : ~FrameOf(x, f) => pp_pool'[x] = pp_pool[x]
  BY DEF RemoveTmp
<1>1. /\ Intact' = Intact \ {f} /\ held' = held
      /\ \A u \in Users : held[u] # NoUse => held[u][2][1] # f
  BY DEF RemoveTmp, Intact, InUse
<1>2. \A u \in Users : Seen(u)' = Seen(u)
  <2> SUFFICES ASSUME NEW u \in Users PROVE Seen(u)' = Seen(u)
    OBVIOUS
  <2>1. CASE held[u] = NoUse
    BY <2>1, <1>1 DEF Seen
  <2>2. CASE held[u] # NoUse
    <3>1. held[u][1] \in Frames /\ ~FrameOf(held[u][1], f)
      BY <1>1, <2>2, HeldFrame DEF IInv, FrameOf
    <3> QED BY <3>1, <1>0, <1>1 DEF Seen
  <2> QED BY <2>1, <2>2
<1>3. ASSUME NEW id \in Ids
      PROVE  Content(id)' = IF id[1] = f THEN Zero ELSE Content(id)
  <2>1. CASE id[1] \notin Intact'
    BY <2>1, <1>1, ContentLost DEF Content
  <2>2. CASE id[1] \in Intact'
    <3>1. id[1] \in Intact /\ id[1] # f /\ id[1] \in Files
      BY <2>2, <1>1, Ranges
    <3>2. tmp_info'[id[1]] = tmp_info[id[1]] /\ disk'[id[1]] = disk[id[1]]
      BY <3>1 DEF RemoveTmp, Closed, IInv, TypeOK
    <3>3. pp_map'[id] = pp_map[id]
      BY <3>1 DEF RemoveTmp, FrameOf
    <3>4. CASE pp_map[id] # NoFrame
      <4>1. pp_map[id] \in Frames /\ pp_pool[pp_map[id]].id = id
        BY <3>4 DEF IInv, TypeOK, MapInv
      <4>2. pp_pool'[pp_map[id]] = pp_pool[pp_map[id]]
        BY <4>1, <3>1, <1>0 DEF FrameOf
      <4> QED BY <4>2, <2>2, <3>1, <3>2, <3>3 DEF Content
    <3>5. CASE pp_map[id] = NoFrame
      BY <3>5, <2>2, <3>1, <3>2, <3>3 DEF Content
    <3> QED BY <3>4, <3>5
  <2> QED BY <2>1, <2>2
<1>4. CASE f \in failed
  <2>1. f \notin Intact
    BY <1>4 DEF Intact
  <2>2. \A id \in Ids : Content(id)' = Content(id)
    BY <1>3, <2>1, ContentLost
  <2> QED BY <1>1, <1>2, <2>1, <2>2, SameSight
<1>5. CASE f \notin failed
  <2>1. f \in Intact
    BY <1>5 DEF Intact, RemoveTmp
  <2>2. \A u \in Users : Seen(u) # NoSight => Seen(u)[1][1] # f
    BY <1>1, SeenHeld
  <2> QED BY <1>1, <1>2, <1>3, <2>1, <2>2 DEF Store!Remove, Store!Emptied, Ids
<1> QED BY <1>4, <1>5

LEMMA HitStep ==
  ASSUME IInv, NEW u \in Users, NEW id \in Ids, GetPPageHit(u, id)
  PROVE  Store!Open(u, id)
<1>1. PICK x : x = pp_map[id]
  OBVIOUS
<1>2. /\ held[u] = NoUse /\ x # NoFrame /\ id[1] \in Intact
      /\ held' = [held EXCEPT ![u] = <<x, id>>]
      /\ UNCHANGED <<pp_map, tmp_info, disk, alive, failed>>
  BY <1>1 DEF GetPPageHit, MayAsk, Intact, fileVars
<1>3. TypeOK /\ x \in Frames /\ pp_pool[x].id = id
  BY <1>1, <1>2 DEF IInv, TypeOK, MapInv
<1>4. \A y \in Frames : pp_pool'[y].bytes = pp_pool[y].bytes
  <2>1. pp_pool \in [Frames -> PPage]
    BY <1>3 DEF TypeOK
  <2>2. PICK page \in PPage : page = pp_pool[x]
    BY <1>3, <2>1
  <2>3. pp_pool' = [pp_pool EXCEPT ![x] = PinAgain(page)]
    BY <1>1, <2>2 DEF GetPPageHit
  <2> QED BY <1>3, <2>1, <2>2, <2>3, PinAgainFields
<1>5. \A i \in Ids : pp_map[i] # NoFrame => pp_map[i] \in Frames
  BY <1>3 DEF TypeOK
<1>6. \A i \in Ids : Content(i)' = Content(i)
  BY <1>2, <1>4, <1>5 DEF Content, Intact
<1>7. Content(id) = pp_pool[x].bytes
  BY <1>1, <1>2, ContentOf
<1>8. \A v \in Users : v # u => Seen(v)' = Seen(v)
  <2>1. \A v \in Users : held[v] # NoUse => held[v][1] \in Frames
    BY HeldFrame DEF IInv
  <2> QED BY <1>2, <1>3, <1>4, <2>1 DEF Seen, TypeOK
<1>9. Seen(u)' = <<id, Content(id)>>
  <2>1. held'[u] = <<x, id>> /\ <<x, id>> # NoUse
    BY <1>2, <1>3, Ranges DEF TypeOK
  <2> QED BY <1>3, <1>4, <1>7, <2>1 DEF Seen
<1>10. Seen(u) = NoSight
  BY <1>2 DEF Seen
<1>11. Intact' = Intact
  BY <1>2 DEF Intact
<1> QED BY <1>2, <1>6, <1>8, <1>9, <1>10, <1>11 DEF Store!Open, Ids

\* Asking and searching do not show.
LEMMA SearchStep ==
  ASSUME IInv, \/ \E u \in Users : \E id \in Ids : GetPPageMiss(u, id)
               \/ ScanPinned \/ ScanSecondChance
  PROVE  UNCHANGED Store!vars
<1>1. UNCHANGED <<pp_map, tmp_info, disk, alive, failed, held>>
  BY DEF GetPPageMiss, ScanPinned, ScanSecondChance, fileVars
<1>2. \A y \in Frames : pp_pool'[y].bytes = pp_pool[y].bytes
  <2>1. CASE ScanSecondChance
    <3>1. PICK h : h = Hand
      OBVIOUS
    <3>2. pp_pool' = [pp_pool EXCEPT ![h].chance = FALSE]
      BY <2>1, <3>1 DEF ScanSecondChance
    <3>3. pp_pool \in [Frames -> PPage]
      BY DEF IInv, TypeOK
    <3> QED BY <3>2, <3>3 DEF PPage
  <2> QED BY <2>1 DEF GetPPageMiss, ScanPinned
<1>3. \A i \in Ids : pp_map[i] # NoFrame => pp_map[i] \in Frames
  BY DEF IInv, TypeOK
<1>4. \A v \in Users : held[v] # NoUse => held[v][1] \in Frames
  BY HeldFrame DEF IInv
<1>5. Intact' = Intact
  BY <1>1 DEF Intact
<1>6. \A i \in Ids : Content(i)' = Content(i)
  BY <1>1, <1>2, <1>3, <1>5 DEF Content
<1>7. \A v \in Users : Seen(v)' = Seen(v)
  BY <1>1, <1>2, <1>4 DEF Seen
<1> QED BY <1>5, <1>6, <1>7, SameSight

\* The page that comes in is the one that was asked for, with what it had,
\* and the one that goes out keeps what it has.
LEMMA FillStep ==
  ASSUME IInv, FillPage
  PROVE  \E u \in Users, id \in Ids : Store!Open(u, id)
<1>0. Found /\ TypeOK /\ DiskInv /\ IInv'
  BY FillIInv DEF FillPage, IInv
<1>1. PICK h, w, u : h = Hand /\ w = want /\ u = user
  OBVIOUS
<1>2. /\ h \in Frames /\ w \in Ids /\ u \in Users /\ held[u] = NoUse
      /\ w[1] \in alive /\ w[1] \in Files /\ w[2] \in PageNos /\ failed = {}
      /\ pp_map[w] = NoFrame
      /\ \A v \in Users : held[v] # NoUse => held[v][1] # h
  BY <1>0, <1>1, FoundFrame
<1>3. /\ disk' = DiskFlushed /\ UNCHANGED <<alive, failed>>
      /\ held' = [held EXCEPT ![u] = <<h, w>>]
      /\ pp_map' = [MapErased EXCEPT ![w] = h]
      /\ MapErased \in [Ids -> Frames \cup {NoFrame}]
  BY <1>0, <1>1, Evicted DEF FillPage
<1>4. /\ \A x \in Frames : x # h => pp_pool'[x] = pp_pool[x]
      /\ pp_pool'[h].bytes = DiskFlushed[w[1]][w[2]]
  <2>1. PICK page : page = Reassigned(BytesFound)
    OBVIOUS
  <2>2. pp_pool' = [pp_pool EXCEPT ![h] = page]
    BY <1>1, <2>1 DEF FillPage
  <2>3. page.bytes = DiskFlushed[w[1]][w[2]]
    BY <1>0, <1>1, <2>1, BytesFoundFacts DEF Reassigned
  <2> QED BY <1>0, <1>2, <2>2, <2>3 DEF TypeOK
<1>5. pp_map'[w] = h /\ \A id \in Ids : id # w => pp_map'[id] = MapErased[id]
  BY <1>2, <1>3
<1>6. Intact' = Intact /\ Intact = alive
  BY <1>2, <1>3 DEF Intact
<1>7. \A id \in Ids : id[1] \in Intact =>
        Content(id) = IF pp_map[id] # NoFrame THEN pp_pool[pp_map[id]].bytes
                      ELSE disk[id[1]][id[2]]
  BY <1>0, ContentOf DEF FillPage
<1>8. \A id \in Ids : id[1] \in Intact =>
        Content(id)' = IF pp_map'[id] # NoFrame THEN pp_pool'[pp_map'[id]].bytes
                       ELSE DiskFlushed[id[1]][id[2]]
  BY <1>0, <1>3, <1>6, ContentAfter
<1>9. ASSUME NEW id \in Ids PROVE Content(id)' = Content(id)
  <2>1. CASE id[1] \notin Intact
    BY <2>1, <1>6 DEF Content
  <2>2. CASE id[1] \in Intact /\ id = w
    <3>1. Content(id)' = DiskFlushed[w[1]][w[2]]
      BY <2>2, <1>2, <1>4, <1>5, <1>8, Ranges
    <3>2. ~(Evicts /\ pp_pool[h].id = w)
      BY <1>0, <1>1, FoundFrame
    <3>3. DiskFlushed[w[1]][w[2]] = disk[w[1]][w[2]]
      <4>1. PICK f \in Files, p \in PageNos : w = <<f, p>> /\ w[1] = f /\ w[2] = p
        BY <1>2, Ranges
      <4>2. ~(Writes /\ <<f, p>> = pp_pool[h].id)
        BY <3>2, <4>1 DEF Writes
      <4>3. DiskFlushed[f][p] = disk[f][p]
        BY <1>0, <1>1, <4>2, Evicted
      <4> QED BY <4>1, <4>3
    <3> QED BY <2>2, <3>1, <3>3, <1>2, <1>7
  <2>3. CASE id[1] \in Intact /\ id # w
    <3>1. pp_map'[id] = MapErased[id]
      BY <2>3, <1>5
    <3>2. CASE MapErased[id] # NoFrame
      <4>1. MapErased[id] = pp_map[id] /\ pp_map[id] \in Frames /\ pp_map[id] # h
        BY <1>0, <1>1, <3>2, StillMapped DEF FillPage
      <4> QED BY <4>1, <2>3, <3>1, <1>4, <1>7, <1>8, Ranges
    <3>3. CASE MapErased[id] = NoFrame
      <4>1. Content(id)' = DiskFlushed[id[1]][id[2]]
        BY <2>3, <3>1, <3>3, <1>8
      <4>2. PICK f \in Files, p \in PageNos : id = <<f, p>> /\ id[1] = f /\ id[2] = p
        BY Ranges
      <4>3. DiskFlushed[f][p] = IF Writes /\ id = pp_pool[h].id THEN pp_pool[h].bytes
                                ELSE disk[f][p]
        BY <1>0, <1>1, <4>2, Evicted
      <4>4. CASE Evicts /\ id = pp_pool[h].id
        <5>1. Content(id) = pp_pool[h].bytes
          <6>1. pp_pool[h].id # NoId /\ pp_pool[h].id[1] \notin failed
            BY <4>4, <1>1, <1>2 DEF Evicts
          <6> QED BY <4>4, <6>1, <1>2, WhereItIs
        <5>2. ~pp_pool[h].dirty => pp_pool[h].bytes = disk[f][p]
          <6>1. pp_pool[h].id # NoId /\ pp_pool[h].id[1] \notin failed
                /\ pp_pool[h].id[1] = f /\ pp_pool[h].id[2] = p
            BY <4>2, <4>4, <1>2, Ranges DEF Evicts
          <6>2. ~pp_pool[h].dirty =>
                  pp_pool[h].bytes = disk[pp_pool[h].id[1]][pp_pool[h].id[2]]
            BY <6>1, <1>0, <1>2 DEF DiskInv
          <6> QED BY <6>1, <6>2
        <5>3. Writes <=> pp_pool[h].dirty
          BY <4>4, <1>1 DEF Writes
        <5> QED BY <4>1, <4>2, <4>3, <4>4, <5>1, <5>2, <5>3
      <4>5. CASE ~(Evicts /\ id = pp_pool[h].id)
        <5>1. pp_map[id] = NoFrame
          BY <1>0, <1>1, <3>3, <4>5, Evicted DEF FillPage
        <5>2. Content(id) = disk[f][p]
          BY <2>3, <4>2, <5>1, <1>7
        <5>3. ~(Writes /\ id = pp_pool[h].id)
          BY <4>5 DEF Writes
        <5> QED BY <4>1, <4>2, <4>3, <5>2, <5>3
      <4> QED BY <4>4, <4>5
    <3> QED BY <3>2, <3>3
  <2> QED BY <2>1, <2>2, <2>3
<1>10. ASSUME NEW v \in Users, v # u PROVE Seen(v)' = Seen(v)
  <2>1. held'[v] = held[v]
    BY <1>0, <1>2, <1>3, <1>10 DEF TypeOK
  <2>2. CASE held[v] = NoUse
    BY <2>1, <2>2 DEF Seen
  <2>3. CASE held[v] # NoUse
    <3>1. held[v][1] \in Frames /\ held[v][1] # h
      BY <2>3, <1>2, HeldFrame DEF IInv
    <3> QED BY <3>1, <2>1, <2>3, <1>4 DEF Seen
  <2> QED BY <2>2, <2>3
<1>11. Seen(u)' = <<w, Content(w)>>
  <2>1. held'[u] = <<h, w>> /\ <<h, w>> # NoUse
    BY <1>0, <1>2, <1>3, Ranges DEF TypeOK
  <2>2. Content(w)' = pp_pool'[h].bytes
    BY <1>2, <1>5, <1>6, <1>8, Ranges, <1>4
  <2>3. Content(w)' = Content(w)
    BY <1>2, <1>9
  <2>4. held'[u] # NoUse /\ held'[u][1] = h /\ held'[u][2] = w
    BY <2>1
  <2>5. Seen(u)' = <<held'[u][2], pp_pool'[held'[u][1]].bytes>>
    BY <2>4 DEF Seen
  <2> QED BY <2>2, <2>3, <2>4, <2>5
<1>12. Seen(u) = NoSight /\ w[1] \in Intact
  BY <1>2, <1>6 DEF Seen
<1>13. Store!Open(u, w)
  BY <1>2, <1>6, <1>9, <1>10, <1>11, <1>12 DEF Store!Open, Ids
<1> QED BY <1>2, <1>13

\* A failure is the loss of all files of the query.
LEMMA ThrowStep ==
  ASSUME IInv, TruncateFails \/ FlushFails \/ ReadFails
  PROVE  Store!Lose
<1>0. Found /\ TypeOK
  BY DEF TruncateFails, FlushFails, ReadFails, IInv
<1>1. Intact' = {}
  BY DEF TruncateFails, FlushFails, ReadFails, Throw, Intact
<1>2. \A id \in Ids : Content(id)' = Zero
  BY <1>1 DEF Content
<1>3. \A id \in Ids : id[1] \notin Intact => Content(id) = Zero
  BY ContentLost
<1>4. PICK h : h = Hand /\ \A v \in Users : held[v] # NoUse => held[v][1] # h
  BY <1>0, FoundFrame
<1>5. held' = held /\ \A y \in Frames : y # h => pp_pool'[y] = pp_pool[y]
  <2>1. PICK page : page = Reassigned(Zero)
    OBVIOUS
  <2>2. pp_pool' = pp_pool \/ pp_pool' = [pp_pool EXCEPT ![h] = page]
    BY <1>4, <2>1 DEF TruncateFails, FlushFails, ReadFails
  <2> QED BY <1>0, <2>2 DEF TypeOK, TruncateFails, FlushFails, ReadFails, Throw
<1>6. \A v \in Users : Seen(v)' = Seen(v)
  <2>1. \A v \in Users : held[v] # NoUse => held[v][1] \in Frames
    BY HeldFrame DEF IInv
  <2> QED BY <1>4, <1>5, <2>1 DEF Seen
<1> QED BY <1>1, <1>2, <1>3, <1>6 DEF Store!Lose, Store!Emptied, Ids

\* All who hold the page see what one of them writes, and nobody else does.
LEMMA WriteStep ==
  ASSUME IInv, NEW u \in Users, NEW b \in Bytes, WritePage(u, b)
  PROVE  \E id \in Ids : Store!Write(id, b)
<1>1. PICK x, id : x = held[u][1] /\ id = held[u][2]
  OBVIOUS
<1>2. /\ x \in Frames /\ held[u] # NoUse /\ id \in Ids /\ pp_pool[x].id = id
      /\ \A y \in Frames : y # x => pp_pool'[y] = pp_pool[y]
      /\ pp_pool'[x].bytes = b
  BY <1>1, Written
<1>3. id[1] \notin failed /\ UNCHANGED <<pp_map, tmp_info, disk, alive, failed, held>>
  BY <1>1 DEF WritePage, fileVars
<1>4. id # NoId
  BY <1>2, Ranges
<1>5. id[1] \in Intact /\ pp_map[id] = x
  BY <1>2, <1>3, <1>4, WhereItIs
<1>6. Intact' = Intact
  BY <1>3 DEF Intact
<1>7. ASSUME NEW i \in Ids PROVE Content(i)' = IF i = id THEN b ELSE Content(i)
  <2>1. CASE i = id
    BY <2>1, <1>2, <1>3, <1>5, <1>6, Ranges DEF Content
  <2>2. CASE i # id /\ pp_map[i] # NoFrame
    <3>1. pp_map[i] \in Frames /\ pp_map[i] # x
      BY <2>2, <1>2 DEF IInv, TypeOK, MapInv
    <3> QED BY <3>1, <2>2, <1>2, <1>3, <1>6 DEF Content
  <2>3. CASE i # id /\ pp_map[i] = NoFrame
    BY <2>3, <1>3, <1>6 DEF Content
  <2> QED BY <2>1, <2>2, <2>3
<1>8. ASSUME NEW v \in Users
      PROVE  Seen(v)' = IF Seen(v) # NoSight /\ Seen(v)[1] = id THEN <<id, b>> ELSE Seen(v)
  <2>1. CASE held[v] = NoUse
    BY <2>1, <1>3 DEF Seen
  <2>2. CASE held[v] # NoUse
    <3>1. PICK y, i : y = held[v][1] /\ i = held[v][2] /\ held[v] # NoUse
      BY <2>2
    <3>2. y \in Frames /\ i \in Ids /\ pp_pool[y].id = i
      BY <3>1, HeldFrame DEF IInv
    <3>3. Seen(v) # NoSight /\ Seen(v) = <<i, pp_pool[y].bytes>>
      BY <3>1, SeenHeld
    <3>4. Seen(v)' = <<i, pp_pool'[y].bytes>>
      BY <3>1, <1>3 DEF Seen
    <3>5. CASE i = id
      <4>1. y = x
        BY <3>2, <3>5, <1>3, <1>4, <1>5, WhereItIs
      <4> QED BY <4>1, <3>3, <3>4, <3>5, <1>2
    <3>6. CASE i # id
      <4>1. y # x
        BY <3>2, <3>6, <1>2
      <4> QED BY <4>1, <3>2, <3>3, <3>4, <3>6, <1>2
    <3> QED BY <3>5, <3>6
  <2> QED BY <2>1, <2>2, SeenHeld
<1>9. Seen(u) # NoSight /\ Seen(u)[1] = id
  BY <1>1, <1>2, SeenHeld
<1>10. Store!Write(id, b)
  BY <1>2, <1>5, <1>6, <1>7, <1>8, <1>9 DEF Store!Write, Ids
<1> QED BY <1>2, <1>10

LEMMA ReleaseStep ==
  ASSUME IInv, NEW u \in Users, NEW d \in BOOLEAN, Unpin(u, d)
  PROVE  Store!Release(u)
<1>1. PICK x : x = held[u][1]
  OBVIOUS
<1>2. /\ held[u] # NoUse
      /\ \A y \in Frames : pp_pool'[y].bytes = pp_pool[y].bytes
  BY <1>1, Unpinned
<1>3. /\ held' = [held EXCEPT ![u] = NoUse]
      /\ UNCHANGED <<pp_map, tmp_info, disk, alive, failed>>
  BY DEF Unpin, fileVars
<1>4. Intact' = Intact
  BY <1>3 DEF Intact
<1>5. \A i \in Ids : Content(i)' = Content(i)
  <2>1. \A i \in Ids : pp_map[i] # NoFrame => pp_map[i] \in Frames
    BY DEF IInv, TypeOK
  <2> QED BY <1>2, <1>3, <1>4, <2>1 DEF Content
<1>6. \A v \in Users : Seen(v)' = IF v = u THEN NoSight ELSE Seen(v)
  <2>1. \A v \in Users : held[v] # NoUse => held[v][1] \in Frames
    BY HeldFrame DEF IInv
  <2>2. \A v \in Users : held'[v] = IF v = u THEN NoUse ELSE held[v]
    BY <1>3 DEF IInv, TypeOK
  <2> QED BY <1>2, <2>1, <2>2 DEF Seen
<1>7. Seen(u) # NoSight
  BY <1>2, SeenHeld
<1> QED BY <1>4, <1>5, <1>6, <1>7 DEF Store!Release, Ids

LEMMA NextStep ==
  ASSUME IInv, [Next]_vars
  PROVE  [Store!Next]_Store!vars
<1>1. CASE InitVersion
  BY <1>1, InitVersionStep
<1>2. CASE GetTmpFileId
  BY <1>2, CreateStep DEF Store!Next
<1>3. CASE \E f \in Files : RemoveTmp(f)
  BY <1>3, RemoveStep DEF Store!Next
<1>4. CASE \E u \in Users : \E id \in Ids : GetPPageHit(u, id)
  BY <1>4, HitStep DEF Store!Next, Ids
<1>5. CASE \/ \E u \in Users : \E id \in Ids : GetPPageMiss(u, id)
           \/ ScanPinned \/ ScanSecondChance
  BY <1>5, SearchStep
<1>6. CASE FillPage
  BY <1>6, FillStep DEF Store!Next, Ids
<1>7. CASE TruncateFails \/ FlushFails \/ ReadFails
  BY <1>7, ThrowStep DEF Store!Next
<1>8. CASE \E u \in Users : \E b \in Bytes : WritePage(u, b)
  BY <1>8, WriteStep DEF Store!Next, Ids
<1>9. CASE \E u \in Users : \E d \in BOOLEAN : Unpin(u, d)
  BY <1>9, ReleaseStep DEF Store!Next
<1>10. CASE UNCHANGED vars
  <2>1. UNCHANGED <<pp_pool, pp_map, tmp_info, disk, alive, failed, held>>
    BY <1>10 DEF vars, fileVars
  <2>2. Intact' = Intact
    BY <2>1 DEF Intact
  <2>3. \A i \in Ids : Content(i)' = Content(i)
    BY <2>1, <2>2 DEF Content
  <2>4. \A v \in Users : Seen(v)' = Seen(v)
    BY <2>1 DEF Seen
  <2> QED BY <2>2, <2>3, <2>4, SameSight
<1> QED BY <1>1, <1>2, <1>3, <1>4, <1>5, <1>6, <1>7, <1>8, <1>9, <1>10 DEF Next, GetFrame

\* The operators of a query always find in a page of a temporary file what was
\* written there last, and zeros where nothing was: get_ppage and its pool
\* implement plain files, for any number of users, frames, files and pages.
THEOREM Implements == Spec => ImplementsTmpFiles
<1>1. Init => IInv /\ Store!Init
  BY InitIInv, InitStore
<1>2. IInv /\ [Next]_vars => IInv'
  BY NextIInv
<1>3. IInv /\ [Next]_vars => [Store!Next]_Store!vars
  BY NextStep
<1> QED BY <1>1, <1>2, <1>3, PTL DEF Spec, ImplementsTmpFiles, Store!Spec

=============================================================================
