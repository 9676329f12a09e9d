---------------------------- MODULE PrivatePages ----------------------------
(***************************************************************************)
(* The private pages (PPage) of one worker thread: get_ppage,              *)
(* get_ppage_available, get_tmp_file_id and remove_tmp of                  *)
(* storage/buffer_manager.cc, with storage/page/private_page.h and the     *)
(* temporary files behind them.  Each worker has its own slice of the      *)
(* pool, its own map, clock and list of files, so one worker is modelled.  *)
(*                                                                         *)
(* The users of pages are the parts of a query plan: buckets of hashes,    *)
(* runs of ORDER BY, partitions of joins.  A user asks for a page, writes  *)
(* it while it is pinned, and unpins it; that bytes and dirty flag change  *)
(* in one step here hides nothing, since a pinned page is not evicted.     *)
(* The destructors of a plan remove its files, also after an exception.    *)
(* Assertions do not stop the program (NDEBUG, as in the Release build):   *)
(* RemoveTmp says which one a failed read would meet in other builds.      *)
(* A definition Mut<Name> is a deliberately wrong form of <Name>.          *)
(***************************************************************************)
EXTENDS Integers, FiniteSets

CONSTANTS
  Users,      \* users of pages in the plans of the worker
  NFrames,    \* pp_pool_size
  MaxFiles,   \* bound: temporary files between two clears of the list
  MaxPages,   \* bound: pages of a file
  Bytes,      \* contents of a page
  Zero,       \* the page of zeros
  NoUser

ASSUME ConstantsAssumption ==
  /\ IsFiniteSet(Users) /\ NoUser \notin Users
  /\ NFrames \in Nat \ {0}
  /\ MaxFiles \in Nat /\ MaxPages \in Nat
  /\ Zero \in Bytes

Frames  == 0 .. NFrames - 1
NoFrame == -1
Files   == 0 .. MaxFiles - 1
PageNos == 0 .. MaxPages - 1
Ids     == Files \X PageNos      \* TmpPageId
NoId    == <<-1, 0>>             \* TmpPageId::UNASSIGNED_ID
NoUse   == <<NoFrame, NoId>>
Zeros   == [p \in PageNos |-> Zero]

VARIABLES
  pp_pool,   \* Frames -> the fields of PPage
  pp_map,    \* Ids -> frame that holds the page, or NoFrame
  pp_clock,
  tmp_info,  \* Files -> TmpFileInfo
  tmp_count, \* tmp_info.size()
  disk,      \* Files -> the pages of std::tmpfile(), zeros where none is written
  alive,     \* the files some part of a plan owns
  failed,    \* those of a plan that ended with an exception of get_ppage
  held,      \* Users -> <<frame, page>> it has pinned, or NoUse
  want,      \* the page get_ppage is looking a frame for, or NoId
  user       \* who asked for it, or NoUser

fileVars == <<tmp_info, tmp_count, disk>>
vars == <<pp_pool, pp_map, pp_clock, fileVars, alive, failed, held, want, user>>

PPage == [id : Ids \cup {NoId}, pins : Nat, chance : BOOLEAN, dirty : BOOLEAN,
          bytes : Bytes]
TmpFileInfo == [logical : Nat, real : Nat, open : BOOLEAN]  \* open: fd # -1

TypeOK ==
  /\ pp_pool \in [Frames -> PPage]
  /\ pp_map \in [Ids -> Frames \cup {NoFrame}]
  /\ pp_clock \in Frames
  /\ tmp_info \in [Files -> TmpFileInfo]
  /\ tmp_count \in 0 .. MaxFiles
  /\ disk \in [Files -> [PageNos -> Bytes]]
  /\ alive \in SUBSET (0 .. tmp_count - 1)
  /\ failed \in SUBSET alive
  /\ held \in [Users -> (Frames \X Ids) \cup {NoUse}]
  /\ want \in Ids \cup {NoId}
  /\ user \in Users \cup {NoUser}

NewFile == [logical |-> 0, real |-> 0, open |-> FALSE]

\* PPage::reset; what bytes it has no longer matters.
EmptyFrame ==
  [id |-> NoId, pins |-> 0, chance |-> FALSE, dirty |-> FALSE, bytes |-> Zero]

Init ==
  /\ pp_pool = [x \in Frames |-> EmptyFrame]
  /\ pp_map = [id \in Ids |-> NoFrame]
  /\ pp_clock = 0
  /\ tmp_info = [f \in Files |-> NewFile]
  /\ tmp_count = 0
  /\ disk = [f \in Files |-> Zeros]
  /\ alive = {}
  /\ failed = {}
  /\ held = [u \in Users |-> NoUse]
  /\ want = NoId
  /\ user = NoUser

Idle == user = NoUser

-----------------------------------------------------------------------------
(* Files.                                                                  *)

\* init_version_readonly and init_version_editable clear the list; the plans
\* of earlier queries of the thread are gone when a session opens its scope.
InitVersion ==
  /\ Idle /\ alive = {}
  /\ tmp_count' = 0 /\ tmp_info' = [f \in Files |-> NewFile]
  /\ UNCHANGED <<pp_pool, pp_map, pp_clock, disk, alive, failed, held, want, user>>

GetTmpFileId ==
  /\ Idle /\ tmp_count < MaxFiles
  /\ tmp_count' = tmp_count + 1
  /\ tmp_info' = [tmp_info EXCEPT ![tmp_count] = NewFile]
  /\ alive' = alive \cup {tmp_count}
  /\ UNCHANGED <<pp_pool, pp_map, pp_clock, disk, failed, held, want, user>>

FrameOf(x, f) == pp_pool[x].id # NoId /\ pp_pool[x].id[1] = f

\* close of a std::tmpfile() deletes it.
MutClosed(f) == tmp_info
Closed(f) == [tmp_info EXCEPT ![f].open = FALSE]

InUse(f) == \E u \in Users : held[u] # NoUse /\ held[u][2][1] = f

\* PPage::reset asserts that the frame is not pinned. That is so (ResetMeetsNoPin)
\* but for the frame that ReadFails leaves pinned: there a build with assertions
\* stops, and the one modelled goes on and resets the frame with its pin.
RemoveTmp(f) ==
  /\ Idle /\ f \in alive /\ ~InUse(f)
  /\ pp_map' = [id \in Ids |-> IF \E x \in Frames : FrameOf(x, f) /\ pp_pool[x].id = id
                               THEN NoFrame ELSE pp_map[id]]
  /\ pp_pool' = [x \in Frames |-> IF FrameOf(x, f) THEN EmptyFrame
                                  ELSE pp_pool[x]]
  /\ tmp_info' = Closed(f)
  /\ disk' = [disk EXCEPT ![f] = Zeros]
  /\ alive' = alive \ {f}
  /\ failed' = failed \ {f}
  /\ UNCHANGED <<pp_clock, tmp_count, held, want, user>>

-----------------------------------------------------------------------------
(* get_ppage.                                                              *)

\* A plan that failed asks for nothing more, and the next one only when the
\* failed one is gone (StreamingRequestHandler replaces it before it begins).
MayAsk(u, id) == Idle /\ held[u] = NoUse /\ id[1] \in alive /\ failed = {}

MutPinAgain(page) == page
PinAgain(page) == [page EXCEPT !.pins = @ + 1]

GetPPageHit(u, id) ==
  /\ MayAsk(u, id) /\ pp_map[id] # NoFrame
  /\ pp_pool' = [pp_pool EXCEPT ![pp_map[id]] = PinAgain(@)]
  /\ held' = [held EXCEPT ![u] = <<pp_map[id], id>>]
  /\ UNCHANGED <<pp_map, pp_clock, fileVars, alive, failed, want, user>>

GetPPageMiss(u, id) ==
  /\ MayAsk(u, id) /\ pp_map[id] = NoFrame
  /\ want' = id /\ user' = u
  /\ UNCHANGED <<pp_pool, pp_map, pp_clock, fileVars, alive, failed, held>>

\* get_ppage_available: the clock looks at one frame per step.
MutHand == pp_clock
Hand == IF pp_clock + 1 < NFrames THEN pp_clock + 1 ELSE 0

Scanning == ~Idle /\ pp_clock' = Hand

ScanPinned ==
  /\ Scanning /\ pp_pool[Hand].pins # 0
  /\ UNCHANGED <<pp_pool, pp_map, fileVars, alive, failed, held, want, user>>

ScanSecondChance ==
  /\ Scanning /\ pp_pool[Hand].pins = 0 /\ pp_pool[Hand].chance
  /\ pp_pool' = [pp_pool EXCEPT ![Hand].chance = FALSE]
  /\ UNCHANGED <<pp_map, fileVars, alive, failed, held, want, user>>

\* get_ppage_available returns the frame under the hand.
Found == Scanning /\ pp_pool[Hand].pins = 0 /\ ~pp_pool[Hand].chance

\* The page in the frame leaves it: its file is created when it has none,
\* and a dirty page is written, in a file that is long enough.
Evicts == pp_pool[Hand].id # NoId
Writes == Evicts /\ pp_pool[Hand].dirty
OldFile == pp_pool[Hand].id[1]
OldPage == pp_pool[Hand].id[2]

MapErased == IF Evicts THEN [pp_map EXCEPT ![pp_pool[Hand].id] = NoFrame] ELSE pp_map

InfoCreated == IF Evicts THEN [tmp_info EXCEPT ![OldFile].open = TRUE] ELSE tmp_info

MutTooShort(info) == info[OldFile].real < OldPage
TooShort(info) == info[OldFile].real <= OldPage
InfoResized ==
  IF Writes /\ TooShort(tmp_info)
    THEN [InfoCreated EXCEPT ![OldFile].real = OldPage + 1] ELSE InfoCreated
DiskFlushed ==
  IF Writes THEN [disk EXCEPT ![OldFile][OldPage] = pp_pool[Hand].bytes]
  ELSE disk

\* PPage::reassign
Reassigned(bytes) ==
  [id |-> want, pins |-> 1, chance |-> TRUE, dirty |-> FALSE, bytes |-> bytes]

IsOnDisk == want[2] < InfoResized[want[1]].real
BytesFound == IF IsOnDisk THEN DiskFlushed[want[1]][want[2]] ELSE Zero

FillPage ==
  /\ Found
  /\ pp_pool' = [pp_pool EXCEPT ![Hand] = Reassigned(BytesFound)]
  /\ pp_map' = [MapErased EXCEPT ![want] = Hand]
  /\ tmp_info' = IF IsOnDisk THEN InfoResized
                 ELSE [InfoResized EXCEPT ![want[1]].logical = want[2] + 1]
  /\ disk' = DiskFlushed
  /\ held' = [held EXCEPT ![user] = <<Hand, want>>]
  /\ want' = NoId /\ user' = NoUser
  /\ UNCHANGED <<tmp_count, alive, failed>>

-----------------------------------------------------------------------------
(* get_ppage throws when the file system fails; what it did stays.         *)

Throw ==
  /\ want' = NoId /\ user' = NoUser
  /\ failed' = alive
  /\ UNCHANGED <<tmp_count, alive, held>>

TruncateFails ==
  /\ Found /\ Writes /\ TooShort(tmp_info)
  /\ pp_map' = MapErased /\ tmp_info' = InfoCreated
  /\ UNCHANGED <<pp_pool, disk>>
  /\ Throw

FlushFails ==
  /\ Found /\ Writes
  /\ pp_map' = MapErased /\ tmp_info' = InfoResized
  /\ UNCHANGED <<pp_pool, disk>>
  /\ Throw

\* The frame is pinned for a page that nobody got, and stays so until its file is
\* removed; its bytes are not used.
ReadFails ==
  /\ Found /\ IsOnDisk
  /\ pp_pool' = [pp_pool EXCEPT ![Hand] = Reassigned(Zero)]
  /\ pp_map' = MapErased /\ tmp_info' = InfoResized /\ disk' = DiskFlushed
  /\ Throw

-----------------------------------------------------------------------------
(* What users do with a page.                                              *)

WritePage(u, b) ==
  /\ Idle /\ held[u] # NoUse /\ held[u][2][1] \notin failed
  /\ pp_pool' = [pp_pool EXCEPT ![held[u][1]].bytes = b, ![held[u][1]].dirty = TRUE]
  /\ UNCHANGED <<pp_map, pp_clock, fileVars, alive, failed, held, want, user>>

\* Some users mark the page dirty just before (TupleIdCollection).
Unpin(u, makeDirty) ==
  /\ Idle /\ held[u] # NoUse
  /\ pp_pool' = [pp_pool EXCEPT ![held[u][1]].pins = @ - 1,
                                ![held[u][1]].dirty = @ \/ makeDirty]
  /\ held' = [held EXCEPT ![u] = NoUse]
  /\ UNCHANGED <<pp_map, pp_clock, fileVars, alive, failed, want, user>>

-----------------------------------------------------------------------------
GetFrame ==
  \/ ScanPinned \/ ScanSecondChance \/ FillPage
  \/ TruncateFails \/ FlushFails \/ ReadFails

Next ==
  \/ InitVersion \/ GetTmpFileId \/ \E f \in Files : RemoveTmp(f)
  \/ \E u \in Users :
       \/ \E id \in Ids : GetPPageHit(u, id) \/ GetPPageMiss(u, id)
       \/ \E b \in Bytes : WritePage(u, b)
       \/ \E d \in BOOLEAN : Unpin(u, d)
  \/ GetFrame

Spec == Init /\ [][Next]_vars

\* The thread goes on with the loop it is in.
LiveSpec == Spec /\ WF_vars(GetFrame)

-----------------------------------------------------------------------------
(* Properties.                                                             *)

\* No frame, no entry of the map and no open descriptor is left of a file that
\* was removed.
NothingIsLeft ==
  \A f \in Files \ alive :
    /\ \A x \in Frames : ~FrameOf(x, f)
    /\ \A p \in PageNos : pp_map[<<f, p>>] = NoFrame
    /\ f < tmp_count => ~tmp_info[f].open

\* When a file may be removed, none of its frames is pinned.
ResetMeetsNoPin ==
  \A f \in alive \ failed : ~InUse(f) =>
    \A x \in Frames : FrameOf(x, f) => pp_pool[x].pins = 0

\* Removing a file leaves nothing of it, and the assertion of PPage::reset holds
\* on the way, of every plan that get_ppage did not fail. Of one that it failed
\* nothing is left either in builds without assertions; in the others the removal
\* stops the program when it was a read that failed (see RemoveTmp).
\* (remove_tmp; a number is given to another file after the list is cleared)
RemovedFilesLeaveNothing == NothingIsLeft /\ ResetMeetsNoPin

\* A request for a page ends: a user is one handle of a page, so with a frame
\* for each of them the clock finds one.
RequestsReturn == ~Idle ~> Idle

-----------------------------------------------------------------------------
(* The files these pages implement.                                        *)

Intact == alive \ failed

\* The page as the next get_ppage finds it.
Content(id) ==
  IF id[1] \notin Intact THEN Zero
  ELSE IF pp_map[id] # NoFrame THEN pp_pool[pp_map[id]].bytes
  ELSE IF id[2] < tmp_info[id[1]].real THEN disk[id[1]][id[2]]
  ELSE Zero

NoSight == <<NoId, Zero>>
Seen(u) == IF held[u] = NoUse THEN NoSight ELSE <<held[u][2], pp_pool[held[u][1]].bytes>>

Store == INSTANCE TmpFiles
           WITH NoUse <- NoSight,
                files <- Intact,
                data  <- [id \in Ids |-> Content(id)],
                seen  <- [u \in Users |-> Seen(u)]

\* Every behaviour of the pool is one of plain files: evictions, growing
\* files, pages that were never written and failures do not show. (As built
\* without assertions, see RemoveTmp.)
ImplementsTmpFiles == Store!Spec
=============================================================================
