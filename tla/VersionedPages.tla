--------------------------- MODULE VersionedPages ---------------------------
(***************************************************************************)
(* The versioned pages (VPage) of the BufferManager and the version scopes *)
(* of the queries that use them: storage/buffer_manager.{h,cc} and         *)
(* storage/page/versioned_page.h.                                          *)
(*                                                                         *)
(* Every worker thread opens a version scope (a query reads at             *)
(* start_version, an update writes start_version + 1), asks for pages,     *)
(* keeps them pinned while it uses them, and closes the scope.  A request  *)
(* runs under vp_mutex, but pins, unpins and version scopes do not take    *)
(* that mutex, so one step of a request is one action: one hop along the   *)
(* chain of versions, one tick of the replacement clock, the final fill.   *)
(*                                                                         *)
(* The bytes of a page are abstracted to the version of the last update    *)
(* that wrote them (0: as they were when the database was opened).         *)
(* Assertions do not stop the program (NDEBUG); the conditions they state  *)
(* are properties at the end of the module.  A definition Mut<Name> is a   *)
(* deliberately wrong form of <Name> that shows which property notices it. *)
(***************************************************************************)
EXTENDS Integers, FiniteSets

CONSTANTS
  Workers,      \* worker threads
  Updaters,     \* the workers that may execute updates
  NFrames,      \* vp_pool_size
  MaxPages,     \* bound: pages that exist at most
  MaxVersion,   \* bound: the last version an update may create
  MaxHeld,      \* bound: pages a worker keeps pinned at a time
  UnpinnedEdit  \* whether get_page_editable may be called for a page that
                \* the caller has not pinned (no caller in the server does)

ASSUME ConstantsAssumption ==
  /\ Updaters \subseteq Workers
  /\ IsFiniteSet(Workers)
  /\ NFrames \in Nat \ {0}
  /\ MaxPages \in Nat \ {0}
  /\ MaxVersion \in Nat
  /\ MaxHeld \in Nat \ {0}
  /\ UnpinnedEdit \in BOOLEAN

CONSTANT NoWorker
ASSUME NoWorkerAssumption == NoWorker \notin Workers

Frames   == 0 .. NFrames - 1
NoFrame  == -1                   \* nullptr
PageNos  == 1 .. MaxPages
NoPage   == 0                    \* FileId::UNASSIGNED
Versions == 0 .. MaxVersion

VARIABLES
  vp_pool,       \* Frames -> the fields of VPage
  vp_map,        \* PageNos -> frame of the oldest version in the pool
  vp_clock,
  vp_mutex,      \* the worker inside a get_page_*, or NoWorker
  disk,          \* PageNos -> bytes of the page in the file
  page_count,    \* pages the file has
  last_stable_version,
  running_version_count,
  update_mutex,  \* the worker that executes an update, or NoWorker
  scope,         \* Workers -> [kind, start]: its VersionScope
  pc,            \* Workers -> what the thread is doing
  req,           \* Workers -> locals of the get_page_* being executed
  held,          \* Workers -> the <<frame, page>> it has pinned
  closed,        \* the BufferManager was destroyed
  written,       \* history: PageNos -> versions that wrote the page
  created        \* history: PageNos -> version that appended the page

poolVars  == <<vp_pool, vp_map, vp_clock>>
fileVars  == <<disk, page_count>>
scopeVars == <<last_stable_version, running_version_count, update_mutex, scope>>
histVars  == <<written, created>>
vars == <<poolVars, vp_mutex, fileVars, scopeVars, pc, req, held, closed, histVars>>

-----------------------------------------------------------------------------
VPage == [page    : PageNos \cup {NoPage},
          prev    : Frames \cup {NoFrame},
          next    : Frames \cup {NoFrame},
          version : Versions,
          pins    : Nat,
          chance  : BOOLEAN,
          dirty   : BOOLEAN,
          bytes   : Versions]

Request == [op     : {"none", "read", "edit", "append"},
            page   : PageNos \cup {NoPage},
            cur    : Frames \cup {NoFrame},   \* VPage* page of the walk
            old    : Frames \cup {NoFrame},   \* old_page of an edit that missed
            victim : Frames \cup {NoFrame},   \* the frame found by the clock
            clean  : Frames \cup {NoFrame}]   \* VPage* p of the cleaning loop

NoRequest == [op |-> "none", page |-> NoPage, cur |-> NoFrame,
              old |-> NoFrame, victim |-> NoFrame, clean |-> NoFrame]

TypeOK ==
  /\ vp_pool \in [Frames -> VPage]
  /\ vp_map \in [PageNos -> Frames \cup {NoFrame}]
  /\ vp_clock \in Frames
  /\ vp_mutex \in Workers \cup {NoWorker}
  /\ disk \in [PageNos -> Versions]
  /\ page_count \in 1 .. MaxPages
  /\ last_stable_version \in Versions
  /\ running_version_count \in [Versions -> Nat]
  /\ update_mutex \in Workers \cup {NoWorker}
  /\ scope \in [Workers -> [kind : {"none", "read", "edit"}, start : Versions]]
  /\ pc \in [Workers -> {"idle", "running", "walk", "scan", "evict", "clean", "fill"}]
  /\ req \in [Workers -> Request]
  /\ held \in [Workers -> SUBSET (Frames \X PageNos)]
  /\ closed \in BOOLEAN
  /\ written \in [PageNos -> SUBSET Versions]
  /\ created \in [PageNos -> Versions]

Init ==
  /\ vp_pool = [f \in Frames |->
                  [page |-> NoPage, prev |-> NoFrame, next |-> NoFrame,
                   version |-> 0, pins |-> 0, chance |-> FALSE,
                   dirty |-> FALSE, bytes |-> 0]]
  /\ vp_map = [p \in PageNos |-> NoFrame]
  /\ vp_clock = 0
  /\ vp_mutex = NoWorker
  /\ disk = [p \in PageNos |-> 0]
  /\ page_count \in 1 .. MaxPages
  /\ last_stable_version = 0
  /\ running_version_count = [v \in Versions |-> 0]
  /\ update_mutex = NoWorker
  /\ scope = [w \in Workers |-> [kind |-> "none", start |-> 0]]
  /\ pc = [w \in Workers |-> "idle"]
  /\ req = [w \in Workers |-> NoRequest]
  /\ held = [w \in Workers |-> {}]
  /\ closed = FALSE
  /\ written = [p \in PageNos |-> {0}]
  /\ created = [p \in PageNos |-> 0]

-----------------------------------------------------------------------------
(* Version scopes.  A count of 0 stands for an erased entry of the map.    *)

IsUpdate(w) == scope[w].kind = "edit"

\* get_query_ctx().start_version and result_version of the worker.
Start(w)  == scope[w].start
Result(w) == IF IsUpdate(w) THEN scope[w].start + 1 ELSE scope[w].start

\* The versions that a scope keeps in running_version_count.
MutScopeVersions(kind, start) == {start}
ScopeVersions(kind, start) == IF kind = "edit" THEN {start, start + 1} ELSE {start}

BeginReadonly(w) ==
  /\ pc[w] = "idle" /\ ~closed
  /\ scope' = [scope EXCEPT ![w] = [kind |-> "read", start |-> last_stable_version]]
  /\ running_version_count' =
       [v \in Versions |-> IF v \in ScopeVersions("read", last_stable_version)
                           THEN running_version_count[v] + 1 ELSE running_version_count[v]]
  /\ pc' = [pc EXCEPT ![w] = "running"]
  /\ UNCHANGED <<poolVars, vp_mutex, fileVars, last_stable_version, update_mutex,
                 req, held, closed, histVars>>

\* execute_update_query holds update_mutex from before the scope opens until
\* after it is closed.
BeginEditable(w) ==
  /\ pc[w] = "idle" /\ ~closed /\ w \in Updaters
  /\ update_mutex = NoWorker
  /\ last_stable_version < MaxVersion
  /\ update_mutex' = w
  /\ scope' = [scope EXCEPT ![w] = [kind |-> "edit", start |-> last_stable_version]]
  /\ running_version_count' =
       [v \in Versions |-> IF v \in ScopeVersions("edit", last_stable_version)
                           THEN running_version_count[v] + 1 ELSE running_version_count[v]]
  /\ pc' = [pc EXCEPT ![w] = "running"]
  /\ UNCHANGED <<poolVars, vp_mutex, fileVars, last_stable_version, req, held, closed,
                 histVars>>

\* ~VersionScope.  The scope of an update that failed ends the same way as
\* the one of an update that completed.
Terminate(w) ==
  /\ pc[w] = "running" /\ held[w] = {}
  /\ running_version_count' =
       [v \in Versions |-> IF v \in ScopeVersions(scope[w].kind, Start(w))
                           THEN running_version_count[v] - 1 ELSE running_version_count[v]]
  /\ IF IsUpdate(w)
       THEN last_stable_version' = last_stable_version + 1 /\ update_mutex' = NoWorker
       ELSE UNCHANGED <<last_stable_version, update_mutex>>
  /\ scope' = [scope EXCEPT ![w] = [kind |-> "none", start |-> 0]]
  /\ pc' = [pc EXCEPT ![w] = "idle"]
  /\ UNCHANGED <<poolVars, vp_mutex, fileVars, req, held, closed, histVars>>

-----------------------------------------------------------------------------
(* Entering a get_page_*: the lookup in vp_map under vp_mutex.             *)

HoldsPage(w, p) == \E f \in Frames : <<f, p>> \in held[w]

Enter(w, op, p, where, cur) ==
  /\ pc[w] = "running"
  /\ vp_mutex = NoWorker
  /\ vp_mutex' = w
  /\ req' = [req EXCEPT ![w] = [NoRequest EXCEPT !.op = op, !.page = p, !.cur = cur]]
  /\ pc' = [pc EXCEPT ![w] = where]
  /\ UNCHANGED <<poolVars, fileVars, scopeVars, held, closed, histVars>>

Lookup(w, op, p) ==
  Enter(w, op, p, IF vp_map[p] = NoFrame THEN "scan" ELSE "walk", vp_map[p])

\* A worker reaches a page through pointers it has read, so it never asks
\* for one that its version does not have.
GetPageReadonly(w) ==
  /\ Cardinality(held[w]) < MaxHeld
  /\ \E p \in 1 .. page_count :
       /\ created[p] <= Result(w)
       /\ ~HoldsPage(w, p)
       /\ Lookup(w, "read", p)

\* BPlusTreeLeaf/Dir::upgrade_to_editable: the page is pinned and
\* need_edit_version(page) holds.
GetPageEditable(w) ==
  /\ IsUpdate(w)
  /\ \E p \in 1 .. page_count :
       /\ \/ \E f \in Frames : /\ <<f, p>> \in held[w]
                               /\ vp_pool[f].version # Result(w)
          \/ /\ UnpinnedEdit
             /\ ~HoldsPage(w, p)
             /\ Cardinality(held[w]) < MaxHeld
       /\ Lookup(w, "edit", p)

AppendVPage(w) ==
  /\ IsUpdate(w)
  /\ page_count < MaxPages
  /\ Cardinality(held[w]) < MaxHeld
  /\ Enter(w, "append", NoPage, "scan", NoFrame)

-----------------------------------------------------------------------------
(* The page is in the buffer: walk to the newest version <= result_version *)

MutNewer(w) == vp_pool[req[w].cur].next # NoFrame
Newer(w) ==
  LET n == vp_pool[req[w].cur].next
  IN  n # NoFrame /\ vp_pool[n].version <= Result(w)

WalkNext(w) ==
  /\ pc[w] = "walk" /\ Newer(w)
  /\ req' = [req EXCEPT ![w].cur = vp_pool[@].next]
  /\ UNCHANGED <<poolVars, vp_mutex, fileVars, scopeVars, pc, held, closed, histVars>>

\* VPage::pin
Pin(page) == [[page EXCEPT !.pins = page.pins + 1] EXCEPT !.chance = TRUE]

\* The caller gets frame f for page p; after an upgrade it unpins the frame
\* it had for p (upgrade_to_editable).
Deliver(w, f, p) ==
  /\ vp_mutex' = NoWorker
  /\ pc' = [pc EXCEPT ![w] = "running"]
  /\ req' = [req EXCEPT ![w] = NoRequest]
  /\ held' = [held EXCEPT ![w] = {h \in @ : h[2] # p} \cup {<<f, p>>}]

\* The pool without the pins that worker w has on page p: the one that an
\* upgrade gives back, and none in the other requests.
Unpinned(w, p) ==
  [g \in Frames |-> [vp_pool[g] EXCEPT !.pins =
                       IF <<g, p>> \in held[w] THEN @ - 1 ELSE @]]

WalkEnd(w) ==
  LET f == req[w].cur
  IN  /\ pc[w] = "walk" /\ ~Newer(w)
      /\ IF req[w].op = "edit" /\ vp_pool[f].version # Result(w)
           THEN /\ pc' = [pc EXCEPT ![w] = "scan"]
                /\ UNCHANGED <<vp_pool, vp_mutex, req, held>>
           ELSE /\ vp_pool' = [Unpinned(w, req[w].page) EXCEPT ![f] = Pin(@)]
                /\ Deliver(w, f, req[w].page)
      /\ UNCHANGED <<vp_map, vp_clock, fileVars, scopeVars, closed, histVars>>

-----------------------------------------------------------------------------
(* get_vpage_available: the clock looks at one frame per step.             *)

MutHand == vp_clock
Hand == IF vp_clock + 1 < NFrames THEN vp_clock + 1 ELSE 0

Scanning(w) == pc[w] = "scan" /\ vp_clock' = Hand

\* get_page_editable of a page that is not in the pool takes two frames.
NeedsOldPage(w) ==
  req[w].op = "edit" /\ req[w].cur = NoFrame /\ req[w].old = NoFrame

\* get_vpage_available returns f.
Found(w, f) ==
  IF NeedsOldPage(w)
    THEN /\ req' = [req EXCEPT ![w].old = f, ![w].victim = NoFrame,
                               ![w].clean = NoFrame]
         /\ pc' = [pc EXCEPT ![w] = "scan"]
    ELSE /\ req' = [req EXCEPT ![w].victim = f, ![w].clean = NoFrame]
         /\ pc' = [pc EXCEPT ![w] = "fill"]

MutPinned(f) == FALSE
Pinned(f) == vp_pool[f].pins # 0

ScanPinned(w) ==
  /\ Scanning(w)
  /\ Pinned(Hand)
  /\ UNCHANGED <<vp_pool, vp_map, vp_mutex, fileVars, scopeVars, pc, req, held,
                 closed, histVars>>

ScanSecondChance(w) ==
  /\ Scanning(w)
  /\ ~Pinned(Hand) /\ vp_pool[Hand].chance
  /\ vp_pool' = [vp_pool EXCEPT ![Hand].chance = FALSE]
  /\ UNCHANGED <<vp_map, vp_mutex, fileVars, scopeVars, pc, req, held, closed, histVars>>

Candidate(f) == ~Pinned(f) /\ ~vp_pool[f].chance
OnlyVersion(f) == vp_pool[f].prev = NoFrame /\ vp_pool[f].next = NoFrame
InUse(f) == running_version_count[vp_pool[f].version] # 0

MarkedClean(page) == [page EXCEPT !.dirty = FALSE]

\* The page has no other version in the pool.
ScanOnlyVersion(w) ==
  LET f == Hand  page == vp_pool[Hand].page
  IN  /\ Scanning(w)
      /\ Candidate(f) /\ OnlyVersion(f)
      /\ vp_map' = IF page # NoPage THEN [vp_map EXCEPT ![page] = NoFrame] ELSE vp_map
      /\ IF vp_pool[f].dirty
           THEN /\ disk' = [disk EXCEPT ![page] = vp_pool[f].bytes]
                /\ vp_pool' = [vp_pool EXCEPT ![f] = MarkedClean(@)]
           ELSE UNCHANGED <<disk, vp_pool>>
      /\ Found(w, f)
      /\ UNCHANGED <<vp_mutex, page_count, scopeVars, held, closed, histVars>>

ScanInUse(w) ==
  /\ Scanning(w)
  /\ Candidate(Hand) /\ ~OnlyVersion(Hand) /\ InUse(Hand)
  /\ UNCHANGED <<vp_pool, vp_map, vp_mutex, fileVars, scopeVars, pc, req, held,
                 closed, histVars>>

\* One of several versions, that no scope ran at when the count was read.
\* running_version_count_mutex is released before the frame leaves the chain.
ScanNotInUse(w) ==
  /\ Scanning(w)
  /\ Candidate(Hand) /\ ~OnlyVersion(Hand) /\ ~InUse(Hand)
  /\ pc' = [pc EXCEPT ![w] = "evict"]
  /\ UNCHANGED <<vp_pool, vp_map, vp_mutex, fileVars, scopeVars, req, held, closed,
                 histVars>>

MutUnlink(f) ==
  IF vp_pool[f].prev = NoFrame THEN vp_pool
  ELSE [vp_pool EXCEPT ![vp_pool[f].prev].next = vp_pool[f].next]
Unlink(f) ==
  LET prev == vp_pool[f].prev  next == vp_pool[f].next
      cut == IF prev # NoFrame THEN [vp_pool EXCEPT ![prev].next = next] ELSE vp_pool
  IN  IF next # NoFrame THEN [cut EXCEPT ![next].prev = prev] ELSE cut

NewestDirty(f) == vp_pool[f].next = NoFrame /\ vp_pool[f].dirty

EvictVersion(w) ==
  LET f == vp_clock  page == vp_pool[f].page
  IN  /\ pc[w] = "evict"
      /\ vp_map' = IF vp_pool[f].prev = NoFrame /\ page # NoPage
                     THEN [vp_map EXCEPT ![page] = vp_pool[f].next] ELSE vp_map
      /\ IF NewestDirty(f)
           THEN /\ disk' = [disk EXCEPT ![page] = vp_pool[f].bytes]
                /\ vp_pool' = [Unlink(f) EXCEPT ![f] = MarkedClean(@)]
                /\ req' = [req EXCEPT ![w].victim = f, ![w].clean = vp_pool[f].prev]
                /\ pc' = [pc EXCEPT ![w] = "clean"]
           ELSE /\ vp_pool' = Unlink(f)
                /\ Found(w, f)
                /\ UNCHANGED disk
      /\ UNCHANGED <<vp_clock, vp_mutex, page_count, scopeVars, held, closed, histVars>>

\* One turn of the loop that marks the previous versions as no longer dirty.
NextToClean(w) == vp_pool[req[w].victim].prev

CleanPrevious(w) ==
  /\ pc[w] = "clean"
  /\ vp_pool' = [vp_pool EXCEPT ![req[w].clean] = MarkedClean(@)]
  /\ IF NextToClean(w) # NoFrame
       THEN req' = [req EXCEPT ![w].clean = NextToClean(w)] /\ UNCHANGED pc
       ELSE Found(w, req[w].victim)
  /\ UNCHANGED <<vp_map, vp_clock, vp_mutex, fileVars, scopeVars, held, closed, histVars>>

-----------------------------------------------------------------------------
(* A frame was found: give it the page and return it pinned.               *)

\* VPage::reassign; the dirty flag is left as it was.
MutReassigned(f, page, version, prev, bytes) ==
  [page |-> page, prev |-> prev, next |-> vp_pool[f].next, version |-> version,
   pins |-> 0, chance |-> TRUE, dirty |-> vp_pool[f].dirty, bytes |-> bytes]
Reassigned(f, page, version, prev, bytes) ==
  [page |-> page, prev |-> prev, next |-> NoFrame, version |-> version,
   pins |-> 1, chance |-> TRUE, dirty |-> vp_pool[f].dirty, bytes |-> bytes]

Dirtied(page) == [page EXCEPT !.dirty = TRUE]

\* VPage::reassign_page_id: the frame is not pinned.
ReassignedId(page, p, version, next, bytes) ==
  [page EXCEPT !.page = p, !.version = version, !.prev = NoFrame, !.next = next,
               !.bytes = bytes]

Filling(w, op) == pc[w] = "fill" /\ req[w].op = op

FillRead(w) ==
  LET f == req[w].victim  p == req[w].page
  IN  /\ Filling(w, "read")
      /\ vp_pool' = [Unpinned(w, p) EXCEPT
                       ![f] = Reassigned(f, p, Start(w), NoFrame, disk[p])]
      /\ vp_map' = [vp_map EXCEPT ![p] = f]
      /\ Deliver(w, f, p)
      /\ UNCHANGED <<vp_clock, fileVars, scopeVars, closed, histVars>>

\* get_page_editable of a page in the pool: a copy of its newest version.
FillEdit(w) ==
  LET f == req[w].victim  p == req[w].page  base == req[w].cur
  IN  /\ Filling(w, "edit") /\ base # NoFrame
      /\ vp_pool' = [Unpinned(w, p) EXCEPT
                       ![base].next = f,
                       ![f] = Dirtied(Reassigned(f, p, Result(w), base,
                                                 vp_pool[base].bytes))]
      /\ Deliver(w, f, p)
      /\ UNCHANGED <<vp_map, vp_clock, fileVars, scopeVars, closed, histVars>>

\* get_page_editable of a page that is not in the pool: the page on disk
\* (reassign_page_id, not pinned) and its copy.
FillEditMissed(w) ==
  LET f == req[w].victim  p == req[w].page  old == req[w].old
  IN  /\ Filling(w, "edit") /\ old # NoFrame
      /\ vp_pool' = [Unpinned(w, p) EXCEPT
                       ![old] = ReassignedId(@, p, Start(w), f, disk[p]),
                       ![f] = Dirtied(Reassigned(f, p, Result(w), old, disk[p]))]
      /\ vp_map' = [vp_map EXCEPT ![p] = old]
      /\ Deliver(w, f, p)
      /\ UNCHANGED <<vp_clock, fileVars, scopeVars, closed, histVars>>

\* FileManager::append_page writes a page of zeros at the end of the file.
FillAppend(w) ==
  LET f == req[w].victim  p == page_count + 1
  IN  /\ Filling(w, "append")
      /\ page_count' = p
      /\ disk' = [disk EXCEPT ![p] = 0]
      /\ vp_pool' = [Unpinned(w, p) EXCEPT
                       ![f] = Dirtied(Reassigned(f, p, Result(w), NoFrame, 0))]
      /\ vp_map' = [vp_map EXCEPT ![p] = f]
      /\ created' = [created EXCEPT ![p] = Result(w)]
      /\ Deliver(w, f, p)
      /\ UNCHANGED <<vp_clock, scopeVars, closed, written>>

-----------------------------------------------------------------------------
(* What the holder of a page does with it.                                 *)

\* An update writes a page once need_edit_version(page) is false.
WritePage(w) ==
  /\ pc[w] = "running" /\ IsUpdate(w)
  /\ \E h \in held[w] :
       /\ vp_pool[h[1]].version = Result(w)
       /\ vp_pool' = [vp_pool EXCEPT ![h[1]].bytes = Result(w)]
       /\ written' = [written EXCEPT ![h[2]] = @ \cup {Result(w)}]
  /\ UNCHANGED <<vp_map, vp_clock, vp_mutex, fileVars, scopeVars, pc, req, held,
                 closed, created>>

Unpin(w) ==
  /\ pc[w] = "running"
  /\ \E h \in held[w] :
       /\ vp_pool' = [vp_pool EXCEPT ![h[1]].pins = @ - 1]
       /\ held' = [held EXCEPT ![w] = @ \ {h}]
  /\ UNCHANGED <<vp_map, vp_clock, vp_mutex, fileVars, scopeVars, pc, req, closed,
                 histVars>>

\* ~BufferManager: flush() when no query is left.
MutFlushed(p) == {f \in Frames : vp_pool[f].page = p /\ vp_pool[f].dirty}
Flushed(p) ==
  {f \in Frames : /\ vp_pool[f].page = p
                  /\ vp_pool[f].dirty /\ vp_pool[f].next = NoFrame}

Close ==
  /\ ~closed /\ \A w \in Workers : pc[w] = "idle"
  /\ closed' = TRUE
  /\ disk' = [p \in PageNos |->
                IF Flushed(p) = {} THEN disk[p]
                ELSE vp_pool[CHOOSE f \in Flushed(p) : \A g \in Flushed(p) : g <= f].bytes]
  /\ vp_pool' = [f \in Frames |->
                   IF vp_pool[f].next = NoFrame THEN MarkedClean(vp_pool[f])
                   ELSE vp_pool[f]]
  /\ UNCHANGED <<vp_map, vp_clock, vp_mutex, page_count, scopeVars, pc, req, held,
                 histVars>>

-----------------------------------------------------------------------------
\* The steps of the worker inside vp_mutex.
Locked(w) ==
  \/ WalkNext(w) \/ WalkEnd(w)
  \/ ScanPinned(w) \/ ScanSecondChance(w) \/ ScanOnlyVersion(w) \/ ScanInUse(w)
  \/ ScanNotInUse(w) \/ EvictVersion(w) \/ CleanPrevious(w)
  \/ FillRead(w) \/ FillEdit(w) \/ FillEditMissed(w) \/ FillAppend(w)

Next ==
  \/ \E w \in Workers :
       \/ BeginReadonly(w) \/ BeginEditable(w) \/ Terminate(w)
       \/ GetPageReadonly(w) \/ GetPageEditable(w) \/ AppendVPage(w)
       \/ Locked(w)
       \/ WritePage(w) \/ Unpin(w)
  \/ Close

Spec == Init /\ [][Next]_vars

\* The scheduler keeps running a thread that holds the mutex.
Fairness == \A w \in Workers : WF_vars(Locked(w))
LiveSpec == Spec /\ Fairness

-----------------------------------------------------------------------------
(* Properties.                                                             *)

Pinners(f) == {x \in Workers \X PageNos : <<f, x[2]>> \in held[x[1]]}

\* A frame is pinned exactly as often as workers use it (pin, unpin,
\* reassign, upgrade_to_editable).
PinsAreCounted ==
  \A f \in Frames : vp_pool[f].pins = Cardinality(Pinners(f))

\* The frame that a worker uses holds the page it asked for: the lookup ends
\* at a version of that page, and the clock does not take a pinned frame.
PinnedFramesKeepTheirPage ==
  \A w \in Workers : \A h \in held[w] : vp_pool[h[1]].page = h[2]

\* No step gives a frame to another page while somebody has it pinned
\* (get_vpage_available, reassign, reassign_page_id).
PinnedFramesAreNotReassigned ==
  [][\A f \in Frames : vp_pool[f].pins # 0 => vp_pool'[f].page = vp_pool[f].page]_vars

ScopesAt(v) == {w \in Workers : /\ scope[w].kind # "none"
                                /\ \/ Start(w) = v
                                   \/ IsUpdate(w) /\ Start(w) + 1 = v}

\* running_version_count counts the open scopes that read or write each
\* version, and only one update is open, at the newest stable version
\* (init_version_readonly, init_version_editable, terminate, update_mutex).
RunningVersionsAreCounted ==
  /\ \A v \in Versions : running_version_count[v] = Cardinality(ScopesAt(v))
  /\ \A w \in Workers :
       IsUpdate(w) => update_mutex = w /\ Start(w) = last_stable_version

Linked(f) == vp_pool[f].prev # NoFrame \/ \E p \in PageNos : vp_map[p] = f
Reserved(f) == \E w \in Workers : f \in {req[w].victim, req[w].old}

\* The versions of a page in the pool form one list that vp_map enters at
\* the oldest: prev and next mirror each other, every frame of the list has
\* the same page, and versions grow along it.
ChainsAreOrdered ==
  /\ \A p \in PageNos : vp_map[p] # NoFrame =>
       vp_pool[vp_map[p]].page = p /\ vp_pool[vp_map[p]].prev = NoFrame
  /\ \A f \in Frames : Linked(f) /\ ~Reserved(f) /\ vp_pool[f].next # NoFrame =>
       LET n == vp_pool[f].next
       IN  /\ vp_pool[n].prev = f
           /\ vp_pool[n].page = vp_pool[f].page
           /\ vp_pool[f].version < vp_pool[n].version

Latest(S) == CHOOSE v \in S : \A u \in S : u <= v

\* What a scope must find in page p: the last write at or below its version.
Visible(w, p) == Latest({v \in written[p] : v <= Result(w)})

\* Snapshot isolation: the bytes under every page a worker has pinned are
\* those of its version, whatever updates do meanwhile (buffer_manager.h:11).
SnapshotReads ==
  \A w \in Workers : \A h \in held[w] : vp_pool[h[1]].bytes = Visible(w, h[2])

\* After the destructor every write of every update is in the file.
ClosedFileIsComplete ==
  closed => \A p \in PageNos : disk[p] = Latest(written[p])

\* The loop of get_vpage_available that marks previous versions as clean reads the
\* same prev_version in every turn: with one in the pool it does not end.
Loops(w) == pc[w] = "clean" /\ NextToClean(w) # NoFrame

\* No frame can be taken while workers and scopes stay as they are.
Exhausted == \A f \in Frames : Pinned(f) \/ (~OnlyVersion(f) /\ InUse(f))

\* A request gives vp_mutex back, for which everybody waits: whenever some frame can
\* be taken the clock comes to it, apart from the loop above.
\* (get_vpage_available, while (true))
RequestsReturn ==
  \A w \in Workers : vp_mutex = w ~> vp_mutex # w \/ Exhausted \/ Loops(w)

-----------------------------------------------------------------------------
(* The abstract store these pages implement.                               *)

View(w) == {<<h[2], vp_pool[h[1]].bytes>> : h \in held[w]}

Store == INSTANCE SnapshotStore
           WITH Pages   <- PageNos,
                stable  <- last_stable_version,
                open    <- scope,
                history <- written,
                view    <- [w \in Workers |-> View(w)]

\* Every behaviour of the pages is one of the snapshot store: no query ever
\* sees bytes of an update that ended after it began, or of one still open.
ImplementsSnapshotStore == Store!Spec
=============================================================================
