------------------------ MODULE VersionedPages_proofs ------------------------
(***************************************************************************)
(* Proofs about VersionedPages, for any number of workers, frames, pages   *)
(* and versions: types, pins and running version counts; then the chains   *)
(* of versions and the file; then what scopes read: the snapshot of their  *)
(* version as long as no needed version is evicted, and, whatever is       *)
(* evicted, the last writes where the scope is that of an update.          *)
(*                                                                         *)
(* The first three depend on each other.  A pin count stays a natural      *)
(* number because every unpin gives back a pin that the worker has; a      *)
(* running count stays a natural number because every scope that closes    *)
(* was counted; and a frame handed out by the clock is pinned by nobody    *)
(* because its count was zero when the clock found it, and only the holder *)
(* of vp_mutex raises a count.  IInv puts them together.                   *)
(***************************************************************************)
EXTENDS VersionedPages, FiniteSetTheorems, WellFoundedInduction, TLAPS

LockedPcs == {"walk", "scan", "evict", "clean", "fill"}

\* vp_mutex is held by the one worker that is inside a get_page_*.
MutexInv == \A w \in Workers : vp_mutex = w <=> pc[w] \in LockedPcs

\* What the locals of a get_page_* satisfy at each of its steps.
RequestInv ==
  \A w \in Workers :
    /\ pc[w] \in LockedPcs =>
         /\ req[w].op # "none"
         /\ req[w].op # "append" => req[w].page \in PageNos
         /\ req[w].op = "append" => page_count < MaxPages
         /\ req[w].old # NoFrame => vp_pool[req[w].old].pins = 0
    /\ pc[w] = "walk" => req[w].cur \in Frames /\ req[w].op # "append"
    /\ pc[w] = "evict" => vp_pool[vp_clock].pins = 0
    /\ pc[w] \in {"clean", "fill"} =>
         req[w].victim \in Frames /\ vp_pool[req[w].victim].pins = 0

\* Which workers have a scope, and what the scope of the update is.
ScopeInv ==
  \A w \in Workers :
    /\ pc[w] = "idle" <=> scope[w].kind = "none"
    /\ IsUpdate(w) => /\ update_mutex = w
                      /\ Start(w) = last_stable_version
                      /\ Start(w) < MaxVersion

IInv ==
  /\ TypeOK
  /\ PinsAreCounted
  /\ RunningVersionsAreCounted
  /\ MutexInv
  /\ RequestInv
  /\ ScopeInv

-----------------------------------------------------------------------------
(* Counting.                                                               *)

LEMMA FramesAndPages ==
  /\ NFrames \in Nat \ {0} /\ MaxPages \in Nat /\ MaxVersion \in Nat
  /\ NoFrame \notin Frames /\ NoPage \notin PageNos
  /\ IsFiniteSet(Workers) /\ IsFiniteSet(Workers \X PageNos)
<1>1. NFrames \in Nat \ {0} /\ MaxPages \in Nat /\ MaxVersion \in Nat
  BY ConstantsAssumption
<1>2. NoFrame \notin Frames /\ NoPage \notin PageNos
  BY <1>1 DEF Frames, PageNos, NoFrame, NoPage
<1>3. IsFiniteSet(PageNos)
  BY <1>1, FS_Interval DEF PageNos
<1>4. IsFiniteSet(Workers)
  BY ConstantsAssumption
<1>5. IsFiniteSet(Workers \X PageNos)
  BY <1>3, <1>4, FS_Product
<1> QED BY <1>1, <1>2, <1>4, <1>5

\* The pinners of a frame are a finite set, empty exactly when the count is 0.
LEMMA PinnersFinite ==
  ASSUME NEW f
  PROVE  /\ IsFiniteSet(Pinners(f))
         /\ Cardinality(Pinners(f)) \in Nat
         /\ Cardinality(Pinners(f)) = 0 <=> Pinners(f) = {}
<1>1. Pinners(f) \subseteq Workers \X PageNos
  BY DEF Pinners
<1>2. IsFiniteSet(Pinners(f))
  BY <1>1, FramesAndPages, FS_Subset
<1> QED BY <1>2, FS_CardinalityType, FS_EmptySet

LEMMA ScopesFinite ==
  ASSUME NEW v
  PROVE  /\ IsFiniteSet(ScopesAt(v)) /\ Cardinality(ScopesAt(v)) \in Nat
<1>1. ScopesAt(v) \subseteq Workers
  BY DEF ScopesAt
<1>2. IsFiniteSet(ScopesAt(v))
  BY <1>1, FramesAndPages, FS_Subset
<1> QED BY <1>2, FS_CardinalityType

\* An unpinned frame is in nobody's hands.
LEMMA UnpinnedNotHeld ==
  ASSUME TypeOK, PinsAreCounted, NEW f \in Frames, vp_pool[f].pins = 0,
         NEW w \in Workers, NEW p \in PageNos
  PROVE  <<f, p>> \notin held[w]
<1>1. Pinners(f) = {}
  BY PinnersFinite DEF PinsAreCounted
<1>2. <<w, p>> \in Pinners(f) <=> <<f, p>> \in held[w]
  BY DEF Pinners
<1> QED BY <1>1, <1>2

LEMMA HeldIsPinned ==
  ASSUME TypeOK, PinsAreCounted, NEW f \in Frames, NEW w \in Workers,
         NEW p \in PageNos, <<f, p>> \in held[w]
  PROVE  vp_pool[f].pins \in Nat \ {0}
BY UnpinnedNotHeld DEF TypeOK, VPage

-----------------------------------------------------------------------------
(* What a step leaves alone.                                               *)

LEMMA SamePins ==
  ASSUME PinsAreCounted, UNCHANGED held,
         \A f \in Frames : vp_pool'[f].pins = vp_pool[f].pins
  PROVE  PinsAreCounted'
BY DEF PinsAreCounted, Pinners

LEMMA SameScopes ==
  ASSUME RunningVersionsAreCounted, UNCHANGED scopeVars
  PROVE  RunningVersionsAreCounted'
BY DEF RunningVersionsAreCounted, ScopesAt, Start, IsUpdate, scopeVars

\* The pin of the frame that a request returns, and the one given back.
LEMMA DeliverPins ==
  ASSUME TypeOK, PinsAreCounted,
         NEW w \in Workers, NEW p \in PageNos, NEW f \in Frames,
         Deliver(w, f, p),
         \A g \in Frames \ {f} : vp_pool'[g].pins = Unpinned(w, p)[g].pins,
         vp_pool'[f].pins = Unpinned(w, p)[f].pins + 1
  PROVE  PinsAreCounted'
<1> SUFFICES ASSUME NEW g \in Frames
             PROVE  vp_pool'[g].pins = Cardinality(Pinners(g)')
  BY DEF PinsAreCounted
<1> DEFINE Rest == Pinners(g) \ {<<w, p>>}
<1>1. /\ IsFiniteSet(Rest)
      /\ Cardinality(Rest) = IF <<w, p>> \in Pinners(g) THEN vp_pool[g].pins - 1
                                                        ELSE vp_pool[g].pins
  BY PinnersFinite, FS_RemoveElement DEF PinsAreCounted
<1>2. <<w, p>> \in Pinners(g) <=> <<g, p>> \in held[w]
  BY DEF Pinners
<1>3. Unpinned(w, p)[g].pins = Cardinality(Rest)
  BY <1>1, <1>2 DEF Unpinned, TypeOK, VPage
<1>4. /\ IsFiniteSet(Rest \cup {<<w, p>>})
      /\ Cardinality(Rest \cup {<<w, p>>}) = Cardinality(Rest) + 1
  BY <1>1, FS_AddElement
<1>5. held'[w] = {h \in held[w] : h[2] # p} \cup {<<f, p>>}
      /\ \A u \in Workers \ {w} : held'[u] = held[u]
  BY DEF Deliver, TypeOK
<1>6. Pinners(g)' = IF g = f THEN Rest \cup {<<w, p>>} ELSE Rest
  BY <1>5 DEF Pinners
<1> QED BY <1>3, <1>4, <1>6

-----------------------------------------------------------------------------
(* The inductive step, one action at a time.                               *)

LEMMA InitIInv == Init => IInv
<1> SUFFICES ASSUME Init PROVE IInv
  OBVIOUS
<1>0. NFrames \in Nat \ {0} /\ MaxPages \in Nat \ {0} /\ MaxVersion \in Nat
  BY ConstantsAssumption
<1>1. TypeOK
  <2>1. vp_pool \in [Frames -> VPage]
    BY <1>0 DEF Init, VPage, Versions
  <2>2. req \in [Workers -> Request]
    BY DEF Init, Request, NoRequest
  <2>3. vp_clock \in Frames /\ page_count \in 1 .. MaxPages
    BY <1>0 DEF Init, Frames
  <2>4. 0 \in Versions
    BY <1>0 DEF Versions
  <2>5. scope \in [Workers -> [kind : {"none", "read", "edit"}, start : Versions]]
    BY <2>4 DEF Init
  <2> QED BY <2>1, <2>2, <2>3, <2>4, <2>5 DEF Init, TypeOK
<1>2. PinsAreCounted
  <2>1. \A f \in Frames : Pinners(f) = {}
    BY DEF Init, Pinners
  <2> QED BY <2>1, FS_EmptySet DEF Init, PinsAreCounted
<1>3. RunningVersionsAreCounted
  <2>1. \A v \in Versions : ScopesAt(v) = {}
    BY DEF Init, ScopesAt, IsUpdate, Start
  <2> QED BY <2>1, FS_EmptySet DEF Init, RunningVersionsAreCounted, IsUpdate
<1>4. MutexInv /\ RequestInv /\ ScopeInv
  BY NoWorkerAssumption DEF Init, MutexInv, RequestInv, ScopeInv, LockedPcs, IsUpdate
<1> QED BY <1>1, <1>2, <1>3, <1>4 DEF IInv

\* A scope that opens is counted at each of its versions.
LEMMA OpenScope ==
  ASSUME IInv, NEW w \in Workers, scope[w].kind = "none",
         NEW kind \in {"read", "edit"},
         kind = "edit" => update_mutex = NoWorker,
         scope' = [scope EXCEPT ![w] = [kind |-> kind, start |-> last_stable_version]],
         kind = "edit" => update_mutex' = w,
         kind = "read" => UNCHANGED update_mutex,
         UNCHANGED last_stable_version,
         running_version_count' =
           [v \in Versions |-> IF v \in ScopeVersions(kind, last_stable_version)
                               THEN running_version_count[v] + 1
                               ELSE running_version_count[v]]
  PROVE  RunningVersionsAreCounted'
<1> USE DEF IInv
<1>1. \A v \in Versions :
        ScopesAt(v)' = IF v \in ScopeVersions(kind, last_stable_version)
                       THEN ScopesAt(v) \cup {w} ELSE ScopesAt(v)
  BY DEF ScopesAt, Start, IsUpdate, ScopeVersions, TypeOK
<1>2. \A v \in Versions : w \notin ScopesAt(v)
  BY DEF ScopesAt
<1>3. \A v \in Versions : Cardinality(ScopesAt(v) \cup {w}) = Cardinality(ScopesAt(v)) + 1
  BY <1>2, ScopesFinite, FS_AddElement
<1>4. \A v \in Versions : running_version_count'[v] = Cardinality(ScopesAt(v)')
  BY <1>1, <1>3 DEF RunningVersionsAreCounted
<1>5. \A u \in Workers : scope'[u].kind = "edit" =>
         update_mutex' = u /\ scope'[u].start = last_stable_version'
  BY NoWorkerAssumption DEF RunningVersionsAreCounted, IsUpdate, Start, TypeOK
<1> QED BY <1>4, <1>5 DEF RunningVersionsAreCounted, IsUpdate, Start

LEMMA BeginReadonlyStep ==
  ASSUME IInv, NEW w \in Workers, BeginReadonly(w)
  PROVE  IInv'
<1> USE DEF IInv, BeginReadonly
<1>1. TypeOK'
  BY DEF TypeOK, ScopeVersions, poolVars, fileVars, histVars
<1>2. PinsAreCounted'
  BY SamePins DEF poolVars
<1>3. RunningVersionsAreCounted'
  BY OpenScope DEF ScopeInv
<1>4. MutexInv' /\ RequestInv' /\ ScopeInv'
  BY DEF MutexInv, RequestInv, ScopeInv, LockedPcs, IsUpdate, Start, TypeOK, poolVars,
         fileVars
<1> QED BY <1>1, <1>2, <1>3, <1>4

LEMMA BeginEditableStep ==
  ASSUME IInv, NEW w \in Workers, BeginEditable(w)
  PROVE  IInv'
<1> USE DEF IInv, BeginEditable
<1>1. TypeOK'
  BY DEF TypeOK, ScopeVersions, poolVars, fileVars, histVars
<1>2. PinsAreCounted'
  BY SamePins DEF poolVars
<1>3. RunningVersionsAreCounted'
  BY OpenScope DEF ScopeInv
<1>4. MutexInv' /\ RequestInv' /\ ScopeInv'
  BY NoWorkerAssumption DEF MutexInv, RequestInv, ScopeInv, LockedPcs, IsUpdate, Start,
     TypeOK, poolVars, fileVars
<1> QED BY <1>1, <1>2, <1>3, <1>4

LEMMA TerminateStep ==
  ASSUME IInv, NEW w \in Workers, Terminate(w)
  PROVE  IInv'
<1> USE DEF IInv, Terminate
<1> DEFINE Mine == ScopeVersions(scope[w].kind, Start(w))
<1>0. /\ scope[w].kind # "none"
      /\ MaxVersion \in Nat
  BY ConstantsAssumption DEF ScopeInv
<1>1. \A v \in Versions : ScopesAt(v)' = IF v \in Mine THEN ScopesAt(v) \ {w} ELSE ScopesAt(v)
  BY <1>0 DEF ScopesAt, Start, IsUpdate, ScopeVersions, TypeOK
<1>2. \A v \in Versions : v \in Mine => w \in ScopesAt(v)
  BY <1>0 DEF ScopesAt, Start, IsUpdate, ScopeVersions
<1>3. \A v \in Versions :
        /\ v \in Mine => running_version_count[v] - 1 = Cardinality(ScopesAt(v) \ {w})
        /\ Cardinality(ScopesAt(v) \ {w}) \in Nat
  BY <1>2, ScopesFinite, FS_RemoveElement, FS_CardinalityType DEF RunningVersionsAreCounted
<1>4. \A v \in Versions : running_version_count'[v] = Cardinality(ScopesAt(v)')
  BY <1>1, <1>3 DEF RunningVersionsAreCounted
<1>5. \A u \in Workers : scope'[u].kind = "edit" =>
         update_mutex' = u /\ scope'[u].start = last_stable_version'
  BY DEF RunningVersionsAreCounted, IsUpdate, Start, TypeOK
<1>6. RunningVersionsAreCounted'
  BY <1>4, <1>5 DEF RunningVersionsAreCounted, IsUpdate, Start
<1>7. TypeOK'
  <2>1. running_version_count' \in [Versions -> Nat]
    <3>1. \A v \in Versions :
            (IF v \in Mine THEN running_version_count[v] - 1
                           ELSE running_version_count[v]) \in Nat
      BY <1>3 DEF TypeOK
    <3> HIDE DEF Mine
    <3> QED BY <3>1 DEF Mine
  <2>2. last_stable_version' \in Versions
    BY <1>0 DEF TypeOK, ScopeInv, Versions
  <2>3. scope' \in [Workers -> [kind : {"none", "read", "edit"}, start : Versions]]
    <3>1. [kind |-> "none", start |-> 0] \in
            [kind : {"none", "read", "edit"}, start : Versions]
      BY <1>0 DEF Versions
    <3> QED BY <3>1 DEF TypeOK
  <2> QED BY <2>1, <2>2, <2>3 DEF TypeOK, poolVars, fileVars, histVars
<1>8. PinsAreCounted'
  BY SamePins DEF poolVars
<1>9. MutexInv' /\ RequestInv' /\ ScopeInv'
  BY NoWorkerAssumption DEF MutexInv, RequestInv, ScopeInv, LockedPcs, IsUpdate, Start,
     TypeOK, poolVars, fileVars
<1> QED BY <1>6, <1>7, <1>8, <1>9

LEMMA EnterStep ==
  ASSUME IInv, NEW w \in Workers,
         NEW op \in {"read", "edit", "append"}, NEW p \in PageNos \cup {NoPage},
         NEW where \in {"walk", "scan"}, NEW cur \in Frames \cup {NoFrame},
         op # "append" => p \in PageNos,
         op = "append" => page_count < MaxPages,
         where = "walk" => cur \in Frames /\ op # "append",
         Enter(w, op, p, where, cur)
  PROVE  IInv'
<1> USE DEF IInv
<1>0. /\ vp_mutex = NoWorker /\ vp_mutex' = w
      /\ pc' = [pc EXCEPT ![w] = where]
      /\ UNCHANGED <<poolVars, fileVars, scopeVars, held, closed, histVars>>
  BY DEF Enter
<1>1. /\ req' = [req EXCEPT ![w] = [NoRequest EXCEPT !.op = op, !.page = p, !.cur = cur]]
      /\ req'[w] = [NoRequest EXCEPT !.op = op, !.page = p, !.cur = cur]
      /\ \A u \in Workers \ {w} : req'[u] = req[u]
  BY DEF TypeOK, Enter
<1>2. TypeOK'
  <2>1. [NoRequest EXCEPT !.op = op, !.page = p, !.cur = cur] \in Request
    BY DEF Request, NoRequest
  <2>2. req' \in [Workers -> Request]
    BY <2>1, <1>1 DEF TypeOK
  <2> QED BY <1>0, <2>2 DEF TypeOK, poolVars, fileVars, scopeVars, histVars
<1>3. PinsAreCounted'
  BY <1>0, SamePins DEF poolVars
<1>4. RunningVersionsAreCounted'
  BY <1>0, SameScopes
<1>5. MutexInv' /\ ScopeInv'
  BY <1>0, NoWorkerAssumption DEF MutexInv, ScopeInv, LockedPcs, IsUpdate, Start, TypeOK,
     scopeVars, Enter
<1>6. RequestInv'
  BY <1>0, <1>1, FramesAndPages DEF RequestInv, MutexInv, LockedPcs, TypeOK, NoRequest,
     poolVars, fileVars
<1> QED BY <1>2, <1>3, <1>4, <1>5, <1>6

LEMMA LookupStep ==
  ASSUME IInv, NEW w \in Workers, NEW op \in {"read", "edit"},
         NEW p \in PageNos, Lookup(w, op, p)
  PROVE  IInv'
<1>1. vp_map[p] \in Frames \cup {NoFrame}
  BY DEF IInv, TypeOK
<1>2. CASE vp_map[p] = NoFrame
  BY <1>1, <1>2, EnterStep DEF Lookup
<1>3. CASE vp_map[p] # NoFrame
  BY <1>1, <1>3, EnterStep DEF Lookup
<1> QED BY <1>2, <1>3

LEMMA RequestSteps ==
  ASSUME IInv, NEW w \in Workers,
         GetPageReadonly(w) \/ GetPageEditable(w) \/ AppendVPage(w)
  PROVE  IInv'
<1>1. 1 .. page_count \subseteq PageNos
  BY ConstantsAssumption DEF IInv, TypeOK, PageNos
<1>2. CASE GetPageReadonly(w)
  BY <1>1, <1>2, LookupStep DEF GetPageReadonly
<1>3. CASE GetPageEditable(w)
  BY <1>1, <1>3, LookupStep DEF GetPageEditable
<1>4. CASE AppendVPage(w)
  BY <1>4, EnterStep DEF AppendVPage
<1> QED BY <1>2, <1>3, <1>4

LEMMA WalkNextStep ==
  ASSUME IInv, NEW w \in Workers, WalkNext(w)
  PROVE  IInv'
<1> USE DEF IInv, WalkNext
<1> DEFINE n == vp_pool[req[w].cur].next
<1>1. n \in Frames
  BY DEF Newer, RequestInv, TypeOK, VPage
<1>2. req'[w] = [req[w] EXCEPT !.cur = n] /\ \A u \in Workers \ {w} : req'[u] = req[u]
  BY DEF TypeOK
<1>3. TypeOK'
  <2>0. req[w] \in Request
    BY DEF TypeOK
  <2>1. req'[w] \in Request
    BY <2>0, <1>1, <1>2 DEF Request
  <2>2. req' \in [Workers -> Request]
    BY <2>1 DEF TypeOK
  <2> QED BY <2>2 DEF TypeOK, poolVars, fileVars, scopeVars, histVars
<1>4. PinsAreCounted' /\ RunningVersionsAreCounted'
  BY SamePins, SameScopes DEF poolVars
<1>5. MutexInv' /\ ScopeInv'
  BY DEF MutexInv, ScopeInv, IsUpdate, Start, scopeVars
<1>6. RequestInv'
  <2>1. req[w] \in Request
    BY DEF TypeOK
  <2>2. /\ req'[w].op = req[w].op /\ req'[w].page = req[w].page
        /\ req'[w].old = req[w].old /\ req'[w].victim = req[w].victim
        /\ req'[w].cur = n
    BY <2>1, <1>2 DEF Request
  <2> QED BY <1>1, <1>2, <2>2 DEF RequestInv, poolVars, fileVars
<1> QED BY <1>3, <1>4, <1>5, <1>6

\* Nobody else is inside a get_page_*.
LEMMA OnlyHolder ==
  ASSUME MutexInv, NEW w \in Workers, pc[w] \in LockedPcs
  PROVE  /\ vp_mutex = w
         /\ \A u \in Workers \ {w} : pc[u] \notin LockedPcs
BY DEF MutexInv

\* The request that returns frame f: everything but the pool and vp_map.
LEMMA DeliverStep ==
  ASSUME IInv, NEW w \in Workers, NEW p \in PageNos, NEW f \in Frames,
         pc[w] \in LockedPcs, Deliver(w, f, p),
         vp_pool' \in [Frames -> VPage], vp_map' \in [PageNos -> Frames \cup {NoFrame}],
         disk' \in [PageNos -> Versions], page_count' \in 1 .. MaxPages,
         created' \in [PageNos -> Versions],
         UNCHANGED <<vp_clock, scopeVars, closed, written>>,
         \A g \in Frames \ {f} : vp_pool'[g].pins = Unpinned(w, p)[g].pins,
         vp_pool'[f].pins = Unpinned(w, p)[f].pins + 1
  PROVE  IInv'
<1> USE DEF IInv
<1>1. /\ pc' = [pc EXCEPT ![w] = "running"]
      /\ vp_mutex' = NoWorker
      /\ req' = [req EXCEPT ![w] = NoRequest]
      /\ held' = [held EXCEPT ![w] = {h \in @ : h[2] # p} \cup {<<f, p>>}]
  BY DEF Deliver
<1>2. TypeOK'
  <2>1. NoRequest \in Request
    BY DEF NoRequest, Request
  <2>2. req' \in [Workers -> Request]
    BY <1>1, <2>1 DEF TypeOK
  <2>3. held' \in [Workers -> SUBSET (Frames \X PageNos)]
    BY <1>1 DEF TypeOK
  <2> QED BY <1>1, <2>2, <2>3 DEF TypeOK, scopeVars
<1>3. PinsAreCounted'
  BY DeliverPins
<1>4. RunningVersionsAreCounted'
  BY SameScopes
<1>5. \A u \in Workers : pc'[u] \notin LockedPcs
  BY <1>1, OnlyHolder DEF LockedPcs, TypeOK
<1>6. MutexInv' /\ RequestInv'
  BY <1>1, <1>5, NoWorkerAssumption DEF MutexInv, RequestInv, LockedPcs
<1>7. ScopeInv'
  BY <1>1 DEF ScopeInv, IsUpdate, Start, scopeVars, LockedPcs, TypeOK
<1> QED BY <1>2, <1>3, <1>4, <1>6, <1>7

LEMMA UnpinnedType ==
  ASSUME TypeOK, PinsAreCounted, NEW w \in Workers, NEW p \in PageNos
  PROVE  Unpinned(w, p) \in [Frames -> VPage]
<1> SUFFICES ASSUME NEW g \in Frames
             PROVE  [vp_pool[g] EXCEPT !.pins = IF <<g, p>> \in held[w] THEN @ - 1 ELSE @]
                      \in VPage
  BY DEF Unpinned
<1>1. vp_pool[g] \in VPage
  BY DEF TypeOK
<1>2. (IF <<g, p>> \in held[w] THEN vp_pool[g].pins - 1 ELSE vp_pool[g].pins) \in Nat
  BY <1>1, HeldIsPinned DEF VPage
<1> QED BY <1>1, <1>2 DEF VPage

LEMMA ResultType ==
  ASSUME TypeOK, ScopeInv, NEW w \in Workers
  PROVE  Start(w) \in Versions /\ Result(w) \in Versions
BY FramesAndPages DEF TypeOK, ScopeInv, Start, Result, IsUpdate, Versions

LEMMA PinFrame ==
  ASSUME NEW q \in [Frames -> VPage], NEW f \in Frames, NEW r,
         r = [q EXCEPT ![f] = Pin(@)]
  PROVE  /\ r \in [Frames -> VPage]
         /\ r[f].pins = q[f].pins + 1
         /\ r[f].page = q[f].page
         /\ \A g \in Frames \ {f} : r[g] = q[g]
<1>1. q[f] \in VPage /\ r[f] = Pin(q[f])
  OBVIOUS
<1>2. [q[f] EXCEPT !.pins = q[f].pins + 1] \in VPage
  BY <1>1 DEF VPage
<1>3. ASSUME NEW y \in VPage PROVE [y EXCEPT !.chance = TRUE] \in VPage
  BY DEF VPage
<1>4. Pin(q[f]) \in VPage
  BY <1>2, <1>3 DEF Pin
<1>5. Pin(q[f]).pins = q[f].pins + 1 /\ Pin(q[f]).page = q[f].page
  BY <1>1 DEF VPage, Pin
<1> QED BY <1>1, <1>4, <1>5

LEMMA WalkEndStep ==
  ASSUME IInv, NEW w \in Workers, WalkEnd(w)
  PROVE  IInv'
<1> USE DEF IInv
<1> DEFINE f == req[w].cur  p == req[w].page
           again == req[w].op = "edit" /\ vp_pool[f].version # Result(w)
<1>0. f \in Frames /\ pc[w] = "walk" /\ pc[w] \in LockedPcs
  BY DEF WalkEnd, RequestInv, LockedPcs
<1>1. CASE again
  <2>1. /\ pc' = [pc EXCEPT ![w] = "scan"]
        /\ UNCHANGED <<vp_pool, vp_mutex, req, held>>
        /\ UNCHANGED <<vp_map, vp_clock, fileVars, scopeVars, closed, histVars>>
    BY <1>1 DEF WalkEnd
  <2>2. TypeOK'
    BY <2>1 DEF TypeOK, fileVars, scopeVars, histVars
  <2>3. PinsAreCounted' /\ RunningVersionsAreCounted'
    BY <2>1, SamePins, SameScopes
  <2>4. MutexInv' /\ RequestInv' /\ ScopeInv'
    BY <2>1, <1>0 DEF MutexInv, RequestInv, ScopeInv, LockedPcs, IsUpdate, Start, TypeOK,
       scopeVars, fileVars
  <2> QED BY <2>2, <2>3, <2>4
<1>2. CASE ~again
  <2>1. /\ vp_pool' = [Unpinned(w, p) EXCEPT ![f] = Pin(@)]
        /\ Deliver(w, f, p)
        /\ UNCHANGED <<vp_map, vp_clock, fileVars, scopeVars, closed, histVars>>
    BY <1>2 DEF WalkEnd
  <2>2. p \in PageNos
    <3>1. req[w].op # "append"
      BY <1>0 DEF RequestInv
    <3> QED BY <1>0, <3>1 DEF RequestInv
  <2>3. Unpinned(w, p) \in [Frames -> VPage]
    BY <2>2, UnpinnedType
  <2>4. /\ vp_pool' \in [Frames -> VPage]
        /\ vp_pool'[f].pins = Unpinned(w, p)[f].pins + 1
        /\ \A g \in Frames \ {f} : vp_pool'[g] = Unpinned(w, p)[g]
    BY <1>0, <2>1, <2>3, PinFrame
  <2> HIDE DEF f, p
  <2> QED BY <1>0, <2>1, <2>2, <2>4, DeliverStep
          DEF TypeOK, fileVars, histVars
<1> QED BY <1>1, <1>2

\* A step of the holder of vp_mutex that stays inside get_vpage_available:
\* it may change the pool but no pin, and the request of this worker only.
LEMMA LockedStep ==
  ASSUME IInv, NEW w \in Workers, pc[w] \in LockedPcs, TypeOK',
         pc' = [pc EXCEPT ![w] = pc'[w]], pc'[w] \in LockedPcs \ {"walk"},
         UNCHANGED <<vp_mutex, page_count, scopeVars, held>>,
         \A f \in Frames : vp_pool'[f].pins = vp_pool[f].pins,
         \A u \in Workers \ {w} : req'[u] = req[u],
         req'[w].op = req[w].op /\ req'[w].page = req[w].page,
         req'[w].old # NoFrame => vp_pool'[req'[w].old].pins = 0,
         pc'[w] = "evict" => vp_pool'[vp_clock'].pins = 0,
         pc'[w] \in {"clean", "fill"} =>
           req'[w].victim \in Frames /\ vp_pool'[req'[w].victim].pins = 0
  PROVE  IInv'
<1> USE DEF IInv
<1>1. PinsAreCounted' /\ RunningVersionsAreCounted'
  BY SamePins, SameScopes
<1>2. MutexInv'
  BY DEF MutexInv, TypeOK
<1>3. RequestInv'
  <2>1. \A u \in Workers \ {w} : pc'[u] \notin LockedPcs
    BY OnlyHolder DEF TypeOK
  <2> QED BY <2>1 DEF RequestInv, LockedPcs
<1>4. ScopeInv'
  BY DEF ScopeInv, IsUpdate, Start, scopeVars, LockedPcs, TypeOK
<1> QED BY <1>1, <1>2, <1>3, <1>4

LEMMA HandType == vp_clock \in Frames => Hand \in Frames
BY FramesAndPages DEF Hand, Frames

\* get_vpage_available returns: either old_page or the victim is set.
LEMMA FoundFacts ==
  ASSUME TypeOK, NEW w \in Workers, NEW f \in Frames, Found(w, f)
  PROVE  /\ pc' = [pc EXCEPT ![w] = pc'[w]] /\ pc'[w] \in {"scan", "fill"}
         /\ req' \in [Workers -> Request]
         /\ \A u \in Workers \ {w} : req'[u] = req[u]
         /\ req'[w].op = req[w].op /\ req'[w].page = req[w].page
         /\ req'[w].old \in {f, req[w].old}
         /\ pc'[w] = "fill" => req'[w].victim = f
<1>0. req[w] \in Request
  BY DEF TypeOK
<1>1. CASE NeedsOldPage(w)
  <2>1. /\ req' = [req EXCEPT ![w].old = f, ![w].victim = NoFrame, ![w].clean = NoFrame]
        /\ pc' = [pc EXCEPT ![w] = "scan"]
    BY <1>1 DEF Found
  <2>2. req'[w] = [req[w] EXCEPT !.old = f, !.victim = NoFrame, !.clean = NoFrame]
        /\ \A u \in Workers \ {w} : req'[u] = req[u]
    BY <2>1 DEF TypeOK
  <2>3. req'[w] \in Request /\ req'[w].op = req[w].op /\ req'[w].page = req[w].page
        /\ req'[w].old = f
    BY <1>0, <2>2 DEF Request
  <2> QED BY <2>1, <2>2, <2>3 DEF TypeOK
<1>2. CASE ~NeedsOldPage(w)
  <2>1. /\ req' = [req EXCEPT ![w].victim = f, ![w].clean = NoFrame]
        /\ pc' = [pc EXCEPT ![w] = "fill"]
    BY <1>2 DEF Found
  <2>2. req'[w] = [req[w] EXCEPT !.victim = f, !.clean = NoFrame]
        /\ \A u \in Workers \ {w} : req'[u] = req[u]
    BY <2>1 DEF TypeOK
  <2>3. req'[w] \in Request /\ req'[w].op = req[w].op /\ req'[w].page = req[w].page
        /\ req'[w].old = req[w].old /\ req'[w].victim = f
    BY <1>0, <2>2 DEF Request
  <2> QED BY <2>1, <2>2, <2>3 DEF TypeOK
<1> QED BY <1>1, <1>2

\* The ticks of the clock that do not take the frame.
LEMMA ScanPassStep ==
  ASSUME IInv, NEW w \in Workers,
         ScanPinned(w) \/ ScanSecondChance(w) \/ ScanInUse(w) \/ ScanNotInUse(w)
  PROVE  IInv'
<1> USE DEF IInv
<1>1. /\ pc[w] = "scan" /\ vp_clock' = Hand /\ Hand \in Frames
      /\ UNCHANGED <<vp_map, vp_mutex, fileVars, scopeVars, req, held, closed, histVars>>
  BY HandType DEF ScanPinned, ScanSecondChance, ScanInUse, ScanNotInUse, Scanning, TypeOK
<1>2. pc' = [pc EXCEPT ![w] = pc'[w]] /\ pc'[w] \in {"scan", "evict"}
  BY <1>1 DEF ScanPinned, ScanSecondChance, ScanInUse, ScanNotInUse, TypeOK
<1>3. pc'[w] = "evict" => vp_pool'[Hand].pins = 0
  BY <1>1 DEF ScanPinned, ScanSecondChance, ScanInUse, ScanNotInUse, Candidate, Pinned, TypeOK
<1>4. /\ vp_pool' \in [Frames -> VPage]
      /\ \A f \in Frames : vp_pool'[f].pins = vp_pool[f].pins
  <2>1. CASE UNCHANGED vp_pool
    BY <2>1 DEF TypeOK
  <2>2. CASE vp_pool' = [vp_pool EXCEPT ![Hand].chance = FALSE]
    <3>1. vp_pool[Hand] \in VPage
      BY <1>1 DEF TypeOK
    <3>2. [vp_pool[Hand] EXCEPT !.chance = FALSE] \in VPage
          /\ [vp_pool[Hand] EXCEPT !.chance = FALSE].pins = vp_pool[Hand].pins
      BY <3>1 DEF VPage
    <3>3. vp_pool'[Hand] = [vp_pool[Hand] EXCEPT !.chance = FALSE]
          /\ \A f \in Frames \ {Hand} : vp_pool'[f] = vp_pool[f]
      BY <1>1, <2>2 DEF TypeOK
    <3> QED BY <1>1, <2>2, <3>2, <3>3 DEF TypeOK
  <2> QED BY <2>1, <2>2 DEF ScanPinned, ScanSecondChance, ScanInUse, ScanNotInUse
<1>5. TypeOK'
  BY <1>1, <1>2, <1>4 DEF TypeOK, fileVars, scopeVars, histVars
<1>6. req[w].old \in Frames \cup {NoFrame}
  BY DEF TypeOK, Request
<1> QED BY <1>1, <1>2, <1>3, <1>4, <1>5, <1>6, LockedStep
        DEF RequestInv, LockedPcs, fileVars

LEMMA CleanFrame ==
  ASSUME NEW q \in [Frames -> VPage], NEW c \in Frames, NEW r,
         r = [q EXCEPT ![c] = MarkedClean(@)]
  PROVE  /\ r \in [Frames -> VPage]
         /\ \A g \in Frames : r[g].pins = q[g].pins
<1>1. MarkedClean(q[c]) \in VPage /\ MarkedClean(q[c]).pins = q[c].pins
  BY DEF VPage, MarkedClean
<1> QED BY <1>1

LEMMA ScanOnlyVersionStep ==
  ASSUME IInv, NEW w \in Workers, ScanOnlyVersion(w)
  PROVE  IInv'
<1> USE DEF IInv
<1> DEFINE f == Hand  page == vp_pool[Hand].page
<1>1. /\ pc[w] = "scan" /\ vp_clock' = f /\ f \in Frames
      /\ vp_pool[f].pins = 0
      /\ Found(w, f)
      /\ UNCHANGED <<vp_mutex, page_count, scopeVars, held, closed, histVars>>
  BY HandType DEF ScanOnlyVersion, Scanning, Candidate, Pinned, TypeOK
<1>2. vp_map' \in [PageNos -> Frames \cup {NoFrame}]
  BY DEF ScanOnlyVersion, TypeOK
<1>3. vp_pool[f] \in VPage
  BY <1>1 DEF TypeOK
<1>4. /\ vp_pool' \in [Frames -> VPage]
      /\ \A g \in Frames : vp_pool'[g].pins = vp_pool[g].pins
      /\ disk' \in [PageNos -> Versions]
  <2>1. CASE vp_pool[f].dirty
    <3>1. /\ disk' = [disk EXCEPT ![page] = vp_pool[f].bytes]
          /\ vp_pool' = [vp_pool EXCEPT ![f] = MarkedClean(@)]
      BY <2>1 DEF ScanOnlyVersion
    <3> HIDE DEF f
    <3>2. vp_pool \in [Frames -> VPage] /\ disk' \in [PageNos -> Versions]
      BY <1>3, <3>1 DEF TypeOK, VPage
    <3>3. f \in Frames
      BY <1>1
    <3>4. /\ vp_pool' \in [Frames -> VPage]
          /\ \A g \in Frames : vp_pool'[g].pins = vp_pool[g].pins
      <4>1. vp_pool' = [vp_pool EXCEPT ![f] = MarkedClean(@)]
        BY <3>1
      <4>2. vp_pool \in [Frames -> VPage]
        BY <3>2
      <4>3. ASSUME NEW c \in Frames, vp_pool' = [vp_pool EXCEPT ![c] = MarkedClean(@)]
            PROVE  /\ vp_pool' \in [Frames -> VPage]
                   /\ \A g \in Frames : vp_pool'[g].pins = vp_pool[g].pins
        BY <4>2, <4>3, CleanFrame
      <4> HIDE DEF IInv, f
      <4> QED BY <4>1, <3>3, <4>3
    <3> QED BY <3>2, <3>4
  <2>2. CASE ~vp_pool[f].dirty
    BY <2>2 DEF ScanOnlyVersion, TypeOK
  <2> QED BY <2>1, <2>2
<1>5. TypeOK'
  BY <1>1, <1>2, <1>4, FoundFacts DEF TypeOK, scopeVars, histVars
<1>6. req[w].old \in Frames \cup {NoFrame}
  BY DEF TypeOK, Request
<1> HIDE DEF f, page
<1> QED BY <1>1, <1>4, <1>5, <1>6, LockedStep, FoundFacts DEF RequestInv, LockedPcs

\* Taking a frame out of its chain moves links only.
LEMMA UnlinkType ==
  ASSUME TypeOK, NEW f \in Frames
  PROVE  /\ Unlink(f) \in [Frames -> VPage]
         /\ \A g \in Frames : /\ Unlink(f)[g].pins = vp_pool[g].pins
                              /\ Unlink(f)[g].page = vp_pool[g].page
<1> DEFINE prev == vp_pool[f].prev  next == vp_pool[f].next
           cut == IF prev # NoFrame THEN [vp_pool EXCEPT ![prev].next = next] ELSE vp_pool
           out == IF next # NoFrame THEN [cut EXCEPT ![next].prev = prev] ELSE cut
<1>1. prev \in Frames \cup {NoFrame} /\ next \in Frames \cup {NoFrame}
  BY DEF TypeOK, VPage
<1> HIDE DEF prev, next
<1>2. /\ cut \in [Frames -> VPage]
      /\ \A g \in Frames : cut[g].pins = vp_pool[g].pins /\ cut[g].page = vp_pool[g].page
  <2>1. vp_pool \in [Frames -> VPage]
    BY DEF TypeOK
  <2>2. CASE prev = NoFrame
    BY <2>1, <2>2
  <2>3. CASE prev # NoFrame
    <3>1. prev \in Frames /\ cut = [vp_pool EXCEPT ![prev].next = next]
      BY <1>1, <2>3
    <3> HIDE DEF cut
    <3> QED BY <1>1, <2>1, <3>1 DEF VPage
  <2> QED BY <2>2, <2>3
<1> HIDE DEF cut
<1>3. /\ out \in [Frames -> VPage]
      /\ \A g \in Frames : out[g].pins = cut[g].pins /\ out[g].page = cut[g].page
  BY <1>1, <1>2 DEF VPage
<1>4. Unlink(f) = out
  BY DEF Unlink, cut, prev, next
<1> HIDE DEF out
<1> QED BY <1>2, <1>3, <1>4

LEMMA EvictVersionStep ==
  ASSUME IInv, NEW w \in Workers, EvictVersion(w)
  PROVE  IInv'
<1> USE DEF IInv
<1> DEFINE f == vp_clock  page == vp_pool[vp_clock].page
<1>1. /\ pc[w] = "evict" /\ f \in Frames /\ vp_pool[f].pins = 0 /\ vp_pool[f] \in VPage
      /\ UNCHANGED <<vp_clock, vp_mutex, page_count, scopeVars, held, closed, histVars>>
  BY DEF EvictVersion, RequestInv, TypeOK
<1>2. vp_map' \in [PageNos -> Frames \cup {NoFrame}]
  BY <1>1 DEF EvictVersion, TypeOK, VPage
<1>3. req[w] \in Request
  BY DEF TypeOK
<1>4. CASE NewestDirty(f)
  <2>1. /\ disk' = [disk EXCEPT ![page] = vp_pool[f].bytes]
        /\ vp_pool' = [Unlink(f) EXCEPT ![f] = MarkedClean(@)]
        /\ req' = [req EXCEPT ![w].victim = f, ![w].clean = vp_pool[f].prev]
        /\ pc' = [pc EXCEPT ![w] = "clean"]
    BY <1>4 DEF EvictVersion
  <2>2. /\ vp_pool' \in [Frames -> VPage]
        /\ \A g \in Frames : vp_pool'[g].pins = vp_pool[g].pins
    <3>1. f \in Frames /\ vp_pool' = [Unlink(f) EXCEPT ![f] = MarkedClean(@)]
      BY <1>1, <2>1
    <3> HIDE DEF f
    <3>2. /\ Unlink(f) \in [Frames -> VPage]
          /\ \A g \in Frames : Unlink(f)[g].pins = vp_pool[g].pins
      BY <3>1, UnlinkType
    <3>3. /\ vp_pool' \in [Frames -> VPage]
          /\ \A g \in Frames : vp_pool'[g].pins = Unlink(f)[g].pins
      <4> DEFINE q == Unlink(f)
      <4>1. q \in [Frames -> VPage]
        BY <3>2
      <4>2. vp_pool' = [q EXCEPT ![f] = MarkedClean(@)]
        BY <3>1
      <4>3. f \in Frames
        BY <3>1
      <4> HIDE DEF IInv, q
      <4>4. /\ vp_pool' \in [Frames -> VPage]
            /\ \A g \in Frames : vp_pool'[g].pins = q[g].pins
        BY <4>1, <4>2, <4>3, CleanFrame
      <4> QED BY <4>4 DEF q
    <3> QED BY <3>2, <3>3
  <2>3. req'[w] = [req[w] EXCEPT !.victim = f, !.clean = vp_pool[f].prev]
        /\ \A u \in Workers \ {w} : req'[u] = req[u]
    BY <2>1 DEF TypeOK
  <2>4. /\ req'[w] \in Request /\ req'[w].op = req[w].op /\ req'[w].page = req[w].page
        /\ req'[w].old = req[w].old /\ req'[w].victim = f
    <3> HIDE DEF f
    <3> QED BY <1>1, <1>3, <2>3 DEF Request, VPage
  <2>5. TypeOK'
    <3>1. disk' \in [PageNos -> Versions]
      BY <1>1, <2>1 DEF TypeOK, VPage
    <3>2. req' \in [Workers -> Request]
      BY <2>1, <2>4 DEF TypeOK
    <3> QED BY <1>1, <1>2, <2>1, <2>2, <3>1, <3>2 DEF TypeOK, scopeVars, histVars
  <2>6. pc'[w] = "clean" /\ pc' = [pc EXCEPT ![w] = pc'[w]]
    BY <2>1 DEF TypeOK
  <2>7. req[w].old \in Frames \cup {NoFrame}
    BY <1>3 DEF Request
  <2>8. req'[w].old # NoFrame => vp_pool'[req'[w].old].pins = 0
    BY <1>1, <2>2, <2>4, <2>7 DEF RequestInv, LockedPcs
  <2>9. pc[w] \in LockedPcs /\ pc'[w] \in LockedPcs \ {"walk", "evict"}
    BY <1>1, <2>6 DEF LockedPcs
  <2>10. req'[w].victim \in Frames /\ vp_pool'[req'[w].victim].pins = 0
    BY <1>1, <2>2, <2>4
  <2> HIDE DEF f
  <2> QED BY <1>1, <2>2, <2>3, <2>4, <2>5, <2>6, <2>8, <2>9, <2>10, LockedStep
<1>5. CASE ~NewestDirty(f)
  <2>1. vp_pool' = Unlink(f) /\ Found(w, f) /\ UNCHANGED disk
    BY <1>5 DEF EvictVersion
  <2>2. TypeOK'
    BY <1>1, <1>2, <2>1, FoundFacts, UnlinkType DEF TypeOK, scopeVars, histVars
  <2>3. req[w].old \in Frames \cup {NoFrame}
    BY <1>3 DEF Request
  <2>4. \A g \in Frames : vp_pool'[g].pins = vp_pool[g].pins
    BY <1>1, <2>1, UnlinkType
  <2>5. /\ pc' = [pc EXCEPT ![w] = pc'[w]] /\ pc'[w] \in {"scan", "fill"}
        /\ \A u \in Workers \ {w} : req'[u] = req[u]
        /\ req'[w].op = req[w].op /\ req'[w].page = req[w].page
        /\ req'[w].old \in {f, req[w].old}
        /\ pc'[w] = "fill" => req'[w].victim = f
    BY <1>1, <2>1, FoundFacts
  <2>6. req'[w].old # NoFrame => vp_pool'[req'[w].old].pins = 0
    BY <1>1, <2>3, <2>4, <2>5 DEF RequestInv, LockedPcs
  <2>7. pc[w] \in LockedPcs /\ pc'[w] \in LockedPcs \ {"walk", "evict"}
    BY <1>1, <2>5 DEF LockedPcs
  <2>8. pc'[w] \in {"clean", "fill"} =>
          req'[w].victim \in Frames /\ vp_pool'[req'[w].victim].pins = 0
    BY <1>1, <2>4, <2>5
  <2> HIDE DEF f
  <2> QED BY <1>1, <2>2, <2>4, <2>5, <2>6, <2>7, <2>8, LockedStep
<1> QED BY <1>4, <1>5

LEMMA CleanPreviousStep ==
  ASSUME IInv, NEW w \in Workers, CleanPrevious(w)
  PROVE  IInv'
<1> USE DEF IInv
<1> DEFINE c == req[w].clean  f == req[w].victim  next == NextToClean(w)
<1>1. /\ pc[w] = "clean" /\ f \in Frames /\ vp_pool[f].pins = 0
      /\ vp_pool' = [vp_pool EXCEPT ![c] = MarkedClean(@)]
      /\ UNCHANGED <<vp_map, vp_clock, vp_mutex, fileVars, scopeVars, held, closed,
                     histVars>>
  BY DEF CleanPrevious, RequestInv
<1>2. req[w] \in Request /\ next \in Frames \cup {NoFrame}
  BY <1>1 DEF TypeOK, VPage, NextToClean
<1>3. /\ vp_pool' \in [Frames -> VPage]
      /\ \A g \in Frames : vp_pool'[g].pins = vp_pool[g].pins
  <2>1. vp_pool \in [Frames -> VPage]
    BY DEF TypeOK
  <2>2. vp_pool' = [vp_pool EXCEPT ![c] = MarkedClean(@)]
    BY <1>1
  <2> HIDE DEF IInv, c
  <2>3. CASE c \in Frames
    BY <2>1, <2>2, <2>3, CleanFrame
  <2>4. CASE c \notin Frames
    <3>1. vp_pool' = vp_pool
      BY <2>1, <2>2, <2>4
    <3> QED BY <2>1, <3>1
  <2> QED BY <2>3, <2>4
<1>4. /\ pc' = [pc EXCEPT ![w] = pc'[w]] /\ pc'[w] \in {"scan", "clean", "fill"}
      /\ req' \in [Workers -> Request]
      /\ \A u \in Workers \ {w} : req'[u] = req[u]
      /\ req'[w].op = req[w].op /\ req'[w].page = req[w].page
      /\ req'[w].old \in {f, req[w].old}
      /\ pc'[w] \in {"clean", "fill"} => req'[w].victim = f
  <2>1. CASE next # NoFrame
    <3>1. req' = [req EXCEPT ![w].clean = next] /\ UNCHANGED pc
      BY <2>1 DEF CleanPrevious
    <3>2. req'[w] = [req[w] EXCEPT !.clean = next]
          /\ \A u \in Workers \ {w} : req'[u] = req[u]
      BY <3>1 DEF TypeOK
    <3> HIDE DEF next
    <3>3. /\ req'[w] \in Request /\ req'[w].op = req[w].op /\ req'[w].page = req[w].page
          /\ req'[w].old = req[w].old /\ req'[w].victim = req[w].victim
      BY <1>2, <3>2 DEF Request
    <3>4. req' \in [Workers -> Request]
      BY <3>1, <3>3 DEF TypeOK
    <3> QED BY <1>1, <3>1, <3>2, <3>3, <3>4 DEF TypeOK
  <2>2. CASE next = NoFrame
    <3>1. Found(w, f)
      BY <2>2 DEF CleanPrevious
    <3>2. TypeOK /\ f \in Frames
      BY <1>1
    <3> HIDE DEF f, c, next
    <3> QED BY <3>1, <3>2, FoundFacts
  <2> QED BY <2>1, <2>2
<1> HIDE DEF c, next, f
<1>5. TypeOK'
  BY <1>1, <1>3, <1>4 DEF TypeOK, fileVars, scopeVars, histVars
<1>6. req'[w].old # NoFrame => vp_pool'[req'[w].old].pins = 0
  BY <1>1, <1>2, <1>3, <1>4 DEF RequestInv, LockedPcs, Request
<1>7. pc[w] \in LockedPcs /\ pc'[w] \in LockedPcs \ {"walk", "evict"}
  BY <1>1, <1>4 DEF LockedPcs
<1>8. pc'[w] \in {"clean", "fill"} =>
        req'[w].victim \in Frames /\ vp_pool'[req'[w].victim].pins = 0
  BY <1>1, <1>3, <1>4
<1> QED BY <1>1, <1>3, <1>4, <1>5, <1>6, <1>7, <1>8, LockedStep DEF fileVars

-----------------------------------------------------------------------------
(* The fills.                                                              *)

\* What they all start from.
LEMMA FillFacts ==
  ASSUME IInv, NEW w \in Workers, NEW op, Filling(w, op)
  PROVE  /\ pc[w] \in LockedPcs
         /\ req[w].victim \in Frames /\ vp_pool[req[w].victim].pins = 0
         /\ req[w].old \in Frames \cup {NoFrame}
         /\ req[w].old # NoFrame => vp_pool[req[w].old].pins = 0
         /\ req[w].cur \in Frames \cup {NoFrame}
         /\ op # "append" => req[w].page \in PageNos
         /\ op = "append" => page_count + 1 \in PageNos
         /\ Start(w) \in Versions /\ Result(w) \in Versions
<1> USE DEF IInv
<1>1. pc[w] = "fill" /\ req[w].op = op /\ pc[w] \in LockedPcs /\ req[w] \in Request
  BY DEF Filling, LockedPcs, TypeOK
<1>2. op = "append" => page_count + 1 \in PageNos
  BY <1>1, ConstantsAssumption DEF RequestInv, PageNos, TypeOK
<1> QED BY <1>1, <1>2, ResultType DEF RequestInv, Request

LEMMA ReassignedType ==
  ASSUME TypeOK, NEW f \in Frames, NEW p \in PageNos, NEW v \in Versions,
         NEW prev \in Frames \cup {NoFrame}, NEW b \in Versions
  PROVE  Reassigned(f, p, v, prev, b) \in VPage /\ Reassigned(f, p, v, prev, b).pins = 1
BY DEF Reassigned, TypeOK, VPage

LEMMA ReassignedDirtyType ==
  ASSUME TypeOK, NEW f \in Frames, NEW p \in PageNos, NEW v \in Versions,
         NEW prev \in Frames \cup {NoFrame}, NEW b \in Versions
  PROVE  /\ Dirtied(Reassigned(f, p, v, prev, b)) \in VPage
         /\ Dirtied(Reassigned(f, p, v, prev, b)).pins = 1
<1>1. \A page \in VPage : Dirtied(page) \in VPage /\ Dirtied(page).pins = page.pins
  BY DEF Dirtied, VPage
<1> QED BY <1>1, ReassignedType

\* The pool after a fill: frame f starts a life with one pin.
LEMMA FillPool ==
  ASSUME NEW q \in [Frames -> VPage], NEW f \in Frames, q[f].pins = 0,
         NEW v \in VPage, v.pins = 1, NEW r, r = [q EXCEPT ![f] = v]
  PROVE  /\ r \in [Frames -> VPage]
         /\ r[f].pins = q[f].pins + 1
         /\ \A g \in Frames \ {f} : r[g].pins = q[g].pins
OBVIOUS

LEMMA UnpinnedVictim ==
  ASSUME TypeOK, PinsAreCounted, NEW w \in Workers, NEW p \in PageNos,
         NEW f \in Frames, vp_pool[f].pins = 0
  PROVE  Unpinned(w, p)[f].pins = 0
<1>1. <<f, p>> \notin held[w]
  BY UnpinnedNotHeld
<1> QED BY <1>1 DEF Unpinned, TypeOK, VPage

LEMMA FillReadStep ==
  ASSUME IInv, NEW w \in Workers, FillRead(w)
  PROVE  IInv'
<1> DEFINE f == req[w].victim  p == req[w].page
           v == Reassigned(f, p, Start(w), NoFrame, disk[p])
<1>1. /\ Filling(w, "read") /\ Deliver(w, f, p)
      /\ vp_pool' = [Unpinned(w, p) EXCEPT ![f] = v]
      /\ vp_map' = [vp_map EXCEPT ![p] = f]
      /\ UNCHANGED <<vp_clock, fileVars, scopeVars, closed, histVars>>
  BY DEF FillRead
<1>2. /\ pc[w] \in LockedPcs /\ f \in Frames /\ vp_pool[f].pins = 0 /\ p \in PageNos
      /\ Start(w) \in Versions
  BY <1>1, FillFacts
<1> HIDE DEF f, p
<1>3. TypeOK /\ PinsAreCounted
  BY DEF IInv
<1>4. v \in VPage /\ v.pins = 1
  <2>1. disk[p] \in Versions
    BY <1>2, <1>3 DEF TypeOK
  <2>2. NoFrame \in Frames \cup {NoFrame}
    OBVIOUS
  <2> QED BY <1>2, <1>3, <2>1, <2>2, ReassignedType
<1>5. Unpinned(w, p) \in [Frames -> VPage] /\ Unpinned(w, p)[f].pins = 0
  BY <1>2, <1>3, UnpinnedType, UnpinnedVictim
<1> HIDE DEF v
<1>6. /\ vp_pool' \in [Frames -> VPage]
      /\ vp_pool'[f].pins = Unpinned(w, p)[f].pins + 1
      /\ \A g \in Frames \ {f} : vp_pool'[g].pins = Unpinned(w, p)[g].pins
  BY <1>1, <1>2, <1>4, <1>5, FillPool
<1>7. /\ vp_map' \in [PageNos -> Frames \cup {NoFrame}]
      /\ disk' \in [PageNos -> Versions] /\ page_count' \in 1 .. MaxPages
      /\ created' \in [PageNos -> Versions]
  BY <1>1, <1>2, <1>3 DEF TypeOK, fileVars, histVars
<1> QED BY <1>1, <1>2, <1>6, <1>7, DeliverStep DEF histVars

LEMMA FillAppendStep ==
  ASSUME IInv, NEW w \in Workers, FillAppend(w)
  PROVE  IInv'
<1> DEFINE f == req[w].victim  p == page_count + 1
           v == Dirtied(Reassigned(f, p, Result(w), NoFrame, 0))
<1>1. /\ Filling(w, "append") /\ Deliver(w, f, p)
      /\ page_count' = p /\ disk' = [disk EXCEPT ![p] = 0]
      /\ vp_pool' = [Unpinned(w, p) EXCEPT ![f] = v]
      /\ vp_map' = [vp_map EXCEPT ![p] = f]
      /\ created' = [created EXCEPT ![p] = Result(w)]
      /\ UNCHANGED <<vp_clock, scopeVars, closed, written>>
  BY DEF FillAppend
<1>2. /\ pc[w] \in LockedPcs /\ f \in Frames /\ vp_pool[f].pins = 0 /\ p \in PageNos
      /\ Result(w) \in Versions
  BY <1>1, FillFacts
<1>3. TypeOK /\ PinsAreCounted /\ 0 \in Versions /\ p \in 1 .. MaxPages
  <2>1. TypeOK /\ PinsAreCounted
    BY DEF IInv
  <2>2. p \in 1 .. MaxPages
    BY <1>2, <2>1, ConstantsAssumption DEF TypeOK, PageNos
  <2>3. 0 \in Versions
    BY FramesAndPages DEF Versions
  <2> QED BY <2>1, <2>2, <2>3
<1> HIDE DEF f, p
<1>4. v \in VPage /\ v.pins = 1
  <2>1. NoFrame \in Frames \cup {NoFrame}
    OBVIOUS
  <2> QED BY <1>2, <1>3, <2>1, ReassignedDirtyType
<1>5. Unpinned(w, p) \in [Frames -> VPage] /\ Unpinned(w, p)[f].pins = 0
  BY <1>2, <1>3, UnpinnedType, UnpinnedVictim
<1> HIDE DEF v
<1>6. /\ vp_pool' \in [Frames -> VPage]
      /\ vp_pool'[f].pins = Unpinned(w, p)[f].pins + 1
      /\ \A g \in Frames \ {f} : vp_pool'[g].pins = Unpinned(w, p)[g].pins
  BY <1>1, <1>2, <1>4, <1>5, FillPool
<1>7. /\ vp_map' \in [PageNos -> Frames \cup {NoFrame}]
      /\ disk' \in [PageNos -> Versions] /\ page_count' \in 1 .. MaxPages
      /\ created' \in [PageNos -> Versions]
  BY <1>1, <1>2, <1>3 DEF TypeOK
<1> QED BY <1>1, <1>2, <1>6, <1>7, DeliverStep

LEMMA LinkFrame ==
  ASSUME NEW q \in [Frames -> VPage], NEW c \in Frames, NEW f \in Frames,
         NEW r, r = [q EXCEPT ![c].next = f]
  PROVE  /\ r \in [Frames -> VPage]
         /\ \A g \in Frames : r[g].pins = q[g].pins
<1>1. [q[c] EXCEPT !.next = f] \in VPage /\ [q[c] EXCEPT !.next = f].pins = q[c].pins
  BY DEF VPage
<1>2. r = [q EXCEPT ![c] = [q[c] EXCEPT !.next = f]]
  OBVIOUS
<1> QED BY <1>1, <1>2

LEMMA FillEditStep ==
  ASSUME IInv, NEW w \in Workers, FillEdit(w)
  PROVE  IInv'
<1> DEFINE f == req[w].victim  p == req[w].page  base == req[w].cur
           v == Dirtied(Reassigned(f, p, Result(w), base, vp_pool[base].bytes))
           u == [Unpinned(w, p) EXCEPT ![base].next = f]
<1>1. /\ Filling(w, "edit") /\ base # NoFrame /\ Deliver(w, f, p)
      /\ vp_pool' = [u EXCEPT ![f] = v]
      /\ UNCHANGED <<vp_map, vp_clock, fileVars, scopeVars, closed, histVars>>
  BY DEF FillEdit
<1>2. /\ pc[w] \in LockedPcs /\ f \in Frames /\ vp_pool[f].pins = 0 /\ p \in PageNos
      /\ base \in Frames /\ Result(w) \in Versions
  BY <1>1, FillFacts
<1> HIDE DEF f, p, base
<1>3. TypeOK /\ PinsAreCounted
  BY DEF IInv
<1>4. v \in VPage /\ v.pins = 1
  <2>1. vp_pool[base].bytes \in Versions
    BY <1>2, <1>3 DEF TypeOK, VPage
  <2>2. base \in Frames \cup {NoFrame}
    BY <1>2
  <2> QED BY <1>2, <1>3, <2>1, <2>2, ReassignedDirtyType
<1>5. Unpinned(w, p) \in [Frames -> VPage] /\ Unpinned(w, p)[f].pins = 0
  BY <1>2, <1>3, UnpinnedType, UnpinnedVictim
<1> HIDE DEF v
<1>6. u \in [Frames -> VPage] /\ \A g \in Frames : u[g].pins = Unpinned(w, p)[g].pins
  <2> DEFINE q == Unpinned(w, p)
  <2>1. q \in [Frames -> VPage] /\ u = [q EXCEPT ![base].next = f]
    BY <1>5
  <2> HIDE DEF q, u
  <2>2. u \in [Frames -> VPage] /\ \A g \in Frames : u[g].pins = q[g].pins
    BY <1>2, <2>1, LinkFrame
  <2> QED BY <2>2 DEF q
<1> HIDE DEF u
<1>7. /\ vp_pool' \in [Frames -> VPage]
      /\ vp_pool'[f].pins = u[f].pins + 1
      /\ \A g \in Frames \ {f} : vp_pool'[g].pins = u[g].pins
  BY <1>1, <1>2, <1>4, <1>5, <1>6, FillPool
<1>8. /\ vp_map' \in [PageNos -> Frames \cup {NoFrame}]
      /\ disk' \in [PageNos -> Versions] /\ page_count' \in 1 .. MaxPages
      /\ created' \in [PageNos -> Versions]
  BY <1>1, <1>3 DEF TypeOK, fileVars, histVars
<1> QED BY <1>1, <1>2, <1>6, <1>7, <1>8, DeliverStep DEF histVars

LEMMA IdFrame ==
  ASSUME NEW q \in [Frames -> VPage], NEW c \in Frames, NEW f \in Frames,
         NEW p \in PageNos, NEW v \in Versions, NEW b \in Versions,
         NEW r, r = [q EXCEPT ![c] = ReassignedId(@, p, v, f, b)]
  PROVE  /\ r \in [Frames -> VPage]
         /\ \A g \in Frames : r[g].pins = q[g].pins
<1>1. ReassignedId(q[c], p, v, f, b) \in VPage
      /\ ReassignedId(q[c], p, v, f, b).pins = q[c].pins
  BY DEF VPage, ReassignedId
<1> QED BY <1>1

LEMMA FillEditMissedStep ==
  ASSUME IInv, NEW w \in Workers, FillEditMissed(w)
  PROVE  IInv'
<1> DEFINE f == req[w].victim  p == req[w].page  old == req[w].old  b == disk[p]
           v == Dirtied(Reassigned(f, p, Result(w), old, b))
           u == [Unpinned(w, p) EXCEPT ![old] = ReassignedId(@, p, Start(w), f, b)]
<1>1. /\ Filling(w, "edit") /\ old # NoFrame /\ Deliver(w, f, p)
      /\ vp_pool' = [u EXCEPT ![f] = v]
      /\ vp_map' = [vp_map EXCEPT ![p] = old]
      /\ UNCHANGED <<vp_clock, fileVars, scopeVars, closed, histVars>>
  BY DEF FillEditMissed
<1>2. /\ pc[w] \in LockedPcs /\ f \in Frames /\ vp_pool[f].pins = 0 /\ p \in PageNos
      /\ old \in Frames /\ Start(w) \in Versions /\ Result(w) \in Versions
  BY <1>1, FillFacts
<1> HIDE DEF f, p, old
<1>3. TypeOK /\ PinsAreCounted
  BY DEF IInv
<1>4. b \in Versions
  BY <1>2, <1>3 DEF TypeOK
<1> HIDE DEF b
<1>5. v \in VPage /\ v.pins = 1
  <2>1. old \in Frames \cup {NoFrame}
    BY <1>2
  <2> QED BY <1>2, <1>3, <1>4, <2>1, ReassignedDirtyType
<1>6. Unpinned(w, p) \in [Frames -> VPage] /\ Unpinned(w, p)[f].pins = 0
  BY <1>2, <1>3, UnpinnedType, UnpinnedVictim
<1> HIDE DEF v
<1>7. u \in [Frames -> VPage] /\ \A g \in Frames : u[g].pins = Unpinned(w, p)[g].pins
  <2> DEFINE q == Unpinned(w, p)
  <2>1. q \in [Frames -> VPage] /\ u = [q EXCEPT ![old] = ReassignedId(@, p, Start(w), f, b)]
    BY <1>6
  <2> HIDE DEF q, u
  <2>2. u \in [Frames -> VPage] /\ \A g \in Frames : u[g].pins = q[g].pins
    BY <1>2, <1>4, <2>1, IdFrame
  <2> QED BY <2>2 DEF q
<1> HIDE DEF u
<1>8. /\ vp_pool' \in [Frames -> VPage]
      /\ vp_pool'[f].pins = u[f].pins + 1
      /\ \A g \in Frames \ {f} : vp_pool'[g].pins = u[g].pins
  BY <1>1, <1>2, <1>5, <1>6, <1>7, FillPool
<1>9. /\ vp_map' \in [PageNos -> Frames \cup {NoFrame}]
      /\ disk' \in [PageNos -> Versions] /\ page_count' \in 1 .. MaxPages
      /\ created' \in [PageNos -> Versions]
  BY <1>1, <1>2, <1>3 DEF TypeOK, fileVars, histVars
<1> QED BY <1>1, <1>2, <1>7, <1>8, <1>9, DeliverStep DEF histVars

-----------------------------------------------------------------------------
(* Steps outside vp_mutex.                                                 *)

\* A request in progress only looks at frames that nobody has pinned: the
\* other workers' writes, unpins and the flush leave those alone.
LEMMA BystanderStep ==
  ASSUME IInv, UNCHANGED <<pc, req, vp_clock, vp_mutex, page_count, scopeVars>>,
         \A f \in Frames : vp_pool[f].pins = 0 => vp_pool'[f].pins = 0
  PROVE  MutexInv' /\ RequestInv' /\ ScopeInv' /\ RunningVersionsAreCounted'
<1> USE DEF IInv
<1>1. MutexInv' /\ ScopeInv'
  BY DEF MutexInv, ScopeInv, IsUpdate, Start, scopeVars
<1>2. RunningVersionsAreCounted'
  BY SameScopes
<1>3. RequestInv'
  <2>1. \A w \in Workers : req[w].old \in Frames \cup {NoFrame}
    BY DEF TypeOK, Request
  <2>2. vp_clock \in Frames
    BY DEF TypeOK
  <2> QED BY <2>1, <2>2 DEF RequestInv
<1> QED BY <1>1, <1>2, <1>3

LEMMA WritePageStep ==
  ASSUME IInv, NEW w \in Workers, WritePage(w)
  PROVE  IInv'
<1> USE DEF IInv
<1>1. PICK h \in held[w] :
        /\ vp_pool' = [vp_pool EXCEPT ![h[1]].bytes = Result(w)]
        /\ written' = [written EXCEPT ![h[2]] = @ \cup {Result(w)}]
  BY DEF WritePage
<1>2. h[1] \in Frames /\ h[2] \in PageNos /\ Result(w) \in Versions
  <2>1. h \in Frames \X PageNos
    BY DEF TypeOK
  <2> QED BY <2>1, ResultType
<1>3. UNCHANGED <<vp_map, vp_clock, vp_mutex, fileVars, scopeVars, pc, req, held,
                  closed, created>>
  BY DEF WritePage
<1>4. /\ vp_pool' \in [Frames -> VPage]
      /\ \A g \in Frames : vp_pool'[g].pins = vp_pool[g].pins
  <2> DEFINE c == h[1]  b == Result(w)
  <2>1. vp_pool \in [Frames -> VPage] /\ c \in Frames /\ b \in Versions
        /\ vp_pool' = [vp_pool EXCEPT ![c] = [vp_pool[c] EXCEPT !.bytes = b]]
    BY <1>1, <1>2 DEF TypeOK
  <2> HIDE DEF c, b
  <2>2. [vp_pool[c] EXCEPT !.bytes = b] \in VPage
        /\ [vp_pool[c] EXCEPT !.bytes = b].pins = vp_pool[c].pins
    BY <2>1 DEF VPage
  <2> QED BY <2>1, <2>2
<1>5. written' \in [PageNos -> SUBSET Versions]
  BY <1>1, <1>2 DEF TypeOK
<1>6. TypeOK'
  BY <1>3, <1>4, <1>5 DEF TypeOK, fileVars, scopeVars
<1>7. PinsAreCounted'
  BY <1>3, <1>4, SamePins
<1>8. MutexInv' /\ RequestInv' /\ ScopeInv' /\ RunningVersionsAreCounted'
  BY <1>3, <1>4, BystanderStep DEF fileVars
<1> QED BY <1>6, <1>7, <1>8

LEMMA UnpinStep ==
  ASSUME IInv, NEW w \in Workers, Unpin(w)
  PROVE  IInv'
<1> USE DEF IInv
<1>1. PICK h \in held[w] :
        /\ vp_pool' = [vp_pool EXCEPT ![h[1]].pins = @ - 1]
        /\ held' = [held EXCEPT ![w] = @ \ {h}]
  BY DEF Unpin
<1> DEFINE c == h[1]  p == h[2]
<1>2. c \in Frames /\ p \in PageNos /\ h = <<c, p>>
  <2>1. h \in Frames \X PageNos
    BY DEF TypeOK
  <2> QED BY <2>1
<1>3. UNCHANGED <<vp_map, vp_clock, vp_mutex, fileVars, scopeVars, pc, req, closed,
                  histVars>>
  BY DEF Unpin
<1>4. vp_pool \in [Frames -> VPage] /\ vp_pool' = [vp_pool EXCEPT ![c].pins = @ - 1]
  BY <1>1 DEF TypeOK
<1>5. vp_pool[c].pins \in Nat \ {0}
  <2>1. <<c, p>> \in held[w]
    BY <1>2
  <2> HIDE DEF c, p
  <2> QED BY <1>2, <2>1, HeldIsPinned
<1>6. /\ vp_pool' \in [Frames -> VPage]
      /\ vp_pool'[c].pins = vp_pool[c].pins - 1
      /\ \A g \in Frames \ {c} : vp_pool'[g].pins = vp_pool[g].pins
  <2> HIDE DEF c
  <2>1. vp_pool[c].pins - 1 \in Nat
    BY <1>5
  <2>2. [vp_pool[c] EXCEPT !.pins = @ - 1] \in VPage
        /\ [vp_pool[c] EXCEPT !.pins = @ - 1].pins = vp_pool[c].pins - 1
    BY <1>2, <1>4, <2>1 DEF VPage
  <2>3. vp_pool' = [vp_pool EXCEPT ![c] = [vp_pool[c] EXCEPT !.pins = @ - 1]]
    BY <1>4
  <2> QED BY <1>2, <1>4, <2>2, <2>3
<1>7. held' \in [Workers -> SUBSET (Frames \X PageNos)]
  BY <1>1 DEF TypeOK
<1>8. TypeOK'
  BY <1>3, <1>6, <1>7 DEF TypeOK, fileVars, scopeVars, histVars
<1>9. PinsAreCounted'
  <2> SUFFICES ASSUME NEW g \in Frames
               PROVE  vp_pool'[g].pins = Cardinality(Pinners(g)')
    BY DEF PinsAreCounted
  <2>1. held'[w] = held[w] \ {<<c, p>>} /\ \A x \in Workers \ {w} : held'[x] = held[x]
    BY <1>1, <1>2 DEF TypeOK
  <2> HIDE DEF c, p
  <2>2. Pinners(g)' = IF g = c THEN Pinners(g) \ {<<w, p>>} ELSE Pinners(g)
    BY <1>2, <2>1 DEF Pinners
  <2>3. <<w, p>> \in Pinners(c)
    BY <1>2 DEF Pinners
  <2>4. Cardinality(Pinners(c) \ {<<w, p>>}) = Cardinality(Pinners(c)) - 1
    BY <2>3, PinnersFinite, FS_RemoveElement
  <2>5. \A x \in Frames : vp_pool[x].pins = Cardinality(Pinners(x))
    BY DEF PinsAreCounted
  <2> QED BY <1>2, <1>6, <2>2, <2>4, <2>5
<1> HIDE DEF c, p
<1>10. MutexInv' /\ RequestInv' /\ ScopeInv' /\ RunningVersionsAreCounted'
  <2>1. \A f \in Frames : vp_pool[f].pins = 0 => vp_pool'[f].pins = 0
    BY <1>5, <1>6
  <2> QED BY <1>3, <2>1, BystanderStep DEF fileVars
<1> QED BY <1>8, <1>9, <1>10

\* A nonempty set of frames has a last member (the one flush writes last).
LEMMA LastFrame ==
  ASSUME NEW S, S # {}, S \subseteq Frames
  PROVE  \E f \in S : \A g \in S : g <= f
<1> DEFINE R == {ss \in Nat \X Nat : ss[1] < ss[2]}
           T == {NFrames - 1 - f : f \in S}
<1>1. IsWellFoundedOn(R, Nat)
  BY NatLessThanWellFounded DEF OpToRel
<1>2. T \subseteq Nat /\ T # {}
  BY FramesAndPages DEF Frames
<1>3. \E x \in T : \A y \in T : <<y, x>> \notin R
  <2> HIDE DEF R, T
  <2> QED BY <1>1, <1>2, WFMin
<1>4. PICK m \in S : \A g \in S : ~(NFrames - 1 - g < NFrames - 1 - m)
  BY <1>2, <1>3
<1> QED BY <1>4, FramesAndPages DEF Frames

LEMMA CloseStep ==
  ASSUME IInv, Close
  PROVE  IInv'
<1> USE DEF IInv
<1>1. UNCHANGED <<vp_map, vp_clock, vp_mutex, page_count, scopeVars, pc, req, held,
                  histVars>>
      /\ closed' = TRUE
  BY DEF Close
<1>2. /\ vp_pool' \in [Frames -> VPage]
      /\ \A g \in Frames : vp_pool'[g].pins = vp_pool[g].pins
  <2>1. \A x \in VPage : MarkedClean(x) \in VPage /\ MarkedClean(x).pins = x.pins
    BY DEF MarkedClean, VPage
  <2>2. vp_pool' = [g \in Frames |-> IF vp_pool[g].next = NoFrame
                                     THEN MarkedClean(vp_pool[g]) ELSE vp_pool[g]]
    BY DEF Close
  <2> QED BY <2>1, <2>2 DEF TypeOK
<1>3. disk' \in [PageNos -> Versions]
  <2> SUFFICES ASSUME NEW p \in PageNos
               PROVE  disk'[p] \in Versions
    BY DEF Close
  <2> DEFINE S == Flushed(p)
             last == CHOOSE f \in S : \A g \in S : g <= f
  <2>1. disk'[p] = IF S = {} THEN disk[p] ELSE vp_pool[last].bytes
    BY DEF Close
  <2>2. CASE S = {}
    BY <2>1, <2>2 DEF TypeOK
  <2>3. CASE S # {}
    <3>1. S \subseteq Frames
      BY DEF Flushed
    <3> HIDE DEF S
    <3>2. \E f \in S : \A g \in S : g <= f
      BY <2>3, <3>1, LastFrame
    <3>3. last \in Frames
      BY <3>1, <3>2
    <3> HIDE DEF last
    <3> QED BY <2>1, <2>3, <3>3 DEF TypeOK, VPage
  <2> QED BY <2>2, <2>3
<1>4. TypeOK'
  BY <1>1, <1>2, <1>3 DEF TypeOK, scopeVars, histVars
<1>5. PinsAreCounted'
  BY <1>1, <1>2, SamePins
<1>6. MutexInv' /\ RequestInv' /\ ScopeInv' /\ RunningVersionsAreCounted'
  BY <1>1, <1>2, BystanderStep
<1> QED BY <1>4, <1>5, <1>6

-----------------------------------------------------------------------------
(* The invariant and the theorems.                                         *)

LEMMA StutterStep ==
  ASSUME IInv, UNCHANGED vars
  PROVE  IInv'
<1> USE DEF IInv, vars
<1>1. TypeOK'
  BY DEF TypeOK, poolVars, fileVars, scopeVars, histVars
<1>2. PinsAreCounted' /\ RunningVersionsAreCounted'
  BY SamePins, SameScopes DEF poolVars
<1>3. MutexInv' /\ RequestInv' /\ ScopeInv'
  BY DEF MutexInv, RequestInv, ScopeInv, IsUpdate, Start, poolVars, fileVars, scopeVars
<1> QED BY <1>1, <1>2, <1>3

LEMMA LockedSteps ==
  ASSUME IInv, NEW w \in Workers, Locked(w)
  PROVE  IInv'
BY WalkNextStep, WalkEndStep, ScanPassStep, ScanOnlyVersionStep, EvictVersionStep,
   CleanPreviousStep, FillReadStep, FillEditStep, FillEditMissedStep, FillAppendStep
   DEF Locked

LEMMA NextStep == IInv /\ [Next]_vars => IInv'
<1> SUFFICES ASSUME IInv, [Next]_vars PROVE IInv'
  OBVIOUS
<1>1. CASE UNCHANGED vars
  BY <1>1, StutterStep
<1>2. CASE Close
  BY <1>2, CloseStep
<1>3. ASSUME NEW w \in Workers,
             \/ BeginReadonly(w) \/ BeginEditable(w) \/ Terminate(w)
      PROVE  IInv'
  BY <1>3, BeginReadonlyStep, BeginEditableStep, TerminateStep
<1>4. ASSUME NEW w \in Workers,
             \/ GetPageReadonly(w) \/ GetPageEditable(w) \/ AppendVPage(w)
      PROVE  IInv'
  BY <1>4, RequestSteps
<1>5. ASSUME NEW w \in Workers, Locked(w)
      PROVE  IInv'
  BY <1>5, LockedSteps
<1>6. ASSUME NEW w \in Workers, WritePage(w) \/ Unpin(w)
      PROVE  IInv'
  BY <1>6, WritePageStep, UnpinStep
<1> QED BY <1>1, <1>2, <1>3, <1>4, <1>5, <1>6 DEF Next

\* IInv holds in every reachable state, for all values of the constants.
THEOREM Invariance == Spec => []IInv
<1>1. Init => IInv
  BY InitIInv
<1>2. IInv /\ [Next]_vars => IInv'
  BY NextStep
<1> QED BY <1>1, <1>2, PTL DEF Spec

\* Every field of every frame, request and scope keeps its type: in
\* particular no pin count and no running version count goes below zero.
THEOREM TypeCorrect == Spec => []TypeOK
<1>1. IInv => TypeOK
  BY DEF IInv
<1> QED BY <1>1, Invariance, PTL

\* The pins of a frame are exactly the uses that workers make of it, through
\* every request, eviction and upgrade to an editable version.
THEOREM PinsCounted == Spec => []PinsAreCounted
<1>1. IInv => PinsAreCounted
  BY DEF IInv
<1> QED BY <1>1, Invariance, PTL

\* running_version_count is the number of open scopes at each version, and
\* only the holder of update_mutex writes, above the newest stable version.
THEOREM RunningVersionsCounted == Spec => []RunningVersionsAreCounted
<1>1. IInv => RunningVersionsAreCounted
  BY DEF IInv
<1> QED BY <1>1, Invariance, PTL

-----------------------------------------------------------------------------
(* Only the fills give a frame to a page, and only a frame without pins.   *)

\* One frame of the pool changes to a page with the same number.
LEMMA SamePageFrame ==
  ASSUME NEW q \in [Frames -> VPage], NEW c, NEW x, NEW r, r = [q EXCEPT ![c] = x],
         c \in Frames => x.page = q[c].page
  PROVE  \A g \in Frames : r[g].page = q[g].page
OBVIOUS

LEMMA UnpinnedPages ==
  ASSUME TypeOK, PinsAreCounted, NEW w \in Workers, NEW p \in PageNos
  PROVE  \A g \in Frames : Unpinned(w, p)[g].page = vp_pool[g].page
<1> SUFFICES ASSUME NEW g \in Frames
             PROVE  Unpinned(w, p)[g].page = vp_pool[g].page
  OBVIOUS
<1> DEFINE n == IF <<g, p>> \in held[w] THEN vp_pool[g].pins - 1 ELSE vp_pool[g].pins
<1>1. Unpinned(w, p)[g] = [vp_pool[g] EXCEPT !.pins = n]
  BY DEF Unpinned
<1>2. vp_pool[g] \in VPage
  BY DEF TypeOK
<1> HIDE DEF n
<1> QED BY <1>1, <1>2 DEF VPage

\* A walk or a scan: every frame keeps its page.
LEMMA LookupPages ==
  ASSUME IInv, NEW w \in Workers,
         \/ WalkNext(w) \/ WalkEnd(w) \/ ScanPinned(w) \/ ScanSecondChance(w)
         \/ ScanOnlyVersion(w) \/ ScanInUse(w) \/ ScanNotInUse(w)
         \/ EvictVersion(w) \/ CleanPrevious(w)
  PROVE  \A g \in Frames : vp_pool'[g].page = vp_pool[g].page
<1>0. TypeOK /\ PinsAreCounted /\ vp_pool \in [Frames -> VPage]
  BY DEF IInv, TypeOK
<1>1. \A x \in VPage : MarkedClean(x).page = x.page
  BY DEF MarkedClean, VPage
<1>2. CASE UNCHANGED vp_pool
  BY <1>2
<1>3. CASE WalkEnd(w)
  <2> DEFINE f == req[w].cur  p == req[w].page  q == Unpinned(w, p)
  <2>1. f \in Frames /\ p \in PageNos
    BY <1>3 DEF IInv, WalkEnd, RequestInv, LockedPcs
  <2>2. q \in [Frames -> VPage] /\ \A g \in Frames : q[g].page = vp_pool[g].page
    BY <1>0, <2>1, UnpinnedType, UnpinnedPages
  <2>3. UNCHANGED vp_pool \/ vp_pool' = [q EXCEPT ![f] = Pin(@)]
    BY <1>3 DEF WalkEnd
  <2> HIDE DEF q, f
  <2>4. CASE vp_pool' = [q EXCEPT ![f] = Pin(@)]
    <3>1. /\ vp_pool'[f].page = q[f].page
          /\ \A g \in Frames \ {f} : vp_pool'[g] = q[g]
      BY <2>1, <2>2, <2>4, PinFrame
    <3> QED BY <2>2, <3>1
  <2> QED BY <2>3, <2>4
<1>4. CASE ScanSecondChance(w)
  <2>1. [vp_pool[Hand] EXCEPT !.chance = FALSE].page = vp_pool[Hand].page
    <3>1. vp_pool[Hand] \in VPage
      BY <1>0, HandType DEF TypeOK
    <3> QED BY <3>1 DEF VPage
  <2>2. vp_pool' = [vp_pool EXCEPT ![Hand] = [vp_pool[Hand] EXCEPT !.chance = FALSE]]
    BY <1>4 DEF ScanSecondChance
  <2> QED BY <1>0, <2>1, <2>2, SamePageFrame
<1>5. CASE ScanOnlyVersion(w)
  <2>1. UNCHANGED vp_pool \/ vp_pool' = [vp_pool EXCEPT ![Hand] = MarkedClean(vp_pool[Hand])]
    BY <1>5 DEF ScanOnlyVersion
  <2>2. Hand \in Frames => MarkedClean(vp_pool[Hand]).page = vp_pool[Hand].page
    BY <1>0, <1>1
  <2> QED BY <1>0, <2>1, <2>2, SamePageFrame
<1>6. CASE CleanPrevious(w)
  <2> DEFINE c == req[w].clean
  <2>1. vp_pool' = [vp_pool EXCEPT ![c] = MarkedClean(vp_pool[c])]
    BY <1>6 DEF CleanPrevious
  <2>2. c \in Frames => MarkedClean(vp_pool[c]).page = vp_pool[c].page
    BY <1>0, <1>1
  <2> QED BY <1>0, <2>1, <2>2, SamePageFrame
<1>7. CASE EvictVersion(w)
  <2> DEFINE f == vp_clock  q == Unlink(f)
  <2>1. q \in [Frames -> VPage] /\ \A g \in Frames : q[g].page = vp_pool[g].page
    BY <1>0, UnlinkType DEF TypeOK
  <2>2. vp_pool' = q \/ vp_pool' = [q EXCEPT ![f] = MarkedClean(q[f])]
    BY <1>7 DEF EvictVersion
  <2>3. f \in Frames => MarkedClean(q[f]).page = q[f].page
    BY <1>1, <2>1
  <2> HIDE DEF q, f
  <2> QED BY <2>1, <2>2, <2>3, SamePageFrame
<1> QED BY <1>2, <1>3, <1>4, <1>5, <1>6, <1>7
        DEF WalkNext, ScanPinned, ScanInUse, ScanNotInUse, poolVars

\* A fill reassigns its victim and, for an edit that missed, old_page.
LEMMA FillPages ==
  ASSUME IInv, NEW w \in Workers,
         FillRead(w) \/ FillEdit(w) \/ FillEditMissed(w) \/ FillAppend(w)
  PROVE  \A g \in Frames : vp_pool[g].pins # 0 => vp_pool'[g].page = vp_pool[g].page
<1> DEFINE f == req[w].victim  old == req[w].old  base == req[w].cur
<1>0. TypeOK /\ PinsAreCounted
  BY DEF IInv
<1>1. PICK p \in PageNos : \E v, x :
        LET q == Unpinned(w, p)
        IN  \/ vp_pool' = [q EXCEPT ![f] = v]
            \/ vp_pool' = [q EXCEPT ![base].next = f, ![f] = v] /\ base \in Frames
            \/ vp_pool' = [q EXCEPT ![old] = x, ![f] = v] /\ old \in Frames
  <2>1. CASE FillRead(w)
    <3>1. Filling(w, "read") /\ req[w].page \in PageNos
      BY <2>1, FillFacts DEF FillRead
    <3> QED BY <2>1, <3>1 DEF FillRead
  <2>2. CASE FillAppend(w)
    <3>1. Filling(w, "append") /\ page_count + 1 \in PageNos
      BY <2>2, FillFacts DEF FillAppend
    <3> QED BY <2>2, <3>1 DEF FillAppend
  <2>3. CASE FillEdit(w)
    <3>1. Filling(w, "edit") /\ req[w].page \in PageNos /\ base \in Frames
      BY <2>3, FillFacts DEF FillEdit
    <3> QED BY <2>3, <3>1 DEF FillEdit
  <2>4. CASE FillEditMissed(w)
    <3>1. Filling(w, "edit") /\ req[w].page \in PageNos /\ old \in Frames
      BY <2>4, FillFacts DEF FillEditMissed
    <3> QED BY <2>4, <3>1 DEF FillEditMissed
  <2> QED BY <2>1, <2>2, <2>3, <2>4
<1>2. /\ f \in Frames => vp_pool[f].pins = 0
      /\ old \in Frames => vp_pool[old].pins = 0
  BY FillFacts, FramesAndPages DEF FillRead, FillEdit, FillEditMissed, FillAppend
<1> DEFINE q == Unpinned(w, p)
<1>3. q \in [Frames -> VPage] /\ \A g \in Frames : q[g].page = vp_pool[g].page
  BY <1>0, UnpinnedType, UnpinnedPages
<1>4. PICK v, x :
        \/ vp_pool' = [q EXCEPT ![f] = v]
        \/ vp_pool' = [q EXCEPT ![base].next = f, ![f] = v] /\ base \in Frames
        \/ vp_pool' = [q EXCEPT ![old] = x, ![f] = v] /\ old \in Frames
  BY <1>1
<1> HIDE DEF q, f, old, base
<1>5. \A g \in Frames \ {f, old} : vp_pool'[g].page = q[g].page
  <2>1. CASE vp_pool' = [q EXCEPT ![base].next = f, ![f] = v] /\ base \in Frames
    <3>1. q[base] \in VPage
      BY <1>3, <2>1
    <3>2. [q[base] EXCEPT !.next = f].page = q[base].page
      BY <3>1 DEF VPage
    <3>3. \A g \in Frames \ {f} :
            vp_pool'[g] = IF g = base THEN [q[base] EXCEPT !.next = f] ELSE q[g]
      BY <1>3, <2>1
    <3> QED BY <3>2, <3>3
  <2>2. CASE vp_pool' = [q EXCEPT ![f] = v]
    BY <1>3, <2>2
  <2>3. CASE vp_pool' = [q EXCEPT ![old] = x, ![f] = v] /\ old \in Frames
    BY <1>3, <2>3
  <2> QED BY <1>4, <2>1, <2>2, <2>3
<1> QED BY <1>2, <1>3, <1>5

LEMMA OtherPages ==
  ASSUME IInv, NEW w \in Workers,
         \/ BeginReadonly(w) \/ BeginEditable(w) \/ Terminate(w)
         \/ GetPageReadonly(w) \/ GetPageEditable(w) \/ AppendVPage(w)
         \/ WritePage(w) \/ Unpin(w)
  PROVE  \A g \in Frames : vp_pool'[g].page = vp_pool[g].page
<1>0. vp_pool \in [Frames -> VPage]
  BY DEF IInv, TypeOK
<1>1. CASE UNCHANGED vp_pool
  BY <1>1
<1>2. CASE WritePage(w)
  <2>1. PICK h \in held[w] : vp_pool' = [vp_pool EXCEPT ![h[1]].bytes = Result(w)]
    BY <1>2 DEF WritePage
  <2> DEFINE c == h[1]  b == Result(w)
  <2>2. vp_pool' = [vp_pool EXCEPT ![c] = [vp_pool[c] EXCEPT !.bytes = b]]
    BY <2>1
  <2> HIDE DEF c, b
  <2>3. \A y \in VPage : [y EXCEPT !.bytes = b].page = y.page
    BY DEF VPage
  <2>4. c \in Frames => [vp_pool[c] EXCEPT !.bytes = b].page = vp_pool[c].page
    BY <1>0, <2>3
  <2> QED BY <1>0, <2>2, <2>4, SamePageFrame
<1>3. CASE Unpin(w)
  <2>1. PICK h \in held[w] : vp_pool' = [vp_pool EXCEPT ![h[1]].pins = @ - 1]
    BY <1>3 DEF Unpin
  <2> DEFINE c == h[1]  n == vp_pool[h[1]].pins - 1
  <2>2. vp_pool' = [vp_pool EXCEPT ![c] = [vp_pool[c] EXCEPT !.pins = n]]
    BY <2>1
  <2> HIDE DEF c, n
  <2>3. \A y \in VPage : [y EXCEPT !.pins = n].page = y.page
    BY DEF VPage
  <2>4. c \in Frames => [vp_pool[c] EXCEPT !.pins = n].page = vp_pool[c].page
    BY <1>0, <2>3
  <2> QED BY <1>0, <2>2, <2>4, SamePageFrame
<1> QED BY <1>1, <1>2, <1>3
        DEF BeginReadonly, BeginEditable, Terminate, GetPageReadonly, GetPageEditable,
            AppendVPage, Lookup, Enter, poolVars

\* A frame that somebody has pinned is never given to another page, whatever
\* the clock, the updates and the other readers do.
THEOREM PinnedNotReassigned == Spec => PinnedFramesAreNotReassigned
<1> DEFINE Kept == \A f \in Frames : vp_pool[f].pins # 0 => vp_pool'[f].page = vp_pool[f].page
<1>1. IInv /\ [Next]_vars => Kept
  <2> SUFFICES ASSUME IInv, [Next]_vars PROVE Kept
    OBVIOUS
  <2>1. CASE UNCHANGED vars
    BY <2>1 DEF vars, poolVars
  <2>2. CASE Close
    <3>1. \A x \in VPage : MarkedClean(x).page = x.page
      BY DEF MarkedClean, VPage
    <3> QED BY <2>2, <3>1 DEF Close, IInv, TypeOK
  <2>3. ASSUME NEW w \in Workers,
               \/ BeginReadonly(w) \/ BeginEditable(w) \/ Terminate(w)
               \/ GetPageReadonly(w) \/ GetPageEditable(w) \/ AppendVPage(w)
               \/ WritePage(w) \/ Unpin(w)
        PROVE  Kept
    BY <2>3, OtherPages
  <2>4. ASSUME NEW w \in Workers, Locked(w)
        PROVE  Kept
    BY <2>4, LookupPages, FillPages DEF Locked
  <2> QED BY <2>1, <2>2, <2>3, <2>4 DEF Next
<1>2. IInv /\ [Next]_vars => [Kept]_vars
  BY <1>1
<1> QED BY <1>2, Invariance, PTL DEF Spec, PinnedFramesAreNotReassigned

-----------------------------------------------------------------------------
(***************************************************************************)
(* The chains of versions and the file: the versions of a page form one    *)
(* ordered list, the frame a worker has pinned holds the page it asked     *)
(* for, and the file of a closed pool has every write.                     *)
(*                                                                         *)
(* All need that get_page_editable is only called for a page the caller    *)
(* has pinned (~UnpinnedEdit): otherwise the clock may take the very frame *)
(* that the walk ended at.  The argument: a frame leaves its chain only    *)
(* when nobody has it pinned and only the holder of vp_mutex moves links,  *)
(* so what a request has found out stays true until it fills its frame;    *)
(* an update holds the newest version of each page it edits, so its copy   *)
(* goes at the end of the chain, above every version there.  The last      *)
(* write of a page is therefore in the newest frame of its chain, and that *)
(* frame is dirty or the file has the same.                                *)
(***************************************************************************)
\* The frame was taken out of its chain by the get_vpage_available that runs.
Detached(f) == \E w \in Workers : pc[w] \in {"clean", "fill"} /\ req[w].victim = f

\* The frame holds a version of a page that requests can find.
Attached(f) == vp_pool[f].page # NoPage /\ ~Detached(f)

SamePage(f, g) == Attached(f) /\ Attached(g) /\ vp_pool[f].page = vp_pool[g].page

\* vp_map enters the chain of a page at its oldest version, and only there.
EntryInv ==
  /\ \A p \in PageNos, f \in Frames : vp_map[p] = f =>
       Attached(f) /\ vp_pool[f].page = p /\ vp_pool[f].prev = NoFrame
  /\ \A f \in Frames : Attached(f) =>
       /\ vp_map[vp_pool[f].page] # NoFrame
       /\ vp_pool[f].prev = NoFrame => vp_map[vp_pool[f].page] = f

\* next and prev mirror each other, and versions grow along next.
LinkInv ==
  /\ \A f \in Frames :
       vp_pool[f].page = NoPage => vp_pool[f].prev = NoFrame /\ vp_pool[f].next = NoFrame
  /\ \A f, n \in Frames : Attached(f) /\ vp_pool[f].next = n =>
       /\ SamePage(f, n) /\ vp_pool[n].prev = f
       /\ vp_pool[f].version < vp_pool[n].version
  /\ \A f, q \in Frames : Attached(f) /\ vp_pool[f].prev = q =>
       SamePage(f, q) /\ vp_pool[q].next = f

\* A page has one newest version in the pool.
NewestInv ==
  \A f, g \in Frames :
    SamePage(f, g) /\ vp_pool[f].next = NoFrame /\ vp_pool[g].next = NoFrame => f = g

ChainInv == EntryInv /\ LinkInv /\ NewestInv

\* Only the update that runs has frames above the newest stable version.
VersionInv ==
  /\ \A w \in Workers : Start(w) <= last_stable_version
  /\ \A f \in Frames :
       \/ vp_pool[f].version <= last_stable_version
       \/ /\ vp_pool[f].version = last_stable_version + 1
          /\ \E w \in Workers : IsUpdate(w)

\* What a request in progress has found out about the page it is for.
PageFacts(w) ==
  /\ pc[w] = "walk" =>
       Attached(req[w].cur) /\ vp_pool[req[w].cur].page = req[w].page
  /\ pc[w] = "evict" => ~OnlyVersion(vp_clock)
  /\ pc[w] \in LockedPcs /\ req[w].op = "read" =>
       /\ req[w].page <= page_count
       /\ pc[w] # "walk" => vp_map[req[w].page] = NoFrame
  /\ pc[w] \in LockedPcs /\ req[w].op = "append" => IsUpdate(w)
  /\ pc[w] \in LockedPcs /\ req[w].op = "edit" =>
       /\ IsUpdate(w) /\ req[w].old = NoFrame
       /\ \E f \in Frames : <<f, req[w].page>> \in held[w]
       /\ pc[w] # "walk" => /\ <<req[w].cur, req[w].page>> \in held[w]
                            /\ vp_pool[req[w].cur].version # Result(w)

PageInv == \A w \in Workers : PageFacts(w)

\* No page of the pool is beyond the end of the file.
FileInv == \A p \in PageNos : vp_map[p] # NoFrame => p <= page_count

\* An update only keeps the newest version of a page.
HeldInv ==
  \A w \in Workers :
    /\ pc[w] = "idle" => held[w] = {}
    /\ \A f \in Frames, p \in PageNos : <<f, p>> \in held[w] =>
         /\ vp_pool[f].page = p
         /\ IsUpdate(w) => vp_pool[f].next = NoFrame

CInv == IInv /\ ChainInv /\ VersionInv /\ PageInv /\ FileInv /\ HeldInv

-----------------------------------------------------------------------------
(* Pools with the same chains.                                             *)

SameLinks(q, r) ==
  \A g \in Frames : /\ r[g].page = q[g].page /\ r[g].version = q[g].version
                    /\ r[g].prev = q[g].prev /\ r[g].next = q[g].next

\* One frame changes, but for the fields the chains are made of.
LEMMA FrameLinks ==
  ASSUME NEW q \in [Frames -> VPage], NEW c, NEW x, NEW r, r = [q EXCEPT ![c] = x],
         c \in Frames => /\ x.page = q[c].page /\ x.version = q[c].version
                         /\ x.prev = q[c].prev /\ x.next = q[c].next
  PROVE  SameLinks(q, r)
BY DEF SameLinks

LEMMA UnpinnedLinks ==
  ASSUME TypeOK, NEW w \in Workers, NEW p \in PageNos
  PROVE  SameLinks(vp_pool, Unpinned(w, p))
<1> SUFFICES ASSUME NEW g \in Frames
             PROVE  LET x == Unpinned(w, p)[g]
                    IN  /\ x.page = vp_pool[g].page /\ x.version = vp_pool[g].version
                        /\ x.prev = vp_pool[g].prev /\ x.next = vp_pool[g].next
  BY DEF SameLinks
<1> DEFINE n == IF <<g, p>> \in held[w] THEN vp_pool[g].pins - 1 ELSE vp_pool[g].pins
<1>1. Unpinned(w, p)[g] = [vp_pool[g] EXCEPT !.pins = n]
  BY DEF Unpinned
<1>2. vp_pool[g] \in VPage
  BY DEF TypeOK
<1> HIDE DEF n
<1> QED BY <1>1, <1>2 DEF VPage

LEMMA PinLinks ==
  ASSUME NEW x \in VPage
  PROVE  /\ Pin(x).page = x.page /\ Pin(x).version = x.version
         /\ Pin(x).prev = x.prev /\ Pin(x).next = x.next
<1> DEFINE y == [x EXCEPT !.pins = x.pins + 1]
<1>1. y \in VPage /\ y.page = x.page /\ y.version = x.version /\ y.prev = x.prev
      /\ y.next = x.next
  BY DEF VPage
<1>2. Pin(x) = [y EXCEPT !.chance = TRUE]
  BY DEF Pin
<1> HIDE DEF y
<1> QED BY <1>1, <1>2 DEF VPage

LEMMA CleanLinks ==
  ASSUME NEW x \in VPage
  PROVE  /\ MarkedClean(x).page = x.page /\ MarkedClean(x).version = x.version
         /\ MarkedClean(x).prev = x.prev /\ MarkedClean(x).next = x.next
BY DEF MarkedClean, VPage

LEMMA SameLinksChain ==
  ASSUME NEW q, NEW r, NEW s, SameLinks(q, r), SameLinks(r, s)
  PROVE  SameLinks(q, s)
BY DEF SameLinks

\* Where the chains are as they were, so is what holds of them.
LEMMA KeepChain ==
  ASSUME IInv, ChainInv, SameLinks(vp_pool, vp_pool'), UNCHANGED vp_map,
         \A f \in Frames : Detached(f)' <=> Detached(f)
  PROVE  /\ ChainInv'
         /\ \A f \in Frames : Attached(f)' <=> Attached(f)
<1>1. \A f \in Frames : Attached(f)' <=> Attached(f)
  BY DEF Attached, SameLinks
<1>2. /\ \A f \in Frames : vp_pool[f].prev \in Frames \cup {NoFrame}
                           /\ vp_pool[f].next \in Frames \cup {NoFrame}
      /\ \A p \in PageNos : vp_map[p] \in Frames \cup {NoFrame}
  BY DEF IInv, TypeOK, VPage
<1>3. \A f, g \in Frames : SamePage(f, g)' <=> SamePage(f, g)
  BY <1>1 DEF SamePage, SameLinks
<1>4. EntryInv'
  BY <1>1, <1>2 DEF ChainInv, EntryInv, SameLinks
<1>5. LinkInv'
  BY <1>1, <1>2, <1>3 DEF ChainInv, LinkInv, SameLinks
<1>6. NewestInv'
  BY <1>3 DEF ChainInv, NewestInv, SameLinks
<1> QED BY <1>1, <1>4, <1>5, <1>6 DEF ChainInv

-----------------------------------------------------------------------------
(* Who has what.                                                           *)

LEMMA DetachedByHolder ==
  ASSUME MutexInv, NEW w \in Workers, pc[w] \in LockedPcs, NEW f
  PROVE  Detached(f) <=> pc[w] \in {"clean", "fill"} /\ req[w].victim = f
BY OnlyHolder DEF Detached, LockedPcs

LEMMA HeldAttached ==
  ASSUME IInv, HeldInv, NEW w \in Workers, NEW f \in Frames, NEW p \in PageNos,
         <<f, p>> \in held[w]
  PROVE  /\ Attached(f) /\ vp_pool[f].page = p
         /\ IsUpdate(w) => vp_pool[f].next = NoFrame
<1>1. vp_pool[f].page = p /\ (IsUpdate(w) => vp_pool[f].next = NoFrame)
  BY DEF HeldInv
<1>2. vp_pool[f].pins # 0
  BY HeldIsPinned DEF IInv
<1>3. ~Detached(f)
  BY <1>2 DEF Detached, IInv, RequestInv
<1> QED BY <1>1, <1>3, FramesAndPages DEF Attached

LEMMA OneUpdate ==
  ASSUME ScopeInv, NEW u \in Workers, NEW w \in Workers, IsUpdate(u), IsUpdate(w)
  PROVE  u = w
BY DEF ScopeInv

LEMMA VersionTypes ==
  ASSUME TypeOK
  PROVE  /\ last_stable_version \in Nat
         /\ \A f \in Frames : vp_pool[f].version \in Nat
         /\ \A w \in Workers : Start(w) \in Nat
BY FramesAndPages DEF TypeOK, VPage, Versions, Start

-----------------------------------------------------------------------------
(* Steps outside vp_mutex.                                                 *)

\* What the other workers do leaves a request in progress as it was.
LEMMA OutsideStep ==
  ASSUME CInv, SameLinks(vp_pool, vp_pool'),
         UNCHANGED <<vp_map, req, vp_clock, page_count>>,
         \A u \in Workers : pc'[u] \in LockedPcs \/ pc[u] \in LockedPcs =>
           pc'[u] = pc[u] /\ held'[u] = held[u] /\ scope'[u] = scope[u]
  PROVE  ChainInv' /\ PageInv' /\ FileInv'
<1>1. \A f \in Frames : Detached(f)' <=> Detached(f)
  BY DEF Detached, LockedPcs
<1>2. ChainInv' /\ \A f \in Frames : Attached(f)' <=> Attached(f)
  BY <1>1, KeepChain DEF CInv
<1>3. PageInv'
  <2> SUFFICES ASSUME NEW u \in Workers, pc[u] \in LockedPcs, pc'[u] = pc[u]
               PROVE  /\ pc[u] = "walk" =>
                           /\ Attached(req[u].cur)'
                           /\ vp_pool'[req[u].cur].page = req[u].page
                      /\ pc[u] = "evict" => ~OnlyVersion(vp_clock)'
                      /\ req[u].op = "read" =>
                           /\ req[u].page <= page_count
                           /\ pc[u] # "walk" => vp_map[req[u].page] = NoFrame
                      /\ req[u].op = "append" => IsUpdate(u)'
                      /\ req[u].op = "edit" =>
                           /\ IsUpdate(u)' /\ req[u].old = NoFrame
                           /\ \E f \in Frames : <<f, req[u].page>> \in held'[u]
                           /\ pc[u] # "walk" =>
                                /\ <<req[u].cur, req[u].page>> \in held'[u]
                                /\ vp_pool'[req[u].cur].version # Result(u)'
    BY DEF PageInv, PageFacts, LockedPcs
  <2>1. held'[u] = held[u] /\ scope'[u] = scope[u]
    OBVIOUS
  <2>2. IsUpdate(u)' <=> IsUpdate(u)
    BY <2>1 DEF IsUpdate
  <2>3. Result(u)' = Result(u)
    BY <2>1, <2>2 DEF Result, IsUpdate
  <2>4. pc[u] = "walk" => req[u].cur \in Frames
    BY DEF CInv, IInv, RequestInv
  <2>5. vp_clock \in Frames /\ \A x \in held[u] : x \in Frames \X PageNos
    BY DEF CInv, IInv, TypeOK
  <2>6. <<req[u].cur, req[u].page>> \in held[u] => req[u].cur \in Frames
    BY <2>5
  <2> QED BY <1>2, <2>1, <2>2, <2>3, <2>4, <2>5, <2>6
          DEF CInv, PageInv, PageFacts, SameLinks, OnlyVersion
<1>4. FileInv'
  BY DEF CInv, FileInv
<1> QED BY <1>2, <1>3, <1>4

\* Pins that go away, and nothing that changes for the updates.
LEMMA KeepHeld ==
  ASSUME CInv, SameLinks(vp_pool, vp_pool'),
         UNCHANGED <<last_stable_version, scope>>,
         \A u \in Workers : held'[u] \subseteq held[u] /\ (pc'[u] = "idle" => pc[u] = "idle")
  PROVE  VersionInv' /\ HeldInv'
<1>1. \A u \in Workers : (IsUpdate(u)' <=> IsUpdate(u)) /\ Start(u)' = Start(u)
  BY DEF IsUpdate, Start
<1>2. VersionInv'
  BY <1>1 DEF CInv, VersionInv, SameLinks
<1>3. HeldInv'
  BY <1>1 DEF CInv, HeldInv, SameLinks
<1> QED BY <1>2, <1>3

LEMMA BeginChains ==
  ASSUME CInv, NEW w \in Workers, BeginReadonly(w) \/ BeginEditable(w)
  PROVE  CInv'
<1>1. IInv'
  BY BeginReadonlyStep, BeginEditableStep DEF CInv
<1>2. /\ pc[w] = "idle" /\ pc' = [pc EXCEPT ![w] = "running"]
      /\ \E k \in {"read", "edit"} :
           scope' = [scope EXCEPT ![w] = [kind |-> k, start |-> last_stable_version]]
      /\ UNCHANGED <<poolVars, vp_mutex, fileVars, last_stable_version, req, held, closed>>
  BY DEF BeginReadonly, BeginEditable
<1>3. \A u \in Workers \ {w} : scope'[u] = scope[u] /\ pc'[u] = pc[u]
  BY <1>2 DEF CInv, IInv, TypeOK
<1>4. Start(w)' = last_stable_version /\ ~IsUpdate(w) /\ pc'[w] = "running" /\ held[w] = {}
  BY <1>2 DEF CInv, IInv, TypeOK, Start, IsUpdate, ScopeInv, HeldInv
<1>5. SameLinks(vp_pool, vp_pool')
  BY <1>2 DEF SameLinks, poolVars
<1>6. ChainInv' /\ PageInv' /\ FileInv'
  BY <1>2, <1>3, <1>4, <1>5, OutsideStep DEF LockedPcs, poolVars, fileVars
<1>7. VersionInv'
  <2>1. \A u \in Workers : IsUpdate(u) => IsUpdate(u)'
    BY <1>3, <1>4 DEF IsUpdate
  <2>2. \A u \in Workers \ {w} : Start(u)' = Start(u)
    BY <1>3 DEF Start
  <2> QED BY <1>2, <1>4, <2>1, <2>2, VersionTypes DEF CInv, IInv, VersionInv, poolVars
<1>8. HeldInv'
  <2>1. \A u \in Workers \ {w} : IsUpdate(u)' <=> IsUpdate(u)
    BY <1>3 DEF IsUpdate
  <2> QED BY <1>2, <1>3, <1>4, <2>1 DEF CInv, HeldInv, poolVars
<1> QED BY <1>1, <1>6, <1>7, <1>8 DEF CInv

LEMMA TerminateChains ==
  ASSUME CInv, NEW w \in Workers, Terminate(w)
  PROVE  CInv'
<1>1. IInv'
  BY TerminateStep DEF CInv
<1>2. /\ pc[w] = "running" /\ held[w] = {} /\ pc' = [pc EXCEPT ![w] = "idle"]
      /\ scope' = [scope EXCEPT ![w] = [kind |-> "none", start |-> 0]]
      /\ last_stable_version' = IF IsUpdate(w) THEN last_stable_version + 1
                                ELSE last_stable_version
      /\ UNCHANGED <<poolVars, vp_mutex, fileVars, req, held, closed>>
  BY DEF Terminate
<1>3. \A u \in Workers \ {w} : scope'[u] = scope[u] /\ pc'[u] = pc[u]
  BY <1>2 DEF CInv, IInv, TypeOK
<1>4. Start(w)' = 0 /\ ~IsUpdate(w)' /\ pc'[w] = "idle"
  BY <1>2 DEF CInv, IInv, TypeOK, Start, IsUpdate
<1>5. SameLinks(vp_pool, vp_pool')
  BY <1>2 DEF SameLinks, poolVars
<1>6. ChainInv' /\ PageInv' /\ FileInv'
  BY <1>2, <1>3, <1>4, <1>5, OutsideStep DEF LockedPcs, poolVars, fileVars
<1>7. VersionInv'
  <2>1. \A u \in Workers \ {w} : Start(u)' = Start(u) /\ (IsUpdate(u)' <=> IsUpdate(u))
    BY <1>3 DEF Start, IsUpdate
  <2>2. last_stable_version \in Nat /\ \A f \in Frames : vp_pool[f].version \in Nat
    BY VersionTypes DEF CInv, IInv
  <2>3. CASE IsUpdate(w)
    BY <1>2, <1>4, <2>1, <2>2, <2>3, VersionTypes DEF CInv, IInv, VersionInv, poolVars
  <2>4. CASE ~IsUpdate(w)
    BY <1>2, <1>4, <2>1, <2>2, <2>4, VersionTypes DEF CInv, IInv, VersionInv, poolVars
  <2> QED BY <2>3, <2>4
<1>8. HeldInv'
  <2>1. \A u \in Workers \ {w} : IsUpdate(u)' <=> IsUpdate(u)
    BY <1>3 DEF IsUpdate
  <2> QED BY <1>2, <1>3, <1>4, <2>1 DEF CInv, HeldInv, poolVars
<1> QED BY <1>1, <1>6, <1>7, <1>8 DEF CInv

LEMMA UseChains ==
  ASSUME CInv, NEW w \in Workers, WritePage(w) \/ Unpin(w)
  PROVE  CInv'
<1>1. IInv'
  BY WritePageStep, UnpinStep DEF CInv
<1>2. /\ pc[w] = "running"
      /\ UNCHANGED <<vp_map, vp_clock, vp_mutex, fileVars, scopeVars, pc, req, closed>>
      /\ \A u \in Workers \ {w} : held'[u] = held[u]
      /\ held'[w] \subseteq held[w]
  <2>1. CASE WritePage(w)
    BY <2>1 DEF WritePage
  <2>2. CASE Unpin(w)
    BY <2>2 DEF Unpin, CInv, IInv, TypeOK
  <2> QED BY <2>1, <2>2
<1>3. SameLinks(vp_pool, vp_pool')
  <2>0. vp_pool \in [Frames -> VPage]
    BY DEF CInv, IInv, TypeOK
  <2>1. PICK c, n : \/ vp_pool' = [vp_pool EXCEPT ![c] = [vp_pool[c] EXCEPT !.bytes = n]]
                    \/ vp_pool' = [vp_pool EXCEPT ![c] = [vp_pool[c] EXCEPT !.pins = n]]
    <3>1. CASE WritePage(w)
      <4>1. PICK h \in held[w] : vp_pool' = [vp_pool EXCEPT ![h[1]].bytes = Result(w)]
        BY <3>1 DEF WritePage
      <4> QED BY <4>1
    <3>2. CASE Unpin(w)
      <4>1. PICK h \in held[w] : vp_pool' = [vp_pool EXCEPT ![h[1]].pins = @ - 1]
        BY <3>2 DEF Unpin
      <4> QED BY <4>1
    <3> QED BY <3>1, <3>2
  <2>2. \A x \in VPage : LET b == [x EXCEPT !.bytes = n]
                         IN  /\ b.page = x.page /\ b.version = x.version
                             /\ b.prev = x.prev /\ b.next = x.next
    BY DEF VPage
  <2>3. \A x \in VPage : LET b == [x EXCEPT !.pins = n]
                         IN  /\ b.page = x.page /\ b.version = x.version
                             /\ b.prev = x.prev /\ b.next = x.next
    BY DEF VPage
  <2>4. CASE vp_pool' = [vp_pool EXCEPT ![c] = [vp_pool[c] EXCEPT !.bytes = n]]
    <3> DEFINE b == [vp_pool[c] EXCEPT !.bytes = n]
    <3>1. c \in Frames => /\ b.page = vp_pool[c].page /\ b.version = vp_pool[c].version
                          /\ b.prev = vp_pool[c].prev /\ b.next = vp_pool[c].next
      BY <2>0, <2>2
    <3>2. vp_pool' = [vp_pool EXCEPT ![c] = b]
      BY <2>4
    <3> HIDE DEF b
    <3> QED BY <2>0, <3>1, <3>2, FrameLinks
  <2>5. CASE vp_pool' = [vp_pool EXCEPT ![c] = [vp_pool[c] EXCEPT !.pins = n]]
    <3> DEFINE b == [vp_pool[c] EXCEPT !.pins = n]
    <3>1. c \in Frames => /\ b.page = vp_pool[c].page /\ b.version = vp_pool[c].version
                          /\ b.prev = vp_pool[c].prev /\ b.next = vp_pool[c].next
      BY <2>0, <2>3
    <3>2. vp_pool' = [vp_pool EXCEPT ![c] = b]
      BY <2>5
    <3> HIDE DEF b
    <3> QED BY <2>0, <3>1, <3>2, FrameLinks
  <2> QED BY <2>1, <2>4, <2>5
<1>4. ChainInv' /\ PageInv' /\ FileInv'
  BY <1>2, <1>3, OutsideStep DEF LockedPcs, fileVars, scopeVars
<1>5. VersionInv' /\ HeldInv'
  BY <1>2, <1>3, KeepHeld DEF scopeVars
<1> QED BY <1>1, <1>4, <1>5 DEF CInv

LEMMA CloseChains ==
  ASSUME CInv, Close
  PROVE  CInv'
<1>1. IInv'
  BY CloseStep DEF CInv
<1>2. UNCHANGED <<vp_map, vp_clock, vp_mutex, page_count, scopeVars, pc, req, held>>
  BY DEF Close
<1>3. SameLinks(vp_pool, vp_pool')
  <2>1. vp_pool \in [Frames -> VPage]
    BY DEF CInv, IInv, TypeOK
  <2>2. \A g \in Frames : vp_pool'[g] = IF vp_pool[g].next = NoFrame
                                        THEN MarkedClean(vp_pool[g]) ELSE vp_pool[g]
    BY DEF Close
  <2> QED BY <2>1, <2>2, CleanLinks DEF SameLinks
<1>4. ChainInv' /\ PageInv' /\ FileInv'
  BY <1>2, <1>3, OutsideStep DEF scopeVars
<1>5. VersionInv' /\ HeldInv'
  BY <1>2, <1>3, KeepHeld DEF scopeVars
<1> QED BY <1>1, <1>4, <1>5 DEF CInv

-----------------------------------------------------------------------------
(* Steps inside vp_mutex that leave the chains as they are.                *)

\* The other workers are outside vp_mutex.
LEMMA OnlyMine ==
  ASSUME MutexInv', NEW w \in Workers, pc'[w] \in LockedPcs, PageFacts(w)'
  PROVE  PageInv'
<1>1. \A u \in Workers \ {w} : pc'[u] \notin LockedPcs
  BY DEF MutexInv
<1> QED BY <1>1 DEF PageInv, PageFacts, LockedPcs

LEMMA LinksStep ==
  ASSUME CInv, IInv', NEW w \in Workers, pc'[w] \in LockedPcs,
         SameLinks(vp_pool, vp_pool'),
         UNCHANGED <<vp_map, page_count, held, scope, last_stable_version>>,
         \A u \in Workers \ {w} : pc'[u] = pc[u] /\ req'[u] = req[u],
         pc[w] \in {"clean", "fill"} <=> pc'[w] \in {"clean", "fill"},
         pc[w] \in {"clean", "fill"} => req'[w].victim = req[w].victim,
         PageFacts(w)'
  PROVE  CInv'
<1>1. \A f \in Frames : Detached(f)' <=> Detached(f)
  BY DEF Detached
<1>2. ChainInv'
  BY <1>1, KeepChain DEF CInv
<1>3. PageInv' /\ FileInv'
  BY OnlyMine DEF CInv, IInv, FileInv
<1>4. VersionInv' /\ HeldInv'
  BY KeepHeld DEF LockedPcs
<1> QED BY <1>2, <1>3, <1>4 DEF CInv

LEMMA EnterChains ==
  ASSUME CInv, IInv', NEW w \in Workers, NEW op \in {"read", "edit", "append"},
         NEW p, NEW where \in {"walk", "scan"}, NEW cur, Enter(w, op, p, where, cur),
         where = "walk" => cur \in Frames /\ Attached(cur) /\ vp_pool[cur].page = p,
         op = "read" => p <= page_count /\ (where = "scan" => vp_map[p] = NoFrame),
         op = "append" => IsUpdate(w),
         op = "edit" => /\ IsUpdate(w) /\ where = "walk"
                        /\ \E f \in Frames : <<f, p>> \in held[w]
  PROVE  CInv'
<1>1. /\ vp_mutex = NoWorker /\ pc' = [pc EXCEPT ![w] = where] /\ pc[w] = "running"
      /\ UNCHANGED <<poolVars, fileVars, scopeVars, held>>
      /\ req' = [req EXCEPT ![w] = [NoRequest EXCEPT !.op = op, !.page = p, !.cur = cur]]
  BY DEF Enter
<1>2. /\ pc'[w] = where
      /\ \A u \in Workers \ {w} : pc'[u] = pc[u] /\ req'[u] = req[u]
      /\ req'[w] = [NoRequest EXCEPT !.op = op, !.page = p, !.cur = cur]
  BY <1>1 DEF CInv, IInv, TypeOK
<1>3. /\ req'[w].op = op /\ req'[w].page = p /\ req'[w].cur = cur
      /\ req'[w].old = NoFrame
  BY <1>2 DEF NoRequest
<1>4. SameLinks(vp_pool, vp_pool')
  BY <1>1 DEF SameLinks, poolVars
<1>5. where = "walk" => Attached(cur)'
  BY <1>1, <1>2 DEF Attached, Detached, poolVars
<1>6. PageFacts(w)'
  BY <1>1, <1>2, <1>3, <1>5 DEF PageFacts, poolVars, fileVars, scopeVars, IsUpdate
<1> QED BY <1>1, <1>2, <1>4, <1>6, LinksStep
        DEF LockedPcs, poolVars, fileVars, scopeVars

LEMMA RequestChains ==
  ASSUME CInv, ~UnpinnedEdit, NEW w \in Workers,
         GetPageReadonly(w) \/ GetPageEditable(w) \/ AppendVPage(w)
  PROVE  CInv'
<1>1. IInv'
  BY RequestSteps DEF CInv
<1>2. 1 .. page_count \subseteq PageNos
  BY ConstantsAssumption DEF CInv, IInv, TypeOK, PageNos
<1>3. \A p \in PageNos : vp_map[p] # NoFrame =>
        vp_map[p] \in Frames /\ Attached(vp_map[p]) /\ vp_pool[vp_map[p]].page = p
  BY DEF CInv, ChainInv, EntryInv, IInv, TypeOK
<1>4. CASE GetPageReadonly(w)
  <2>1. PICK p \in 1 .. page_count : Lookup(w, "read", p)
    BY <1>4 DEF GetPageReadonly
  <2>2. p \in PageNos /\ p <= page_count
    BY <1>2, <2>1 DEF CInv, IInv, TypeOK
  <2>3. CASE vp_map[p] = NoFrame
    BY <1>1, <2>1, <2>2, <2>3, EnterChains DEF Lookup
  <2>4. CASE vp_map[p] # NoFrame
    BY <1>1, <1>3, <2>1, <2>2, <2>4, EnterChains DEF Lookup
  <2> QED BY <2>3, <2>4
<1>5. CASE GetPageEditable(w)
  <2>1. IsUpdate(w)
    BY <1>5 DEF GetPageEditable
  <2>2. PICK p \in 1 .. page_count :
          (\E f \in Frames : <<f, p>> \in held[w]) /\ Lookup(w, "edit", p)
    BY <1>5 DEF GetPageEditable
  <2>3. p \in PageNos
    BY <1>2, <2>2
  <2>4. vp_map[p] # NoFrame
    BY <2>2, <2>3, HeldAttached DEF CInv, ChainInv, EntryInv
  <2> QED BY <1>1, <1>3, <2>1, <2>2, <2>3, <2>4, EnterChains DEF Lookup
<1>6. CASE AppendVPage(w)
  <2>1. IsUpdate(w) /\ Enter(w, "append", NoPage, "scan", NoFrame)
    BY <1>6 DEF AppendVPage
  <2> QED BY <1>1, <2>1, EnterChains
<1> QED BY <1>4, <1>5, <1>6

LEMMA WalkNextChains ==
  ASSUME CInv, NEW w \in Workers, WalkNext(w)
  PROVE  CInv'
<1> DEFINE c == req[w].cur
<1>1. IInv'
  BY WalkNextStep DEF CInv
<1>2. /\ pc[w] = "walk" /\ c \in Frames
      /\ vp_pool[c].next \in Frames \ {NoFrame}
      /\ UNCHANGED <<poolVars, vp_mutex, fileVars, scopeVars, pc, held>>
      /\ req' = [req EXCEPT ![w] = [req[w] EXCEPT !.cur = vp_pool[c].next]]
  BY DEF WalkNext, Newer, CInv, IInv, RequestInv, TypeOK, VPage
<1>3. PICK n \in Frames : n = vp_pool[c].next
  BY <1>2
<1>4. Attached(n) /\ vp_pool[n].page = req[w].page
  <2>1. Attached(c) /\ vp_pool[c].page = req[w].page
    BY <1>2 DEF CInv, PageInv, PageFacts
  <2> QED BY <1>2, <1>3, <2>1 DEF CInv, ChainInv, LinkInv, SamePage
<1>5. /\ \A u \in Workers \ {w} : req'[u] = req[u]
      /\ req'[w].op = req[w].op /\ req'[w].page = req[w].page
      /\ req'[w].old = req[w].old /\ req'[w].cur = n
  <2>1. req[w] \in Request /\ req'[w] = [req[w] EXCEPT !.cur = n]
        /\ \A u \in Workers \ {w} : req'[u] = req[u]
    BY <1>2, <1>3 DEF CInv, IInv, TypeOK
  <2>2. /\ req'[w].op = req[w].op /\ req'[w].page = req[w].page
        /\ req'[w].old = req[w].old /\ req'[w].cur = n
    BY <2>1 DEF Request
  <2> QED BY <2>1, <2>2
<1> HIDE DEF c
<1>6. Attached(n)'
  BY <1>2, <1>4, <1>5 DEF Attached, Detached, poolVars
<1>7. PageFacts(w)'
  BY <1>2, <1>4, <1>5, <1>6
     DEF CInv, PageInv, PageFacts, poolVars, fileVars, scopeVars, IsUpdate, LockedPcs
<1>8. SameLinks(vp_pool, vp_pool')
  BY <1>2 DEF SameLinks, poolVars
<1> QED BY <1>1, <1>2, <1>5, <1>7, <1>8, LinksStep
        DEF LockedPcs, poolVars, fileVars, scopeVars

\* The walk of an update ends at the newest version of the page.
LEMMA WalkEndsAtNewest ==
  ASSUME CInv, NEW w \in Workers, pc[w] = "walk", ~Newer(w), IsUpdate(w)
  PROVE  vp_pool[req[w].cur].next = NoFrame
<1>1. req[w].cur \in Frames
  BY DEF CInv, IInv, RequestInv
<1>2. Result(w) = last_stable_version + 1 /\ last_stable_version \in Nat
  BY VersionTypes DEF CInv, IInv, ScopeInv, Result, Start
<1>3. SUFFICES ASSUME vp_pool[req[w].cur].next # NoFrame
               PROVE  FALSE
  OBVIOUS
<1>4. PICK n \in Frames : n = vp_pool[req[w].cur].next
  BY <1>1, <1>3 DEF CInv, IInv, TypeOK, VPage
<1>5. ~(vp_pool[n].version <= Result(w))
  BY <1>3, <1>4 DEF Newer
<1>6. /\ vp_pool[n].version \in Nat
      /\ \/ vp_pool[n].version <= last_stable_version
         \/ vp_pool[n].version = last_stable_version + 1
  BY VersionTypes DEF CInv, IInv, VersionInv
<1> QED BY <1>2, <1>5, <1>6

\* A request returns frame f, whatever it did to the chains.
LEMMA DeliverChains ==
  ASSUME CInv, IInv', NEW w \in Workers, NEW p \in PageNos, NEW f \in Frames,
         pc[w] \in LockedPcs, Deliver(w, f, p), UNCHANGED scopeVars,
         ChainInv', VersionInv', FileInv',
         vp_pool'[f].page = p, IsUpdate(w) => vp_pool'[f].next = NoFrame,
         \A u \in Workers, g \in Frames, q \in PageNos :
           <<g, q>> \in held[u] /\ (u # w \/ q # p) =>
             vp_pool'[g].page = q /\ (IsUpdate(u) => vp_pool'[g].next = NoFrame)
  PROVE  CInv'
<1>1. /\ pc' = [pc EXCEPT ![w] = "running"]
      /\ held' = [held EXCEPT ![w] = {h \in held[w] : h[2] # p} \cup {<<f, p>>}]
  BY DEF Deliver
<1>2. /\ pc'[w] = "running" /\ held'[w] = {h \in held[w] : h[2] # p} \cup {<<f, p>>}
      /\ \A u \in Workers \ {w} : pc'[u] = pc[u] /\ held'[u] = held[u]
  BY <1>1 DEF CInv, IInv, TypeOK
<1>3. PageInv'
  BY <1>2, OnlyHolder DEF CInv, IInv, PageInv, PageFacts, LockedPcs
<1>4. HeldInv'
  <2>1. \A u \in Workers : IsUpdate(u)' <=> IsUpdate(u)
    BY DEF IsUpdate, scopeVars
  <2>2. \A u \in Workers : pc'[u] = "idle" => held'[u] = {}
    BY <1>2 DEF CInv, HeldInv
  <2>3. \A u \in Workers, g \in Frames, q \in PageNos :
          <<g, q>> \in held'[u] =>
            vp_pool'[g].page = q /\ (IsUpdate(u) => vp_pool'[g].next = NoFrame)
    <3> SUFFICES ASSUME NEW u \in Workers, NEW g \in Frames, NEW q \in PageNos,
                        <<g, q>> \in held'[u]
                 PROVE  vp_pool'[g].page = q /\ (IsUpdate(u) => vp_pool'[g].next = NoFrame)
      OBVIOUS
    <3>1. CASE u = w /\ <<g, q>> = <<f, p>>
      BY <3>1
    <3>2. CASE <<g, q>> \in held[u] /\ (u # w \/ q # p)
      BY <3>2
    <3> QED BY <1>2, <3>1, <3>2
  <2> QED BY <2>1, <2>2, <2>3 DEF HeldInv
<1> QED BY <1>3, <1>4 DEF CInv

LEMMA WalkEndChains ==
  ASSUME CInv, NEW w \in Workers, WalkEnd(w)
  PROVE  CInv'
<1>1. IInv'
  BY WalkEndStep DEF CInv
<1>2. PICK f \in Frames, p \in PageNos : f = req[w].cur /\ p = req[w].page
  BY DEF CInv, IInv, RequestInv, WalkEnd, LockedPcs
<1>3. /\ pc[w] = "walk" /\ pc[w] \in LockedPcs /\ ~Newer(w)
      /\ Attached(f) /\ vp_pool[f].page = p
      /\ IsUpdate(w) => vp_pool[f].next = NoFrame
  BY <1>2, WalkEndsAtNewest DEF WalkEnd, LockedPcs, CInv, PageInv, PageFacts
<1>4. CASE req[w].op = "edit" /\ vp_pool[f].version # Result(w)
  <2>1. /\ pc' = [pc EXCEPT ![w] = "scan"] /\ pc'[w] = "scan"
        /\ \A u \in Workers \ {w} : pc'[u] = pc[u]
        /\ UNCHANGED <<vp_pool, req, held, vp_map, fileVars, scopeVars>>
    BY <1>2, <1>4 DEF WalkEnd, CInv, IInv, TypeOK
  <2>2. /\ IsUpdate(w) /\ req[w].old = NoFrame
        /\ \E g \in Frames : <<g, p>> \in held[w]
    BY <1>2, <1>3, <1>4 DEF CInv, PageInv, PageFacts
  <2>3. <<f, p>> \in held[w]
    <3>1. PICK g \in Frames : <<g, p>> \in held[w]
      BY <2>2
    <3>2. Attached(g) /\ vp_pool[g].page = p /\ vp_pool[g].next = NoFrame
      BY <2>2, <3>1, HeldAttached DEF CInv
    <3>3. f = g
      BY <1>3, <2>2, <3>2 DEF CInv, ChainInv, NewestInv, SamePage
    <3> QED BY <3>1, <3>3
  <2>4. SameLinks(vp_pool, vp_pool')
    BY <2>1 DEF SameLinks
  <2>5. Result(w)' = Result(w) /\ (IsUpdate(w)' <=> IsUpdate(w))
    BY <2>1 DEF Result, IsUpdate, scopeVars
  <2>6. PageFacts(w)'
    BY <1>2, <1>4, <2>1, <2>2, <2>3, <2>5 DEF PageFacts
  <2> QED BY <1>1, <1>3, <2>1, <2>4, <2>6, LinksStep DEF LockedPcs, scopeVars, fileVars
<1>5. CASE ~(req[w].op = "edit" /\ vp_pool[f].version # Result(w))
  <2>1. /\ vp_pool' = [Unpinned(w, p) EXCEPT ![f] = Pin(@)]
        /\ Deliver(w, f, p)
        /\ UNCHANGED <<vp_map, vp_clock, fileVars, scopeVars, closed, histVars>>
    BY <1>2, <1>5 DEF WalkEnd
  <2>2. SameLinks(vp_pool, vp_pool')
    <3> DEFINE q == Unpinned(w, p)
    <3>1. q \in [Frames -> VPage] /\ SameLinks(vp_pool, q)
      BY UnpinnedType, UnpinnedLinks DEF CInv, IInv
    <3>2. vp_pool' = [q EXCEPT ![f] = Pin(q[f])]
      BY <2>1
    <3> HIDE DEF q
    <3>3. SameLinks(q, vp_pool')
      <4>1. q[f] \in VPage
        BY <3>1
      <4> DEFINE x == Pin(q[f])
      <4>2. x.page = q[f].page /\ x.version = q[f].version
            /\ x.prev = q[f].prev /\ x.next = q[f].next
        BY <4>1, PinLinks
      <4>3. vp_pool' = [q EXCEPT ![f] = x]
        BY <3>2
      <4> HIDE DEF x
      <4> QED BY <3>1, <4>2, <4>3, FrameLinks
    <3> QED BY <3>1, <3>3, SameLinksChain
  <2>3. \A g \in Frames : ~Detached(g) /\ ~Detached(g)'
    <3>1. pc' = [pc EXCEPT ![w] = "running"]
      BY <2>1 DEF Deliver
    <3>2. \A u \in Workers : pc[u] \notin {"clean", "fill"} /\ pc'[u] \notin {"clean", "fill"}
      BY <1>3, <3>1, OnlyHolder DEF LockedPcs, CInv, IInv, TypeOK
    <3> QED BY <3>2 DEF Detached
  <2>4. ChainInv'
    BY <2>1, <2>2, <2>3, KeepChain DEF CInv
  <2>5. VersionInv'
    BY <2>1, <2>2 DEF CInv, VersionInv, SameLinks, scopeVars, Start, IsUpdate
  <2>6. FileInv'
    BY <2>1 DEF CInv, FileInv, fileVars
  <2>7. \A u \in Workers, g \in Frames, q \in PageNos : <<g, q>> \in held[u] =>
          vp_pool'[g].page = q /\ (IsUpdate(u) => vp_pool'[g].next = NoFrame)
    BY <2>2 DEF CInv, HeldInv, SameLinks
  <2>8. vp_pool'[f].page = p /\ (IsUpdate(w) => vp_pool'[f].next = NoFrame)
    BY <1>3, <2>2 DEF SameLinks
  <2> QED BY <1>1, <1>3, <2>1, <2>4, <2>5, <2>6, <2>7, <2>8, DeliverChains
<1> QED BY <1>4, <1>5

LEMMA ScanPassChains ==
  ASSUME CInv, NEW w \in Workers,
         ScanPinned(w) \/ ScanSecondChance(w) \/ ScanInUse(w) \/ ScanNotInUse(w)
  PROVE  CInv'
<1>1. IInv'
  BY ScanPassStep DEF CInv
<1>2. /\ pc[w] = "scan" /\ vp_clock' = Hand /\ Hand \in Frames
      /\ UNCHANGED <<vp_map, vp_mutex, fileVars, scopeVars, req, held, closed, histVars>>
      /\ pc'[w] \in {"scan", "evict"}
      /\ \A u \in Workers \ {w} : pc'[u] = pc[u]
      /\ pc'[w] = "evict" => ~OnlyVersion(Hand)
  BY HandType DEF ScanPinned, ScanSecondChance, ScanInUse, ScanNotInUse, Scanning, TypeOK,
     CInv, IInv
<1>3. SameLinks(vp_pool, vp_pool')
  <2>1. CASE UNCHANGED vp_pool
    BY <2>1 DEF SameLinks
  <2>2. CASE ScanSecondChance(w)
    <3>1. PICK c \in Frames : c = Hand
      BY <1>2
    <3> DEFINE x == [vp_pool[c] EXCEPT !.chance = FALSE]
    <3>2. vp_pool' = [vp_pool EXCEPT ![c] = x]
      BY <2>2, <3>1 DEF ScanSecondChance
    <3>3. vp_pool \in [Frames -> VPage] /\ vp_pool[c] \in VPage
      BY DEF CInv, IInv, TypeOK
    <3>4. x.page = vp_pool[c].page /\ x.version = vp_pool[c].version
          /\ x.prev = vp_pool[c].prev /\ x.next = vp_pool[c].next
      BY <3>3 DEF VPage
    <3> HIDE DEF x
    <3> QED BY <3>2, <3>3, <3>4, FrameLinks
  <2> QED BY <2>1, <2>2 DEF ScanPinned, ScanInUse, ScanNotInUse
<1>4. PageFacts(w)'
  <2>1. pc'[w] = "evict" => ~OnlyVersion(vp_clock)'
    BY <1>2, <1>3 DEF OnlyVersion, SameLinks
  <2>2. PageFacts(w)
    BY DEF CInv, PageInv
  <2>3. /\ IsUpdate(w)' <=> IsUpdate(w)
        /\ Result(w)' = Result(w)
    BY <1>2 DEF Result, IsUpdate, scopeVars
  <2>4. \A x \in held[w] : x \in Frames \X PageNos
    BY DEF CInv, IInv, TypeOK
  <2>5. <<req[w].cur, req[w].page>> \in held[w] => req[w].cur \in Frames
    BY <2>4
  <2> QED BY <1>2, <1>3, <2>1, <2>2, <2>3, <2>5
          DEF PageFacts, LockedPcs, fileVars, SameLinks
<1> QED BY <1>1, <1>2, <1>3, <1>4, LinksStep DEF LockedPcs, scopeVars, fileVars

\* get_vpage_available returns to the request: an edit is for a page in the
\* pool, so the frame is always the one to be filled.
LEMMA FoundVictim ==
  ASSUME CInv, NEW w \in Workers, NEW f \in Frames,
         pc[w] \in {"scan", "evict", "clean"}, Found(w, f)
  PROVE  /\ pc'[w] = "fill" /\ req'[w].victim = f
         /\ \A u \in Workers \ {w} : pc'[u] = pc[u] /\ req'[u] = req[u]
         /\ req'[w].op = req[w].op /\ req'[w].page = req[w].page
         /\ req'[w].cur = req[w].cur /\ req'[w].old = req[w].old
<1>1. ~NeedsOldPage(w)
  <2> SUFFICES ASSUME req[w].op = "edit" PROVE req[w].cur # NoFrame
    BY DEF NeedsOldPage
  <2>1. <<req[w].cur, req[w].page>> \in held[w]
    BY DEF CInv, PageInv, PageFacts, LockedPcs
  <2>2. <<req[w].cur, req[w].page>> \in Frames \X PageNos
    BY <2>1 DEF CInv, IInv, TypeOK
  <2> QED BY <2>2, FramesAndPages
<1>2. /\ req' = [req EXCEPT ![w] = [req[w] EXCEPT !.victim = f, !.clean = NoFrame]]
      /\ pc' = [pc EXCEPT ![w] = "fill"]
  BY <1>1 DEF Found, CInv, IInv, TypeOK
<1>3. /\ req'[w] = [req[w] EXCEPT !.victim = f, !.clean = NoFrame]
      /\ pc'[w] = "fill"
      /\ \A u \in Workers \ {w} : pc'[u] = pc[u] /\ req'[u] = req[u]
  BY <1>2 DEF CInv, IInv, TypeOK
<1>4. req[w] \in Request
  BY DEF CInv, IInv, TypeOK
<1>5. /\ req'[w].op = req[w].op /\ req'[w].page = req[w].page
      /\ req'[w].cur = req[w].cur /\ req'[w].old = req[w].old /\ req'[w].victim = f
  BY <1>3, <1>4 DEF Request
<1> QED BY <1>3, <1>5

LEMMA KeepFacts ==
  ASSUME CInv, NEW w \in Workers, pc[w] \in {"scan", "evict", "clean"},
         pc'[w] \in {"clean", "fill"}, UNCHANGED <<scope, held, page_count>>,
         req'[w].op = req[w].op, req'[w].page = req[w].page,
         req'[w].cur = req[w].cur, req'[w].old = req[w].old,
         \A g \in Frames : vp_pool'[g].version = vp_pool[g].version,
         \A p \in PageNos : vp_map[p] = NoFrame => vp_map'[p] = NoFrame
  PROVE  PageFacts(w)'
<1>1. PageFacts(w) /\ pc[w] \in LockedPcs
  BY DEF CInv, PageInv, LockedPcs
<1>2. (IsUpdate(w)' <=> IsUpdate(w)) /\ Result(w)' = Result(w)
  BY DEF IsUpdate, Result
<1>3. req[w].op = "read" => req[w].page \in PageNos
  BY <1>1 DEF CInv, IInv, RequestInv
<1>4. <<req[w].cur, req[w].page>> \in held[w] => req[w].cur \in Frames
  BY DEF CInv, IInv, TypeOK
<1> QED BY <1>1, <1>2, <1>3, <1>4 DEF PageFacts

LEMMA CleanPreviousChains ==
  ASSUME CInv, NEW w \in Workers, CleanPrevious(w)
  PROVE  CInv'
<1>1. IInv'
  BY CleanPreviousStep DEF CInv
<1>2. PICK f \in Frames : f = req[w].victim
  BY DEF CleanPrevious, CInv, IInv, RequestInv
<1>3. /\ pc[w] = "clean"
      /\ UNCHANGED <<vp_map, vp_clock, vp_mutex, fileVars, scopeVars, held, closed>>
  BY DEF CleanPrevious
<1>4. SameLinks(vp_pool, vp_pool')
  <2>1. vp_pool \in [Frames -> VPage]
    BY DEF CInv, IInv, TypeOK
  <2> DEFINE c == req[w].clean  x == MarkedClean(vp_pool[c])
  <2>2. vp_pool' = [vp_pool EXCEPT ![c] = x]
    BY DEF CleanPrevious
  <2>3. c \in Frames => x.page = vp_pool[c].page /\ x.version = vp_pool[c].version
                        /\ x.prev = vp_pool[c].prev /\ x.next = vp_pool[c].next
    BY <2>1, CleanLinks
  <2> HIDE DEF x, c
  <2> QED BY <2>1, <2>2, <2>3, FrameLinks
<1>5. /\ pc'[w] \in {"clean", "fill"} /\ req'[w].victim = f
      /\ \A u \in Workers \ {w} : pc'[u] = pc[u] /\ req'[u] = req[u]
      /\ req'[w].op = req[w].op /\ req'[w].page = req[w].page
      /\ req'[w].cur = req[w].cur /\ req'[w].old = req[w].old
  <2>1. CASE NextToClean(w) # NoFrame
    <3> DEFINE n == NextToClean(w)
    <3>1. req' = [req EXCEPT ![w] = [req[w] EXCEPT !.clean = n]] /\ UNCHANGED pc
      BY <2>1 DEF CleanPrevious
    <3>2. req'[w] = [req[w] EXCEPT !.clean = n] /\ req[w] \in Request
          /\ \A u \in Workers \ {w} : req'[u] = req[u]
      BY <3>1 DEF CInv, IInv, TypeOK
    <3> HIDE DEF n
    <3>3. /\ req'[w].op = req[w].op /\ req'[w].page = req[w].page
          /\ req'[w].cur = req[w].cur /\ req'[w].old = req[w].old
          /\ req'[w].victim = req[w].victim
      BY <3>2 DEF Request
    <3> QED BY <1>2, <1>3, <3>1, <3>2, <3>3
  <2>2. CASE NextToClean(w) = NoFrame
    <3>1. Found(w, f)
      BY <1>2, <2>2 DEF CleanPrevious
    <3> QED BY <1>3, <3>1, FoundVictim
  <2> QED BY <2>1, <2>2
<1>6. PageFacts(w)'
  BY <1>3, <1>4, <1>5, KeepFacts DEF SameLinks, fileVars, scopeVars
<1> QED BY <1>1, <1>2, <1>3, <1>4, <1>5, <1>6, LinksStep
        DEF LockedPcs, fileVars, scopeVars

-----------------------------------------------------------------------------
(* Frames that leave their chain.                                          *)

\* A frame with neither a previous nor a next version is alone: the oldest
\* of any others would have to be the one that vp_map enters at.
LEMMA OnlyOne ==
  ASSUME IInv, ChainInv, NEW f \in Frames, NEW g \in Frames, SamePage(f, g),
         OnlyVersion(f)
  PROVE  g = f
<1> SUFFICES ASSUME g # f PROVE FALSE
  OBVIOUS
<1> DEFINE S == {h \in Frames \ {f} : SamePage(f, h)}
           R == {ss \in Nat \X Nat : ss[1] < ss[2]}
           T == {vp_pool[h].version : h \in S}
<1>1. IsWellFoundedOn(R, Nat)
  BY NatLessThanWellFounded DEF OpToRel
<1>2. T \subseteq Nat /\ T # {}
  BY VersionTypes DEF IInv
<1>3. \E x \in T : \A y \in T : <<y, x>> \notin R
  <2> HIDE DEF R, T
  <2> QED BY <1>1, <1>2, WFMin
<1>4. PICK m \in S : \A h \in S : ~(vp_pool[h].version < vp_pool[m].version)
  BY <1>2, <1>3
<1>5. m \in Frames /\ m # f /\ SamePage(f, m) /\ Attached(m) /\ Attached(f)
  BY DEF SamePage
<1>6. vp_map[vp_pool[f].page] = f
  BY <1>5 DEF ChainInv, EntryInv, OnlyVersion
<1>7. vp_pool[m].prev # NoFrame
  BY <1>5, <1>6 DEF ChainInv, EntryInv, SamePage
<1>8. PICK q \in Frames : q = vp_pool[m].prev
  BY <1>5, <1>7 DEF IInv, TypeOK, VPage
<1>9. SamePage(m, q) /\ vp_pool[q].next = m
  BY <1>5, <1>7, <1>8 DEF ChainInv, LinkInv
<1>10. vp_pool[q].version < vp_pool[m].version
  BY <1>5, <1>9, FramesAndPages DEF ChainInv, LinkInv, SamePage
<1>11. q # f
  BY <1>5, <1>9, FramesAndPages DEF OnlyVersion
<1>12. q \in S
  BY <1>5, <1>9, <1>11 DEF SamePage
<1> QED BY <1>4, <1>10, <1>12

LEMMA LinkTypes ==
  ASSUME IInv
  PROVE  \A f \in Frames :
           /\ vp_pool[f].prev \in Frames \cup {NoFrame}
           /\ vp_pool[f].next \in Frames \cup {NoFrame}
           /\ vp_pool[f].page \in PageNos \cup {NoPage}
           /\ vp_pool[f].version \in Nat
BY VersionTypes DEF IInv, TypeOK, VPage

\* The only version of a page leaves the pool.
LEMMA DetachAlone ==
  ASSUME IInv, ChainInv, NEW f \in Frames, SameLinks(vp_pool, vp_pool'), OnlyVersion(f),
         \A g \in Frames : ~Detached(g) /\ (Detached(g)' <=> g = f),
         vp_map' = IF vp_pool[f].page # NoPage
                     THEN [vp_map EXCEPT ![vp_pool[f].page] = NoFrame] ELSE vp_map
  PROVE  ChainInv'
<1>1. \A g \in Frames : Attached(g)' <=> Attached(g) /\ g # f
  BY DEF Attached, SameLinks
<1>2. \A g, h \in Frames : SamePage(g, h)' <=> SamePage(g, h) /\ g # f /\ h # f
  BY <1>1 DEF SamePage, SameLinks
<1>3. \A g \in Frames \ {f} : Attached(g) => vp_pool[g].page # vp_pool[f].page
  BY OnlyOne DEF SamePage, Attached
<1>4. \A p \in PageNos : /\ vp_map[p] \in Frames \cup {NoFrame}
                         /\ vp_map'[p] = IF p = vp_pool[f].page THEN NoFrame ELSE vp_map[p]
  <2>1. vp_map \in [PageNos -> Frames \cup {NoFrame}]
    BY DEF IInv, TypeOK
  <2>2. CASE vp_pool[f].page = NoPage
    BY <2>1, <2>2, FramesAndPages
  <2>3. CASE vp_pool[f].page # NoPage
    BY <2>1, <2>3
  <2> QED BY <2>2, <2>3
<1>5. EntryInv'
  <2>1. ASSUME NEW p \in PageNos, NEW e \in Frames, vp_map'[p] = e
        PROVE  Attached(e)' /\ vp_pool'[e].page = p /\ vp_pool'[e].prev = NoFrame
    <3>1. vp_map[p] = e /\ p # vp_pool[f].page
      BY <1>4, <2>1, FramesAndPages
    <3>2. Attached(e) /\ vp_pool[e].page = p /\ vp_pool[e].prev = NoFrame
      BY <3>1 DEF ChainInv, EntryInv
    <3> QED BY <1>1, <3>1, <3>2 DEF SameLinks
  <2>2. ASSUME NEW g \in Frames, Attached(g)'
        PROVE  /\ vp_map'[vp_pool'[g].page] # NoFrame
               /\ vp_pool'[g].prev = NoFrame => vp_map'[vp_pool'[g].page] = g
    <3>1. Attached(g) /\ g # f /\ vp_pool'[g].page = vp_pool[g].page
          /\ vp_pool'[g].prev = vp_pool[g].prev
      BY <1>1, <2>2 DEF SameLinks
    <3>2. vp_pool[g].page \in PageNos /\ vp_pool[g].page # vp_pool[f].page
      BY <1>3, <3>1, LinkTypes DEF Attached
    <3>3. vp_map[vp_pool[g].page] # NoFrame
          /\ (vp_pool[g].prev = NoFrame => vp_map[vp_pool[g].page] = g)
      BY <3>1 DEF ChainInv, EntryInv
    <3> QED BY <1>4, <3>1, <3>2, <3>3
  <2> QED BY <2>1, <2>2 DEF EntryInv
<1>6. LinkInv'
  <2>1. \A g \in Frames : Attached(g) => vp_pool[g].prev # f /\ vp_pool[g].next # f
    BY FramesAndPages DEF ChainInv, LinkInv, OnlyVersion, SamePage, Attached
  <2> QED BY <1>1, <1>2, <2>1, LinkTypes DEF ChainInv, LinkInv, SameLinks
<1>7. NewestInv'
  BY <1>2 DEF ChainInv, NewestInv, SameLinks
<1> QED BY <1>5, <1>6, <1>7 DEF ChainInv

\* One of several versions of a page leaves its chain.
LEMMA DetachVersion ==
  ASSUME IInv, ChainInv, NEW f \in Frames, ~OnlyVersion(f),
         NEW prev \in Frames \cup {NoFrame}, prev = vp_pool[f].prev,
         NEW next \in Frames \cup {NoFrame}, next = vp_pool[f].next,
         \A g \in Frames :
           /\ vp_pool'[g].page = vp_pool[g].page /\ vp_pool'[g].version = vp_pool[g].version
           /\ vp_pool'[g].next = IF g = prev THEN next ELSE vp_pool[g].next
           /\ vp_pool'[g].prev = IF g = next THEN prev ELSE vp_pool[g].prev,
         \A g \in Frames : ~Detached(g) /\ (Detached(g)' <=> g = f),
         vp_map' = IF prev = NoFrame THEN [vp_map EXCEPT ![vp_pool[f].page] = next]
                   ELSE vp_map
  PROVE  /\ ChainInv'
         /\ \A p \in PageNos : vp_map'[p] = NoFrame <=> vp_map[p] = NoFrame
         /\ \A g \in Frames : vp_pool[g].next = NoFrame => vp_pool'[g].next = NoFrame
<1>1. Attached(f) /\ vp_pool[f].page \in PageNos
  BY LinkTypes DEF Attached, OnlyVersion, ChainInv, LinkInv
<1>2. \A g \in Frames : Attached(g)' <=> Attached(g) /\ g # f
  BY DEF Attached
<1>3. \A g, h \in Frames : SamePage(g, h)' <=> SamePage(g, h) /\ g # f /\ h # f
  BY <1>2 DEF SamePage
<1>4. /\ prev # NoFrame => SamePage(f, prev) /\ vp_pool[prev].next = f
      /\ next # NoFrame => SamePage(f, next) /\ vp_pool[next].prev = f
                           /\ vp_pool[f].version < vp_pool[next].version
  BY <1>1 DEF ChainInv, LinkInv
<1>5. prev # NoFrame => vp_pool[prev].version < vp_pool[f].version
  <2> SUFFICES ASSUME prev # NoFrame PROVE vp_pool[prev].version < vp_pool[f].version
    OBVIOUS
  <2>1. prev \in Frames /\ Attached(prev) /\ vp_pool[prev].next = f
    BY <1>4 DEF SamePage
  <2>2. LinkInv
    BY DEF ChainInv
  <2> QED BY <2>1, <2>2 DEF LinkInv
<1>6. prev # f /\ next # f /\ (prev # NoFrame \/ next # NoFrame)
  <2>1. vp_pool[f].version \in Nat
    BY LinkTypes
  <2>2. prev = f => prev # NoFrame
    BY FramesAndPages
  <2>3. next = f => next # NoFrame
    BY FramesAndPages
  <2> QED BY <1>4, <1>5, <2>1, <2>2, <2>3 DEF OnlyVersion
<1>7. \A p \in PageNos :
        /\ vp_map[p] \in Frames \cup {NoFrame}
        /\ vp_map'[p] = IF prev = NoFrame /\ p = vp_pool[f].page THEN next ELSE vp_map[p]
  BY DEF IInv, TypeOK
<1>8. EntryInv'
  <2>1. ASSUME NEW p \in PageNos, NEW e \in Frames, vp_map'[p] = e
        PROVE  Attached(e)' /\ vp_pool'[e].page = p /\ vp_pool'[e].prev = NoFrame
    <3>1. CASE prev = NoFrame /\ p = vp_pool[f].page
      <4>1. e = next /\ next # NoFrame
        BY <1>7, <2>1, <3>1, FramesAndPages
      <4>2. Attached(e) /\ e # f /\ vp_pool[e].page = p
        BY <1>4, <1>6, <3>1, <4>1 DEF SamePage
      <4> QED BY <1>2, <3>1, <4>1, <4>2
    <3>2. CASE ~(prev = NoFrame /\ p = vp_pool[f].page)
      <4>1. vp_map[p] = e
        BY <1>7, <2>1, <3>2
      <4>2. Attached(e) /\ vp_pool[e].page = p /\ vp_pool[e].prev = NoFrame
        BY <4>1 DEF ChainInv, EntryInv
      <4>3. e # f /\ e # next
        BY <1>4, <3>2, <4>2, FramesAndPages
      <4> QED BY <1>2, <4>2, <4>3
    <3> QED BY <3>1, <3>2
  <2>2. ASSUME NEW g \in Frames, Attached(g)'
        PROVE  /\ vp_map'[vp_pool'[g].page] # NoFrame
               /\ vp_pool'[g].prev = NoFrame => vp_map'[vp_pool'[g].page] = g
    <3>0. PICK p \in PageNos : p = vp_pool[g].page /\ p = vp_pool'[g].page
      BY <1>2, <2>2, LinkTypes DEF Attached
    <3>1. Attached(g) /\ g # f
      BY <1>2, <2>2
    <3>2. vp_map[p] # NoFrame /\ (vp_pool[g].prev = NoFrame => vp_map[p] = g)
      BY <3>0, <3>1 DEF ChainInv, EntryInv
    <3>3. prev = NoFrame => vp_map[vp_pool[f].page] = f
      BY <1>1 DEF ChainInv, EntryInv
    <3>4. vp_map'[p] # NoFrame
      BY <1>6, <1>7, <3>2
    <3>5. ASSUME vp_pool'[g].prev = NoFrame PROVE vp_map'[p] = g
      <4>1. CASE g = next
        <5>1. prev = NoFrame
          BY <3>5, <4>1
        <5>2. p = vp_pool[f].page
          BY <1>4, <3>0, <4>1, FramesAndPages DEF SamePage
        <5> QED BY <1>7, <4>1, <5>1, <5>2
      <4>2. CASE g # next
        <5>1. vp_map[p] = g
          BY <3>2, <3>5, <4>2
        <5>2. ~(prev = NoFrame /\ p = vp_pool[f].page)
          BY <3>1, <3>3, <5>1
        <5> QED BY <1>7, <5>1, <5>2
      <4> QED BY <4>1, <4>2
    <3> QED BY <3>0, <3>4, <3>5
  <2> QED BY <2>1, <2>2 DEF EntryInv
<1>9. LinkInv'
  <2>1. ASSUME NEW g \in Frames, vp_pool'[g].page = NoPage
        PROVE  vp_pool'[g].prev = NoFrame /\ vp_pool'[g].next = NoFrame
    <3>1. g # prev /\ g # next
      BY <1>4, <2>1, FramesAndPages DEF SamePage, Attached
    <3>2. vp_pool[g].prev = NoFrame /\ vp_pool[g].next = NoFrame
      BY <2>1 DEF ChainInv, LinkInv
    <3> QED BY <3>1, <3>2
  <2>2. ASSUME NEW g \in Frames, NEW n \in Frames, Attached(g)', vp_pool'[g].next = n
        PROVE  /\ SamePage(g, n)' /\ vp_pool'[n].prev = g
               /\ vp_pool'[g].version < vp_pool'[n].version
    <3>1. CASE g = prev
      <4>1. n = next /\ next # NoFrame /\ prev # NoFrame
        BY <2>2, <3>1, FramesAndPages
      <4>2. SamePage(g, n)
        BY <1>4, <3>1, <4>1 DEF SamePage
      <4>3. SamePage(g, n)'
        BY <1>3, <1>6, <3>1, <4>1, <4>2
      <4>4. vp_pool'[n].prev = g
        BY <3>1, <4>1
      <4>5. vp_pool[g].version < vp_pool[n].version
        BY <1>4, <1>5, <3>1, <4>1, LinkTypes
      <4> QED BY <4>3, <4>4, <4>5
    <3>2. CASE g # prev
      <4>1. n = vp_pool[g].next /\ Attached(g) /\ g # f
        BY <1>2, <2>2, <3>2
      <4>2. /\ SamePage(g, n) /\ vp_pool[n].prev = g
            /\ vp_pool[g].version < vp_pool[n].version
        BY <4>1 DEF ChainInv, LinkInv
      <4>3. n # f /\ n # next
        BY <1>4, <3>2, <4>1, <4>2, FramesAndPages
      <4> QED BY <1>3, <4>1, <4>2, <4>3
    <3> QED BY <3>1, <3>2
  <2>3. ASSUME NEW g \in Frames, NEW n \in Frames, Attached(g)', vp_pool'[g].prev = n
        PROVE  SamePage(g, n)' /\ vp_pool'[n].next = g
    <3>1. CASE g = next
      <4>1. n = prev /\ next # NoFrame /\ prev # NoFrame
        BY <2>3, <3>1, FramesAndPages
      <4>2. SamePage(g, n)
        BY <1>4, <3>1, <4>1 DEF SamePage
      <4>3. SamePage(g, n)'
        BY <1>3, <1>6, <3>1, <4>1, <4>2
      <4> QED BY <3>1, <4>1, <4>3
    <3>2. CASE g # next
      <4>1. n = vp_pool[g].prev /\ Attached(g) /\ g # f
        BY <1>2, <2>3, <3>2
      <4>2. SamePage(g, n) /\ vp_pool[n].next = g
        BY <4>1 DEF ChainInv, LinkInv
      <4>3. n # f /\ n # prev
        BY <1>4, <3>2, <4>1, <4>2, FramesAndPages
      <4> QED BY <1>3, <4>1, <4>2, <4>3
    <3> QED BY <3>1, <3>2
  <2> QED BY <2>1, <2>2, <2>3 DEF LinkInv
<1>10. NewestInv'
  <2> SUFFICES ASSUME NEW g \in Frames, NEW h \in Frames, SamePage(g, h)',
                      vp_pool'[g].next = NoFrame, vp_pool'[h].next = NoFrame
               PROVE  g = h
    BY DEF NewestInv
  <2>1. SamePage(g, h) /\ g # f /\ h # f
    BY <1>3
  <2>2. \A x \in Frames \ {f} :
          SamePage(f, x) /\ next = NoFrame => vp_pool[x].next # NoFrame
    BY DEF ChainInv, NewestInv
  <2>3. CASE g # prev /\ h # prev
    BY <2>1, <2>3 DEF ChainInv, NewestInv
  <2>4. CASE g = prev \/ h = prev
    BY <1>4, <2>1, <2>2, <2>4, FramesAndPages DEF SamePage
  <2> QED BY <2>3, <2>4
<1>11. \A p \in PageNos : vp_map'[p] = NoFrame <=> vp_map[p] = NoFrame
  BY <1>1, <1>6, <1>7 DEF ChainInv, EntryInv
<1>12. \A g \in Frames : vp_pool[g].next = NoFrame => vp_pool'[g].next = NoFrame
  BY <1>4, FramesAndPages
<1> QED BY <1>8, <1>9, <1>10, <1>11, <1>12 DEF ChainInv

\* What a frame that leaves its chain does not change for anybody.
LEMMA LeaveStep ==
  ASSUME CInv, IInv', NEW w \in Workers, pc[w] \in {"scan", "evict"},
         pc'[w] \in {"clean", "fill"},
         \A u \in Workers \ {w} : pc'[u] = pc[u] /\ req'[u] = req[u],
         req'[w].op = req[w].op, req'[w].page = req[w].page,
         req'[w].cur = req[w].cur, req'[w].old = req[w].old,
         UNCHANGED <<page_count, scopeVars, held>>,
         \A g \in Frames :
           /\ vp_pool'[g].page = vp_pool[g].page /\ vp_pool'[g].version = vp_pool[g].version
           /\ vp_pool[g].next = NoFrame => vp_pool'[g].next = NoFrame,
         \A p \in PageNos : vp_map[p] = NoFrame => vp_map'[p] = NoFrame,
         ChainInv'
  PROVE  CInv'
<1>1. PageInv'
  BY KeepFacts, OnlyMine DEF LockedPcs, IInv, scopeVars
<1>2. FileInv'
  BY DEF CInv, FileInv
<1>3. \A u \in Workers : (IsUpdate(u)' <=> IsUpdate(u)) /\ Start(u)' = Start(u)
  BY DEF IsUpdate, Start, scopeVars
<1>4. VersionInv'
  BY <1>3 DEF CInv, VersionInv, scopeVars
<1>5. HeldInv'
  BY <1>3 DEF CInv, HeldInv
<1> QED BY <1>1, <1>2, <1>4, <1>5 DEF CInv

\* The victim of the request is the one frame without a chain.
LEMMA VictimDetached ==
  ASSUME CInv, NEW w \in Workers, NEW f, pc[w] \in {"scan", "evict"},
         pc'[w] \in {"clean", "fill"}, req'[w].victim = f,
         \A u \in Workers \ {w} : pc'[u] = pc[u] /\ req'[u] = req[u]
  PROVE  \A g \in Frames : ~Detached(g) /\ (Detached(g)' <=> g = f)
<1>1. \A u \in Workers \ {w} : pc[u] \notin LockedPcs
  BY OnlyHolder DEF LockedPcs, CInv, IInv
<1> QED BY <1>1 DEF Detached, LockedPcs

LEMMA ScanOnlyVersionChains ==
  ASSUME CInv, NEW w \in Workers, ScanOnlyVersion(w)
  PROVE  CInv'
<1>1. IInv'
  BY ScanOnlyVersionStep DEF CInv
<1>2. PICK f \in Frames : f = Hand
  BY HandType DEF CInv, IInv, TypeOK
<1>3. /\ pc[w] = "scan" /\ OnlyVersion(f) /\ Found(w, f)
      /\ vp_map' = IF vp_pool[f].page # NoPage
                     THEN [vp_map EXCEPT ![vp_pool[f].page] = NoFrame] ELSE vp_map
      /\ UNCHANGED <<page_count, scopeVars, held>>
  BY <1>2 DEF ScanOnlyVersion, Scanning
<1>4. SameLinks(vp_pool, vp_pool')
  <2>1. CASE UNCHANGED vp_pool
    BY <2>1 DEF SameLinks
  <2>2. CASE vp_pool' = [vp_pool EXCEPT ![f] = MarkedClean(vp_pool[f])]
    <3> DEFINE x == MarkedClean(vp_pool[f])
    <3>1. vp_pool \in [Frames -> VPage]
      BY DEF CInv, IInv, TypeOK
    <3>2. x.page = vp_pool[f].page /\ x.version = vp_pool[f].version
          /\ x.prev = vp_pool[f].prev /\ x.next = vp_pool[f].next
      BY <3>1, CleanLinks
    <3>3. vp_pool' = [vp_pool EXCEPT ![f] = x]
      BY <2>2
    <3> HIDE DEF x
    <3> QED BY <3>1, <3>2, <3>3, FrameLinks
  <2> QED BY <1>2, <2>1, <2>2 DEF ScanOnlyVersion
<1>5. /\ pc'[w] = "fill" /\ req'[w].victim = f
      /\ \A u \in Workers \ {w} : pc'[u] = pc[u] /\ req'[u] = req[u]
      /\ req'[w].op = req[w].op /\ req'[w].page = req[w].page
      /\ req'[w].cur = req[w].cur /\ req'[w].old = req[w].old
  BY <1>3, FoundVictim
<1>6. ChainInv'
  BY <1>3, <1>4, <1>5, DetachAlone, VictimDetached DEF CInv
<1>7. \A p \in PageNos : vp_map[p] = NoFrame => vp_map'[p] = NoFrame
  <2>1. vp_map \in [PageNos -> Frames \cup {NoFrame}]
    BY DEF CInv, IInv, TypeOK
  <2> QED BY <1>3, <2>1
<1>8. \A g \in Frames :
           /\ vp_pool'[g].page = vp_pool[g].page /\ vp_pool'[g].version = vp_pool[g].version
           /\ vp_pool[g].next = NoFrame => vp_pool'[g].next = NoFrame
  BY <1>4 DEF SameLinks
<1> QED BY <1>1, <1>3, <1>5, <1>6, <1>7, <1>8, LeaveStep

LEMMA SetNext ==
  ASSUME NEW q \in [Frames -> VPage], NEW c \in Frames, NEW n \in Frames \cup {NoFrame},
         NEW r, r = [q EXCEPT ![c].next = n]
  PROVE  /\ r \in [Frames -> VPage]
         /\ \A g \in Frames :
              /\ r[g].page = q[g].page /\ r[g].version = q[g].version
              /\ r[g].prev = q[g].prev
              /\ r[g].next = IF g = c THEN n ELSE q[g].next
<1> DEFINE x == [q[c] EXCEPT !.next = n]
<1>1. /\ x \in VPage /\ x.page = q[c].page /\ x.version = q[c].version
      /\ x.prev = q[c].prev /\ x.next = n
  <2>1. q[c] \in VPage
    OBVIOUS
  <2> QED BY <2>1 DEF VPage
<1>2. r = [q EXCEPT ![c] = x]
  OBVIOUS
<1> HIDE DEF x
<1> QED BY <1>1, <1>2

LEMMA SetPrev ==
  ASSUME NEW q \in [Frames -> VPage], NEW c \in Frames, NEW n \in Frames \cup {NoFrame},
         NEW r, r = [q EXCEPT ![c].prev = n]
  PROVE  /\ r \in [Frames -> VPage]
         /\ \A g \in Frames :
              /\ r[g].page = q[g].page /\ r[g].version = q[g].version
              /\ r[g].next = q[g].next
              /\ r[g].prev = IF g = c THEN n ELSE q[g].prev
<1> DEFINE x == [q[c] EXCEPT !.prev = n]
<1>1. /\ x \in VPage /\ x.page = q[c].page /\ x.version = q[c].version
      /\ x.next = q[c].next /\ x.prev = n
  <2>1. q[c] \in VPage
    OBVIOUS
  <2> QED BY <2>1 DEF VPage
<1>2. r = [q EXCEPT ![c] = x]
  OBVIOUS
<1> HIDE DEF x
<1> QED BY <1>1, <1>2

\* Unlink(f) is the pool where the neighbours of f are each other's.
LEMMA UnlinkLinks ==
  ASSUME TypeOK, NEW f \in Frames, NEW prev, NEW next,
         prev = vp_pool[f].prev, next = vp_pool[f].next
  PROVE  \A g \in Frames :
           /\ Unlink(f)[g].page = vp_pool[g].page
           /\ Unlink(f)[g].version = vp_pool[g].version
           /\ Unlink(f)[g].next = IF g = prev THEN next ELSE vp_pool[g].next
           /\ Unlink(f)[g].prev = IF g = next THEN prev ELSE vp_pool[g].prev
<1> DEFINE cut == IF prev # NoFrame THEN [vp_pool EXCEPT ![prev].next = next] ELSE vp_pool
           out == IF next # NoFrame THEN [cut EXCEPT ![next].prev = prev] ELSE cut
<1>1. /\ prev \in Frames \cup {NoFrame} /\ next \in Frames \cup {NoFrame}
      /\ vp_pool \in [Frames -> VPage] /\ NoFrame \notin Frames
  BY FramesAndPages DEF TypeOK, VPage
<1>2. /\ cut \in [Frames -> VPage]
      /\ \A g \in Frames :
           /\ cut[g].page = vp_pool[g].page /\ cut[g].version = vp_pool[g].version
           /\ cut[g].prev = vp_pool[g].prev
           /\ cut[g].next = IF g = prev THEN next ELSE vp_pool[g].next
  <2>1. CASE prev = NoFrame
    <3>1. cut = vp_pool
      BY <2>1
    <3> HIDE DEF cut
    <3> QED BY <1>1, <2>1, <3>1
  <2>2. CASE prev # NoFrame
    <3>1. cut = [vp_pool EXCEPT ![prev].next = next] /\ prev \in Frames
      BY <1>1, <2>2
    <3> HIDE DEF cut
    <3> QED BY <1>1, <3>1, SetNext
  <2> QED BY <2>1, <2>2
<1> HIDE DEF cut
<1>3. \A g \in Frames :
           /\ out[g].page = cut[g].page /\ out[g].version = cut[g].version
           /\ out[g].next = cut[g].next
           /\ out[g].prev = IF g = next THEN prev ELSE cut[g].prev
  <2>1. CASE next = NoFrame
    <3>1. out = cut
      BY <2>1
    <3> HIDE DEF out
    <3> QED BY <1>1, <2>1, <3>1
  <2>2. CASE next # NoFrame
    <3>0. cut \in [Frames -> VPage]
      BY <1>2
    <3>1. out = [cut EXCEPT ![next].prev = prev] /\ next \in Frames
      BY <1>1, <2>2
    <3> HIDE DEF out
    <3> QED BY <1>1, <3>0, <3>1, SetPrev
  <2> QED BY <2>1, <2>2
<1>4. Unlink(f) = out
  BY DEF Unlink, cut
<1> HIDE DEF out
<1> QED BY <1>2, <1>3, <1>4

LEMMA EvictVersionChains ==
  ASSUME CInv, NEW w \in Workers, EvictVersion(w)
  PROVE  CInv'
<1>1. IInv'
  BY EvictVersionStep DEF CInv
<1>2. PICK f \in Frames : f = vp_clock
  BY DEF CInv, IInv, TypeOK
<1>3. PICK prev \in Frames \cup {NoFrame}, next \in Frames \cup {NoFrame} :
        prev = vp_pool[f].prev /\ next = vp_pool[f].next
  BY LinkTypes DEF CInv
<1>4. /\ pc[w] = "evict" /\ ~OnlyVersion(f)
      /\ UNCHANGED <<page_count, scopeVars, held>>
  BY <1>2 DEF EvictVersion, CInv, PageInv, PageFacts
<1>5. vp_pool[f].page # NoPage
  BY <1>4 DEF OnlyVersion, CInv, ChainInv, LinkInv
<1>6. vp_map' = IF prev = NoFrame THEN [vp_map EXCEPT ![vp_pool[f].page] = next] ELSE vp_map
  BY <1>2, <1>3, <1>5 DEF EvictVersion
<1> DEFINE q == Unlink(f)
<1>7. /\ q \in [Frames -> VPage]
      /\ \A g \in Frames :
           /\ q[g].page = vp_pool[g].page /\ q[g].version = vp_pool[g].version
           /\ q[g].next = IF g = prev THEN next ELSE vp_pool[g].next
           /\ q[g].prev = IF g = next THEN prev ELSE vp_pool[g].prev
  BY <1>3, UnlinkType, UnlinkLinks DEF CInv, IInv
<1>8. vp_pool' = q \/ vp_pool' = [q EXCEPT ![f] = MarkedClean(q[f])]
  BY <1>2 DEF EvictVersion
<1>9. SameLinks(q, vp_pool')
  <2> HIDE DEF q
  <2>1. CASE vp_pool' = q
    BY <2>1 DEF SameLinks
  <2>2. CASE vp_pool' = [q EXCEPT ![f] = MarkedClean(q[f])]
    <3> DEFINE x == MarkedClean(q[f])
    <3>1. x.page = q[f].page /\ x.version = q[f].version
          /\ x.prev = q[f].prev /\ x.next = q[f].next
      BY <1>7, CleanLinks
    <3>2. vp_pool' = [q EXCEPT ![f] = x]
      BY <2>2
    <3>3. q \in [Frames -> VPage]
      BY <1>7
    <3> HIDE DEF x
    <3> QED BY <3>1, <3>2, <3>3, FrameLinks
  <2> QED BY <1>8, <2>1, <2>2
<1> HIDE DEF q
<1>10. \A g \in Frames :
         /\ vp_pool'[g].page = vp_pool[g].page /\ vp_pool'[g].version = vp_pool[g].version
         /\ vp_pool'[g].next = IF g = prev THEN next ELSE vp_pool[g].next
         /\ vp_pool'[g].prev = IF g = next THEN prev ELSE vp_pool[g].prev
  BY <1>7, <1>9 DEF SameLinks
<1>11. /\ pc'[w] \in {"clean", "fill"} /\ req'[w].victim = f
       /\ \A u \in Workers \ {w} : pc'[u] = pc[u] /\ req'[u] = req[u]
       /\ req'[w].op = req[w].op /\ req'[w].page = req[w].page
       /\ req'[w].cur = req[w].cur /\ req'[w].old = req[w].old
  <2>1. CASE NewestDirty(f)
    <3>1. /\ req' = [req EXCEPT ![w] = [req[w] EXCEPT !.victim = f, !.clean = prev]]
          /\ pc' = [pc EXCEPT ![w] = "clean"]
      BY <1>2, <1>3, <2>1 DEF EvictVersion, CInv, IInv, TypeOK
    <3>2. /\ req'[w] = [req[w] EXCEPT !.victim = f, !.clean = prev] /\ req[w] \in Request
          /\ pc'[w] = "clean"
          /\ \A u \in Workers \ {w} : pc'[u] = pc[u] /\ req'[u] = req[u]
      BY <3>1 DEF CInv, IInv, TypeOK
    <3>3. /\ req'[w].op = req[w].op /\ req'[w].page = req[w].page
          /\ req'[w].cur = req[w].cur /\ req'[w].old = req[w].old
          /\ req'[w].victim = f
      BY <3>2 DEF Request
    <3> QED BY <3>2, <3>3
  <2>2. CASE ~NewestDirty(f)
    <3>1. Found(w, f)
      BY <1>2, <2>2 DEF EvictVersion
    <3> QED BY <1>4, <3>1, FoundVictim
  <2> QED BY <2>1, <2>2
<1>12. \A g \in Frames : ~Detached(g) /\ (Detached(g)' <=> g = f)
  BY <1>4, <1>11, VictimDetached
<1>13. /\ ChainInv'
       /\ \A p \in PageNos : vp_map'[p] = NoFrame <=> vp_map[p] = NoFrame
       /\ \A g \in Frames : vp_pool[g].next = NoFrame => vp_pool'[g].next = NoFrame
  BY <1>3, <1>4, <1>6, <1>10, <1>12, DetachVersion DEF CInv
<1> QED BY <1>1, <1>4, <1>10, <1>11, <1>13, LeaveStep

-----------------------------------------------------------------------------
(* Frames that enter a chain.                                              *)

\* A page that was not in the pool gets a chain of one frame.
LEMMA AttachNew ==
  ASSUME IInv, ChainInv, NEW f \in Frames, NEW p \in PageNos, vp_map[p] = NoFrame,
         \A g \in Frames : (Detached(g) <=> g = f) /\ ~Detached(g)',
         \A g \in Frames \ {f} :
           /\ vp_pool'[g].page = vp_pool[g].page /\ vp_pool'[g].version = vp_pool[g].version
           /\ vp_pool'[g].prev = vp_pool[g].prev /\ vp_pool'[g].next = vp_pool[g].next,
         vp_pool'[f].page = p, vp_pool'[f].prev = NoFrame, vp_pool'[f].next = NoFrame,
         vp_map' = [vp_map EXCEPT ![p] = f]
  PROVE  ChainInv'
<1>0. NoFrame \notin Frames /\ NoPage \notin PageNos
  BY FramesAndPages
<1>1. ~Attached(f) /\ Attached(f)'
  BY <1>0 DEF Attached
<1>2. \A g \in Frames \ {f} : Attached(g)' <=> Attached(g)
  BY DEF Attached
<1>3. \A g \in Frames : Attached(g) =>
        vp_pool[g].page \in PageNos /\ vp_map[vp_pool[g].page] # NoFrame
        /\ vp_pool[g].page # p
  BY LinkTypes DEF Attached, ChainInv, EntryInv
<1>4. \A q \in PageNos : vp_map'[q] = IF q = p THEN f ELSE vp_map[q]
  BY DEF IInv, TypeOK
<1>5. \A g, h \in Frames \ {f} : SamePage(g, h)' <=> SamePage(g, h)
  BY <1>2 DEF SamePage
<1>6. EntryInv'
  <2>1. ASSUME NEW q \in PageNos, NEW e \in Frames, vp_map'[q] = e
        PROVE  Attached(e)' /\ vp_pool'[e].page = q /\ vp_pool'[e].prev = NoFrame
    <3>1. CASE q = p
      BY <1>1, <1>4, <2>1, <3>1
    <3>2. CASE q # p
      <4>1. vp_map[q] = e
        BY <1>4, <2>1, <3>2
      <4>2. Attached(e) /\ vp_pool[e].page = q /\ vp_pool[e].prev = NoFrame
        BY <4>1 DEF ChainInv, EntryInv
      <4> QED BY <1>1, <1>2, <4>2
    <3> QED BY <3>1, <3>2
  <2>2. ASSUME NEW g \in Frames, Attached(g)'
        PROVE  /\ vp_map'[vp_pool'[g].page] # NoFrame
               /\ vp_pool'[g].prev = NoFrame => vp_map'[vp_pool'[g].page] = g
    <3>1. CASE g = f
      BY <1>0, <1>4, <3>1
    <3>2. CASE g # f
      <4>1. Attached(g)
        BY <1>2, <2>2, <3>2
      <4>2. vp_pool[g].prev = NoFrame => vp_map[vp_pool[g].page] = g
        BY <4>1 DEF ChainInv, EntryInv
      <4> QED BY <1>3, <1>4, <3>2, <4>1, <4>2
    <3> QED BY <3>1, <3>2
  <2> QED BY <2>1, <2>2 DEF EntryInv
<1>7. LinkInv'
  <2>1. ASSUME NEW g \in Frames, vp_pool'[g].page = NoPage
        PROVE  vp_pool'[g].prev = NoFrame /\ vp_pool'[g].next = NoFrame
    BY <2>1 DEF ChainInv, LinkInv
  <2>2. ASSUME NEW g \in Frames, NEW n \in Frames, Attached(g)', vp_pool'[g].next = n
        PROVE  /\ SamePage(g, n)' /\ vp_pool'[n].prev = g
               /\ vp_pool'[g].version < vp_pool'[n].version
    <3>1. g # f /\ Attached(g) /\ vp_pool[g].next = n
      BY <1>0, <1>2, <2>2
    <3>2. SamePage(g, n) /\ vp_pool[n].prev = g /\ vp_pool[g].version < vp_pool[n].version
      BY <3>1 DEF ChainInv, LinkInv
    <3>3. n # f
      BY <1>1, <3>2 DEF SamePage
    <3> QED BY <1>5, <3>1, <3>2, <3>3
  <2>3. ASSUME NEW g \in Frames, NEW n \in Frames, Attached(g)', vp_pool'[g].prev = n
        PROVE  SamePage(g, n)' /\ vp_pool'[n].next = g
    <3>1. g # f /\ Attached(g) /\ vp_pool[g].prev = n
      BY <1>0, <1>2, <2>3
    <3>2. SamePage(g, n) /\ vp_pool[n].next = g
      BY <3>1 DEF ChainInv, LinkInv
    <3>3. n # f
      BY <1>1, <3>2 DEF SamePage
    <3> QED BY <1>5, <3>1, <3>2, <3>3
  <2> QED BY <2>1, <2>2, <2>3 DEF LinkInv
<1>8. NewestInv'
  <2> SUFFICES ASSUME NEW g \in Frames, NEW h \in Frames, SamePage(g, h)',
                      vp_pool'[g].next = NoFrame, vp_pool'[h].next = NoFrame
               PROVE  g = h
    BY DEF NewestInv
  <2>1. CASE g = f \/ h = f
    BY <1>2, <1>3, <2>1 DEF SamePage
  <2>2. CASE g # f /\ h # f
    BY <1>5, <2>2 DEF ChainInv, NewestInv
  <2> QED BY <2>1, <2>2
<1> QED BY <1>6, <1>7, <1>8 DEF ChainInv

\* The newest version of a page gets a successor.
LEMMA AttachCopy ==
  ASSUME IInv, ChainInv, NEW f \in Frames, NEW base \in Frames,
         Attached(base), vp_pool[base].next = NoFrame,
         vp_pool[base].version < vp_pool'[f].version,
         \A g \in Frames : (Detached(g) <=> g = f) /\ ~Detached(g)',
         \A g \in Frames \ {f} :
           /\ vp_pool'[g].page = vp_pool[g].page /\ vp_pool'[g].version = vp_pool[g].version
           /\ vp_pool'[g].prev = vp_pool[g].prev
           /\ vp_pool'[g].next = IF g = base THEN f ELSE vp_pool[g].next,
         vp_pool'[f].page = vp_pool[base].page,
         vp_pool'[f].prev = base, vp_pool'[f].next = NoFrame,
         UNCHANGED vp_map
  PROVE  ChainInv'
<1>0. NoFrame \notin Frames /\ NoPage \notin PageNos
  BY FramesAndPages
<1>1. ~Attached(f) /\ Attached(f)' /\ base # f /\ Attached(base)'
  BY DEF Attached
<1>2. \A g \in Frames \ {f} : Attached(g)' <=> Attached(g)
  BY DEF Attached
<1>3. \A g, h \in Frames \ {f} : SamePage(g, h)' <=> SamePage(g, h)
  BY <1>2 DEF SamePage
<1>4. SamePage(base, f)' /\ SamePage(f, base)'
  BY <1>1 DEF SamePage
<1>5. EntryInv'
  <2>1. ASSUME NEW q \in PageNos, NEW e \in Frames, vp_map'[q] = e
        PROVE  Attached(e)' /\ vp_pool'[e].page = q /\ vp_pool'[e].prev = NoFrame
    <3>1. Attached(e) /\ vp_pool[e].page = q /\ vp_pool[e].prev = NoFrame
      BY <2>1 DEF ChainInv, EntryInv
    <3> QED BY <1>1, <1>2, <3>1
  <2>2. ASSUME NEW g \in Frames, Attached(g)'
        PROVE  /\ vp_map'[vp_pool'[g].page] # NoFrame
               /\ vp_pool'[g].prev = NoFrame => vp_map'[vp_pool'[g].page] = g
    <3>1. CASE g = f
      BY <1>0, <3>1 DEF ChainInv, EntryInv
    <3>2. CASE g # f
      BY <1>2, <2>2, <3>2 DEF ChainInv, EntryInv
    <3> QED BY <3>1, <3>2
  <2> QED BY <2>1, <2>2 DEF EntryInv
<1>6. LinkInv'
  <2>1. ASSUME NEW g \in Frames, vp_pool'[g].page = NoPage
        PROVE  vp_pool'[g].prev = NoFrame /\ vp_pool'[g].next = NoFrame
    <3>1. g # f /\ g # base
      BY <2>1 DEF Attached
    <3> QED BY <2>1, <3>1 DEF ChainInv, LinkInv
  <2>2. ASSUME NEW g \in Frames, NEW n \in Frames, Attached(g)', vp_pool'[g].next = n
        PROVE  /\ SamePage(g, n)' /\ vp_pool'[n].prev = g
               /\ vp_pool'[g].version < vp_pool'[n].version
    <3>1. CASE g = base
      BY <1>1, <1>4, <2>2, <3>1
    <3>2. CASE g # base
      <4>1. g # f /\ Attached(g) /\ vp_pool[g].next = n
        BY <1>0, <1>2, <2>2, <3>2
      <4>2. SamePage(g, n) /\ vp_pool[n].prev = g /\ vp_pool[g].version < vp_pool[n].version
        BY <4>1 DEF ChainInv, LinkInv
      <4>3. n # f
        BY <1>1, <4>2 DEF SamePage
      <4> QED BY <1>3, <4>1, <4>2, <4>3
    <3> QED BY <3>1, <3>2
  <2>3. ASSUME NEW g \in Frames, NEW n \in Frames, Attached(g)', vp_pool'[g].prev = n
        PROVE  SamePage(g, n)' /\ vp_pool'[n].next = g
    <3>1. CASE g = f
      BY <1>1, <1>4, <2>3, <3>1
    <3>2. CASE g # f
      <4>1. Attached(g) /\ vp_pool[g].prev = n
        BY <1>2, <2>3, <3>2
      <4>2. SamePage(g, n) /\ vp_pool[n].next = g
        BY <4>1 DEF ChainInv, LinkInv
      <4>3. n # f /\ n # base
        BY <1>0, <1>1, <4>2 DEF SamePage
      <4> QED BY <1>3, <3>2, <4>1, <4>2, <4>3
    <3> QED BY <3>1, <3>2
  <2> QED BY <2>1, <2>2, <2>3 DEF LinkInv
<1>7. NewestInv'
  <2> SUFFICES ASSUME NEW g \in Frames, NEW h \in Frames, SamePage(g, h)',
                      vp_pool'[g].next = NoFrame, vp_pool'[h].next = NoFrame
               PROVE  g = h
    BY DEF NewestInv
  <2>1. g # base /\ h # base
    BY <1>0, <1>1
  <2>2. \A x \in Frames \ {f, base} :
          vp_pool'[x].next = NoFrame /\ Attached(x) => vp_pool[x].page # vp_pool[base].page
    BY DEF ChainInv, NewestInv, SamePage
  <2>3. CASE g = f \/ h = f
    BY <1>2, <2>1, <2>2, <2>3 DEF SamePage
  <2>4. CASE g # f /\ h # f
    BY <1>3, <2>1, <2>4 DEF ChainInv, NewestInv
  <2> QED BY <2>3, <2>4
<1> QED BY <1>5, <1>6, <1>7 DEF ChainInv

\* A fill starts with its victim outside every chain and ends with none.
LEMMA FillVictim ==
  ASSUME CInv, NEW w \in Workers, NEW op, Filling(w, op), NEW f \in Frames,
         f = req[w].victim, NEW p, Deliver(w, f, p)
  PROVE  \A g \in Frames : (Detached(g) <=> g = f) /\ ~Detached(g)'
<1>1. pc[w] = "fill" /\ \A u \in Workers \ {w} : pc[u] \notin LockedPcs
  BY OnlyHolder DEF Filling, LockedPcs, CInv, IInv
<1>2. pc' = [pc EXCEPT ![w] = "running"]
  BY DEF Deliver
<1>3. \A u \in Workers : pc'[u] \notin {"clean", "fill"}
  BY <1>1, <1>2 DEF LockedPcs, CInv, IInv, TypeOK
<1> QED BY <1>1, <1>3 DEF Detached, LockedPcs

LEMMA ReassignedLinks ==
  ASSUME NEW f, NEW p, NEW v, NEW prev, NEW b
  PROVE  LET r == Reassigned(f, p, v, prev, b)
         IN  r.page = p /\ r.version = v /\ r.prev = prev /\ r.next = NoFrame
BY DEF Reassigned

LEMMA DirtiedLinks ==
  ASSUME NEW x \in VPage
  PROVE  /\ Dirtied(x).page = x.page /\ Dirtied(x).version = x.version
         /\ Dirtied(x).prev = x.prev /\ Dirtied(x).next = x.next
BY DEF Dirtied, VPage

\* The frame of a copy or of a new page.
LEMMA CopyFacts ==
  ASSUME TypeOK, NEW f \in Frames, NEW p \in PageNos, NEW n \in Versions,
         NEW prev \in Frames \cup {NoFrame}, NEW b \in Versions
  PROVE  LET v == Dirtied(Reassigned(f, p, n, prev, b))
         IN  /\ v \in VPage /\ v.page = p /\ v.version = n
             /\ v.prev = prev /\ v.next = NoFrame
<1> DEFINE r == Reassigned(f, p, n, prev, b)
<1>1. r \in VPage /\ Dirtied(r) \in VPage
  BY ReassignedType, ReassignedDirtyType
<1>2. r.page = p /\ r.version = n /\ r.prev = prev /\ r.next = NoFrame
  BY ReassignedLinks
<1> HIDE DEF r
<1>3. /\ Dirtied(r).page = p /\ Dirtied(r).version = n
      /\ Dirtied(r).prev = prev /\ Dirtied(r).next = NoFrame
  BY <1>1, <1>2, DirtiedLinks
<1> QED BY <1>1, <1>3 DEF r

\* The frame that a fill writes is never above the version of the update.
LEMMA FillVersions ==
  ASSUME CInv, NEW w \in Workers, NEW f \in Frames, UNCHANGED scopeVars,
         \A g \in Frames \ {f} : vp_pool'[g].version = vp_pool[g].version,
         vp_pool'[f].version = Start(w) \/ (vp_pool'[f].version = Result(w) /\ IsUpdate(w))
  PROVE  VersionInv'
<1>1. \A u \in Workers : (IsUpdate(u)' <=> IsUpdate(u)) /\ Start(u)' = Start(u)
  BY DEF IsUpdate, Start, scopeVars
<1>2. IsUpdate(w) => Result(w) = last_stable_version + 1
  BY DEF Result, CInv, IInv, ScopeInv, Start
<1> QED BY <1>1, <1>2 DEF CInv, VersionInv, scopeVars

\* The common part of a read and an append: the page gets its first frame.
LEMMA FillNewChains ==
  ASSUME CInv, IInv', NEW w \in Workers, NEW op, Filling(w, op),
         NEW f \in Frames, f = req[w].victim, NEW p \in PageNos, vp_map[p] = NoFrame,
         Deliver(w, f, p), UNCHANGED scopeVars,
         NEW v \in VPage, v.page = p, v.prev = NoFrame, v.next = NoFrame,
         v.version = Start(w) \/ (v.version = Result(w) /\ IsUpdate(w)),
         vp_pool' = [Unpinned(w, p) EXCEPT ![f] = v],
         vp_map' = [vp_map EXCEPT ![p] = f],
         \A q \in PageNos : q <= page_count \/ q = p => q <= page_count'
  PROVE  CInv'
<1>1. vp_pool'[f] = v /\ \A g \in Frames \ {f} :
         /\ vp_pool'[g].page = vp_pool[g].page /\ vp_pool'[g].version = vp_pool[g].version
         /\ vp_pool'[g].prev = vp_pool[g].prev /\ vp_pool'[g].next = vp_pool[g].next
  <2> DEFINE q == Unpinned(w, p)
  <2>1. q \in [Frames -> VPage] /\ SameLinks(vp_pool, q)
    BY UnpinnedType, UnpinnedLinks DEF CInv, IInv
  <2>2. vp_pool' = [q EXCEPT ![f] = v]
    OBVIOUS
  <2> HIDE DEF q
  <2> QED BY <2>1, <2>2 DEF SameLinks
<1>2. \A g \in Frames : (Detached(g) <=> g = f) /\ ~Detached(g)'
  BY FillVictim
<1>3. ChainInv'
  BY <1>1, <1>2, AttachNew DEF CInv
<1>4. VersionInv'
  BY <1>1, FillVersions
<1>5. FileInv'
  BY DEF CInv, FileInv, IInv, TypeOK
<1>6. \A u \in Workers, g \in Frames, q \in PageNos : <<g, q>> \in held[u] =>
          vp_pool'[g].page = q /\ (IsUpdate(u) => vp_pool'[g].next = NoFrame)
  <2> SUFFICES ASSUME NEW u \in Workers, NEW g \in Frames, NEW q \in PageNos,
                      <<g, q>> \in held[u]
               PROVE  vp_pool'[g].page = q /\ (IsUpdate(u) => vp_pool'[g].next = NoFrame)
    OBVIOUS
  <2>1. /\ Attached(g) /\ vp_pool[g].page = q
        /\ IsUpdate(u) => vp_pool[g].next = NoFrame
    BY HeldAttached DEF CInv
  <2>2. g # f
    BY <1>2, <2>1 DEF Attached
  <2> QED BY <1>1, <2>1, <2>2
<1>7. pc[w] \in LockedPcs
  BY DEF Filling, LockedPcs
<1> QED BY <1>1, <1>3, <1>4, <1>5, <1>6, <1>7, DeliverChains

LEMMA FillReadChains ==
  ASSUME CInv, NEW w \in Workers, FillRead(w)
  PROVE  CInv'
<1>1. IInv'
  BY FillReadStep DEF CInv
<1>2. Filling(w, "read")
  BY DEF FillRead
<1>3. PICK f \in Frames, p \in PageNos : f = req[w].victim /\ p = req[w].page
  BY <1>2, FillFacts DEF CInv
<1>4. PICK v \in VPage : /\ v = Reassigned(f, p, Start(w), NoFrame, disk[p])
                         /\ v.page = p /\ v.version = Start(w)
                         /\ v.prev = NoFrame /\ v.next = NoFrame
  <2>1. disk[p] \in Versions
    BY DEF CInv, IInv, TypeOK
  <2>2. Start(w) \in Versions
    BY <1>2, FillFacts DEF CInv
  <2>3. NoFrame \in Frames \cup {NoFrame}
    OBVIOUS
  <2> QED BY <2>1, <2>2, <2>3, ReassignedType, ReassignedLinks DEF CInv, IInv
<1>5. /\ Deliver(w, f, p)
      /\ vp_pool' = [Unpinned(w, p) EXCEPT ![f] = v]
      /\ vp_map' = [vp_map EXCEPT ![p] = f]
      /\ UNCHANGED scopeVars /\ page_count' = page_count
  BY <1>3, <1>4 DEF FillRead, fileVars
<1>6. vp_map[p] = NoFrame /\ p <= page_count
  BY <1>2, <1>3 DEF Filling, CInv, PageInv, PageFacts, LockedPcs
<1>7. \A q \in PageNos : q <= page_count \/ q = p => q <= page_count'
  BY <1>5, <1>6
<1>8. /\ v.version = Start(w) \/ (v.version = Result(w) /\ IsUpdate(w))
      /\ v.page = p /\ v.prev = NoFrame /\ v.next = NoFrame /\ f = req[w].victim
  BY <1>3, <1>4
<1> QED BY <1>1, <1>2, <1>5, <1>6, <1>7, <1>8, FillNewChains

LEMMA FillAppendChains ==
  ASSUME CInv, NEW w \in Workers, FillAppend(w)
  PROVE  CInv'
<1>1. IInv'
  BY FillAppendStep DEF CInv
<1>2. Filling(w, "append")
  BY DEF FillAppend
<1>3. PICK f \in Frames, p \in PageNos : f = req[w].victim /\ p = page_count + 1
  BY <1>2, FillFacts DEF CInv
<1>4. PICK v \in VPage : /\ v = Dirtied(Reassigned(f, p, Result(w), NoFrame, 0))
                         /\ v.page = p /\ v.version = Result(w)
                         /\ v.prev = NoFrame /\ v.next = NoFrame
  <2>1. 0 \in Versions /\ NoFrame \in Frames \cup {NoFrame}
    BY FramesAndPages DEF Versions
  <2>2. Result(w) \in Versions
    BY <1>2, FillFacts DEF CInv
  <2> QED BY <2>1, <2>2, CopyFacts DEF CInv, IInv
<1>5. /\ Deliver(w, f, p)
      /\ vp_pool' = [Unpinned(w, p) EXCEPT ![f] = v]
      /\ vp_map' = [vp_map EXCEPT ![p] = f]
      /\ UNCHANGED scopeVars /\ page_count' = p
  BY <1>3, <1>4 DEF FillAppend
<1>6. page_count \in Nat
  BY ConstantsAssumption DEF CInv, IInv, TypeOK
<1>7. IsUpdate(w)
  BY <1>2 DEF Filling, CInv, PageInv, PageFacts, LockedPcs
<1>8. vp_map[p] = NoFrame
  <2>1. ~(p <= page_count)
    BY <1>3, <1>6
  <2>2. FileInv
    BY DEF CInv
  <2> QED BY <2>1, <2>2 DEF FileInv
<1>9. \A q \in PageNos : q <= page_count \/ q = p => q <= page_count'
  BY <1>3, <1>5, <1>6, FramesAndPages DEF PageNos
<1>10. /\ v.version = Start(w) \/ (v.version = Result(w) /\ IsUpdate(w))
       /\ v.page = p /\ v.prev = NoFrame /\ v.next = NoFrame /\ f = req[w].victim
  BY <1>3, <1>4, <1>7
<1> QED BY <1>1, <1>2, <1>5, <1>8, <1>9, <1>10, FillNewChains

LEMMA FillEditChains ==
  ASSUME CInv, NEW w \in Workers, FillEdit(w)
  PROVE  CInv'
<1>1. IInv'
  BY FillEditStep DEF CInv
<1>2. Filling(w, "edit") /\ req[w].cur # NoFrame
  BY DEF FillEdit
<1>3. PICK f \in Frames, p \in PageNos, base \in Frames :
        f = req[w].victim /\ p = req[w].page /\ base = req[w].cur
  BY <1>2, FillFacts DEF CInv
<1>4. PICK v \in VPage :
        /\ v = Dirtied(Reassigned(f, p, Result(w), base, vp_pool[base].bytes))
        /\ v.page = p /\ v.version = Result(w) /\ v.prev = base /\ v.next = NoFrame
  <2>1. vp_pool[base].bytes \in Versions /\ base \in Frames \cup {NoFrame}
    BY DEF CInv, IInv, TypeOK, VPage
  <2>2. Result(w) \in Versions
    BY <1>2, FillFacts DEF CInv
  <2> QED BY <2>1, <2>2, CopyFacts DEF CInv, IInv
<1>5. /\ Deliver(w, f, p)
      /\ vp_pool' = [Unpinned(w, p) EXCEPT ![base].next = f, ![f] = v]
      /\ UNCHANGED <<vp_map, scopeVars>> /\ page_count' = page_count
  BY <1>3, <1>4 DEF FillEdit, fileVars
<1>8. /\ IsUpdate(w) /\ <<base, p>> \in held[w] /\ vp_pool[base].version # Result(w)
      /\ pc[w] \in LockedPcs
  BY <1>2, <1>3 DEF Filling, CInv, PageInv, PageFacts, LockedPcs
<1>9. Attached(base) /\ vp_pool[base].page = p /\ vp_pool[base].next = NoFrame
  BY <1>8, HeldAttached DEF CInv
<1>10. vp_pool[base].version < Result(w)
  <2>1. Result(w) = last_stable_version + 1 /\ last_stable_version \in Nat
    BY <1>8, VersionTypes DEF CInv, IInv, ScopeInv, Result, Start
  <2>2. /\ vp_pool[base].version \in Nat
        /\ \/ vp_pool[base].version <= last_stable_version
           \/ vp_pool[base].version = last_stable_version + 1
    BY VersionTypes DEF CInv, IInv, VersionInv
  <2> QED BY <1>8, <2>1, <2>2
<1>11. \A g \in Frames : (Detached(g) <=> g = f) /\ ~Detached(g)'
  BY <1>2, <1>3, <1>5, FillVictim
<1>12. base # f
  BY <1>9, <1>11 DEF Attached
<1>13. vp_pool'[f] = v /\ \A g \in Frames \ {f} :
         /\ vp_pool'[g].page = vp_pool[g].page /\ vp_pool'[g].version = vp_pool[g].version
         /\ vp_pool'[g].prev = vp_pool[g].prev
         /\ vp_pool'[g].next = IF g = base THEN f ELSE vp_pool[g].next
  <2> DEFINE q == Unpinned(w, p)
             u == [q EXCEPT ![base].next = f]
  <2>1. q \in [Frames -> VPage] /\ SameLinks(vp_pool, q)
    BY UnpinnedType, UnpinnedLinks DEF CInv, IInv
  <2>2. vp_pool' = [u EXCEPT ![f] = v]
    BY <1>5
  <2> HIDE DEF q
  <2>3. u = [q EXCEPT ![base].next = f] /\ q \in [Frames -> VPage]
    BY <2>1
  <2> HIDE DEF u
  <2>4. /\ u \in [Frames -> VPage]
        /\ \A g \in Frames :
             /\ u[g].page = q[g].page /\ u[g].version = q[g].version
             /\ u[g].prev = q[g].prev
             /\ u[g].next = IF g = base THEN f ELSE q[g].next
    BY <2>3, SetNext
  <2> QED BY <2>1, <2>2, <2>4 DEF SameLinks
<1>14. ChainInv'
  <2>1. /\ vp_pool'[f].page = vp_pool[base].page /\ vp_pool'[f].prev = base
        /\ vp_pool'[f].next = NoFrame /\ vp_pool[base].version < vp_pool'[f].version
    BY <1>4, <1>9, <1>10, <1>13
  <2>2. IInv /\ ChainInv /\ UNCHANGED vp_map
    BY <1>5 DEF CInv
  <2> QED BY <1>9, <1>11, <1>13, <2>1, <2>2, AttachCopy
<1>15. VersionInv'
  <2>1. UNCHANGED scopeVars
    BY <1>5
  <2>2. \A g \in Frames \ {f} : vp_pool'[g].version = vp_pool[g].version
    BY <1>13
  <2>3. vp_pool'[f].version = Result(w) /\ IsUpdate(w)
    BY <1>4, <1>8, <1>13
  <2> QED BY <2>1, <2>2, <2>3, FillVersions
<1>16. FileInv'
  BY <1>5 DEF CInv, FileInv
<1>17. \A x \in Workers, g \in Frames, q \in PageNos :
         <<g, q>> \in held[x] /\ (x # w \/ q # p) =>
           vp_pool'[g].page = q /\ (IsUpdate(x) => vp_pool'[g].next = NoFrame)
  <2> SUFFICES ASSUME NEW x \in Workers, NEW g \in Frames, NEW q \in PageNos,
                      <<g, q>> \in held[x], x # w \/ q # p
               PROVE  vp_pool'[g].page = q /\ (IsUpdate(x) => vp_pool'[g].next = NoFrame)
    OBVIOUS
  <2>1. /\ Attached(g) /\ vp_pool[g].page = q
        /\ IsUpdate(x) => vp_pool[g].next = NoFrame
    BY HeldAttached DEF CInv
  <2>2. g # f
    BY <1>11, <2>1 DEF Attached
  <2>3. IsUpdate(x) => g # base
    BY <1>8, <1>9, <2>1, OneUpdate DEF CInv, IInv
  <2> QED BY <1>13, <2>1, <2>2, <2>3
<1>18. /\ vp_pool'[f].page = p /\ (IsUpdate(w) => vp_pool'[f].next = NoFrame)
       /\ UNCHANGED scopeVars /\ Deliver(w, f, p) /\ pc[w] \in LockedPcs
  BY <1>4, <1>5, <1>8, <1>13
<1> QED BY <1>1, <1>14, <1>15, <1>16, <1>17, <1>18, DeliverChains

\* An update has the page it edits pinned, so the request never misses.
LEMMA FillEditMissedChains ==
  ASSUME CInv, NEW w \in Workers, FillEditMissed(w)
  PROVE  FALSE
BY DEF FillEditMissed, Filling, CInv, PageInv, PageFacts, LockedPcs

-----------------------------------------------------------------------------
(* The invariant and the theorems.                                         *)

LEMMA InitCInv == Init => CInv
<1> SUFFICES ASSUME Init PROVE CInv
  OBVIOUS
<1>1. IInv
  BY InitIInv
<1>2. ChainInv
  BY FramesAndPages
     DEF Init, ChainInv, EntryInv, LinkInv, NewestInv, SamePage, Attached
<1>3. VersionInv /\ PageInv /\ FileInv /\ HeldInv
  BY DEF Init, VersionInv, PageInv, PageFacts, FileInv, HeldInv, LockedPcs, Start
<1> QED BY <1>1, <1>2, <1>3 DEF CInv

LEMMA NextCInv ==
  ASSUME ~UnpinnedEdit, CInv, [Next]_vars
  PROVE  CInv'
<1>1. CASE UNCHANGED vars
  <2>1. UNCHANGED <<vp_map, vp_pool, vp_clock, vp_mutex, page_count, scopeVars, pc, req, held>>
    BY <1>1 DEF vars, poolVars, fileVars
  <2>2. SameLinks(vp_pool, vp_pool')
    BY <2>1 DEF SameLinks
  <2>3. ChainInv' /\ PageInv' /\ FileInv'
    BY <2>1, <2>2, OutsideStep DEF scopeVars
  <2>4. VersionInv' /\ HeldInv'
    BY <2>1, <2>2, KeepHeld DEF scopeVars
  <2>5. IInv'
    BY <1>1, StutterStep DEF CInv
  <2> QED BY <2>3, <2>4, <2>5 DEF CInv
<1>2. CASE Close
  BY <1>2, CloseChains
<1>3. ASSUME NEW w \in Workers,
             \/ BeginReadonly(w) \/ BeginEditable(w) \/ Terminate(w)
             \/ GetPageReadonly(w) \/ GetPageEditable(w) \/ AppendVPage(w)
             \/ WritePage(w) \/ Unpin(w)
      PROVE  CInv'
  BY <1>3, BeginChains, TerminateChains, RequestChains, UseChains
<1>4. ASSUME NEW w \in Workers, Locked(w)
      PROVE  CInv'
  BY <1>4, WalkNextChains, WalkEndChains, ScanPassChains, ScanOnlyVersionChains,
     EvictVersionChains, CleanPreviousChains, FillReadChains, FillEditChains,
     FillEditMissedChains, FillAppendChains
     DEF Locked
<1> QED BY <1>1, <1>2, <1>3, <1>4 DEF Next

\* CInv holds in every reachable state when no page is edited unpinned.
THEOREM ChainInvariance ==
  ASSUME ~UnpinnedEdit
  PROVE  Spec => []CInv
<1>1. Init => CInv
  BY InitCInv
<1>2. CInv /\ [Next]_vars => CInv'
  BY NextCInv
<1> QED BY <1>1, <1>2, PTL DEF Spec

\* The frame a worker has pinned holds the page the worker asked for, through
\* every eviction, fill and copy (get_page_readonly, get_page_editable).
THEOREM PinnedKeepTheirPage ==
  ASSUME ~UnpinnedEdit
  PROVE  Spec => []PinnedFramesKeepTheirPage
<1>1. CInv => PinnedFramesKeepTheirPage
  <2> SUFFICES ASSUME CInv, NEW w \in Workers, NEW h \in held[w]
               PROVE  vp_pool[h[1]].page = h[2]
    BY DEF PinnedFramesKeepTheirPage
  <2>1. h \in Frames \X PageNos
    BY DEF CInv, IInv, TypeOK
  <2>2. PICK f \in Frames, p \in PageNos : h = <<f, p>>
    BY <2>1
  <2> QED BY <2>2 DEF CInv, HeldInv
<1> QED BY <1>1, ChainInvariance, PTL

\* The versions of a page in the pool are one list in the order of their
\* versions, with vp_map at its oldest end, whatever leaves or joins it.
THEOREM ChainsOrdered ==
  ASSUME ~UnpinnedEdit
  PROVE  Spec => []ChainsAreOrdered
<1>1. CInv => ChainsAreOrdered
  <2> SUFFICES ASSUME CInv PROVE ChainsAreOrdered
    OBVIOUS
  <2>1. ASSUME NEW p \in PageNos, vp_map[p] # NoFrame
        PROVE  vp_pool[vp_map[p]].page = p /\ vp_pool[vp_map[p]].prev = NoFrame
    <3>1. PICK f \in Frames : vp_map[p] = f
      BY <2>1 DEF CInv, IInv, TypeOK
    <3> QED BY <3>1 DEF CInv, ChainInv, EntryInv
  <2>2. ASSUME NEW f \in Frames, ~Reserved(f), vp_pool[f].next # NoFrame
        PROVE  /\ vp_pool[vp_pool[f].next].prev = f
               /\ vp_pool[vp_pool[f].next].page = vp_pool[f].page
               /\ vp_pool[f].version < vp_pool[vp_pool[f].next].version
    <3>1. PICK n \in Frames : n = vp_pool[f].next
      BY <2>2, LinkTypes DEF CInv
    <3>2. Attached(f)
      BY <2>2 DEF Attached, Detached, Reserved, CInv, ChainInv, LinkInv
    <3> QED BY <3>1, <3>2 DEF CInv, ChainInv, LinkInv, SamePage
  <2> QED BY <2>1, <2>2 DEF ChainsAreOrdered
<1> QED BY <1>1, ChainInvariance, PTL

-----------------------------------------------------------------------------
(* Where the last write of a page is.                                      *)

\* A worker marks the previous versions of an evicted page as clean.
Cleaning == \E w \in Workers : pc[w] = "clean"

\* Its loop reads the previous version of the evicted page in every turn, and
\* there is one.
LoopInv ==
  \A w \in Workers : pc[w] = "clean" => vp_pool[req[w].victim].prev # NoFrame

\* Only the update that runs has written above the newest stable version, and
\* nobody has written beyond the end of the file.
WrittenInv ==
  \A p \in PageNos :
    /\ 0 \in written[p]
    /\ p > page_count => written[p] = {0}
    /\ \A v \in written[p] :
         \/ v <= last_stable_version
         \/ v = last_stable_version + 1 /\ \E w \in Workers : IsUpdate(w)

\* The newest version of a page in the pool has its last write, and so has the
\* file unless that frame is dirty.  A frame that was written by the update that
\* runs, and one with a previous version, are dirty.
FrameBytes(f) ==
  /\ vp_pool[f].next = NoFrame =>
       /\ vp_pool[f].bytes = Latest(written[vp_pool[f].page])
       /\ vp_pool[f].dirty = FALSE => disk[vp_pool[f].page] = vp_pool[f].bytes
  /\ vp_pool[f].prev # NoFrame => vp_pool[f].dirty = TRUE
  /\ vp_pool[f].version > last_stable_version => vp_pool[f].dirty = TRUE

\* A page that is not in the pool has its last write in the file.
BytesInv ==
  /\ \A p \in PageNos : vp_map[p] = NoFrame => disk[p] = Latest(written[p])
  /\ \A f \in Frames : Attached(f) => FrameBytes(f)

\* The pool is in use, and no request is in the loop.
Open == closed = FALSE /\ ~Cleaning

DataInv == LoopInv /\ WrittenInv /\ (Open => BytesInv)

\* Once the pool is closed nothing runs.
ClosedInv == closed = TRUE => \A w \in Workers : pc[w] = "idle"

DInv == CInv /\ DataInv /\ ClosedInv /\ ClosedFileIsComplete

LEMMA LatestIs ==
  ASSUME NEW S, S \subseteq Nat, NEW v \in S, \A u \in S : u <= v
  PROVE  Latest(S) = v
<1>1. \A x \in S : (\A u \in S : u <= x) => x = v
  <2> SUFFICES ASSUME NEW x \in S, \A u \in S : u <= x PROVE x = v
    OBVIOUS
  <2>1. x \in Nat /\ v \in Nat /\ x <= v /\ v <= x
    OBVIOUS
  <2> QED BY <2>1
<1> QED BY <1>1 DEF Latest

LEMMA DataTypes ==
  ASSUME TypeOK
  PROVE  /\ \A p \in PageNos : written[p] \subseteq Nat /\ disk[p] \in Nat
         /\ \A f \in Frames : vp_pool[f].bytes \in Nat /\ vp_pool[f].dirty \in BOOLEAN
         /\ page_count \in Nat
BY FramesAndPages DEF TypeOK, Versions, VPage

-----------------------------------------------------------------------------
(* Steps that change no bytes.                                             *)

SameData(q, r) ==
  \A g \in Frames : r[g].bytes = q[g].bytes /\ r[g].dirty = q[g].dirty

LEMMA FrameData ==
  ASSUME NEW q \in [Frames -> VPage], NEW c, NEW x, NEW r, r = [q EXCEPT ![c] = x],
         c \in Frames => x.bytes = q[c].bytes /\ x.dirty = q[c].dirty
  PROVE  SameData(q, r)
BY DEF SameData

LEMMA SameDataChain ==
  ASSUME NEW q, NEW r, NEW s, SameData(q, r), SameData(r, s)
  PROVE  SameData(q, s)
BY DEF SameData

LEMMA UnpinnedData ==
  ASSUME TypeOK, NEW w \in Workers, NEW p \in PageNos
  PROVE  SameData(vp_pool, Unpinned(w, p))
<1> SUFFICES ASSUME NEW g \in Frames
             PROVE  LET x == Unpinned(w, p)[g]
                    IN  x.bytes = vp_pool[g].bytes /\ x.dirty = vp_pool[g].dirty
  BY DEF SameData
<1> DEFINE n == IF <<g, p>> \in held[w] THEN vp_pool[g].pins - 1 ELSE vp_pool[g].pins
<1>1. Unpinned(w, p)[g] = [vp_pool[g] EXCEPT !.pins = n]
  BY DEF Unpinned
<1>2. vp_pool[g] \in VPage
  BY DEF TypeOK
<1> HIDE DEF n
<1> QED BY <1>1, <1>2 DEF VPage

LEMMA PinData ==
  ASSUME NEW x \in VPage
  PROVE  Pin(x).bytes = x.bytes /\ Pin(x).dirty = x.dirty
<1> DEFINE y == [x EXCEPT !.pins = x.pins + 1]
<1>1. DOMAIN y = DOMAIN x /\ y.bytes = x.bytes /\ y.dirty = x.dirty /\ y \in VPage
  BY DEF VPage
<1>2. Pin(x) = [y EXCEPT !.chance = TRUE]
  BY DEF Pin
<1> HIDE DEF y
<1> QED BY <1>1, <1>2 DEF VPage

LEMMA KeepWritten ==
  ASSUME WrittenInv, UNCHANGED <<written, page_count, last_stable_version, scope>>
  PROVE  WrittenInv'
<1>1. \A u \in Workers : IsUpdate(u)' <=> IsUpdate(u)
  BY DEF IsUpdate
<1> QED BY <1>1 DEF WrittenInv

\* What is true of the bytes stays so when neither they nor the chains change.
LEMMA KeepBytes ==
  ASSUME TypeOK, BytesInv, SameLinks(vp_pool, vp_pool'), SameData(vp_pool, vp_pool'),
         UNCHANGED <<vp_map, disk, written>>,
         \A f \in Frames : Detached(f)' <=> Detached(f),
         last_stable_version' \in Nat, last_stable_version <= last_stable_version'
  PROVE  BytesInv'
<1>1. \A p \in PageNos : vp_map'[p] = NoFrame => disk'[p] = Latest(written'[p])
  BY DEF BytesInv
<1>2. ASSUME NEW f \in Frames, Attached(f)'
      PROVE  FrameBytes(f)'
  <2>1. /\ vp_pool'[f].page = vp_pool[f].page /\ vp_pool'[f].version = vp_pool[f].version
        /\ vp_pool'[f].prev = vp_pool[f].prev /\ vp_pool'[f].next = vp_pool[f].next
        /\ vp_pool'[f].bytes = vp_pool[f].bytes /\ vp_pool'[f].dirty = vp_pool[f].dirty
    BY DEF SameLinks, SameData
  <2>2. Attached(f)
    BY <1>2, <2>1 DEF Attached
  <2>3. FrameBytes(f)
    BY <2>2 DEF BytesInv
  <2>4. last_stable_version \in Nat /\ vp_pool[f].version \in Nat
    BY VersionTypes
  <2> QED BY <2>1, <2>3, <2>4 DEF FrameBytes
<1> QED BY <1>1, <1>2 DEF BytesInv

LEMMA QuietStep ==
  ASSUME CInv, DataInv, WrittenInv',
         SameLinks(vp_pool, vp_pool'), SameData(vp_pool, vp_pool'),
         UNCHANGED <<vp_map, disk, written, closed>>,
         \A u \in Workers : \/ pc'[u] = pc[u]
                            \/ /\ pc[u] \notin {"clean", "fill"}
                               /\ pc'[u] \notin {"clean", "fill"},
         \A u \in Workers : pc[u] \in {"clean", "fill"} => req'[u].victim = req[u].victim,
         last_stable_version' \in Nat, last_stable_version <= last_stable_version'
  PROVE  DataInv'
<1>1. LoopInv'
  <2> SUFFICES ASSUME NEW u \in Workers, pc'[u] = "clean"
               PROVE  vp_pool'[req'[u].victim].prev # NoFrame
    BY DEF LoopInv
  <2>1. pc[u] = "clean" /\ req'[u].victim = req[u].victim
    OBVIOUS
  <2>2. PICK f \in Frames : f = req[u].victim
    BY <2>1 DEF CInv, IInv, RequestInv
  <2> QED BY <2>1, <2>2 DEF DataInv, LoopInv, SameLinks
<1>2. ASSUME Open'
      PROVE  BytesInv'
  <2>1. Open
    BY <1>2 DEF Open, Cleaning
  <2>2. \A f \in Frames : Detached(f)' <=> Detached(f)
    BY DEF Detached
  <2> QED BY <2>1, <2>2, KeepBytes DEF DataInv, CInv, IInv
<1> QED BY <1>1, <1>2 DEF DataInv
LEMMA SamePool ==
  ASSUME UNCHANGED vp_pool
  PROVE  SameLinks(vp_pool, vp_pool') /\ SameData(vp_pool, vp_pool')
BY DEF SameLinks, SameData

\* The clock, unpins and the end of a walk leave the lists and the bytes alone.
LEMMA ScanPassSame ==
  ASSUME CInv, NEW w \in Workers,
         ScanPinned(w) \/ ScanSecondChance(w) \/ ScanInUse(w) \/ ScanNotInUse(w)
  PROVE  SameLinks(vp_pool, vp_pool') /\ SameData(vp_pool, vp_pool')
<1>1. CASE UNCHANGED vp_pool
  BY <1>1, SamePool
<1>2. CASE ScanSecondChance(w)
  <2>1. PICK c \in Frames : c = Hand
    BY HandType DEF CInv, IInv, TypeOK
  <2> DEFINE x == [vp_pool[c] EXCEPT !.chance = FALSE]
  <2>2. vp_pool' = [vp_pool EXCEPT ![c] = x]
    BY <1>2, <2>1 DEF ScanSecondChance
  <2>3. vp_pool \in [Frames -> VPage] /\ vp_pool[c] \in VPage
    BY DEF CInv, IInv, TypeOK
  <2>4. x.page = vp_pool[c].page /\ x.version = vp_pool[c].version
        /\ x.prev = vp_pool[c].prev /\ x.next = vp_pool[c].next
    BY <2>3 DEF VPage
  <2>5. x.bytes = vp_pool[c].bytes /\ x.dirty = vp_pool[c].dirty
    BY <2>3 DEF VPage
  <2> HIDE DEF x
  <2> QED BY <2>2, <2>3, <2>4, <2>5, FrameLinks, FrameData
<1> QED BY <1>1, <1>2 DEF ScanPinned, ScanInUse, ScanNotInUse

LEMMA UnpinSame ==
  ASSUME CInv, NEW w \in Workers, Unpin(w)
  PROVE  SameLinks(vp_pool, vp_pool') /\ SameData(vp_pool, vp_pool')
<1>1. PICK h \in held[w] : vp_pool' = [vp_pool EXCEPT ![h[1]].pins = @ - 1]
  BY DEF Unpin
<1> DEFINE c == h[1]  n == vp_pool[c].pins - 1  x == [vp_pool[c] EXCEPT !.pins = n]
<1>2. vp_pool' = [vp_pool EXCEPT ![c] = x]
  BY <1>1
<1>3. vp_pool \in [Frames -> VPage] /\ c \in Frames /\ vp_pool[c] \in VPage
  BY DEF CInv, IInv, TypeOK
<1> HIDE DEF n
<1>4. x.page = vp_pool[c].page /\ x.version = vp_pool[c].version
      /\ x.prev = vp_pool[c].prev /\ x.next = vp_pool[c].next
  BY <1>3 DEF VPage
<1>5. x.bytes = vp_pool[c].bytes /\ x.dirty = vp_pool[c].dirty
  BY <1>3 DEF VPage
<1> HIDE DEF x, c
<1> QED BY <1>2, <1>3, <1>4, <1>5, FrameLinks, FrameData

LEMMA WalkEndSame ==
  ASSUME CInv, NEW w \in Workers, WalkEnd(w)
  PROVE  SameLinks(vp_pool, vp_pool') /\ SameData(vp_pool, vp_pool')
<1>1. PICK f \in Frames, p \in PageNos : f = req[w].cur /\ p = req[w].page
  BY DEF CInv, IInv, RequestInv, WalkEnd, LockedPcs
<1>2. CASE vp_pool' = [Unpinned(w, p) EXCEPT ![f] = Pin(@)]
  <2> DEFINE q == Unpinned(w, p)
  <2>1. q \in [Frames -> VPage] /\ SameLinks(vp_pool, q) /\ SameData(vp_pool, q)
    BY UnpinnedType, UnpinnedLinks, UnpinnedData DEF CInv, IInv
  <2>2. vp_pool' = [q EXCEPT ![f] = Pin(q[f])]
    BY <1>2
  <2> HIDE DEF q
  <2>3. SameLinks(q, vp_pool') /\ SameData(q, vp_pool')
    <3>1. q[f] \in VPage
      BY <2>1
    <3> DEFINE x == Pin(q[f])
    <3>2. x.page = q[f].page /\ x.version = q[f].version
          /\ x.prev = q[f].prev /\ x.next = q[f].next
      BY <3>1, PinLinks
    <3>3. x.bytes = q[f].bytes /\ x.dirty = q[f].dirty
      BY <3>1, PinData
    <3>4. vp_pool' = [q EXCEPT ![f] = x]
      BY <2>2
    <3> HIDE DEF x
    <3> QED BY <2>1, <3>2, <3>3, <3>4, FrameLinks, FrameData
  <2> QED BY <2>1, <2>3, SameLinksChain, SameDataChain
<1> QED BY <1>1, <1>2, SamePool DEF WalkEnd

LEMMA BeginData ==
  ASSUME CInv, DataInv, NEW w \in Workers, BeginReadonly(w) \/ BeginEditable(w)
  PROVE  DataInv'
<1>1. /\ pc[w] = "idle" /\ pc' = [pc EXCEPT ![w] = "running"]
      /\ \E k : scope' = [scope EXCEPT ![w] = [kind |-> k, start |-> last_stable_version]]
      /\ UNCHANGED <<vp_pool, vp_map, disk, page_count, written, closed, req,
                     last_stable_version>>
  BY DEF BeginReadonly, BeginEditable, poolVars, fileVars, histVars
<1>2. ~IsUpdate(w)
  BY <1>1 DEF CInv, IInv, ScopeInv, IsUpdate
<1>3. \A u \in Workers \ {w} : pc'[u] = pc[u] /\ (IsUpdate(u)' <=> IsUpdate(u))
  BY <1>1 DEF CInv, IInv, TypeOK, IsUpdate
<1>4. pc'[w] = "running"
  BY <1>1 DEF CInv, IInv, TypeOK
<1>5. WrittenInv'
  BY <1>1, <1>2, <1>3 DEF DataInv, WrittenInv
<1>6. last_stable_version \in Nat
  BY VersionTypes DEF CInv, IInv
<1> QED BY <1>1, <1>3, <1>4, <1>5, <1>6, SamePool, QuietStep

LEMMA TerminateData ==
  ASSUME CInv, DataInv, NEW w \in Workers, Terminate(w)
  PROVE  DataInv'
<1>1. /\ pc[w] = "running" /\ pc' = [pc EXCEPT ![w] = "idle"]
      /\ scope' = [scope EXCEPT ![w] = [kind |-> "none", start |-> 0]]
      /\ last_stable_version' = IF IsUpdate(w) THEN last_stable_version + 1
                                ELSE last_stable_version
      /\ UNCHANGED <<vp_pool, vp_map, disk, page_count, written, closed, req>>
  BY DEF Terminate, poolVars, fileVars, histVars
<1>2. last_stable_version \in Nat /\ \A p \in PageNos : written[p] \subseteq Nat
  BY VersionTypes, DataTypes DEF CInv, IInv
<1>3. \A u \in Workers \ {w} : pc'[u] = pc[u] /\ (IsUpdate(u)' <=> IsUpdate(u))
  BY <1>1 DEF CInv, IInv, TypeOK, IsUpdate
<1>4. pc'[w] = "idle"
  BY <1>1 DEF CInv, IInv, TypeOK
<1>5. WrittenInv'
  <2>1. CASE IsUpdate(w)
    <3>1. last_stable_version' = last_stable_version + 1
      BY <1>1, <2>1
    <3> QED BY <1>1, <1>2, <3>1 DEF DataInv, WrittenInv
  <2>2. CASE ~IsUpdate(w)
    <3>1. last_stable_version' = last_stable_version
      BY <1>1, <2>2
    <3>2. \A u \in Workers : IsUpdate(u) => IsUpdate(u)'
      BY <1>3, <2>2
    <3> QED BY <1>1, <3>1, <3>2 DEF DataInv, WrittenInv
  <2> QED BY <2>1, <2>2
<1>6. last_stable_version' \in Nat /\ last_stable_version <= last_stable_version'
  BY <1>1, <1>2
<1> QED BY <1>1, <1>3, <1>4, <1>5, <1>6, SamePool, QuietStep

\* A request that looks for its page, or for a frame.
LEMMA SearchData ==
  ASSUME CInv, DataInv, NEW w \in Workers, pc[w] \notin {"clean", "fill"},
         pc'[w] \notin {"clean", "fill"}, \A u \in Workers \ {w} : pc'[u] = pc[u],
         \A u \in Workers \ {w} : req'[u] = req[u],
         SameLinks(vp_pool, vp_pool'), SameData(vp_pool, vp_pool'),
         UNCHANGED <<vp_map, disk, page_count, written, closed, last_stable_version, scope>>
  PROVE  DataInv'
<1>1. WrittenInv'
  BY KeepWritten DEF DataInv
<1>2. last_stable_version \in Nat
  BY VersionTypes DEF CInv, IInv
<1> QED BY <1>1, <1>2, QuietStep

LEMMA RequestData ==
  ASSUME CInv, DataInv, NEW w \in Workers,
         GetPageReadonly(w) \/ GetPageEditable(w) \/ AppendVPage(w)
  PROVE  DataInv'
<1>1. PICK op, p, where, cur : Enter(w, op, p, where, cur) /\ where \in {"walk", "scan"}
  BY DEF GetPageReadonly, GetPageEditable, AppendVPage, Lookup
<1>2. /\ pc[w] = "running" /\ pc' = [pc EXCEPT ![w] = where]
      /\ UNCHANGED <<poolVars, fileVars, scopeVars, held, closed, histVars>>
      /\ req' = [req EXCEPT ![w] = [NoRequest EXCEPT !.op = op, !.page = p, !.cur = cur]]
  BY <1>1 DEF Enter
<1>3. pc'[w] = where /\ \A u \in Workers \ {w} : pc'[u] = pc[u] /\ req'[u] = req[u]
  BY <1>2 DEF CInv, IInv, TypeOK
<1> QED BY <1>1, <1>2, <1>3, SamePool, SearchData
        DEF poolVars, fileVars, scopeVars, histVars

LEMMA WalkNextData ==
  ASSUME CInv, DataInv, NEW w \in Workers, WalkNext(w)
  PROVE  DataInv'
<1>1. /\ pc[w] = "walk"
      /\ UNCHANGED <<poolVars, fileVars, scopeVars, pc, held, closed, histVars>>
      /\ \A u \in Workers \ {w} : req'[u] = req[u]
  BY DEF WalkNext, CInv, IInv, TypeOK
<1> QED BY <1>1, SamePool, SearchData DEF poolVars, fileVars, scopeVars, histVars

LEMMA WalkEndData ==
  ASSUME CInv, DataInv, NEW w \in Workers, WalkEnd(w)
  PROVE  DataInv'
<1>1. PICK f \in Frames, p \in PageNos : f = req[w].cur /\ p = req[w].page
  BY DEF CInv, IInv, RequestInv, WalkEnd, LockedPcs
<1>2. pc[w] = "walk" /\ UNCHANGED <<vp_map, vp_clock, fileVars, scopeVars, closed, histVars>>
  BY DEF WalkEnd
<1>3. CASE pc' = [pc EXCEPT ![w] = "scan"] /\ UNCHANGED <<vp_pool, req>>
  <2>1. pc'[w] = "scan" /\ \A u \in Workers \ {w} : pc'[u] = pc[u]
    BY <1>3 DEF CInv, IInv, TypeOK
  <2> QED BY <1>2, <1>3, <2>1, SamePool, SearchData DEF fileVars, scopeVars, histVars
<1>4. CASE vp_pool' = [Unpinned(w, p) EXCEPT ![f] = Pin(@)] /\ Deliver(w, f, p)
  <2>1. SameLinks(vp_pool, vp_pool') /\ SameData(vp_pool, vp_pool')
    BY WalkEndSame
  <2>2. pc'[w] = "running" /\ \A u \in Workers \ {w} : pc'[u] = pc[u] /\ req'[u] = req[u]
    BY <1>4 DEF Deliver, CInv, IInv, TypeOK
  <2> QED BY <1>2, <2>1, <2>2, SearchData DEF fileVars, scopeVars, histVars
<1> QED BY <1>1, <1>3, <1>4 DEF WalkEnd

LEMMA ScanPassData ==
  ASSUME CInv, DataInv, NEW w \in Workers,
         ScanPinned(w) \/ ScanSecondChance(w) \/ ScanInUse(w) \/ ScanNotInUse(w)
  PROVE  DataInv'
<1>1. /\ pc[w] = "scan" /\ Hand \in Frames
      /\ UNCHANGED <<vp_map, vp_mutex, fileVars, scopeVars, req, held, closed, histVars>>
      /\ pc'[w] \in {"scan", "evict"}
      /\ \A u \in Workers \ {w} : pc'[u] = pc[u]
  BY HandType DEF ScanPinned, ScanSecondChance, ScanInUse, ScanNotInUse, Scanning, TypeOK,
     CInv, IInv
<1>2. SameLinks(vp_pool, vp_pool') /\ SameData(vp_pool, vp_pool')
  BY ScanPassSame
<1> QED BY <1>1, <1>2, SearchData DEF fileVars, scopeVars, histVars

LEMMA UnpinData ==
  ASSUME CInv, DataInv, NEW w \in Workers, Unpin(w)
  PROVE  DataInv'
<1>1. pc[w] = "running"
      /\ UNCHANGED <<vp_map, vp_clock, vp_mutex, fileVars, scopeVars, pc, req, closed, histVars>>
  BY DEF Unpin
<1>2. SameLinks(vp_pool, vp_pool') /\ SameData(vp_pool, vp_pool')
  BY UnpinSame
<1> QED BY <1>1, <1>2, SearchData DEF fileVars, scopeVars, histVars

\* The loop goes on for ever.
LEMMA LoopGoesOn ==
  ASSUME LoopInv, NEW w \in Workers, CleanPrevious(w)
  PROVE  UNCHANGED pc /\ req' = [req EXCEPT ![w].clean = NextToClean(w)]
BY DEF CleanPrevious, LoopInv, NextToClean

LEMMA CleanPreviousData ==
  ASSUME CInv, DataInv, NEW w \in Workers, CleanPrevious(w)
  PROVE  DataInv'
<1>1. /\ pc[w] = "clean" /\ UNCHANGED pc
      /\ UNCHANGED <<vp_map, vp_clock, vp_mutex, fileVars, scopeVars, held, closed, histVars>>
  BY LoopGoesOn DEF CleanPrevious, DataInv
<1>2. \A u \in Workers : req'[u].victim = req[u].victim
  <2> DEFINE n == NextToClean(w)
  <2>1. req' = [req EXCEPT ![w] = [req[w] EXCEPT !.clean = n]]
    BY LoopGoesOn DEF DataInv
  <2>2. req \in [Workers -> Request]
    BY DEF CInv, IInv, TypeOK
  <2> HIDE DEF n
  <2>3. [req[w] EXCEPT !.clean = n].victim = req[w].victim
    BY <2>2 DEF Request
  <2> QED BY <2>1, <2>2, <2>3
<1>3. SameLinks(vp_pool, vp_pool')
  <2> DEFINE c == req[w].clean  x == MarkedClean(vp_pool[c])
  <2>1. vp_pool \in [Frames -> VPage]
    BY DEF CInv, IInv, TypeOK
  <2>2. vp_pool' = [vp_pool EXCEPT ![c] = x]
    BY DEF CleanPrevious
  <2>3. c \in Frames => x.page = vp_pool[c].page /\ x.version = vp_pool[c].version
                        /\ x.prev = vp_pool[c].prev /\ x.next = vp_pool[c].next
    BY <2>1, CleanLinks
  <2> HIDE DEF x, c
  <2> QED BY <2>1, <2>2, <2>3, FrameLinks
<1>4. LoopInv'
  <2> SUFFICES ASSUME NEW u \in Workers, pc[u] = "clean"
               PROVE  vp_pool'[req[u].victim].prev # NoFrame
    BY <1>1, <1>2 DEF LoopInv
  <2>1. PICK f \in Frames : f = req[u].victim
    BY DEF CInv, IInv, RequestInv
  <2> QED BY <1>3, <2>1 DEF DataInv, LoopInv, SameLinks
<1>5. WrittenInv'
  BY <1>1, KeepWritten DEF DataInv, fileVars, scopeVars, histVars
<1>6. ~Open'
  BY <1>1 DEF Open, Cleaning
<1> QED BY <1>4, <1>5, <1>6 DEF DataInv

-----------------------------------------------------------------------------
(* Frames that leave the pool.                                             *)

\* While a request is at work, but for the loop, the pool is open.
LEMMA OpenAtWork ==
  ASSUME CInv, ClosedInv, NEW w \in Workers, pc[w] \in LockedPcs, pc[w] # "clean"
  PROVE  Open
<1>1. ~Cleaning
  BY OnlyHolder DEF Cleaning, LockedPcs, CInv, IInv
<1>2. closed = FALSE
  BY DEF ClosedInv, LockedPcs, CInv, IInv, TypeOK
<1> QED BY <1>1, <1>2 DEF Open

LEMMA NoOtherCleans ==
  ASSUME CInv, NEW w \in Workers, pc[w] \in LockedPcs, pc'[w] # "clean",
         \A u \in Workers \ {w} : pc'[u] = pc[u]
  PROVE  LoopInv'
<1>1. \A u \in Workers : pc'[u] # "clean"
  BY OnlyHolder DEF LockedPcs, CInv, IInv
<1> QED BY <1>1 DEF LoopInv

LEMMA CleanData ==
  ASSUME NEW x \in VPage
  PROVE  MarkedClean(x).bytes = x.bytes /\ MarkedClean(x).dirty = FALSE
BY DEF MarkedClean, VPage

LEMMA ScanOnlyVersionData ==
  ASSUME CInv, DataInv, ClosedInv, NEW w \in Workers, ScanOnlyVersion(w)
  PROVE  DataInv'
<1>1. PICK f \in Frames : f = Hand
  BY HandType DEF CInv, IInv, TypeOK
<1> DEFINE page == vp_pool[f].page
<1>2. /\ pc[w] = "scan" /\ OnlyVersion(f) /\ Found(w, f)
      /\ vp_map' = IF page # NoPage THEN [vp_map EXCEPT ![page] = NoFrame] ELSE vp_map
      /\ UNCHANGED <<page_count, scopeVars, held, closed, histVars>>
      /\ \/ /\ vp_pool[f].dirty
            /\ disk' = [disk EXCEPT ![page] = vp_pool[f].bytes]
            /\ vp_pool' = [vp_pool EXCEPT ![f] = MarkedClean(vp_pool[f])]
         \/ ~vp_pool[f].dirty /\ UNCHANGED <<disk, vp_pool>>
  BY <1>1 DEF ScanOnlyVersion, Scanning
<1>3. pc'[w] = "fill" /\ \A u \in Workers \ {w} : pc'[u] = pc[u]
  BY <1>2, FoundVictim
<1>4. \A g \in Frames : ~Detached(g) /\ (Detached(g)' <=> g = f)
  BY <1>2, FoundVictim, VictimDetached
<1>5. LoopInv'
  BY <1>2, <1>3, NoOtherCleans DEF LockedPcs
<1>6. WrittenInv'
  BY <1>2, KeepWritten DEF DataInv, scopeVars, histVars
<1>7. BytesInv
  BY <1>2, OpenAtWork DEF DataInv, LockedPcs
<1>8. /\ vp_pool \in [Frames -> VPage] /\ vp_map \in [PageNos -> Frames \cup {NoFrame}]
      /\ disk \in [PageNos -> Versions] /\ page \in PageNos \cup {NoPage}
      /\ vp_pool[f].next = NoFrame /\ UNCHANGED <<written, last_stable_version>>
  BY <1>2 DEF CInv, IInv, TypeOK, VPage, OnlyVersion, histVars, scopeVars
<1>9. \A g \in Frames \ {f} : vp_pool'[g] = vp_pool[g]
  BY <1>2, <1>8
<1>10. \A p \in PageNos : p # page => disk'[p] = disk[p]
  BY <1>2, <1>8
<1>11. page # NoPage => disk'[page] = Latest(written[page])
  <2> SUFFICES ASSUME page # NoPage PROVE disk'[page] = Latest(written[page])
    OBVIOUS
  <2>1. FrameBytes(f)
    BY <1>4, <1>7 DEF BytesInv, Attached
  <2>2. vp_pool[f].bytes = Latest(written[page])
    BY <1>8, <2>1 DEF FrameBytes
  <2>3. CASE vp_pool[f].dirty = TRUE
    BY <1>2, <1>8, <2>2, <2>3
  <2>4. CASE vp_pool[f].dirty = FALSE
    BY <1>2, <1>8, <2>1, <2>2, <2>4 DEF FrameBytes
  <2> QED BY <2>3, <2>4, DataTypes DEF CInv, IInv
<1>12. ASSUME NEW p \in PageNos, vp_map'[p] = NoFrame
       PROVE  disk'[p] = Latest(written'[p])
  <2>1. CASE p = page
    BY <1>8, <1>11, <2>1, FramesAndPages
  <2>2. CASE p # page
    <3>1. vp_map[p] = NoFrame
      BY <1>2, <1>8, <1>12, <2>2
    <3> QED BY <1>7, <1>8, <1>10, <2>2, <3>1 DEF BytesInv
  <2> QED BY <2>1, <2>2
<1>13. ASSUME NEW g \in Frames, Attached(g)'
       PROVE  FrameBytes(g)'
  <2>1. g # f /\ vp_pool'[g] = vp_pool[g]
    BY <1>4, <1>9, <1>13 DEF Attached
  <2>2. Attached(g) /\ vp_pool[g].page # NoPage
    BY <1>4, <1>13, <2>1 DEF Attached
  <2>3. vp_pool[g].page # page
    <3> SUFFICES ASSUME vp_pool[g].page = page PROVE FALSE
      OBVIOUS
    <3>1. SamePage(f, g)
      BY <1>4, <2>2 DEF SamePage, Attached
    <3> QED BY <1>2, <2>1, <3>1, OnlyOne DEF CInv
  <2>4. disk'[vp_pool[g].page] = disk[vp_pool[g].page]
    <3>1. vp_pool[g].page \in PageNos
      BY <2>2, LinkTypes DEF CInv
    <3> QED BY <1>10, <2>3, <3>1
  <2>5. FrameBytes(g)
    BY <1>7, <2>2 DEF BytesInv
  <2> QED BY <1>8, <2>1, <2>4, <2>5 DEF FrameBytes
<1> QED BY <1>5, <1>6, <1>12, <1>13 DEF DataInv, BytesInv

LEMMA LinkData ==
  ASSUME NEW q \in [Frames -> VPage], NEW c \in Frames, NEW n
  PROVE  /\ SameData(q, [q EXCEPT ![c].next = n])
         /\ SameData(q, [q EXCEPT ![c].prev = n])
<1> DEFINE x == [q[c] EXCEPT !.next = n]
           y == [q[c] EXCEPT !.prev = n]
<1>1. q[c] \in VPage
  OBVIOUS
<1>2. /\ x.bytes = q[c].bytes /\ x.dirty = q[c].dirty
      /\ y.bytes = q[c].bytes /\ y.dirty = q[c].dirty
  BY <1>1 DEF VPage
<1>3. /\ [q EXCEPT ![c].next = n] = [q EXCEPT ![c] = x]
      /\ [q EXCEPT ![c].prev = n] = [q EXCEPT ![c] = y]
  OBVIOUS
<1> HIDE DEF x, y
<1> QED BY <1>2, <1>3, FrameData

LEMMA UnlinkData ==
  ASSUME TypeOK, NEW f \in Frames
  PROVE  SameData(vp_pool, Unlink(f))
<1> DEFINE prev == vp_pool[f].prev  next == vp_pool[f].next
           cut == IF prev # NoFrame THEN [vp_pool EXCEPT ![prev].next = next] ELSE vp_pool
           out == IF next # NoFrame THEN [cut EXCEPT ![next].prev = prev] ELSE cut
<1>1. /\ prev \in Frames \cup {NoFrame} /\ next \in Frames \cup {NoFrame}
      /\ vp_pool \in [Frames -> VPage] /\ NoFrame \notin Frames
  BY FramesAndPages DEF TypeOK, VPage
<1>2. cut \in [Frames -> VPage] /\ SameData(vp_pool, cut)
  <2>1. CASE prev = NoFrame
    BY <1>1, <2>1 DEF SameData
  <2>2. CASE prev # NoFrame
    <3>1. cut = [vp_pool EXCEPT ![prev].next = next] /\ prev \in Frames
      BY <1>1, <2>2
    <3> HIDE DEF cut, prev, next
    <3>2. cut \in [Frames -> VPage]
      BY <1>1, <3>1, SetNext
    <3> QED BY <1>1, <3>1, <3>2, LinkData
  <2> QED BY <2>1, <2>2
<1> HIDE DEF cut
<1>3. SameData(cut, out)
  <2>1. CASE next = NoFrame
    BY <2>1 DEF SameData
  <2>2. CASE next # NoFrame
    <3>1. out = [cut EXCEPT ![next].prev = prev] /\ next \in Frames
      BY <1>1, <2>2
    <3>2. cut \in [Frames -> VPage]
      BY <1>2
    <3> HIDE DEF out, prev, next
    <3> QED BY <3>1, <3>2, LinkData
  <2> QED BY <2>1, <2>2
<1>4. Unlink(f) = out
  BY DEF Unlink, cut
<1> HIDE DEF out
<1> QED BY <1>2, <1>3, <1>4, SameDataChain

\* The newest version with others before it is dirty, so the loop begins; any
\* other version leaves the newest one, and the file, as they were.
LEMMA EvictVersionData ==
  ASSUME CInv, CInv', DataInv, ClosedInv, NEW w \in Workers, EvictVersion(w)
  PROVE  DataInv'
<1>1. PICK f \in Frames : f = vp_clock
  BY DEF CInv, IInv, TypeOK
<1>2. PICK prev \in Frames \cup {NoFrame}, next \in Frames \cup {NoFrame} :
        prev = vp_pool[f].prev /\ next = vp_pool[f].next
  BY LinkTypes DEF CInv
<1>3. /\ pc[w] = "evict" /\ ~OnlyVersion(f)
      /\ UNCHANGED <<page_count, scopeVars, held, closed, histVars>>
  BY <1>1 DEF EvictVersion, CInv, PageInv, PageFacts
<1>4. vp_pool[f].page # NoPage /\ Attached(f)
  <2>1. vp_pool[f].page # NoPage
    BY <1>3 DEF OnlyVersion, CInv, ChainInv, LinkInv
  <2>2. \A u \in Workers : pc[u] \notin {"clean", "fill"}
    BY <1>3, OnlyHolder DEF LockedPcs, CInv, IInv
  <2> QED BY <2>1, <2>2 DEF Attached, Detached
<1>5. BytesInv
  BY <1>3, OpenAtWork DEF DataInv, LockedPcs
<1>6. WrittenInv'
  BY <1>3, KeepWritten DEF DataInv, scopeVars, histVars
<1>7. /\ Unlink(f) \in [Frames -> VPage] /\ SameData(vp_pool, Unlink(f))
      /\ \A g \in Frames :
           /\ Unlink(f)[g].page = vp_pool[g].page
           /\ Unlink(f)[g].version = vp_pool[g].version
           /\ Unlink(f)[g].next = IF g = prev THEN next ELSE vp_pool[g].next
           /\ Unlink(f)[g].prev = IF g = next THEN prev ELSE vp_pool[g].prev
  BY <1>2, UnlinkType, UnlinkLinks, UnlinkData DEF CInv, IInv
<1>8. CASE NewestDirty(f)
  <2>1. /\ pc' = [pc EXCEPT ![w] = "clean"]
        /\ req' = [req EXCEPT ![w].victim = f, ![w].clean = prev]
        /\ vp_pool' = [Unlink(f) EXCEPT ![f] = MarkedClean(@)]
    BY <1>1, <1>2, <1>8 DEF EvictVersion
  <2>2. pc'[w] = "clean" /\ req'[w].victim = f
        /\ \A u \in Workers \ {w} : pc'[u] = pc[u]
    <3>1. /\ req'[w] = [req[w] EXCEPT !.victim = f, !.clean = prev] /\ req[w] \in Request
          /\ pc'[w] = "clean" /\ \A u \in Workers \ {w} : pc'[u] = pc[u]
      BY <2>1 DEF CInv, IInv, TypeOK
    <3> QED BY <3>1 DEF Request
  <2>3. next = NoFrame /\ prev # NoFrame
    BY <1>2, <1>3, <1>8 DEF NewestDirty, OnlyVersion
  <2>4. vp_pool'[f].prev = prev
    <3> DEFINE q == Unlink(f)
    <3>1. q \in [Frames -> VPage] /\ q[f].prev = prev
      BY <1>2, <1>7, <2>3, FramesAndPages
    <3>2. vp_pool' = [q EXCEPT ![f] = MarkedClean(q[f])]
      BY <2>1
    <3> HIDE DEF q
    <3> QED BY <3>1, <3>2, CleanLinks
  <2>5. LoopInv'
    <3>1. \A u \in Workers \ {w} : pc'[u] # "clean"
      BY <1>3, <2>2, OnlyHolder DEF LockedPcs, CInv, IInv
    <3> QED BY <2>2, <2>3, <2>4, <3>1 DEF LoopInv
  <2>6. ~Open'
    BY <2>2 DEF Open, Cleaning
  <2> QED BY <1>6, <2>5, <2>6 DEF DataInv
<1>9. CASE ~NewestDirty(f)
  <2>1. /\ vp_pool' = Unlink(f) /\ Found(w, f) /\ UNCHANGED disk
        /\ vp_map' = IF prev = NoFrame THEN [vp_map EXCEPT ![vp_pool[f].page] = next]
                     ELSE vp_map
    BY <1>1, <1>2, <1>4, <1>9 DEF EvictVersion
  <2>2. pc'[w] = "fill" /\ \A u \in Workers \ {w} : pc'[u] = pc[u]
    BY <1>3, <2>1, FoundVictim
  <2>3. \A g \in Frames : ~Detached(g) /\ (Detached(g)' <=> g = f)
    BY <1>3, <2>1, FoundVictim, VictimDetached
  <2>4. LoopInv'
    BY <1>3, <2>2, NoOtherCleans DEF LockedPcs
  <2>5. FrameBytes(f)
    BY <1>4, <1>5 DEF BytesInv
  <2>6. next # NoFrame
    BY <1>2, <1>3, <1>9, <2>5 DEF FrameBytes, NewestDirty, OnlyVersion
  <2>7. ASSUME NEW p \in PageNos, vp_map'[p] = NoFrame
        PROVE  disk'[p] = Latest(written'[p])
    <3>1. vp_map[p] = NoFrame
      BY <2>1, <2>6, <2>7 DEF CInv, IInv, TypeOK
    <3> QED BY <1>3, <1>5, <2>1, <3>1 DEF BytesInv, histVars
  <2>8. ASSUME NEW g \in Frames, Attached(g)'
        PROVE  FrameBytes(g)'
    <3>1. /\ vp_pool'[g].page = vp_pool[g].page /\ vp_pool'[g].version = vp_pool[g].version
          /\ vp_pool'[g].bytes = vp_pool[g].bytes /\ vp_pool'[g].dirty = vp_pool[g].dirty
          /\ vp_pool'[g].next = IF g = prev THEN next ELSE vp_pool[g].next
          /\ vp_pool'[g].prev = IF g = next THEN prev ELSE vp_pool[g].prev
      BY <1>7, <2>1 DEF SameData
    <3>2. Attached(g)
      BY <2>3, <2>8, <3>1 DEF Attached
    <3>3. FrameBytes(g)
      BY <1>5, <3>2 DEF BytesInv
    <3>4. vp_pool'[g].next = NoFrame => vp_pool[g].next = NoFrame
      BY <2>6, <3>1
    <3>5. vp_pool'[g].prev # NoFrame => vp_pool[g].prev # NoFrame
      <4>1. g = next => vp_pool[g].prev = f
        BY <1>2, <1>4, <2>6 DEF CInv, ChainInv, LinkInv
      <4> QED BY <3>1, <4>1, FramesAndPages
    <3> QED BY <1>3, <2>1, <3>1, <3>3, <3>4, <3>5 DEF FrameBytes, histVars, scopeVars
  <2> QED BY <1>6, <2>4, <2>7, <2>8 DEF DataInv, BytesInv
<1> QED BY <1>8, <1>9

-----------------------------------------------------------------------------
(* Frames that get a page, and writes.                                     *)

LEMMA UnpinnedSame ==
  ASSUME CInv, NEW w \in Workers, NEW p \in PageNos
  PROVE  /\ Unpinned(w, p) \in [Frames -> VPage]
         /\ SameLinks(vp_pool, Unpinned(w, p)) /\ SameData(vp_pool, Unpinned(w, p))
BY UnpinnedType, UnpinnedLinks, UnpinnedData DEF CInv, IInv

LEMMA DirtiedData ==
  ASSUME NEW x \in VPage
  PROVE  Dirtied(x).bytes = x.bytes /\ Dirtied(x).dirty = TRUE
BY DEF Dirtied, VPage

LEMMA ReassignedData ==
  ASSUME NEW f, NEW p, NEW v, NEW prev, NEW b
  PROVE  Reassigned(f, p, v, prev, b).bytes = b
BY DEF Reassigned

\* The frame of a copy or of a new page is dirty.
LEMMA CopyData ==
  ASSUME TypeOK, NEW f \in Frames, NEW p \in PageNos, NEW n \in Versions,
         NEW prev \in Frames \cup {NoFrame}, NEW b \in Versions
  PROVE  LET v == Dirtied(Reassigned(f, p, n, prev, b))
         IN  v.bytes = b /\ v.dirty = TRUE
<1> DEFINE r == Reassigned(f, p, n, prev, b)
<1>1. r \in VPage /\ r.bytes = b
  BY ReassignedType, ReassignedData
<1> HIDE DEF r
<1>2. Dirtied(r).bytes = b /\ Dirtied(r).dirty = TRUE
  BY <1>1, DirtiedData
<1> QED BY <1>2 DEF r

\* A page that was not in the pool gets frame f, with its last write.
LEMMA AttachData ==
  ASSUME CInv, BytesInv, NEW f \in Frames, NEW p \in PageNos, vp_map[p] = NoFrame,
         \A g \in Frames : (Detached(g) <=> g = f) /\ ~Detached(g)',
         vp_map' = [vp_map EXCEPT ![p] = f],
         \A g \in Frames \ {f} :
           /\ vp_pool'[g].page = vp_pool[g].page /\ vp_pool'[g].version = vp_pool[g].version
           /\ vp_pool'[g].prev = vp_pool[g].prev /\ vp_pool'[g].next = vp_pool[g].next
           /\ vp_pool'[g].bytes = vp_pool[g].bytes /\ vp_pool'[g].dirty = vp_pool[g].dirty,
         vp_pool'[f].page = p, vp_pool'[f].prev = NoFrame, disk'[p] = Latest(written[p]),
         vp_pool'[f].bytes = disk'[p],
         vp_pool'[f].version > last_stable_version => vp_pool'[f].dirty = TRUE,
         \A q \in PageNos \ {p} : disk'[q] = disk[q],
         UNCHANGED <<written, last_stable_version>>
  PROVE  BytesInv'
<1>1. ASSUME NEW q \in PageNos, vp_map'[q] = NoFrame
      PROVE  disk'[q] = Latest(written'[q])
  <2>1. q # p /\ vp_map[q] = NoFrame
    BY <1>1, FramesAndPages DEF CInv, IInv, TypeOK
  <2> QED BY <2>1 DEF BytesInv
<1>2. FrameBytes(f)'
  BY DEF FrameBytes
<1>3. ASSUME NEW g \in Frames \ {f}, Attached(g)'
      PROVE  FrameBytes(g)'
  <2>1. Attached(g)
    BY <1>3 DEF Attached
  <2>2. vp_pool[g].page # p /\ vp_pool[g].page \in PageNos
    BY <2>1, LinkTypes DEF CInv, ChainInv, EntryInv, Attached
  <2>3. FrameBytes(g)
    BY <2>1 DEF BytesInv
  <2> QED BY <2>2, <2>3 DEF FrameBytes
<1> QED BY <1>1, <1>2, <1>3 DEF BytesInv

\* What a fill knows before it begins, and what all fills leave alone.
LEMMA FillData ==
  ASSUME CInv, DataInv, ClosedInv, NEW w \in Workers, NEW op, Filling(w, op),
         NEW p \in PageNos, Deliver(w, req[w].victim, p)
  PROVE  BytesInv /\ LoopInv'
<1>1. pc[w] = "fill" /\ pc' = [pc EXCEPT ![w] = "running"]
  BY DEF Filling, Deliver
<1>2. pc'[w] = "running" /\ \A u \in Workers \ {w} : pc'[u] = pc[u]
  BY <1>1 DEF CInv, IInv, TypeOK
<1> QED BY <1>1, <1>2, OpenAtWork, NoOtherCleans DEF DataInv, LockedPcs

LEMMA FillReadData ==
  ASSUME CInv, DataInv, ClosedInv, NEW w \in Workers, FillRead(w)
  PROVE  DataInv'
<1>1. Filling(w, "read")
  BY DEF FillRead
<1>2. PICK f \in Frames, p \in PageNos : f = req[w].victim /\ p = req[w].page
  BY <1>1, FillFacts DEF CInv
<1>3. PICK v \in VPage :
        /\ v = Reassigned(f, p, Start(w), NoFrame, disk[p])
        /\ v.page = p /\ v.version = Start(w) /\ v.prev = NoFrame
        /\ v.next = NoFrame /\ v.bytes = disk[p]
  <2>1. disk[p] \in Versions /\ NoFrame \in Frames \cup {NoFrame}
    BY DEF CInv, IInv, TypeOK
  <2>2. Start(w) \in Versions
    BY <1>1, FillFacts DEF CInv
  <2> QED BY <2>1, <2>2, ReassignedType, ReassignedLinks, ReassignedData DEF CInv, IInv
<1>4. /\ Deliver(w, f, p)
      /\ vp_pool' = [Unpinned(w, p) EXCEPT ![f] = v]
      /\ vp_map' = [vp_map EXCEPT ![p] = f]
      /\ UNCHANGED <<disk, page_count, scope, last_stable_version, written>>
  BY <1>2, <1>3 DEF FillRead, fileVars, scopeVars, histVars
<1>5. BytesInv /\ LoopInv'
  BY <1>1, <1>2, <1>4, FillData
<1>6. WrittenInv'
  BY <1>4, KeepWritten DEF DataInv
<1>7. vp_map[p] = NoFrame
  BY <1>1, <1>2 DEF Filling, CInv, PageInv, PageFacts, LockedPcs
<1>8. disk[p] = Latest(written[p])
  BY <1>5, <1>7 DEF BytesInv
<1>9. ~(v.version > last_stable_version)
  BY <1>3, VersionTypes DEF CInv, IInv, VersionInv
<1>10. \A g \in Frames : (Detached(g) <=> g = f) /\ ~Detached(g)'
  BY <1>1, <1>2, <1>4, FillVictim
<1>11. BytesInv'
  <2>1. /\ vp_pool'[f] = v
        /\ \A g \in Frames \ {f} :
             /\ vp_pool'[g].page = vp_pool[g].page
             /\ vp_pool'[g].version = vp_pool[g].version
             /\ vp_pool'[g].prev = vp_pool[g].prev /\ vp_pool'[g].next = vp_pool[g].next
             /\ vp_pool'[g].bytes = vp_pool[g].bytes /\ vp_pool'[g].dirty = vp_pool[g].dirty
    <3> DEFINE q == Unpinned(w, p)
    <3>1. q \in [Frames -> VPage] /\ SameLinks(vp_pool, q) /\ SameData(vp_pool, q)
      BY UnpinnedSame
    <3>2. vp_pool' = [q EXCEPT ![f] = v]
      BY <1>4
    <3> HIDE DEF q
    <3> QED BY <3>1, <3>2 DEF SameLinks, SameData
  <2>2. /\ vp_pool'[f].page = p /\ vp_pool'[f].prev = NoFrame
        /\ disk'[p] = Latest(written[p]) /\ vp_pool'[f].bytes = disk'[p]
        /\ vp_pool'[f].version > last_stable_version => vp_pool'[f].dirty = TRUE
    BY <1>3, <1>4, <1>8, <1>9, <2>1
  <2>3. \A q \in PageNos \ {p} : disk'[q] = disk[q]
    BY <1>4
  <2> QED BY <1>4, <1>5, <1>7, <1>10, <2>1, <2>2, <2>3, AttachData
<1> QED BY <1>5, <1>6, <1>11 DEF DataInv

LEMMA FillAppendData ==
  ASSUME CInv, DataInv, ClosedInv, NEW w \in Workers, FillAppend(w)
  PROVE  DataInv'
<1>1. Filling(w, "append")
  BY DEF FillAppend
<1>2. PICK f \in Frames, p \in PageNos : f = req[w].victim /\ p = page_count + 1
  BY <1>1, FillFacts DEF CInv
<1>3. PICK v \in VPage :
        /\ v = Dirtied(Reassigned(f, p, Result(w), NoFrame, 0))
        /\ v.page = p /\ v.version = Result(w) /\ v.prev = NoFrame
        /\ v.next = NoFrame /\ v.bytes = 0 /\ v.dirty = TRUE
  <2>1. 0 \in Versions /\ NoFrame \in Frames \cup {NoFrame}
    BY FramesAndPages DEF Versions
  <2>2. Result(w) \in Versions
    BY <1>1, FillFacts DEF CInv
  <2> DEFINE x == Dirtied(Reassigned(f, p, Result(w), NoFrame, 0))
  <2>3. x \in VPage /\ x.page = p /\ x.version = Result(w) /\ x.prev = NoFrame /\ x.next = NoFrame
    BY <2>1, <2>2, CopyFacts DEF CInv, IInv
  <2>4. x.bytes = 0 /\ x.dirty = TRUE
    BY <2>1, <2>2, CopyData DEF CInv, IInv
  <2> HIDE DEF x
  <2> QED BY <2>3, <2>4 DEF x
<1>4. /\ Deliver(w, f, p)
      /\ vp_pool' = [Unpinned(w, p) EXCEPT ![f] = v]
      /\ vp_map' = [vp_map EXCEPT ![p] = f]
      /\ disk' = [disk EXCEPT ![p] = 0]
      /\ page_count' = p
      /\ UNCHANGED <<scope, last_stable_version, written>>
  BY <1>2, <1>3 DEF FillAppend, scopeVars
<1>5. BytesInv /\ LoopInv'
  BY <1>1, <1>2, <1>4, FillData
<1>6. page_count \in Nat /\ PageNos \subseteq Nat
  BY DataTypes DEF CInv, IInv, PageNos
<1>7. WrittenInv'
  <2>1. \A u \in Workers : IsUpdate(u)' <=> IsUpdate(u)
    BY <1>4 DEF IsUpdate
  <2>2. \A q \in PageNos : q > p => q > page_count
    BY <1>2, <1>6
  <2> QED BY <1>4, <2>1, <2>2 DEF DataInv, WrittenInv
<1>8. vp_map[p] = NoFrame
  BY <1>2, <1>6 DEF CInv, FileInv
<1>9. Latest(written[p]) = 0
  <2>1. written[p] = {0}
    BY <1>2, <1>6 DEF DataInv, WrittenInv
  <2> QED BY <2>1, LatestIs
<1>10. disk'[p] = 0 /\ \A q \in PageNos \ {p} : disk'[q] = disk[q]
  BY <1>4 DEF CInv, IInv, TypeOK
<1>11. \A g \in Frames : (Detached(g) <=> g = f) /\ ~Detached(g)'
  BY <1>1, <1>2, <1>4, FillVictim
<1>12. BytesInv'
  <2>1. /\ vp_pool'[f] = v
        /\ \A g \in Frames \ {f} :
             /\ vp_pool'[g].page = vp_pool[g].page
             /\ vp_pool'[g].version = vp_pool[g].version
             /\ vp_pool'[g].prev = vp_pool[g].prev /\ vp_pool'[g].next = vp_pool[g].next
             /\ vp_pool'[g].bytes = vp_pool[g].bytes /\ vp_pool'[g].dirty = vp_pool[g].dirty
    <3> DEFINE q == Unpinned(w, p)
    <3>1. q \in [Frames -> VPage] /\ SameLinks(vp_pool, q) /\ SameData(vp_pool, q)
      BY UnpinnedSame
    <3>2. vp_pool' = [q EXCEPT ![f] = v]
      BY <1>4
    <3> HIDE DEF q
    <3> QED BY <3>1, <3>2 DEF SameLinks, SameData
  <2>2. /\ vp_pool'[f].page = p /\ vp_pool'[f].prev = NoFrame
        /\ disk'[p] = Latest(written[p]) /\ vp_pool'[f].bytes = disk'[p]
        /\ vp_pool'[f].version > last_stable_version => vp_pool'[f].dirty = TRUE
    BY <1>3, <1>9, <1>10, <2>1
  <2> QED BY <1>4, <1>5, <1>8, <1>10, <1>11, <2>1, <2>2, AttachData
<1> QED BY <1>5, <1>7, <1>12 DEF DataInv

LEMMA FillEditData ==
  ASSUME CInv, DataInv, ClosedInv, NEW w \in Workers, FillEdit(w)
  PROVE  DataInv'
<1>1. Filling(w, "edit") /\ req[w].cur # NoFrame
  BY DEF FillEdit
<1>2. PICK f \in Frames, p \in PageNos, base \in Frames :
        f = req[w].victim /\ p = req[w].page /\ base = req[w].cur
  BY <1>1, FillFacts DEF CInv
<1>3. PICK v : /\ v = Dirtied(Reassigned(f, p, Result(w), base, vp_pool[base].bytes))
               /\ v.page = p /\ v.next = NoFrame /\ v.dirty = TRUE
               /\ v.bytes = vp_pool[base].bytes
  <2>1. vp_pool[base].bytes \in Versions /\ base \in Frames \cup {NoFrame}
    BY DEF CInv, IInv, TypeOK, VPage
  <2>2. Result(w) \in Versions
    BY <1>1, FillFacts DEF CInv
  <2> DEFINE x == Dirtied(Reassigned(f, p, Result(w), base, vp_pool[base].bytes))
  <2>3. x.page = p /\ x.next = NoFrame
    BY <2>1, <2>2, CopyFacts DEF CInv, IInv
  <2>4. x.bytes = vp_pool[base].bytes /\ x.dirty = TRUE
    BY <2>1, <2>2, CopyData DEF CInv, IInv
  <2> HIDE DEF x
  <2> QED BY <2>3, <2>4 DEF x
<1>4. /\ Deliver(w, f, p)
      /\ vp_pool' = [Unpinned(w, p) EXCEPT ![base].next = f, ![f] = v]
      /\ UNCHANGED <<vp_map, disk, page_count, scope, last_stable_version, written>>
  BY <1>2, <1>3 DEF FillEdit, fileVars, scopeVars, histVars
<1>5. BytesInv /\ LoopInv'
  BY <1>1, <1>2, <1>4, FillData
<1>6. WrittenInv'
  BY <1>4, KeepWritten DEF DataInv
<1>7. /\ IsUpdate(w) /\ <<base, p>> \in held[w]
  BY <1>1, <1>2 DEF Filling, CInv, PageInv, PageFacts, LockedPcs
<1>8. Attached(base) /\ vp_pool[base].page = p /\ vp_pool[base].next = NoFrame
  BY <1>7, HeldAttached DEF CInv
<1>9. \A g \in Frames : (Detached(g) <=> g = f) /\ ~Detached(g)'
  BY <1>1, <1>2, <1>4, FillVictim
<1>10. base # f
  BY <1>8, <1>9 DEF Attached
<1>11. vp_pool'[f] = v /\ \A g \in Frames \ {f} :
         /\ vp_pool'[g].page = vp_pool[g].page /\ vp_pool'[g].version = vp_pool[g].version
         /\ vp_pool'[g].prev = vp_pool[g].prev
         /\ vp_pool'[g].next = IF g = base THEN f ELSE vp_pool[g].next
         /\ vp_pool'[g].bytes = vp_pool[g].bytes /\ vp_pool'[g].dirty = vp_pool[g].dirty
  <2> DEFINE q == Unpinned(w, p)
             u == [q EXCEPT ![base].next = f]
  <2>1. q \in [Frames -> VPage] /\ SameLinks(vp_pool, q) /\ SameData(vp_pool, q)
    BY UnpinnedSame
  <2>2. vp_pool' = [u EXCEPT ![f] = v]
    BY <1>4
  <2> HIDE DEF q
  <2>3. u = [q EXCEPT ![base].next = f] /\ q \in [Frames -> VPage] /\ SameData(q, u)
    BY <2>1, LinkData
  <2> HIDE DEF u
  <2>4. /\ u \in [Frames -> VPage]
        /\ \A g \in Frames :
             /\ u[g].page = q[g].page /\ u[g].version = q[g].version
             /\ u[g].prev = q[g].prev
             /\ u[g].next = IF g = base THEN f ELSE q[g].next
    BY <2>3, SetNext
  <2>5. vp_pool'[f] = v /\ \A g \in Frames \ {f} : vp_pool'[g] = u[g]
    BY <2>2, <2>4
  <2>6. \A g \in Frames : /\ u[g].bytes = vp_pool[g].bytes /\ u[g].dirty = vp_pool[g].dirty
    BY <2>1, <2>3 DEF SameData
  <2>7. \A g \in Frames :
          /\ u[g].page = vp_pool[g].page /\ u[g].version = vp_pool[g].version
          /\ u[g].prev = vp_pool[g].prev
          /\ u[g].next = IF g = base THEN f ELSE vp_pool[g].next
    BY <2>1, <2>4 DEF SameLinks
  <2> QED BY <2>5, <2>6, <2>7
<1>12. vp_pool[base].bytes = Latest(written[p])
  BY <1>5, <1>8 DEF BytesInv, FrameBytes
<1>13. FrameBytes(f)'
  BY <1>3, <1>4, <1>11, <1>12 DEF FrameBytes
<1>14. ASSUME NEW g \in Frames \ {f}, Attached(g)'
       PROVE  FrameBytes(g)'
  <2>1. Attached(g)
    BY <1>9, <1>11, <1>14 DEF Attached
  <2>2. FrameBytes(g)
    BY <1>5, <2>1 DEF BytesInv
  <2>3. vp_pool'[g].next = NoFrame => vp_pool[g].next = NoFrame
    BY <1>11, FramesAndPages
  <2> QED BY <1>4, <1>11, <2>2, <2>3 DEF FrameBytes
<1>15. BytesInv'
  BY <1>4, <1>5, <1>13, <1>14 DEF BytesInv
<1> QED BY <1>5, <1>6, <1>15 DEF DataInv

\* An update writes the newest version of a page, which is dirty: it is of the
\* version of the update.
LEMMA WritePageData ==
  ASSUME CInv, DataInv, ClosedInv, NEW w \in Workers, WritePage(w)
  PROVE  DataInv'
<1>1. PICK h \in held[w] :
        /\ vp_pool[h[1]].version = Result(w)
        /\ vp_pool' = [vp_pool EXCEPT ![h[1]].bytes = Result(w)]
        /\ written' = [written EXCEPT ![h[2]] = @ \cup {Result(w)}]
  BY DEF WritePage
<1>2. PICK f \in Frames, p \in PageNos : h = <<f, p>>
  BY DEF CInv, IInv, TypeOK
<1> DEFINE n == Result(w)
<1>3. /\ vp_pool[f].version = n
      /\ vp_pool' = [vp_pool EXCEPT ![f] = [vp_pool[f] EXCEPT !.bytes = n]]
      /\ written' = [written EXCEPT ![p] = written[p] \cup {n}]
      /\ <<f, p>> \in held[w]
  BY <1>1, <1>2
<1>4. /\ pc[w] = "running" /\ IsUpdate(w)
      /\ UNCHANGED <<vp_map, disk, page_count, scope, last_stable_version, pc, req, closed>>
  BY DEF WritePage, fileVars, scopeVars
<1>5. n = last_stable_version + 1 /\ last_stable_version \in Nat
  BY <1>4, VersionTypes DEF CInv, IInv, ScopeInv, Result, Start
<1>6. Attached(f) /\ vp_pool[f].page = p /\ vp_pool[f].next = NoFrame
  BY <1>3, <1>4, HeldAttached DEF CInv
<1>7. /\ vp_pool \in [Frames -> VPage] /\ written \in [PageNos -> SUBSET Versions]
      /\ \A q \in PageNos : written[q] \subseteq Nat
  BY DataTypes DEF CInv, IInv, TypeOK
<1> HIDE DEF n
<1>8. /\ vp_pool'[f].page = p /\ vp_pool'[f].version = n
      /\ vp_pool'[f].prev = vp_pool[f].prev /\ vp_pool'[f].next = NoFrame
      /\ vp_pool'[f].bytes = n /\ vp_pool'[f].dirty = vp_pool[f].dirty
      /\ \A g \in Frames \ {f} : vp_pool'[g] = vp_pool[g]
  <2> DEFINE x == [vp_pool[f] EXCEPT !.bytes = n]
  <2>1. vp_pool[f] \in VPage
    BY <1>7
  <2>2. /\ x.page = p /\ x.version = n
        /\ x.prev = vp_pool[f].prev /\ x.next = NoFrame
        /\ x.bytes = n /\ x.dirty = vp_pool[f].dirty
    BY <1>3, <1>6, <2>1 DEF VPage
  <2>3. vp_pool' = [vp_pool EXCEPT ![f] = x]
    BY <1>3
  <2> HIDE DEF x
  <2> QED BY <1>7, <2>2, <2>3
<1>9. /\ written'[p] = written[p] \cup {n}
      /\ \A q \in PageNos \ {p} : written'[q] = written[q]
  BY <1>3, <1>7
<1>10. vp_map[p] # NoFrame /\ p <= page_count
  BY <1>6 DEF CInv, ChainInv, EntryInv, FileInv
<1>11. WrittenInv'
  <2>1. \A u \in Workers : IsUpdate(u)' <=> IsUpdate(u)
    BY <1>4 DEF IsUpdate
  <2>2. p \in Nat /\ page_count \in Nat
    BY DataTypes DEF CInv, IInv, PageNos
  <2> QED BY <1>4, <1>5, <1>9, <1>10, <2>1, <2>2 DEF DataInv, WrittenInv
<1>12. LoopInv'
  <2> SUFFICES ASSUME NEW u \in Workers, pc[u] = "clean"
               PROVE  vp_pool'[req[u].victim].prev # NoFrame
    BY <1>4 DEF LoopInv
  <2>1. PICK g \in Frames : g = req[u].victim
    BY DEF CInv, IInv, RequestInv
  <2> QED BY <1>8, <2>1 DEF DataInv, LoopInv
<1>13. ASSUME Open' PROVE BytesInv'
  <2>1. BytesInv
    BY <1>4, <1>13 DEF Open, Cleaning, DataInv
  <2>2. Latest(written'[p]) = n
    <3>1. \A v \in written[p] : v <= n
      BY <1>5, <1>7 DEF DataInv, WrittenInv
    <3>2. written'[p] \subseteq Nat /\ n \in written'[p] /\ \A v \in written'[p] : v <= n
      BY <1>5, <1>7, <1>9, <3>1
    <3> QED BY <3>2, LatestIs
  <2>3. ASSUME NEW q \in PageNos, vp_map'[q] = NoFrame
        PROVE  disk'[q] = Latest(written'[q])
    BY <1>4, <1>9, <1>10, <2>1, <2>3 DEF BytesInv
  <2>4. vp_pool[f].dirty = TRUE
    BY <1>3, <1>5, <1>6, <2>1 DEF BytesInv, FrameBytes
  <2>5. FrameBytes(f)'
    BY <1>8, <2>2, <2>4 DEF FrameBytes
  <2>6. ASSUME NEW g \in Frames \ {f}, Attached(g)'
        PROVE  FrameBytes(g)'
    <3>1. Attached(g)
      BY <1>4, <1>8, <2>6 DEF Attached, Detached
    <3>2. FrameBytes(g) /\ vp_pool'[g] = vp_pool[g]
      BY <1>8, <2>1, <3>1 DEF BytesInv
    <3>3. vp_pool[g].next = NoFrame => vp_pool[g].page # p
      BY <1>6, <3>1 DEF CInv, ChainInv, NewestInv, SamePage
    <3>4. vp_pool[g].page \in PageNos
      BY <3>1, LinkTypes DEF Attached, CInv
    <3>5. vp_pool[g].next = NoFrame => written'[vp_pool[g].page] = written[vp_pool[g].page]
      BY <1>9, <3>3, <3>4
    <3> QED BY <1>4, <3>2, <3>5 DEF FrameBytes
  <2> QED BY <2>3, <2>5, <2>6 DEF BytesInv
<1> QED BY <1>11, <1>12, <1>13 DEF DataInv

-----------------------------------------------------------------------------
(* The end of the program.                                                 *)

\* Every page of the pool has a newest version: the one of greatest version.
LEMMA NewestExists ==
  ASSUME CInv, NEW p \in PageNos, vp_map[p] # NoFrame
  PROVE  \E f \in Frames : /\ Attached(f) /\ vp_pool[f].page = p
                           /\ vp_pool[f].next = NoFrame
<1> DEFINE S == {f \in Frames : Attached(f) /\ vp_pool[f].page = p}
           R == {ss \in Nat \X Nat : ss[1] < ss[2]}
           T == {MaxVersion - vp_pool[f].version : f \in S}
<1>1. IsWellFoundedOn(R, Nat)
  BY NatLessThanWellFounded DEF OpToRel
<1>2. \A f \in Frames : vp_pool[f].version \in 0 .. MaxVersion
  BY DEF CInv, IInv, TypeOK, VPage, Versions
<1>3. T \subseteq Nat /\ T # {}
  <2>1. vp_map[p] \in S
    BY DEF CInv, IInv, TypeOK, ChainInv, EntryInv
  <2>2. MaxVersion - vp_pool[vp_map[p]].version \in T
    BY <2>1
  <2>3. \A f \in S : MaxVersion - vp_pool[f].version \in Nat
    BY <1>2, FramesAndPages
  <2> QED BY <2>2, <2>3
<1>4. \E x \in T : \A y \in T : <<y, x>> \notin R
  <2> HIDE DEF R, T
  <2> QED BY <1>1, <1>3, WFMin
<1>5. PICK m \in S : \A h \in S : ~(MaxVersion - vp_pool[h].version < MaxVersion - vp_pool[m].version)
  BY <1>3, <1>4
<1>6. m \in Frames /\ Attached(m) /\ vp_pool[m].page = p
  OBVIOUS
<1>7. vp_pool[m].next = NoFrame
  <2> SUFFICES ASSUME vp_pool[m].next # NoFrame PROVE FALSE
    OBVIOUS
  <2>1. PICK n \in Frames : n = vp_pool[m].next
    BY <1>6, LinkTypes DEF CInv
  <2>2. n \in S /\ vp_pool[m].version < vp_pool[n].version
    BY <1>6, <2>1 DEF CInv, ChainInv, LinkInv, SamePage
  <2> QED BY <1>2, <1>5, <1>6, <2>1, <2>2, FramesAndPages
<1> QED BY <1>6, <1>7

\* The flush writes the newest version of each page, or the file has it.
LEMMA FlushWritesAll ==
  ASSUME CInv, DataInv, closed = FALSE, Close, NEW p \in PageNos
  PROVE  disk'[p] = Latest(written[p])
<1>1. (\A w \in Workers : pc[w] = "idle")
      /\ disk' = [q \in PageNos |->
                IF Flushed(q) = {} THEN disk[q]
                ELSE vp_pool[CHOOSE f \in Flushed(q) : \A g \in Flushed(q) : g <= f].bytes]
  BY DEF Close
<1>2. BytesInv /\ \A f \in Frames : ~Detached(f)
  BY <1>1 DEF DataInv, Open, Cleaning, Detached
<1> DEFINE S == Flushed(p)
           last == CHOOSE f \in S : \A g \in S : g <= f
<1>3. disk'[p] = IF S = {} THEN disk[p] ELSE vp_pool[last].bytes
  BY <1>1
<1>4. \A f \in S : /\ f \in Frames /\ Attached(f) /\ vp_pool[f].page = p
                   /\ vp_pool[f].next = NoFrame
  BY <1>2, FramesAndPages DEF Flushed, Attached
<1>5. CASE S # {}
  <2>1. \E f \in S : \A g \in S : g <= f
    <3> HIDE DEF S
    <3> QED BY <1>4, <1>5, LastFrame
  <2>2. last \in S
    <3> HIDE DEF S
    <3> QED BY <2>1
  <2> HIDE DEF last
  <2>3. vp_pool[last].bytes = Latest(written[p])
    BY <1>2, <1>4, <2>2 DEF BytesInv, FrameBytes
  <2> QED BY <1>3, <1>5, <2>3
<1>6. CASE S = {}
  <2>1. CASE vp_map[p] = NoFrame
    BY <1>2, <1>3, <1>6, <2>1 DEF BytesInv
  <2>2. CASE vp_map[p] # NoFrame
    <3>1. PICK f \in Frames : /\ Attached(f) /\ vp_pool[f].page = p
                              /\ vp_pool[f].next = NoFrame
      BY <2>2, NewestExists
    <3>2. f \notin S
      BY <1>6
    <3>3. vp_pool[f].dirty = FALSE
      BY <3>1, <3>2, DataTypes DEF Flushed, CInv, IInv
    <3> HIDE DEF S, last
    <3> QED BY <1>2, <1>3, <1>6, <3>1, <3>3 DEF BytesInv, FrameBytes
  <2> QED BY <2>1, <2>2
<1> QED BY <1>5, <1>6

LEMMA CloseData ==
  ASSUME DInv, CInv', Close
  PROVE  DInv'
<1>1. /\ closed = FALSE /\ closed' = TRUE /\ \A w \in Workers : pc[w] = "idle"
      /\ UNCHANGED <<page_count, last_stable_version, scope, pc, written>>
  BY DEF Close, DInv, CInv, IInv, TypeOK, scopeVars, histVars
<1>2. LoopInv' /\ ClosedInv'
  BY <1>1 DEF LoopInv, ClosedInv
<1>3. WrittenInv'
  BY <1>1, KeepWritten DEF DInv, DataInv
<1>4. ~Open'
  BY <1>1 DEF Open
<1>5. ClosedFileIsComplete'
  BY <1>1, FlushWritesAll DEF ClosedFileIsComplete, DInv
<1> QED BY <1>2, <1>3, <1>4, <1>5 DEF DInv, DataInv

LEMMA StutterData ==
  ASSUME DInv, CInv', UNCHANGED vars
  PROVE  DInv'
<1>1. UNCHANGED <<vp_pool, vp_map, disk, written, closed, pc, req, page_count,
                  last_stable_version, scope>>
  BY DEF vars, poolVars, fileVars, scopeVars, histVars
<1>2. WrittenInv'
  BY <1>1, KeepWritten DEF DInv, DataInv
<1>3. last_stable_version \in Nat
  BY VersionTypes DEF DInv, CInv, IInv
<1>4. DataInv'
  BY <1>1, <1>2, <1>3, SamePool, QuietStep DEF DInv
<1>5. ClosedInv' /\ ClosedFileIsComplete'
  BY <1>1 DEF DInv, ClosedInv, ClosedFileIsComplete
<1> QED BY <1>4, <1>5 DEF DInv

\* Whoever does something finds the pool open, and leaves it so.
LEMMA WorkersRunOpen ==
  ASSUME DInv, NEW w \in Workers, closed' = closed, pc[w] # "idle" \/ ~closed
  PROVE  closed' = FALSE
BY DEF DInv, ClosedInv, CInv, IInv, TypeOK

LEMMA OpenStep ==
  ASSUME CInv', DataInv', closed' = FALSE
  PROVE  DInv'
BY DEF DInv, ClosedInv, ClosedFileIsComplete

LEMMA InitDInv == Init => DInv
<1> SUFFICES ASSUME Init PROVE DInv
  OBVIOUS
<1>1. CInv
  BY InitCInv
<1>2. LoopInv /\ ClosedInv /\ ClosedFileIsComplete
  BY DEF Init, LoopInv, ClosedInv, ClosedFileIsComplete
<1>3. WrittenInv
  BY DEF Init, WrittenInv
<1>4. Latest({0}) = 0
  BY LatestIs
<1>5. BytesInv
  <2>1. \A f \in Frames : ~Attached(f)
    BY DEF Init, Attached
  <2>2. \A p \in PageNos : disk[p] = Latest(written[p])
    BY <1>4 DEF Init
  <2> QED BY <2>1, <2>2 DEF BytesInv
<1> QED BY <1>1, <1>2, <1>3, <1>5 DEF DInv, DataInv

LEMMA NextDInv ==
  ASSUME ~UnpinnedEdit, DInv, [Next]_vars
  PROVE  DInv'
<1>1. CInv /\ CInv' /\ DataInv /\ ClosedInv
  BY NextCInv DEF DInv
<1>2. CASE UNCHANGED vars
  BY <1>1, <1>2, StutterData
<1>3. CASE Close
  BY <1>1, <1>3, CloseData
<1>4. ASSUME NEW w \in Workers, BeginReadonly(w) \/ BeginEditable(w)
      PROVE  DInv'
  <2>1. closed' = closed /\ ~closed
    BY <1>4 DEF BeginReadonly, BeginEditable
  <2> QED BY <1>1, <1>4, <2>1, BeginData, WorkersRunOpen, OpenStep
<1>5. ASSUME NEW w \in Workers,
             \/ Terminate(w) \/ GetPageReadonly(w) \/ GetPageEditable(w) \/ AppendVPage(w)
             \/ WritePage(w) \/ Unpin(w)
      PROVE  DInv'
  <2>1. closed' = closed /\ pc[w] # "idle"
    BY <1>5 DEF Terminate, GetPageReadonly, GetPageEditable, AppendVPage, Lookup, Enter,
                WritePage, Unpin
  <2>2. DataInv'
    BY <1>1, <1>5, TerminateData, RequestData, WritePageData, UnpinData
  <2> QED BY <1>1, <2>1, <2>2, WorkersRunOpen, OpenStep
<1>6. ASSUME NEW w \in Workers, Locked(w)
      PROVE  DInv'
  <2>1. closed' = closed /\ pc[w] # "idle"
    BY <1>6 DEF Locked, WalkNext, WalkEnd, ScanPinned, ScanSecondChance, ScanOnlyVersion,
                ScanInUse, ScanNotInUse, Scanning, EvictVersion, CleanPrevious, FillRead,
                FillEdit, FillEditMissed, FillAppend, Filling
  <2>2. DataInv'
    BY <1>1, <1>6, WalkNextData, WalkEndData, ScanPassData, ScanOnlyVersionData,
       EvictVersionData, CleanPreviousData, FillReadData, FillEditData,
       FillEditMissedChains, FillAppendData
       DEF Locked
  <2> QED BY <1>1, <2>1, <2>2, WorkersRunOpen, OpenStep
<1> QED BY <1>2, <1>3, <1>4, <1>5, <1>6 DEF Next

\* DInv holds in every reachable state when no page is edited unpinned.
THEOREM FileInvariance ==
  ASSUME ~UnpinnedEdit
  PROVE  Spec => []DInv
<1>1. Init => DInv
  BY InitDInv
<1>2. DInv /\ [Next]_vars => DInv'
  BY NextDInv
<1> QED BY <1>1, <1>2, PTL DEF Spec

\* When the destructor of the BufferManager has returned, the file has the last
\* write of every page, whatever was evicted, copied and read again before.
THEOREM ClosedFileComplete ==
  ASSUME ~UnpinnedEdit
  PROVE  Spec => []ClosedFileIsComplete
<1>1. DInv => ClosedFileIsComplete
  BY DEF DInv
<1> QED BY <1>1, FileInvariance, PTL

\* A worker that begins to mark the previous versions of an evicted page as
\* clean does so for ever, with vp_mutex: each turn of the loop reads the same
\* prev_version (get_vpage_available).
THEOREM CleaningNeverEnds ==
  ASSUME ~UnpinnedEdit
  PROVE  Spec => [][\A w \in Workers : pc[w] = "clean" => pc'[w] = "clean" /\ vp_mutex' = w]_vars
<1>1. ASSUME DInv, DInv', [Next]_vars, NEW w \in Workers, pc[w] = "clean"
      PROVE  pc'[w] = "clean" /\ vp_mutex' = w
  <2>1. pc'[w] = "clean"
    <3>1. CASE UNCHANGED vars
      BY <1>1, <3>1 DEF vars
    <3>2. CASE Close
      BY <1>1, <3>2 DEF Close
    <3>3. ASSUME NEW u \in Workers,
                 \/ BeginReadonly(u) \/ BeginEditable(u) \/ Terminate(u)
                 \/ GetPageReadonly(u) \/ GetPageEditable(u) \/ AppendVPage(u)
                 \/ WritePage(u) \/ Unpin(u)
          PROVE  pc'[w] = "clean"
      <4>1. pc[u] \in {"idle", "running"} /\ (UNCHANGED pc \/ \E x : pc' = [pc EXCEPT ![u] = x])
        BY <3>3 DEF BeginReadonly, BeginEditable, Terminate, GetPageReadonly,
                    GetPageEditable, AppendVPage, Lookup, Enter, WritePage, Unpin
      <4>2. u # w
        BY <1>1, <4>1
      <4> QED BY <1>1, <4>1, <4>2 DEF DInv, CInv, IInv, TypeOK
    <3>4. ASSUME NEW u \in Workers, Locked(u)
          PROVE  pc'[w] = "clean"
      <4>1. pc[u] \in LockedPcs
        BY <3>4 DEF Locked, WalkNext, WalkEnd, ScanPinned, ScanSecondChance,
                    ScanOnlyVersion, ScanInUse, ScanNotInUse, Scanning, EvictVersion,
                    CleanPrevious, FillRead, FillEdit, FillEditMissed, FillAppend, Filling,
                    LockedPcs
      <4>2. u = w
        BY <1>1, <4>1, OnlyHolder DEF LockedPcs, DInv, CInv, IInv
      <4>3. CleanPrevious(w)
        BY <1>1, <3>4, <4>2
           DEF Locked, WalkNext, WalkEnd, ScanPinned, ScanSecondChance,
               ScanOnlyVersion, ScanInUse, ScanNotInUse, Scanning, EvictVersion,
               FillRead, FillEdit, FillEditMissed, FillAppend, Filling
      <4> QED BY <1>1, <4>3, LoopGoesOn DEF DInv, DataInv
    <3> QED BY <1>1, <3>1, <3>2, <3>3, <3>4 DEF Next
  <2>2. vp_mutex' = w
    BY <1>1, <2>1 DEF DInv, CInv, IInv, MutexInv, LockedPcs
  <2> QED BY <2>1, <2>2
<1>2. DInv /\ DInv' /\ [Next]_vars =>
        [\A w \in Workers : pc[w] = "clean" => pc'[w] = "clean" /\ vp_mutex' = w]_vars
  BY <1>1
<1> QED BY <1>2, FileInvariance, PTL DEF Spec

-----------------------------------------------------------------------------
(***************************************************************************)
(* Snapshots: when no version leaves the pool that somebody may still have *)
(* to find there, every scope reads its snapshot and the pages implement   *)
(* SnapshotStore.  get_vpage_available does not look for that: it asks     *)
(* whether a scope runs at the very version of the frame (InUse), and a    *)
(* scope at a later version may need the frame too.                        *)
(*                                                                         *)
(* The argument: the frame at which a walk for version v ends has the last *)
(* write at or below v, for each version at which an open scope, or the    *)
(* next one, looks at pages; a page that is not in the pool has the same   *)
(* bytes for all of them, those in the file.  An update adds its copy      *)
(* behind the frame that the others find.                                  *)
(***************************************************************************)
\* The versions at which the open scopes look at pages, and the next scope.
Points ==
  {Result(w) : w \in {u \in Workers : scope[u].kind # "none"}} \cup {last_stable_version}

\* The walk of a request of version v ends at frame f.
Serves(f, v) ==
  /\ vp_pool[f].version <= v \/ vp_pool[f].prev = NoFrame
  /\ vp_pool[f].next = NoFrame \/ vp_pool[vp_pool[f].next].version > v

\* An open scope, or the next one, may have to find frame f.
Needed(f) == \E v \in Points : created[vp_pool[f].page] <= v /\ Serves(f, v)

\* No version that is needed leaves its chain.
KeepsNeededVersions == [][\A w \in Workers : EvictVersion(w) => ~Needed(vp_clock)]_vars

\* The last write of page p at or below version v.
SeenAt(p, v) == Latest({u \in written[p] : u <= v})

FileServes ==
  \A p \in PageNos : \A v \in Points :
    vp_map[p] = NoFrame /\ created[p] <= v => disk[p] = SeenAt(p, v)

FrameServes(f) ==
  \A v \in Points : created[vp_pool[f].page] <= v /\ Serves(f, v) =>
    vp_pool[f].bytes = SeenAt(vp_pool[f].page, v)

PoolServes == \A f \in Frames : Attached(f) => FrameServes(f)

\* Only the update that runs has appended pages that no reader can reach.
CreatedInv ==
  \A p \in PageNos :
    \/ created[p] <= last_stable_version
    \/ created[p] = last_stable_version + 1 /\ \E w \in Workers : IsUpdate(w)

\* The copy an update made of a page comes after what it was made from.
CopyInv ==
  \A f \in Frames :
    /\ Attached(f) /\ vp_pool[f].version > last_stable_version
    /\ created[vp_pool[f].page] <= last_stable_version
    => vp_pool[f].prev # NoFrame

\* A worker uses the frame at which a walk for its version ends.
HeldServes ==
  \A w \in Workers, f \in Frames, p \in PageNos : <<f, p>> \in held[w] =>
    created[p] <= Result(w) /\ Serves(f, Result(w))

\* So far the walk has not gone past that frame.
RequestServes(w) ==
  /\ pc[w] \in LockedPcs /\ req[w].op # "append" => created[req[w].page] <= Result(w)
  /\ pc[w] = "walk" => \/ vp_pool[req[w].cur].version <= Result(w)
                       \/ vp_pool[req[w].cur].prev = NoFrame

NoScopeInv == \A w \in Workers : scope[w].kind = "none" => scope[w].start = 0

SnapInv ==
  /\ ~Cleaning
  /\ FileServes /\ PoolServes /\ CreatedInv /\ CopyInv /\ HeldServes
  /\ \A w \in Workers : RequestServes(w)
  /\ NoScopeInv

-----------------------------------------------------------------------------
LEMMA PointsAre ==
  ASSUME IInv, VersionInv
  PROVE  /\ Points \subseteq Nat /\ last_stable_version \in Points
         /\ \A v \in Points : \/ v <= last_stable_version
                              \/ /\ v = last_stable_version + 1
                                 /\ \E w \in Workers : IsUpdate(w)
         /\ \A w \in Workers : scope[w].kind # "none" => Result(w) \in Points
         /\ \A w \in Workers : IsUpdate(w) =>
              Result(w) \in Points /\ Result(w) = last_stable_version + 1
         /\ \A w \in Workers : Result(w) \in Nat
<1>1. /\ last_stable_version \in Nat
      /\ \A w \in Workers : Start(w) \in Nat /\ Start(w) <= last_stable_version
  BY VersionTypes DEF IInv, VersionInv
<1>2. \A w \in Workers : Result(w) = IF IsUpdate(w) THEN Start(w) + 1 ELSE Start(w)
  BY DEF Result, Start
<1>3. \A w \in Workers : IsUpdate(w) =>
        Start(w) = last_stable_version /\ scope[w].kind # "none"
  BY DEF IInv, ScopeInv, IsUpdate
<1>4. \A w \in Workers : /\ Result(w) \in Nat
                         /\ IsUpdate(w) => Result(w) = last_stable_version + 1
                         /\ ~IsUpdate(w) => Result(w) <= last_stable_version
  BY <1>1, <1>2, <1>3
<1>5. \A w \in Workers : scope[w].kind # "none" => Result(w) \in Points
  BY DEF Points
<1>6. ASSUME NEW v \in Points
      PROVE  v \in Nat /\ \/ v <= last_stable_version
                          \/ /\ v = last_stable_version + 1
                             /\ \E w \in Workers : IsUpdate(w)
  BY <1>1, <1>4 DEF Points
<1>7. last_stable_version \in Points
  BY DEF Points
<1> QED BY <1>3, <1>4, <1>5, <1>6, <1>7

\* Of several versions one is the last.
LEMMA LatestExists ==
  ASSUME NEW S, S \subseteq Versions, S # {}
  PROVE  Latest(S) \in S /\ \A u \in S : u <= Latest(S)
<1> DEFINE R == {ss \in Nat \X Nat : ss[1] < ss[2]}
           T == {MaxVersion - u : u \in S}
<1>1. IsWellFoundedOn(R, Nat)
  BY NatLessThanWellFounded DEF OpToRel
<1>2. MaxVersion \in Nat /\ \A u \in S : u \in Nat /\ u <= MaxVersion
  BY ConstantsAssumption DEF Versions
<1>3. T \subseteq Nat /\ T # {}
  BY <1>2
<1>4. \E x \in T : \A y \in T : <<y, x>> \notin R
  <2> HIDE DEF R, T
  <2> QED BY <1>1, <1>3, WFMin
<1>5. PICK m \in S : \A u \in S : ~(MaxVersion - u < MaxVersion - m)
  BY <1>3, <1>4
<1>6. \A u \in S : u <= m
  BY <1>2, <1>5
<1>7. S \subseteq Nat
  BY <1>2
<1> QED BY <1>6, <1>7, LatestIs

LEMMA SeenIs ==
  ASSUME TypeOK, WrittenInv, NEW p \in PageNos, NEW v \in Nat
  PROVE  /\ SeenAt(p, v) \in written[p] /\ SeenAt(p, v) <= v
         /\ \A u \in written[p] : u <= v => u <= SeenAt(p, v)
<1> DEFINE S == {u \in written[p] : u <= v}
<1>1. S \subseteq Versions
  BY DEF TypeOK
<1>2. 0 \in S
  BY DEF WrittenInv
<1>3. Latest(S) \in S /\ \A u \in S : u <= Latest(S)
  <2> HIDE DEF S
  <2> QED BY <1>1, <1>2, LatestExists
<1> QED BY <1>3 DEF SeenAt

-----------------------------------------------------------------------------
(* Steps that leave the chains and their bytes as they are.                *)

LEMMA SameServes ==
  ASSUME TypeOK, SameLinks(vp_pool, vp_pool'), NEW f \in Frames, NEW v
  PROVE  Serves(f, v)' <=> Serves(f, v)
<1>1. vp_pool[f].next \in Frames \cup {NoFrame}
  BY DEF TypeOK, VPage
<1> QED BY <1>1 DEF Serves, SameLinks

\* What the file and the pool have for a version is what they had.
LEMMA KeepServing ==
  ASSUME CInv, FileServes, PoolServes, SameLinks(vp_pool, vp_pool'),
         \A g \in Frames : vp_pool'[g].bytes = vp_pool[g].bytes,
         UNCHANGED <<vp_map, written, created>>,
         \A p \in PageNos : vp_map[p] = NoFrame => disk'[p] = disk[p],
         \A f \in Frames : Detached(f)' <=> Detached(f),
         Points' \subseteq Points
  PROVE  FileServes' /\ PoolServes'
<1>1. \A p, v : SeenAt(p, v)' = SeenAt(p, v)
  BY DEF SeenAt
<1>2. FileServes'
  BY <1>1 DEF FileServes
<1>3. ASSUME NEW f \in Frames, Attached(f)'
      PROVE  FrameServes(f)'
  <2>1. /\ Attached(f) /\ vp_pool'[f].page = vp_pool[f].page
        /\ \A v : Serves(f, v)' <=> Serves(f, v)
    BY <1>3, SameServes DEF Attached, SameLinks, CInv, IInv
  <2>2. FrameServes(f)
    BY <2>1 DEF PoolServes
  <2> QED BY <1>1, <2>1, <2>2 DEF FrameServes
<1> QED BY <1>2, <1>3 DEF PoolServes

LEMMA SameScope ==
  ASSUME UNCHANGED <<scope, last_stable_version>>
  PROVE  /\ Points' = Points
         /\ \A u \in Workers : Result(u)' = Result(u) /\ (IsUpdate(u)' <=> IsUpdate(u))
         /\ NoScopeInv => NoScopeInv'
<1>1. \A u \in Workers : Result(u)' = Result(u) /\ (IsUpdate(u)' <=> IsUpdate(u))
  BY DEF Result, IsUpdate
<1> QED BY <1>1 DEF Points, NoScopeInv

LEMMA QuietSnap ==
  ASSUME CInv, SnapInv, SameLinks(vp_pool, vp_pool'),
         \A g \in Frames : vp_pool'[g].bytes = vp_pool[g].bytes,
         UNCHANGED <<vp_map, written, created, scope, last_stable_version>>,
         \A p \in PageNos : vp_map[p] = NoFrame => disk'[p] = disk[p],
         \A u \in Workers : pc'[u] # "clean" /\ (pc'[u] = "fill" <=> pc[u] = "fill"),
         \A u \in Workers : pc[u] = "fill" => req'[u].victim = req[u].victim,
         \A w \in Workers, f \in Frames, p \in PageNos :
           <<f, p>> \in held'[w] =>
             <<f, p>> \in held[w] \/ (created[p] <= Result(w) /\ Serves(f, Result(w))),
         \A w \in Workers : RequestServes(w)'
  PROVE  SnapInv'
<1>1. \A f \in Frames : Detached(f)' <=> Detached(f)
  BY DEF Detached, SnapInv, Cleaning
<1>2. /\ Points' = Points /\ NoScopeInv'
      /\ \A u \in Workers : Result(u)' = Result(u) /\ (IsUpdate(u)' <=> IsUpdate(u))
  BY SameScope DEF SnapInv
<1>3. FileServes' /\ PoolServes'
  BY <1>1, <1>2, KeepServing DEF SnapInv
<1>4. CreatedInv'
  BY <1>2 DEF SnapInv, CreatedInv
<1>5. CopyInv'
  BY <1>1 DEF SnapInv, CopyInv, Attached, SameLinks
<1>6. HeldServes'
  <2> SUFFICES ASSUME NEW w \in Workers, NEW f \in Frames, NEW p \in PageNos,
                      <<f, p>> \in held'[w]
               PROVE  created[p] <= Result(w) /\ Serves(f, Result(w))'
    BY <1>2 DEF HeldServes
  <2>1. created[p] <= Result(w) /\ Serves(f, Result(w))
    BY DEF SnapInv, HeldServes
  <2>2. \A v : Serves(f, v)' <=> Serves(f, v)
    BY SameServes DEF CInv, IInv
  <2>3. Result(w)' = Result(w)
    BY <1>2
  <2> QED BY <2>1, <2>2, <2>3 DEF Serves
<1>7. ~Cleaning'
  BY DEF Cleaning
<1> QED BY <1>2, <1>3, <1>4, <1>5, <1>6, <1>7 DEF SnapInv

\* The request of the worker that holds vp_mutex is the only one.
LEMMA OneRequest ==
  ASSUME IInv', NEW w \in Workers, pc'[w] \in LockedPcs, RequestServes(w)'
  PROVE  \A u \in Workers : RequestServes(u)'
<1>1. \A u \in Workers \ {w} : pc'[u] \notin LockedPcs
  BY DEF IInv, MutexInv
<1> QED BY <1>1 DEF RequestServes, LockedPcs

\* What the other workers do leaves a request in progress as it was.
LEMMA KeepRequests ==
  ASSUME CInv, SnapInv, SameLinks(vp_pool, vp_pool'), UNCHANGED <<req, created>>,
         \A u \in Workers : pc'[u] \in LockedPcs => pc'[u] = pc[u] /\ scope'[u] = scope[u]
  PROVE  \A u \in Workers : RequestServes(u)'
<1> SUFFICES ASSUME NEW u \in Workers, pc'[u] \in LockedPcs
             PROVE  RequestServes(u)'
  BY DEF RequestServes, LockedPcs
<1>1. Result(u)' = Result(u)
  BY DEF Result, IsUpdate
<1>2. pc[u] = "walk" => req[u].cur \in Frames
  BY DEF CInv, IInv, RequestInv
<1>3. RequestServes(u)
  BY DEF SnapInv
<1> QED BY <1>1, <1>2, <1>3 DEF RequestServes, SameLinks

LEMMA StutterSnap ==
  ASSUME CInv, SnapInv, UNCHANGED vars
  PROVE  SnapInv'
<1>1. UNCHANGED <<vp_pool, vp_map, disk, written, created, scope, last_stable_version,
                  pc, req, held>>
  BY DEF vars, poolVars, fileVars, scopeVars, histVars
<1>2. SameLinks(vp_pool, vp_pool')
  BY <1>1, SamePool
<1>3. \A w \in Workers : RequestServes(w)'
  BY <1>1, <1>2, KeepRequests
<1>4. \A u \in Workers : pc'[u] # "clean"
  BY <1>1 DEF SnapInv, Cleaning
<1> QED BY <1>1, <1>2, <1>3, <1>4, QuietSnap

\* The destructor writes pages that are in the pool.
LEMMA CloseSnap ==
  ASSUME CInv, SnapInv, Close
  PROVE  SnapInv'
<1>1. /\ \A w \in Workers : pc[w] = "idle"
      /\ UNCHANGED <<vp_map, scope, last_stable_version, pc, req, held, written, created>>
      /\ vp_pool \in [Frames -> VPage]
      /\ \A g \in Frames : vp_pool'[g] = IF vp_pool[g].next = NoFrame
                                         THEN MarkedClean(vp_pool[g]) ELSE vp_pool[g]
      /\ disk' = [p \in PageNos |->
                IF Flushed(p) = {} THEN disk[p]
                ELSE vp_pool[CHOOSE f \in Flushed(p) : \A g \in Flushed(p) : g <= f].bytes]
  BY DEF Close, scopeVars, histVars, CInv, IInv, TypeOK
<1>2. SameLinks(vp_pool, vp_pool') /\ \A g \in Frames : vp_pool'[g].bytes = vp_pool[g].bytes
  BY <1>1, CleanLinks, CleanData DEF SameLinks
<1>3. ASSUME NEW p \in PageNos, vp_map[p] = NoFrame
      PROVE  disk'[p] = disk[p]
  <2>1. \A f \in Frames : Attached(f) => vp_pool[f].page # p
    BY <1>3 DEF CInv, ChainInv, EntryInv
  <2>2. Flushed(p) = {}
    BY <1>1, <2>1, FramesAndPages DEF Flushed, Attached, Detached
  <2> QED BY <1>1, <2>2
<1>4. \A w \in Workers : RequestServes(w)'
  BY <1>1, <1>2, KeepRequests
<1>5. \A u \in Workers : pc'[u] # "clean"
  BY <1>1
<1> QED BY <1>1, <1>2, <1>3, <1>4, <1>5, QuietSnap

\* A request begins for a page that exists at the version of its scope.
LEMMA RequestSnap ==
  ASSUME CInv, CInv', SnapInv, ~UnpinnedEdit, NEW w \in Workers,
         GetPageReadonly(w) \/ GetPageEditable(w) \/ AppendVPage(w)
  PROVE  SnapInv'
<1>1. PICK op, p, where, cur :
        /\ Enter(w, op, p, where, cur) /\ where \in {"walk", "scan"}
        /\ op # "append" => p \in PageNos /\ created[p] <= Result(w)
        /\ where = "walk" => p \in PageNos /\ cur = vp_map[p] /\ vp_map[p] # NoFrame
  <2>1. 1 .. page_count \subseteq PageNos
    BY ConstantsAssumption DEF CInv, IInv, TypeOK, PageNos
  <2>2. CASE GetPageReadonly(w)
    <3>1. PICK p \in 1 .. page_count : created[p] <= Result(w) /\ Lookup(w, "read", p)
      BY <2>2 DEF GetPageReadonly
    <3> QED BY <2>1, <3>1 DEF Lookup
  <2>3. CASE GetPageEditable(w)
    <3>1. PICK p \in 1 .. page_count :
            (\E f \in Frames : <<f, p>> \in held[w]) /\ Lookup(w, "edit", p)
      BY <2>3 DEF GetPageEditable
    <3>2. created[p] <= Result(w)
      BY <2>1, <3>1 DEF SnapInv, HeldServes
    <3> QED BY <2>1, <3>1, <3>2 DEF Lookup
  <2>4. CASE AppendVPage(w)
    BY <2>4 DEF AppendVPage
  <2> QED BY <2>2, <2>3, <2>4
<1>2. /\ pc[w] = "running" /\ pc' = [pc EXCEPT ![w] = where]
      /\ UNCHANGED <<vp_pool, vp_map, disk, scope, last_stable_version, held,
                     written, created>>
      /\ req' = [req EXCEPT ![w] = [NoRequest EXCEPT !.op = op, !.page = p, !.cur = cur]]
  BY <1>1 DEF Enter, poolVars, fileVars, scopeVars, histVars
<1>3. /\ pc'[w] = where /\ \A u \in Workers \ {w} : pc'[u] = pc[u] /\ req'[u] = req[u]
      /\ req'[w] = [NoRequest EXCEPT !.op = op, !.page = p, !.cur = cur]
  BY <1>2 DEF CInv, IInv, TypeOK
<1>4. req'[w].op = op /\ req'[w].page = p /\ req'[w].cur = cur
  BY <1>3 DEF NoRequest
<1>5. Result(w)' = Result(w)
  BY <1>2, SameScope
<1>6. where = "walk" => vp_pool[cur].prev = NoFrame
  BY <1>1 DEF CInv, ChainInv, EntryInv, IInv, TypeOK
<1>7. RequestServes(w)'
  BY <1>1, <1>2, <1>3, <1>4, <1>5, <1>6 DEF RequestServes
<1>8. \A u \in Workers : RequestServes(u)'
  BY <1>1, <1>3, <1>7, OneRequest DEF CInv, LockedPcs
<1>9. \A u \in Workers : pc'[u] # "clean" /\ (pc'[u] = "fill" <=> pc[u] = "fill")
                         /\ (pc[u] = "fill" => req'[u].victim = req[u].victim)
  BY <1>1, <1>2, <1>3 DEF SnapInv, Cleaning
<1>10. SameLinks(vp_pool, vp_pool')
  BY <1>2, SamePool
<1> QED BY <1>2, <1>8, <1>9, <1>10, QuietSnap

LEMMA WalkNextSnap ==
  ASSUME CInv, CInv', SnapInv, NEW w \in Workers, WalkNext(w)
  PROVE  SnapInv'
<1>1. PICK c \in Frames, n \in Frames : c = req[w].cur /\ n = vp_pool[c].next
  BY DEF WalkNext, Newer, CInv, IInv, RequestInv, TypeOK, VPage
<1>2. /\ pc[w] = "walk" /\ vp_pool[n].version <= Result(w)
      /\ UNCHANGED <<vp_pool, vp_map, disk, scope, last_stable_version, pc, held,
                     written, created>>
      /\ req' = [req EXCEPT ![w] = [req[w] EXCEPT !.cur = n]]
  BY <1>1 DEF WalkNext, Newer, poolVars, fileVars, scopeVars, histVars
<1>3. /\ \A u \in Workers \ {w} : req'[u] = req[u]
      /\ req'[w] = [req[w] EXCEPT !.cur = n] /\ req[w] \in Request
  BY <1>2 DEF CInv, IInv, TypeOK
<1>4. req'[w].op = req[w].op /\ req'[w].page = req[w].page /\ req'[w].cur = n
  BY <1>3 DEF Request
<1>5. Result(w)' = Result(w)
  BY <1>2, SameScope
<1>6. RequestServes(w)'
  BY <1>2, <1>4, <1>5 DEF RequestServes, SnapInv
<1>7. \A u \in Workers : RequestServes(u)'
  BY <1>2, <1>6, OneRequest DEF CInv, LockedPcs
<1>8. \A u \in Workers : pc'[u] # "clean" /\ (pc'[u] = "fill" <=> pc[u] = "fill")
                         /\ (pc[u] = "fill" => req'[u].victim = req[u].victim)
  BY <1>2, <1>3 DEF SnapInv, Cleaning
<1>9. SameLinks(vp_pool, vp_pool')
  BY <1>2, SamePool
<1> QED BY <1>2, <1>7, <1>8, <1>9, QuietSnap

LEMMA ScanPassSnap ==
  ASSUME CInv, CInv', SnapInv, NEW w \in Workers,
         ScanPinned(w) \/ ScanSecondChance(w) \/ ScanInUse(w) \/ ScanNotInUse(w)
  PROVE  SnapInv'
<1>1. /\ pc[w] = "scan" /\ pc'[w] \in {"scan", "evict"}
      /\ UNCHANGED <<vp_map, disk, scope, last_stable_version, req, held, written, created>>
      /\ \A u \in Workers \ {w} : pc'[u] = pc[u]
  BY DEF ScanPinned, ScanSecondChance, ScanInUse, ScanNotInUse, Scanning, TypeOK,
         CInv, IInv, fileVars, scopeVars, histVars
<1>2. SameLinks(vp_pool, vp_pool') /\ SameData(vp_pool, vp_pool')
  BY ScanPassSame
<1>3. Result(w)' = Result(w)
  BY <1>1, SameScope
<1>4. RequestServes(w)'
  BY <1>1, <1>3 DEF RequestServes, SnapInv, LockedPcs
<1>5. \A u \in Workers : RequestServes(u)'
  BY <1>1, <1>4, OneRequest DEF CInv, LockedPcs
<1>6. \A u \in Workers : pc'[u] # "clean" /\ (pc'[u] = "fill" <=> pc[u] = "fill")
  BY <1>1 DEF SnapInv, Cleaning
<1> QED BY <1>1, <1>2, <1>5, <1>6, QuietSnap DEF SameData

LEMMA UnpinSnap ==
  ASSUME CInv, SnapInv, NEW w \in Workers, Unpin(w)
  PROVE  SnapInv'
<1>1. /\ UNCHANGED <<vp_map, disk, scope, last_stable_version, pc, req, written, created>>
      /\ \A u \in Workers : held'[u] \subseteq held[u]
  BY DEF Unpin, CInv, IInv, TypeOK, fileVars, scopeVars, histVars
<1>2. SameLinks(vp_pool, vp_pool') /\ SameData(vp_pool, vp_pool')
  BY UnpinSame
<1>3. \A u \in Workers : RequestServes(u)'
  BY <1>1, <1>2, KeepRequests
<1>4. \A u \in Workers : pc'[u] # "clean"
  BY <1>1 DEF SnapInv, Cleaning
<1> QED BY <1>1, <1>2, <1>3, <1>4, QuietSnap DEF SameData

\* Nobody is inside vp_mutex.
LEMMA NoRequests ==
  ASSUME IInv', NEW w \in Workers, pc[w] \in LockedPcs, IInv, pc'[w] \notin LockedPcs,
         \A u \in Workers \ {w} : pc'[u] = pc[u]
  PROVE  \A u \in Workers : RequestServes(u)'
<1>1. \A u \in Workers : pc'[u] \notin LockedPcs
  BY OnlyHolder DEF IInv
<1> QED BY <1>1 DEF RequestServes, LockedPcs

\* The walk ends at the frame that serves the version of its scope.
LEMMA WalkEndSnap ==
  ASSUME CInv, CInv', SnapInv, NEW w \in Workers, WalkEnd(w)
  PROVE  SnapInv'
<1>1. PICK f \in Frames, p \in PageNos : f = req[w].cur /\ p = req[w].page
  BY DEF CInv, IInv, RequestInv, WalkEnd, LockedPcs
<1>2. /\ pc[w] = "walk" /\ ~Newer(w)
      /\ UNCHANGED <<vp_map, disk, scope, last_stable_version, written, created>>
  BY DEF WalkEnd, fileVars, scopeVars, histVars
<1>3. SameLinks(vp_pool, vp_pool') /\ SameData(vp_pool, vp_pool')
  BY WalkEndSame
<1>4. created[p] <= Result(w)
  BY <1>1, <1>2 DEF SnapInv, RequestServes, LockedPcs, CInv, IInv, RequestInv
<1>5. CASE pc' = [pc EXCEPT ![w] = "scan"] /\ UNCHANGED <<req, held>>
  <2>1. pc'[w] = "scan" /\ \A u \in Workers \ {w} : pc'[u] = pc[u]
    BY <1>5 DEF CInv, IInv, TypeOK
  <2>2. Result(w)' = Result(w)
    BY <1>2, SameScope
  <2>3. RequestServes(w)'
    BY <1>1, <1>2, <1>4, <1>5, <2>1, <2>2 DEF RequestServes
  <2>4. \A u \in Workers : RequestServes(u)'
    BY <2>1, <2>3, OneRequest DEF CInv, LockedPcs
  <2>5. \A u \in Workers : pc'[u] # "clean" /\ (pc'[u] = "fill" <=> pc[u] = "fill")
    BY <1>2, <2>1 DEF SnapInv, Cleaning
  <2> QED BY <1>2, <1>3, <1>5, <2>4, <2>5, QuietSnap DEF SameData
<1>6. CASE Deliver(w, f, p)
  <2>1. /\ pc' = [pc EXCEPT ![w] = "running"]
        /\ req' = [req EXCEPT ![w] = NoRequest]
        /\ held' = [held EXCEPT ![w] = {h \in held[w] : h[2] # p} \cup {<<f, p>>}]
    BY <1>6 DEF Deliver
  <2>2. /\ pc'[w] = "running"
        /\ held'[w] = {h \in held[w] : h[2] # p} \cup {<<f, p>>}
        /\ \A u \in Workers \ {w} :
             pc'[u] = pc[u] /\ held'[u] = held[u] /\ req'[u] = req[u]
    BY <2>1 DEF CInv, IInv, TypeOK
  <2>3. Serves(f, Result(w))
    <3>1. \/ vp_pool[f].version <= Result(w)
          \/ vp_pool[f].prev = NoFrame
      BY <1>1, <1>2 DEF SnapInv, RequestServes
    <3>2. \/ vp_pool[f].next = NoFrame
          \/ ~(vp_pool[vp_pool[f].next].version <= Result(w))
      BY <1>1, <1>2 DEF Newer
    <3>3. Result(w) \in Nat
      BY PointsAre DEF CInv
    <3>4. vp_pool[f].next # NoFrame => vp_pool[vp_pool[f].next].version \in Nat
      <4>1. vp_pool[f].next # NoFrame => vp_pool[f].next \in Frames
        BY LinkTypes DEF CInv
      <4> QED BY <4>1, VersionTypes DEF CInv, IInv
    <3>5. \/ vp_pool[f].next = NoFrame
          \/ vp_pool[vp_pool[f].next].version > Result(w)
      BY <3>2, <3>3, <3>4
    <3> QED BY <3>1, <3>5 DEF Serves
  <2>4. ASSUME NEW u \in Workers, NEW g \in Frames, NEW q \in PageNos, <<g, q>> \in held'[u]
        PROVE  <<g, q>> \in held[u] \/ (created[q] <= Result(u) /\ Serves(g, Result(u)))
    BY <1>4, <2>2, <2>3, <2>4
  <2>5. \A u \in Workers : RequestServes(u)'
    BY <1>2, <2>2, NoRequests DEF CInv, LockedPcs
  <2>6. \A u \in Workers : pc'[u] # "clean" /\ (pc'[u] = "fill" <=> pc[u] = "fill")
                           /\ (pc[u] = "fill" => req'[u].victim = req[u].victim)
    BY <1>2, <2>2 DEF SnapInv, Cleaning
  <2> QED BY <1>2, <1>3, <2>4, <2>5, <2>6, QuietSnap DEF SameData
<1> QED BY <1>1, <1>5, <1>6 DEF WalkEnd

-----------------------------------------------------------------------------
(* Scopes that open and close.                                             *)

\* No scope looks at a version that it does not have pages of.
LEMMA ScopeSnap ==
  ASSUME CInv, SnapInv, NEW w \in Workers, held[w] = {},
         UNCHANGED <<vp_pool, vp_map, disk, req, held, written, created>>,
         pc[w] \notin LockedPcs, pc'[w] \notin LockedPcs,
         \A u \in Workers \ {w} : pc'[u] = pc[u] /\ scope'[u] = scope[u]
  PROVE  /\ HeldServes' /\ ~Cleaning'
         /\ \A u \in Workers : RequestServes(u)'
         /\ \A f \in Frames : Detached(f)' <=> Detached(f)
         /\ SameLinks(vp_pool, vp_pool')
<1>1. SameLinks(vp_pool, vp_pool')
  BY SamePool
<1>2. \A u \in Workers : RequestServes(u)'
  BY <1>1, KeepRequests
<1>3. HeldServes'
  <2>1. \A u \in Workers \ {w} : Result(u)' = Result(u)
    BY DEF Result, IsUpdate
  <2>2. \A v : \A f \in Frames : Serves(f, v)' <=> Serves(f, v)
    BY DEF Serves
  <2> SUFFICES ASSUME NEW u \in Workers, NEW f \in Frames, NEW p \in PageNos,
                      <<f, p>> \in held[u]
               PROVE  created[p] <= Result(u)' /\ Serves(f, Result(u))'
    BY DEF HeldServes
  <2>3. created[p] <= Result(u) /\ Serves(f, Result(u)) /\ Result(u)' = Result(u)
    BY <2>1 DEF SnapInv, HeldServes
  <2> QED BY <2>3 DEF Serves
<1>4. ~Cleaning' /\ \A f \in Frames : Detached(f)' <=> Detached(f)
  BY DEF SnapInv, Cleaning, Detached, LockedPcs
<1> QED BY <1>1, <1>2, <1>3, <1>4

LEMMA TerminateSnap ==
  ASSUME CInv, SnapInv, WrittenInv, NEW w \in Workers, Terminate(w)
  PROVE  SnapInv'
<1>1. /\ pc[w] = "running" /\ held[w] = {} /\ pc' = [pc EXCEPT ![w] = "idle"]
      /\ scope' = [scope EXCEPT ![w] = [kind |-> "none", start |-> 0]]
      /\ last_stable_version' = IF IsUpdate(w) THEN last_stable_version + 1
                                ELSE last_stable_version
      /\ UNCHANGED <<vp_pool, vp_map, disk, req, held, written, created>>
  BY DEF Terminate, poolVars, fileVars, histVars
<1>2. /\ pc'[w] = "idle" /\ scope'[w] = [kind |-> "none", start |-> 0]
      /\ \A u \in Workers \ {w} : pc'[u] = pc[u] /\ scope'[u] = scope[u]
  BY <1>1 DEF CInv, IInv, TypeOK
<1>3. /\ HeldServes' /\ ~Cleaning' /\ \A u \in Workers : RequestServes(u)'
      /\ \A f \in Frames : Detached(f)' <=> Detached(f)
      /\ SameLinks(vp_pool, vp_pool')
  BY <1>1, <1>2, ScopeSnap DEF LockedPcs
<1>4. \A u \in Workers \ {w} : Result(u)' = Result(u) /\ (IsUpdate(u)' <=> IsUpdate(u))
  BY <1>2 DEF Result, IsUpdate
<1>5. ~IsUpdate(w)' /\ scope'[w].kind = "none" /\ scope'[w].start = 0
  BY <1>2 DEF IsUpdate
<1>6. last_stable_version \in Nat /\ last_stable_version' \in Points
      /\ last_stable_version <= last_stable_version'
      /\ \A u \in Workers : IsUpdate(u) /\ IsUpdate(w) => u = w
  BY <1>1, PointsAre, VersionTypes, OneUpdate DEF CInv, IInv
<1>7. Points' \subseteq Points
  <2> SUFFICES ASSUME NEW u \in Workers, scope'[u].kind # "none"
               PROVE  Result(u)' \in Points
    BY <1>6 DEF Points
  <2>1. u # w
    BY <1>5
  <2>2. Result(u)' = Result(u) /\ scope[u].kind # "none"
    BY <1>2, <1>4, <2>1
  <2> QED BY <2>2 DEF Points
<1>8. FileServes' /\ PoolServes'
  BY <1>1, <1>3, <1>7, KeepServing DEF SnapInv
<1>9. CreatedInv'
  <2> SUFFICES ASSUME NEW p \in PageNos
               PROVE  \/ created[p] <= last_stable_version'
                      \/ created[p] = last_stable_version' + 1
                         /\ \E u \in Workers : IsUpdate(u)'
    BY <1>1 DEF CreatedInv
  <2>1. created[p] \in Nat
    BY FramesAndPages DEF CInv, IInv, TypeOK, Versions
  <2>2. \/ created[p] <= last_stable_version
        \/ created[p] = last_stable_version + 1 /\ \E u \in Workers : IsUpdate(u)
    BY DEF SnapInv, CreatedInv
  <2>3. CASE IsUpdate(w)
    BY <1>1, <1>6, <2>1, <2>2, <2>3
  <2>4. CASE ~IsUpdate(w)
    BY <1>1, <1>4, <2>2, <2>4
  <2> QED BY <2>3, <2>4
<1>10. CopyInv'
  <2> SUFFICES ASSUME NEW f \in Frames, Attached(f),
                      vp_pool[f].version > last_stable_version',
                      created[vp_pool[f].page] <= last_stable_version'
               PROVE  vp_pool[f].prev # NoFrame
    BY <1>1, <1>3 DEF CopyInv, Attached
  <2>1. ~IsUpdate(w)
    <3>1. vp_pool[f].version <= last_stable_version + 1 /\ vp_pool[f].version \in Nat
      BY <1>6, VersionTypes DEF CInv, IInv, VersionInv
    <3> QED BY <1>1, <1>6, <3>1
  <2> QED BY <1>1, <2>1 DEF SnapInv, CopyInv
<1>11. NoScopeInv'
  BY <1>2 DEF SnapInv, NoScopeInv
<1> QED BY <1>3, <1>8, <1>9, <1>10, <1>11 DEF SnapInv

\* A scope opens at the newest stable version; an update sees one version more,
\* where nothing has been written yet.
LEMMA BeginSnap ==
  ASSUME CInv, SnapInv, WrittenInv, NEW w \in Workers, BeginReadonly(w) \/ BeginEditable(w)
  PROVE  SnapInv'
<1> DEFINE s == last_stable_version
<1>1. /\ pc[w] = "idle" /\ pc' = [pc EXCEPT ![w] = "running"]
      /\ \E k \in {"read", "edit"} :
           /\ scope' = [scope EXCEPT ![w] = [kind |-> k, start |-> s]]
           /\ k = "edit" => update_mutex = NoWorker
      /\ UNCHANGED <<vp_pool, vp_map, disk, req, held, written, created, last_stable_version>>
  BY DEF BeginReadonly, BeginEditable, poolVars, fileVars, histVars
<1>2. PICK k \in {"read", "edit"} :
        /\ scope' = [scope EXCEPT ![w] = [kind |-> k, start |-> s]]
        /\ k = "edit" => update_mutex = NoWorker
  BY <1>1
<1>3. /\ pc'[w] = "running" /\ scope'[w] = [kind |-> k, start |-> s]
      /\ \A u \in Workers \ {w} : pc'[u] = pc[u] /\ scope'[u] = scope[u]
  BY <1>1, <1>2 DEF CInv, IInv, TypeOK
<1>4. held[w] = {} /\ scope[w].kind = "none" /\ s \in Nat
  BY <1>1, VersionTypes DEF CInv, HeldInv, IInv, ScopeInv
<1>5. /\ HeldServes' /\ ~Cleaning' /\ \A u \in Workers : RequestServes(u)'
      /\ \A f \in Frames : Detached(f)' <=> Detached(f)
      /\ SameLinks(vp_pool, vp_pool')
  BY <1>1, <1>3, <1>4, ScopeSnap DEF LockedPcs
<1>6. \A u \in Workers \ {w} : Result(u)' = Result(u) /\ (IsUpdate(u)' <=> IsUpdate(u))
  BY <1>3 DEF Result, IsUpdate
<1>7. /\ Result(w)' = IF k = "edit" THEN s + 1 ELSE s
      /\ IsUpdate(w)' <=> k = "edit"
      /\ ~IsUpdate(w)
  BY <1>3, <1>4 DEF Result, IsUpdate
<1>8. k = "edit" => \A u \in Workers : ~IsUpdate(u)
  BY <1>2, NoWorkerAssumption DEF CInv, IInv, ScopeInv
<1>9. ASSUME NEW v \in Points'
      PROVE  v \in Points \/ (v = s + 1 /\ k = "edit")
  BY <1>1, <1>3, <1>6, <1>7, <1>9 DEF Points
<1>10. s \in Points
  BY DEF Points
<1>11. CreatedInv'
  <2> SUFFICES ASSUME NEW p \in PageNos
               PROVE  \/ created[p] <= s
                      \/ created[p] = s + 1 /\ \E u \in Workers : IsUpdate(u)'
    BY <1>1 DEF CreatedInv
  <2>1. \/ created[p] <= s
        \/ created[p] = s + 1 /\ \E u \in Workers : IsUpdate(u)
    BY DEF SnapInv, CreatedInv
  <2> QED BY <1>6, <1>7, <2>1
<1>12. CopyInv'
  BY <1>1, <1>5 DEF SnapInv, CopyInv, Attached
<1>13. NoScopeInv'
  BY <1>3 DEF SnapInv, NoScopeInv
<1>14. FileServes' /\ PoolServes'
  <2>1. CASE k # "edit"
    <3>1. Points' \subseteq Points
      BY <1>9, <2>1
    <3> QED BY <1>1, <1>5, <3>1, KeepServing DEF SnapInv
  <2>2. CASE k = "edit"
    <3>1. \A p \in PageNos : created[p] <= s /\ created[p] \in Nat
      BY <1>8, <2>2, FramesAndPages DEF SnapInv, CreatedInv, CInv, IInv, TypeOK, Versions
    <3>2. ASSUME NEW p \in PageNos
          PROVE  SeenAt(p, s + 1) = SeenAt(p, s)
      <4>1. written[p] \subseteq Nat /\ \A u \in written[p] : u <= s
        BY <1>8, <2>2, DataTypes DEF CInv, IInv, WrittenInv
      <4>2. {u \in written[p] : u <= s + 1} = {u \in written[p] : u <= s}
        BY <1>4, <4>1
      <4> QED BY <4>2 DEF SeenAt
    <3>3. ASSUME NEW f \in Frames, Serves(f, s + 1)
          PROVE  Serves(f, s)
      <4>1. \A g \in Frames : vp_pool[g].version <= s /\ vp_pool[g].version \in Nat
        BY <1>8, <2>2, VersionTypes DEF CInv, IInv, VersionInv
      <4>2. vp_pool[f].next \in Frames \cup {NoFrame}
        BY LinkTypes DEF CInv
      <4> QED BY <1>4, <3>3, <4>1, <4>2 DEF Serves
    <3>4. \A p, v : SeenAt(p, v)' = SeenAt(p, v)
      BY <1>1 DEF SeenAt
    <3>5. FileServes'
      <4> SUFFICES ASSUME NEW p \in PageNos, NEW v \in Points', vp_map[p] = NoFrame,
                          created[p] <= v
                   PROVE  disk[p] = SeenAt(p, v)
        BY <1>1, <3>4 DEF FileServes
      <4>1. CASE v \in Points
        BY <4>1 DEF SnapInv, FileServes
      <4>2. CASE v = s + 1
        BY <1>10, <3>1, <3>2, <4>2 DEF SnapInv, FileServes
      <4> QED BY <1>9, <4>1, <4>2
    <3>6. ASSUME NEW f \in Frames, Attached(f)'
          PROVE  FrameServes(f)'
      <4>1. Attached(f) /\ FrameServes(f) /\ vp_pool[f].page \in PageNos
        <5>1. Attached(f)
          BY <1>1, <1>5, <3>6 DEF Attached
        <5> QED BY <5>1, LinkTypes DEF SnapInv, PoolServes, Attached, CInv
      <4> SUFFICES ASSUME NEW v \in Points', created[vp_pool[f].page] <= v, Serves(f, v)
                   PROVE  vp_pool[f].bytes = SeenAt(vp_pool[f].page, v)
        BY <1>1, <3>4 DEF FrameServes, Serves
      <4>2. CASE v \in Points
        BY <4>1, <4>2 DEF FrameServes
      <4>3. CASE v = s + 1
        <5>1. vp_pool[f].bytes = SeenAt(vp_pool[f].page, s)
          BY <1>10, <3>1, <3>3, <4>1, <4>3 DEF FrameServes
        <5> QED BY <3>2, <4>1, <4>3, <5>1
      <4> QED BY <1>9, <4>2, <4>3
    <3> QED BY <3>5, <3>6 DEF PoolServes
  <2> QED BY <2>1, <2>2
<1> QED BY <1>5, <1>11, <1>12, <1>13, <1>14 DEF SnapInv

-----------------------------------------------------------------------------
(* Frames that leave the pool.                                             *)

\* What taking a frame leaves as it was.
LEMMA LeaveSnap ==
  ASSUME CInv, CInv', SnapInv, NEW w \in Workers, pc[w] \in {"scan", "evict"},
         pc'[w] = "fill", req'[w].op = req[w].op, req'[w].page = req[w].page,
         \A u \in Workers \ {w} : pc'[u] = pc[u],
         UNCHANGED <<scope, last_stable_version, created>>
  PROVE  /\ ~Cleaning' /\ CreatedInv' /\ NoScopeInv' /\ Points' = Points
         /\ \A u \in Workers : RequestServes(u)'
         /\ \A u \in Workers : Result(u)' = Result(u)
<1>1. /\ Points' = Points /\ NoScopeInv'
      /\ \A u \in Workers : Result(u)' = Result(u) /\ (IsUpdate(u)' <=> IsUpdate(u))
  BY SameScope DEF SnapInv
<1>2. RequestServes(w)'
  BY <1>1 DEF RequestServes, SnapInv, LockedPcs
<1>3. \A u \in Workers : RequestServes(u)'
  BY <1>2, OneRequest DEF CInv, LockedPcs
<1>4. CreatedInv'
  BY <1>1 DEF SnapInv, CreatedInv
<1>5. ~Cleaning'
  BY DEF SnapInv, Cleaning
<1> QED BY <1>1, <1>3, <1>4, <1>5

\* The only version of a page serves everybody, and so does the file then.
LEMMA ScanOnlyVersionSnap ==
  ASSUME CInv, CInv', SnapInv, DataInv, ClosedInv, NEW w \in Workers, ScanOnlyVersion(w)
  PROVE  SnapInv'
<1>1. PICK f \in Frames : f = Hand
  BY HandType DEF CInv, IInv, TypeOK
<1> DEFINE page == vp_pool[f].page
<1>2. /\ pc[w] = "scan" /\ OnlyVersion(f) /\ Found(w, f)
      /\ vp_map' = IF page # NoPage THEN [vp_map EXCEPT ![page] = NoFrame] ELSE vp_map
      /\ UNCHANGED <<scope, last_stable_version, held, written, created>>
      /\ \/ /\ vp_pool[f].dirty
            /\ disk' = [disk EXCEPT ![page] = vp_pool[f].bytes]
            /\ vp_pool' = [vp_pool EXCEPT ![f] = MarkedClean(vp_pool[f])]
         \/ ~vp_pool[f].dirty /\ UNCHANGED <<disk, vp_pool>>
  BY <1>1 DEF ScanOnlyVersion, Scanning, scopeVars, histVars
<1>3. /\ pc'[w] = "fill" /\ \A u \in Workers \ {w} : pc'[u] = pc[u]
      /\ req'[w].op = req[w].op /\ req'[w].page = req[w].page
  BY <1>2, FoundVictim
<1>4. \A g \in Frames : ~Detached(g) /\ (Detached(g)' <=> g = f)
  BY <1>2, FoundVictim, VictimDetached
<1>5. /\ ~Cleaning' /\ CreatedInv' /\ NoScopeInv' /\ Points' = Points
      /\ \A u \in Workers : RequestServes(u)'
      /\ \A u \in Workers : Result(u)' = Result(u)
  BY <1>2, <1>3, LeaveSnap
<1>6. BytesInv
  BY <1>2, OpenAtWork DEF DataInv, LockedPcs
<1>7. /\ vp_pool \in [Frames -> VPage] /\ vp_map \in [PageNos -> Frames \cup {NoFrame}]
      /\ disk \in [PageNos -> Versions] /\ page \in PageNos \cup {NoPage}
      /\ vp_pool[f].next = NoFrame /\ vp_pool[f].prev = NoFrame
  BY <1>2 DEF CInv, IInv, TypeOK, VPage, OnlyVersion
<1>8. \A g \in Frames : /\ vp_pool'[g].page = vp_pool[g].page
                        /\ vp_pool'[g].version = vp_pool[g].version
                        /\ vp_pool'[g].prev = vp_pool[g].prev
                        /\ vp_pool'[g].next = vp_pool[g].next
                        /\ vp_pool'[g].bytes = vp_pool[g].bytes
  <2> DEFINE x == MarkedClean(vp_pool[f])
  <2>1. x.page = vp_pool[f].page /\ x.version = vp_pool[f].version
        /\ x.prev = vp_pool[f].prev /\ x.next = vp_pool[f].next
        /\ x.bytes = vp_pool[f].bytes
    BY <1>7, CleanLinks, CleanData
  <2>2. vp_pool' = vp_pool \/ vp_pool' = [vp_pool EXCEPT ![f] = x]
    BY <1>2
  <2> HIDE DEF x
  <2> QED BY <1>7, <2>1, <2>2
<1>9. SameLinks(vp_pool, vp_pool')
  BY <1>8 DEF SameLinks
<1>10. \A v : \A g \in Frames : Serves(g, v)' <=> Serves(g, v)
  BY <1>9, SameServes DEF CInv, IInv
<1>11. \A p, v : SeenAt(p, v)' = SeenAt(p, v)
  BY <1>2 DEF SeenAt
<1>12. page # NoPage => disk'[page] = vp_pool[f].bytes
  <2>1. page # NoPage => FrameBytes(f)
    BY <1>4, <1>6 DEF BytesInv, Attached
  <2>2. CASE vp_pool[f].dirty = TRUE
    BY <1>2, <1>7, <2>2
  <2>3. CASE vp_pool[f].dirty = FALSE
    BY <1>2, <1>7, <2>1, <2>3 DEF FrameBytes
  <2> QED BY <2>2, <2>3, DataTypes DEF CInv, IInv
<1>13. FileServes'
  <2> SUFFICES ASSUME NEW p \in PageNos, NEW v \in Points, vp_map'[p] = NoFrame,
                      created[p] <= v
               PROVE  disk'[p] = SeenAt(p, v)
    BY <1>2, <1>5, <1>11 DEF FileServes
  <2>1. CASE p = page
    <3>1. page # NoPage /\ Attached(f)
      BY <1>4, <2>1, FramesAndPages DEF Attached
    <3>2. Serves(f, v)
      BY <1>7 DEF Serves
    <3>3. FrameServes(f)
      BY <3>1 DEF SnapInv, PoolServes
    <3> QED BY <1>12, <2>1, <3>1, <3>2, <3>3 DEF FrameServes
  <2>2. CASE p # page
    <3>1. vp_map[p] = NoFrame /\ disk'[p] = disk[p]
      BY <1>2, <1>7, <2>2
    <3> QED BY <3>1 DEF SnapInv, FileServes
  <2> QED BY <2>1, <2>2
<1>14. PoolServes'
  <2> SUFFICES ASSUME NEW g \in Frames, Attached(g)'
               PROVE  FrameServes(g)'
    BY DEF PoolServes
  <2>1. Attached(g)
    BY <1>4, <1>8 DEF Attached
  <2>2. FrameServes(g)
    BY <2>1 DEF SnapInv, PoolServes
  <2> QED BY <1>2, <1>5, <1>8, <1>10, <1>11, <2>2 DEF FrameServes
<1>15. CopyInv'
  BY <1>2, <1>4, <1>8 DEF SnapInv, CopyInv, Attached
<1>16. HeldServes'
  <2> SUFFICES ASSUME NEW u \in Workers, NEW g \in Frames, NEW p \in PageNos,
                      <<g, p>> \in held[u]
               PROVE  created[p] <= Result(u) /\ Serves(g, Result(u))'
    BY <1>2, <1>5 DEF HeldServes
  <2>1. created[p] <= Result(u) /\ Serves(g, Result(u))
    BY DEF SnapInv, HeldServes
  <2>2. Serves(g, Result(u))' <=> Serves(g, Result(u))
    <3>1. Result(u)' = Result(u)
      BY <1>5
    <3>2. SameLinks(vp_pool, vp_pool')
      BY <1>9
    <3>3. vp_pool[g].next \in Frames \cup {NoFrame}
      BY LinkTypes DEF CInv
    <3> QED BY <3>1, <3>2, <3>3 DEF Serves, SameLinks
  <2> QED BY <2>1, <2>2
<1> QED BY <1>5, <1>13, <1>14, <1>15, <1>16 DEF SnapInv

\* What a worker uses, and at which version it looks at it.
LEMMA HeldSees ==
  ASSUME CInv, SnapInv, NEW u \in Workers, NEW g \in Frames, NEW p \in PageNos,
         <<g, p>> \in held[u]
  PROVE  /\ Attached(g) /\ vp_pool[g].page = p /\ scope[u].kind # "none"
         /\ created[p] <= Result(u) /\ Serves(g, Result(u)) /\ Result(u) \in Points
<1>1. Attached(g) /\ vp_pool[g].page = p
  BY HeldAttached DEF CInv
<1>2. scope[u].kind # "none"
  BY DEF CInv, HeldInv, IInv, ScopeInv
<1>3. Result(u) \in Points
  BY <1>2, PointsAre DEF CInv
<1> QED BY <1>1, <1>2, <1>3 DEF SnapInv, HeldServes

\* The last version at which somebody looks has every page and every frame.
LEMMA TopPoint ==
  ASSUME CInv, SnapInv
  PROVE  \E t \in Points : /\ \A g \in Frames : vp_pool[g].version <= t
                           /\ \A p \in PageNos : created[p] <= t
<1>1. last_stable_version \in Nat /\ last_stable_version \in Points
      /\ \A u \in Workers : IsUpdate(u) => last_stable_version + 1 \in Points
  BY PointsAre, VersionTypes DEF CInv, IInv
<1>2. /\ \A g \in Frames : vp_pool[g].version \in Nat
      /\ \A p \in PageNos : created[p] \in Nat
  BY VersionTypes, FramesAndPages DEF CInv, IInv, TypeOK, Versions
<1>3. CASE \E u \in Workers : IsUpdate(u)
  <2>1. last_stable_version + 1 \in Points
    BY <1>1, <1>3
  <2>2. /\ \A g \in Frames : vp_pool[g].version <= last_stable_version + 1
        /\ \A p \in PageNos : created[p] <= last_stable_version + 1
    BY <1>1, <1>2 DEF CInv, VersionInv, SnapInv, CreatedInv
  <2> QED BY <2>1, <2>2
<1>4. CASE \A u \in Workers : ~IsUpdate(u)
  <2>1. /\ \A g \in Frames : vp_pool[g].version <= last_stable_version
        /\ \A p \in PageNos : created[p] <= last_stable_version
    BY <1>4 DEF CInv, VersionInv, SnapInv, CreatedInv
  <2> QED BY <1>1, <2>1
<1> QED BY <1>3, <1>4

\* A version that nobody needs leaves its chain: it is not the newest, and whoever
\* finds one of its neighbours would have found it before too.
LEMMA EvictVersionSnap ==
  ASSUME CInv, CInv', SnapInv, DataInv, ClosedInv, NEW w \in Workers, EvictVersion(w),
         ~Needed(vp_clock)
  PROVE  SnapInv'
<1>1. PICK f \in Frames : f = vp_clock
  BY DEF CInv, IInv, TypeOK
<1>2. PICK prev \in Frames \cup {NoFrame}, next \in Frames \cup {NoFrame} :
        prev = vp_pool[f].prev /\ next = vp_pool[f].next
  BY LinkTypes DEF CInv
<1> DEFINE page == vp_pool[f].page
<1>3. /\ pc[w] = "evict" /\ ~OnlyVersion(f)
      /\ UNCHANGED <<scope, last_stable_version, held, written, created>>
  BY <1>1 DEF EvictVersion, CInv, PageInv, PageFacts, scopeVars, histVars
<1>4. Attached(f) /\ page \in PageNos
  <2>1. page # NoPage
    BY <1>3 DEF OnlyVersion, CInv, ChainInv, LinkInv
  <2>2. \A u \in Workers : pc[u] \notin {"clean", "fill"}
    BY <1>3, OnlyHolder DEF LockedPcs, CInv, IInv
  <2> QED BY <2>1, <2>2, LinkTypes DEF Attached, Detached, CInv
<1>5. \A v \in Points : ~(created[page] <= v /\ Serves(f, v))
  BY <1>1 DEF Needed
<1>6. next # NoFrame
  <2>1. PICK t \in Points : vp_pool[f].version <= t /\ created[page] <= t
    BY <1>4, TopPoint
  <2> QED BY <1>2, <1>5, <2>1 DEF Serves
<1>7. /\ next \in Frames /\ Attached(next) /\ vp_pool[next].page = page
      /\ vp_pool[next].prev = f /\ vp_pool[f].version < vp_pool[next].version
  BY <1>2, <1>4, <1>6 DEF CInv, ChainInv, LinkInv, SamePage
<1>8. prev # NoFrame => /\ prev \in Frames /\ Attached(prev) /\ vp_pool[prev].page = page
                        /\ vp_pool[prev].next = f
  BY <1>2, <1>4 DEF CInv, ChainInv, LinkInv, SamePage
<1>9. ~NewestDirty(f)
  BY <1>2, <1>6 DEF NewestDirty
<1>10. /\ vp_pool' = Unlink(f) /\ Found(w, f) /\ UNCHANGED disk
       /\ vp_map' = IF prev = NoFrame THEN [vp_map EXCEPT ![page] = next] ELSE vp_map
  BY <1>1, <1>2, <1>4, <1>9, FramesAndPages DEF EvictVersion
<1>11. \A g \in Frames :
         /\ vp_pool'[g].page = vp_pool[g].page /\ vp_pool'[g].version = vp_pool[g].version
         /\ vp_pool'[g].next = IF g = prev THEN next ELSE vp_pool[g].next
         /\ vp_pool'[g].prev = IF g = next THEN prev ELSE vp_pool[g].prev
         /\ vp_pool'[g].bytes = vp_pool[g].bytes
  <2>1. TypeOK
    BY DEF CInv, IInv
  <2>2. SameData(vp_pool, Unlink(f))
    BY <2>1, UnlinkData
  <2> QED BY <1>2, <1>10, <2>1, <2>2, UnlinkLinks DEF SameData
<1>12. /\ pc'[w] = "fill" /\ \A u \in Workers \ {w} : pc'[u] = pc[u]
       /\ req'[w].op = req[w].op /\ req'[w].page = req[w].page
  BY <1>3, <1>10, FoundVictim
<1>13. \A g \in Frames : ~Detached(g) /\ (Detached(g)' <=> g = f)
  BY <1>3, <1>10, FoundVictim, VictimDetached
<1>14. /\ ~Cleaning' /\ CreatedInv' /\ NoScopeInv' /\ Points' = Points
       /\ \A u \in Workers : RequestServes(u)'
       /\ \A u \in Workers : Result(u)' = Result(u)
  BY <1>3, <1>12, LeaveSnap
<1>15. \A p, v : SeenAt(p, v)' = SeenAt(p, v)
  BY <1>3 DEF SeenAt
<1>16. \A g \in Frames : Attached(g)' => Attached(g) /\ g # f
  BY <1>11, <1>13 DEF Attached
<1>17. Points \subseteq Nat /\ \A g \in Frames : vp_pool[g].version \in Nat
  BY PointsAre, VersionTypes DEF CInv, IInv
<1>18. FileServes'
  <2>1. \A p \in PageNos : vp_map'[p] = NoFrame => vp_map[p] = NoFrame
    BY <1>6, <1>10 DEF CInv, IInv, TypeOK
  <2> QED BY <1>3, <1>10, <1>14, <1>15, <2>1 DEF SnapInv, FileServes
<1>19. PoolServes'
  <2> SUFFICES ASSUME NEW g \in Frames, Attached(g), g # f, NEW v \in Points,
                      created[vp_pool[g].page] <= v, Serves(g, v)'
               PROVE  vp_pool[g].bytes = SeenAt(vp_pool[g].page, v)
    BY <1>3, <1>11, <1>14, <1>15, <1>16 DEF PoolServes, FrameServes, Serves
  <2>1. vp_pool[g].version <= v \/ vp_pool[g].prev = NoFrame
    <3>1. CASE g = next
      <4>1. ~(prev = NoFrame /\ vp_pool[next].version > v)
        BY <1>2, <1>5, <1>6, <1>7, <3>1 DEF Serves
      <4>2. vp_pool'[g].version <= v \/ vp_pool'[g].prev = NoFrame
        BY DEF Serves
      <4> QED BY <1>11, <1>17, <3>1, <4>1, <4>2
    <3>2. CASE g # next
      BY <1>11, <3>2 DEF Serves
    <3> QED BY <3>1, <3>2
  <2>2. vp_pool[g].next = NoFrame \/ vp_pool[vp_pool[g].next].version > v
    <3>1. CASE g = prev
      <4>1. vp_pool[next].version > v
        BY <1>6, <1>7, <1>11, <3>1 DEF Serves
      <4>2. ~(vp_pool[f].version <= v)
        BY <1>2, <1>5, <1>7, <1>8, <3>1, <4>1, FramesAndPages DEF Serves
      <4> QED BY <1>8, <1>17, <3>1, <4>2, FramesAndPages
    <3>2. CASE g # prev
      <4>1. vp_pool[g].next \in Frames \cup {NoFrame}
        BY LinkTypes DEF CInv
      <4> QED BY <1>11, <3>2, <4>1 DEF Serves
    <3> QED BY <3>1, <3>2
  <2>3. FrameServes(g)
    BY DEF SnapInv, PoolServes
  <2> QED BY <2>1, <2>2, <2>3 DEF FrameServes, Serves
<1>20. CopyInv'
  <2> SUFFICES ASSUME NEW g \in Frames, Attached(g),
                      vp_pool[g].version > last_stable_version,
                      created[vp_pool[g].page] <= last_stable_version
               PROVE  vp_pool'[g].prev # NoFrame
    BY <1>3, <1>11, <1>16 DEF CopyInv
  <2>1. vp_pool[g].prev # NoFrame
    BY DEF SnapInv, CopyInv
  <2>2. CASE g = next
    <3>1. last_stable_version \in Points
      BY PointsAre DEF CInv
    <3>2. prev # NoFrame
      BY <1>2, <1>5, <1>7, <2>2, <3>1 DEF Serves
    <3> QED BY <1>11, <2>2, <3>2
  <2> QED BY <1>11, <2>1, <2>2
<1>21. HeldServes'
  <2> SUFFICES ASSUME NEW u \in Workers, NEW g \in Frames, NEW p \in PageNos,
                      <<g, p>> \in held[u]
               PROVE  created[p] <= Result(u) /\ Serves(g, Result(u))'
    BY <1>3, <1>14 DEF HeldServes
  <2>1. PICK v \in Points : v = Result(u)
    BY HeldSees
  <2>2. vp_pool[g].page = p /\ created[p] <= v /\ Serves(g, v)
    BY <2>1, HeldSees
  <2>3. g # f
    BY <1>5, <2>2
  <2>4. vp_pool'[g].version <= v \/ vp_pool'[g].prev = NoFrame
    <3>1. g = next => vp_pool[g].version <= v
      BY <1>7, <2>2, FramesAndPages DEF Serves
    <3> QED BY <1>11, <2>2, <3>1 DEF Serves
  <2>5. vp_pool'[g].next = NoFrame \/ vp_pool'[vp_pool'[g].next].version > v
    <3>1. CASE g = prev
      <4>1. vp_pool[f].version > v
        BY <1>8, <2>2, <3>1, FramesAndPages DEF Serves
      <4>2. vp_pool[next].version > v
        BY <1>7, <1>17, <4>1
      <4> QED BY <1>7, <1>11, <3>1, <4>2
    <3>2. CASE g # prev
      <4>1. vp_pool[g].next \in Frames \cup {NoFrame}
        BY LinkTypes DEF CInv
      <4> QED BY <1>11, <2>2, <3>2, <4>1 DEF Serves
    <3> QED BY <3>1, <3>2
  <2>6. Result(u)' = v
    BY <1>14, <2>1
  <2> QED BY <2>1, <2>2, <2>4, <2>5, <2>6 DEF Serves
<1> QED BY <1>14, <1>18, <1>19, <1>20, <1>21 DEF SnapInv

-----------------------------------------------------------------------------
(* Frames that get a page.                                                 *)

\* All frames but f are as they were, but for their pins.
OthersSame(f) ==
  \A g \in Frames \ {f} :
    /\ vp_pool'[g].page = vp_pool[g].page /\ vp_pool'[g].version = vp_pool[g].version
    /\ vp_pool'[g].prev = vp_pool[g].prev /\ vp_pool'[g].next = vp_pool[g].next
    /\ vp_pool'[g].bytes = vp_pool[g].bytes /\ vp_pool'[g].dirty = vp_pool[g].dirty

\* What the fills have in common: one frame is written, the pins of the page are
\* given back.
LEMMA OneFrameFilled ==
  ASSUME CInv, NEW w \in Workers, NEW p \in PageNos, NEW f \in Frames, NEW v,
         vp_pool' = [Unpinned(w, p) EXCEPT ![f] = v]
  PROVE  vp_pool'[f] = v /\ OthersSame(f)
<1> DEFINE q == Unpinned(w, p)
<1>1. q \in [Frames -> VPage] /\ SameLinks(vp_pool, q) /\ SameData(vp_pool, q)
  BY UnpinnedSame
<1>2. vp_pool' = [q EXCEPT ![f] = v]
  OBVIOUS
<1> HIDE DEF q
<1>3. vp_pool'[f] = v /\ \A g \in Frames \ {f} : vp_pool'[g] = q[g]
  BY <1>1, <1>2
<1>4. SameLinks(vp_pool, q) /\ SameData(vp_pool, q)
  BY <1>1
<1> QED BY <1>3, <1>4 DEF SameLinks, SameData, OthersSame

LEMMA FillReadPool ==
  ASSUME CInv, NEW w \in Workers, FillRead(w)
  PROVE  \E f \in Frames, p \in PageNos :
           /\ f = req[w].victim /\ p = req[w].page /\ Filling(w, "read")
           /\ Deliver(w, f, p) /\ vp_map' = [vp_map EXCEPT ![p] = f]
           /\ vp_pool'[f].page = p /\ vp_pool'[f].version = Start(w)
           /\ vp_pool'[f].prev = NoFrame /\ vp_pool'[f].next = NoFrame
           /\ vp_pool'[f].bytes = disk[p] /\ OthersSame(f)
           /\ UNCHANGED <<disk, page_count, scope, last_stable_version, written, created>>
<1>1. Filling(w, "read")
  BY DEF FillRead
<1>2. PICK f \in Frames, p \in PageNos : f = req[w].victim /\ p = req[w].page
  BY <1>1, FillFacts DEF CInv
<1>3. PICK v \in VPage :
        /\ v = Reassigned(f, p, Start(w), NoFrame, disk[p])
        /\ v.page = p /\ v.version = Start(w) /\ v.prev = NoFrame
        /\ v.next = NoFrame /\ v.bytes = disk[p]
  <2>1. disk[p] \in Versions /\ NoFrame \in Frames \cup {NoFrame}
    BY DEF CInv, IInv, TypeOK
  <2>2. Start(w) \in Versions
    BY <1>1, FillFacts DEF CInv
  <2> QED BY <2>1, <2>2, ReassignedType, ReassignedLinks, ReassignedData DEF CInv, IInv
<1>4. /\ Deliver(w, f, p)
      /\ vp_pool' = [Unpinned(w, p) EXCEPT ![f] = v]
      /\ vp_map' = [vp_map EXCEPT ![p] = f]
      /\ UNCHANGED <<disk, page_count, scope, last_stable_version, written, created>>
  BY <1>2, <1>3 DEF FillRead, fileVars, scopeVars, histVars
<1>5. vp_pool'[f] = v /\ OthersSame(f)
  BY <1>4, OneFrameFilled
<1> QED BY <1>1, <1>2, <1>3, <1>4, <1>5

LEMMA FillAppendPool ==
  ASSUME CInv, NEW w \in Workers, FillAppend(w)
  PROVE  \E f \in Frames, p \in PageNos :
           /\ f = req[w].victim /\ p = page_count + 1 /\ Filling(w, "append")
           /\ Deliver(w, f, p) /\ vp_map' = [vp_map EXCEPT ![p] = f]
           /\ vp_pool'[f].page = p /\ vp_pool'[f].version = Result(w)
           /\ vp_pool'[f].prev = NoFrame /\ vp_pool'[f].next = NoFrame
           /\ vp_pool'[f].bytes = 0 /\ vp_pool'[f].dirty = TRUE /\ OthersSame(f)
           /\ disk' = [disk EXCEPT ![p] = 0] /\ page_count' = p
           /\ created' = [created EXCEPT ![p] = Result(w)]
           /\ UNCHANGED <<scope, last_stable_version, written>>
<1>1. Filling(w, "append")
  BY DEF FillAppend
<1>2. PICK f \in Frames, p \in PageNos : f = req[w].victim /\ p = page_count + 1
  BY <1>1, FillFacts DEF CInv
<1>3. PICK v \in VPage :
        /\ v = Dirtied(Reassigned(f, p, Result(w), NoFrame, 0))
        /\ v.page = p /\ v.version = Result(w) /\ v.prev = NoFrame
        /\ v.next = NoFrame /\ v.bytes = 0 /\ v.dirty = TRUE
  <2>1. 0 \in Versions /\ NoFrame \in Frames \cup {NoFrame}
    BY FramesAndPages DEF Versions
  <2>2. Result(w) \in Versions
    BY <1>1, FillFacts DEF CInv
  <2> DEFINE x == Dirtied(Reassigned(f, p, Result(w), NoFrame, 0))
  <2>3. x \in VPage /\ x.page = p /\ x.version = Result(w) /\ x.prev = NoFrame /\ x.next = NoFrame
    <3>1. TypeOK
      BY DEF CInv, IInv
    <3> QED BY <2>1, <2>2, <3>1, CopyFacts
  <2>4. x.bytes = 0 /\ x.dirty = TRUE
    BY <2>1, <2>2, CopyData DEF CInv, IInv
  <2> HIDE DEF x
  <2> QED BY <2>3, <2>4 DEF x
<1>4. /\ Deliver(w, f, p)
      /\ vp_pool' = [Unpinned(w, p) EXCEPT ![f] = v]
      /\ vp_map' = [vp_map EXCEPT ![p] = f]
      /\ disk' = [disk EXCEPT ![p] = 0]
      /\ page_count' = p
      /\ created' = [created EXCEPT ![p] = Result(w)]
      /\ UNCHANGED <<scope, last_stable_version, written>>
  BY <1>2, <1>3 DEF FillAppend, scopeVars
<1>5. vp_pool'[f] = v /\ OthersSame(f)
  BY <1>4, OneFrameFilled
<1> QED BY <1>1, <1>2, <1>3, <1>4, <1>5

LEMMA FillEditPool ==
  ASSUME CInv, NEW w \in Workers, FillEdit(w)
  PROVE  \E f \in Frames, p \in PageNos, base \in Frames :
           /\ f = req[w].victim /\ p = req[w].page /\ base = req[w].cur
           /\ Filling(w, "edit") /\ Deliver(w, f, p) /\ base # f
           /\ IsUpdate(w) /\ <<base, p>> \in held[w]
           /\ Attached(base) /\ vp_pool[base].page = p /\ vp_pool[base].next = NoFrame
           /\ vp_pool'[f].page = p /\ vp_pool'[f].version = Result(w)
           /\ vp_pool'[f].prev = base /\ vp_pool'[f].next = NoFrame
           /\ vp_pool'[f].bytes = vp_pool[base].bytes /\ vp_pool'[f].dirty = TRUE
           /\ \A g \in Frames \ {f} :
                /\ vp_pool'[g].page = vp_pool[g].page /\ vp_pool'[g].version = vp_pool[g].version
                /\ vp_pool'[g].prev = vp_pool[g].prev
                /\ vp_pool'[g].next = IF g = base THEN f ELSE vp_pool[g].next
                /\ vp_pool'[g].bytes = vp_pool[g].bytes /\ vp_pool'[g].dirty = vp_pool[g].dirty
           /\ UNCHANGED <<vp_map, disk, page_count, scope, last_stable_version, written, created>>
<1>1. Filling(w, "edit") /\ req[w].cur # NoFrame
  BY DEF FillEdit
<1>2. PICK f \in Frames, p \in PageNos, base \in Frames :
        f = req[w].victim /\ p = req[w].page /\ base = req[w].cur
  BY <1>1, FillFacts DEF CInv
<1>3. PICK v : /\ v = Dirtied(Reassigned(f, p, Result(w), base, vp_pool[base].bytes))
               /\ v.page = p /\ v.next = NoFrame /\ v.dirty = TRUE
               /\ v.version = Result(w) /\ v.prev = base
               /\ v.bytes = vp_pool[base].bytes
  <2>1. vp_pool[base].bytes \in Versions /\ base \in Frames \cup {NoFrame}
    BY DEF CInv, IInv, TypeOK, VPage
  <2>2. Result(w) \in Versions
    BY <1>1, FillFacts DEF CInv
  <2> DEFINE x == Dirtied(Reassigned(f, p, Result(w), base, vp_pool[base].bytes))
  <2>3. x.page = p /\ x.next = NoFrame /\ x.version = Result(w) /\ x.prev = base
    BY <2>1, <2>2, CopyFacts DEF CInv, IInv
  <2>4. x.bytes = vp_pool[base].bytes /\ x.dirty = TRUE
    BY <2>1, <2>2, CopyData DEF CInv, IInv
  <2> HIDE DEF x
  <2> QED BY <2>3, <2>4 DEF x
<1>4. /\ Deliver(w, f, p)
      /\ vp_pool' = [Unpinned(w, p) EXCEPT ![base].next = f, ![f] = v]
      /\ UNCHANGED <<vp_map, disk, page_count, scope, last_stable_version, written, created>>
  BY <1>2, <1>3 DEF FillEdit, fileVars, scopeVars, histVars
<1>7. /\ IsUpdate(w) /\ <<base, p>> \in held[w]
  BY <1>1, <1>2 DEF Filling, CInv, PageInv, PageFacts, LockedPcs
<1>8. Attached(base) /\ vp_pool[base].page = p /\ vp_pool[base].next = NoFrame
  BY <1>7, HeldAttached DEF CInv
<1>9. \A g \in Frames : (Detached(g) <=> g = f) /\ ~Detached(g)'
  BY <1>1, <1>2, <1>4, FillVictim
<1>10. base # f
  BY <1>8, <1>9 DEF Attached
<1>11. vp_pool'[f] = v /\ \A g \in Frames \ {f} :
         /\ vp_pool'[g].page = vp_pool[g].page /\ vp_pool'[g].version = vp_pool[g].version
         /\ vp_pool'[g].prev = vp_pool[g].prev
         /\ vp_pool'[g].next = IF g = base THEN f ELSE vp_pool[g].next
         /\ vp_pool'[g].bytes = vp_pool[g].bytes /\ vp_pool'[g].dirty = vp_pool[g].dirty
  <2> DEFINE q == Unpinned(w, p)
             u == [q EXCEPT ![base].next = f]
  <2>1. q \in [Frames -> VPage] /\ SameLinks(vp_pool, q) /\ SameData(vp_pool, q)
    BY UnpinnedSame
  <2>2. vp_pool' = [u EXCEPT ![f] = v]
    BY <1>4
  <2> HIDE DEF q
  <2>3. u = [q EXCEPT ![base].next = f] /\ q \in [Frames -> VPage] /\ SameData(q, u)
    BY <2>1, LinkData
  <2> HIDE DEF u
  <2>4. /\ u \in [Frames -> VPage]
        /\ \A g \in Frames :
             /\ u[g].page = q[g].page /\ u[g].version = q[g].version
             /\ u[g].prev = q[g].prev
             /\ u[g].next = IF g = base THEN f ELSE q[g].next
    BY <2>3, SetNext
  <2>5. vp_pool'[f] = v /\ \A g \in Frames \ {f} : vp_pool'[g] = u[g]
    BY <2>2, <2>4
  <2>6. \A g \in Frames : /\ u[g].bytes = vp_pool[g].bytes /\ u[g].dirty = vp_pool[g].dirty
    BY <2>1, <2>3 DEF SameData
  <2>7. \A g \in Frames :
          /\ u[g].page = vp_pool[g].page /\ u[g].version = vp_pool[g].version
          /\ u[g].prev = vp_pool[g].prev
          /\ u[g].next = IF g = base THEN f ELSE vp_pool[g].next
    BY <2>1, <2>4 DEF SameLinks
  <2> QED BY <2>5, <2>6, <2>7
<1>12. /\ vp_pool'[f].page = p /\ vp_pool'[f].version = Result(w)
       /\ vp_pool'[f].prev = base /\ vp_pool'[f].next = NoFrame
       /\ vp_pool'[f].bytes = vp_pool[base].bytes /\ vp_pool'[f].dirty = TRUE
  BY <1>3, <1>11
<1>13. Filling(w, "edit") /\ base # f
  BY <1>1, <1>10
<1> WITNESS f \in Frames, p \in PageNos, base \in Frames
<1> QED BY <1>2, <1>4, <1>7, <1>8, <1>11, <1>12, <1>13

\* What a delivered frame and the end of a request mean for everybody.
LEMMA DeliverSnap ==
  ASSUME CInv, CInv', SnapInv, NEW w \in Workers, NEW f \in Frames, NEW p \in PageNos,
         pc[w] = "fill", Deliver(w, f, p), UNCHANGED <<scope, last_stable_version>>
  PROVE  /\ ~Cleaning' /\ NoScopeInv' /\ Points' = Points
         /\ \A u \in Workers : RequestServes(u)'
         /\ \A u \in Workers : Result(u)' = Result(u) /\ (IsUpdate(u)' <=> IsUpdate(u))
         /\ held'[w] = {h \in held[w] : h[2] # p} \cup {<<f, p>>}
         /\ \A u \in Workers \ {w} : held'[u] = held[u]
<1>1. /\ pc' = [pc EXCEPT ![w] = "running"]
      /\ held' = [held EXCEPT ![w] = {h \in held[w] : h[2] # p} \cup {<<f, p>>}]
  BY DEF Deliver
<1>2. /\ pc'[w] = "running"
      /\ held'[w] = {h \in held[w] : h[2] # p} \cup {<<f, p>>}
      /\ \A u \in Workers \ {w} : pc'[u] = pc[u] /\ held'[u] = held[u]
  BY <1>1 DEF CInv, IInv, TypeOK
<1>3. \A u \in Workers : RequestServes(u)'
  BY <1>2, NoRequests DEF CInv, LockedPcs
<1>4. ~Cleaning'
  BY <1>2 DEF SnapInv, Cleaning
<1> QED BY <1>2, <1>3, <1>4, SameScope DEF SnapInv

\* A page that was not in the pool gets frame f, with bytes that serve everybody.
LEMMA AttachSnap ==
  ASSUME CInv, CInv', SnapInv, NEW w \in Workers, NEW f \in Frames, NEW p \in PageNos,
         NEW op, Filling(w, op), f = req[w].victim, Deliver(w, f, p),
         vp_map[p] = NoFrame, vp_map' = [vp_map EXCEPT ![p] = f], OthersSame(f),
         vp_pool'[f].page = p, vp_pool'[f].prev = NoFrame, vp_pool'[f].next = NoFrame,
         UNCHANGED <<scope, last_stable_version, written>>,
         \A q \in PageNos \ {p} : disk'[q] = disk[q] /\ created'[q] = created[q],
         created'[p] <= Result(w),
         \A v \in Points : created'[p] <= v => vp_pool'[f].bytes = SeenAt(p, v),
         \/ created'[p] = created[p] /\ ~(vp_pool'[f].version > last_stable_version)
         \/ created'[p] = last_stable_version + 1 /\ IsUpdate(w)
  PROVE  SnapInv'
<1>1. pc[w] = "fill" /\ \A g \in Frames : (Detached(g) <=> g = f) /\ ~Detached(g)'
  BY FillVictim DEF Filling
<1>2. /\ ~Cleaning' /\ NoScopeInv' /\ Points' = Points
      /\ \A u \in Workers : RequestServes(u)'
      /\ \A u \in Workers : Result(u)' = Result(u) /\ (IsUpdate(u)' <=> IsUpdate(u))
      /\ held'[w] = {h \in held[w] : h[2] # p} \cup {<<f, p>>}
      /\ \A u \in Workers \ {w} : held'[u] = held[u]
  BY <1>1, DeliverSnap
<1>3. ASSUME NEW g \in Frames, Attached(g)
      PROVE  /\ g # f /\ vp_pool[g].page \in PageNos \ {p}
             /\ vp_pool[g].next \in Frames \ {f} \/ vp_pool[g].next = NoFrame
  <2>1. g # f
    BY <1>1, <1>3 DEF Attached
  <2>2. vp_pool[g].page \in PageNos \ {p}
    BY <1>3, LinkTypes DEF CInv, ChainInv, EntryInv, Attached
  <2>3. vp_pool[g].next \in Frames => vp_pool[g].next # f
    BY <1>1, <1>3 DEF CInv, ChainInv, LinkInv, SamePage, Attached
  <2> QED BY <2>1, <2>2, <2>3, LinkTypes DEF CInv
<1>4. ASSUME NEW g \in Frames, Attached(g)
      PROVE  /\ vp_pool'[g].page = vp_pool[g].page
             /\ vp_pool'[g].version = vp_pool[g].version
             /\ vp_pool'[g].prev = vp_pool[g].prev /\ vp_pool'[g].next = vp_pool[g].next
             /\ vp_pool'[g].bytes = vp_pool[g].bytes
             /\ created'[vp_pool[g].page] = created[vp_pool[g].page]
             /\ \A v : Serves(g, v)' <=> Serves(g, v)
  <2>1. /\ vp_pool'[g].page = vp_pool[g].page
        /\ vp_pool'[g].version = vp_pool[g].version
        /\ vp_pool'[g].prev = vp_pool[g].prev /\ vp_pool'[g].next = vp_pool[g].next
        /\ vp_pool'[g].bytes = vp_pool[g].bytes
    BY <1>3, <1>4 DEF OthersSame
  <2>2. vp_pool[g].next # NoFrame =>
          vp_pool'[vp_pool[g].next].version = vp_pool[vp_pool[g].next].version
    BY <1>3, <1>4 DEF OthersSame
  <2>3. \A v : Serves(g, v)' <=> Serves(g, v)
    BY <2>1, <2>2 DEF Serves
  <2> QED BY <1>3, <1>4, <2>1, <2>3
<1>5. \A g \in Frames \ {f} : Attached(g)' => Attached(g)
  BY <1>1 DEF Attached, OthersSame
<1>6. \A q, v : SeenAt(q, v)' = SeenAt(q, v)
  BY DEF SeenAt
<1>7. FileServes'
  <2>1. \A q \in PageNos : vp_map'[q] = NoFrame => q # p /\ vp_map[q] = NoFrame
    BY FramesAndPages DEF CInv, IInv, TypeOK
  <2> QED BY <1>2, <1>6, <2>1 DEF SnapInv, FileServes
<1>8. PoolServes'
  <2>1. FrameServes(f)'
    BY <1>2, <1>6 DEF FrameServes
  <2>2. ASSUME NEW g \in Frames \ {f}, Attached(g)'
        PROVE  FrameServes(g)'
    <3>1. Attached(g)
      BY <1>5, <2>2
    <3>2. FrameServes(g)
      BY <3>1 DEF SnapInv, PoolServes
    <3> QED BY <1>2, <1>4, <1>6, <3>1, <3>2 DEF FrameServes
  <2> QED BY <2>1, <2>2 DEF PoolServes
<1>9. CreatedInv'
  BY <1>2 DEF SnapInv, CreatedInv
<1>10. CopyInv'
  <2> SUFFICES ASSUME NEW g \in Frames, Attached(g)',
                      vp_pool'[g].version > last_stable_version,
                      created'[vp_pool'[g].page] <= last_stable_version
               PROVE  vp_pool'[g].prev # NoFrame
    BY DEF CopyInv
  <2>1. g # f
    BY VersionTypes DEF CInv, IInv
  <2>2. Attached(g)
    BY <1>5, <2>1
  <2> QED BY <1>4, <2>2 DEF SnapInv, CopyInv
<1>11. HeldServes'
  <2> SUFFICES ASSUME NEW u \in Workers, NEW g \in Frames, NEW q \in PageNos,
                      <<g, q>> \in held'[u]
               PROVE  created'[q] <= Result(u) /\ Serves(g, Result(u))'
    BY <1>2 DEF HeldServes
  <2>1. CASE <<g, q>> \in held[u]
    <3>1. Attached(g) /\ vp_pool[g].page = q /\ created[q] <= Result(u) /\ Serves(g, Result(u))
      BY <2>1, HeldSees
    <3>2. created'[q] = created[q]
      BY <1>4, <3>1
    <3>3. Result(u)' = Result(u)
      BY <1>2
    <3>4. \A v : Serves(g, v)' <=> Serves(g, v)
      BY <1>4, <3>1
    <3> QED BY <3>1, <3>2, <3>3, <3>4 DEF Serves
  <2>2. CASE <<g, q>> = <<f, p>> /\ u = w
    BY <2>2 DEF Serves
  <2> QED BY <1>2, <2>1, <2>2
<1> QED BY <1>2, <1>7, <1>8, <1>9, <1>10, <1>11 DEF SnapInv

LEMMA FillReadSnap ==
  ASSUME CInv, CInv', SnapInv, NEW w \in Workers, FillRead(w)
  PROVE  SnapInv'
<1>1. PICK f \in Frames, p \in PageNos :
           /\ f = req[w].victim /\ p = req[w].page /\ Filling(w, "read")
           /\ Deliver(w, f, p) /\ vp_map' = [vp_map EXCEPT ![p] = f]
           /\ vp_pool'[f].page = p /\ vp_pool'[f].version = Start(w)
           /\ vp_pool'[f].prev = NoFrame /\ vp_pool'[f].next = NoFrame
           /\ vp_pool'[f].bytes = disk[p] /\ OthersSame(f)
           /\ UNCHANGED <<disk, page_count, scope, last_stable_version, written, created>>
  BY FillReadPool
<1>2. vp_map[p] = NoFrame
  BY <1>1 DEF Filling, CInv, PageInv, PageFacts, LockedPcs
<1>3. created[p] <= Result(w)
  BY <1>1 DEF Filling, LockedPcs, SnapInv, RequestServes
<1>4. \A v \in Points : created[p] <= v => vp_pool'[f].bytes = SeenAt(p, v)
  BY <1>1, <1>2 DEF SnapInv, FileServes
<1>5. ~(vp_pool'[f].version > last_stable_version)
  BY <1>1, VersionTypes DEF CInv, IInv, VersionInv
<1> QED BY <1>1, <1>2, <1>3, <1>4, <1>5, AttachSnap

LEMMA FillAppendSnap ==
  ASSUME CInv, CInv', SnapInv, WrittenInv, NEW w \in Workers, FillAppend(w)
  PROVE  SnapInv'
<1>1. PICK f \in Frames, p \in PageNos :
           /\ f = req[w].victim /\ p = page_count + 1 /\ Filling(w, "append")
           /\ Deliver(w, f, p) /\ vp_map' = [vp_map EXCEPT ![p] = f]
           /\ vp_pool'[f].page = p /\ vp_pool'[f].version = Result(w)
           /\ vp_pool'[f].prev = NoFrame /\ vp_pool'[f].next = NoFrame
           /\ vp_pool'[f].bytes = 0 /\ vp_pool'[f].dirty = TRUE /\ OthersSame(f)
           /\ disk' = [disk EXCEPT ![p] = 0] /\ page_count' = p
           /\ created' = [created EXCEPT ![p] = Result(w)]
           /\ UNCHANGED <<scope, last_stable_version, written>>
  BY FillAppendPool
<1>2. page_count \in Nat
  BY DataTypes DEF CInv, IInv
<1>3. IsUpdate(w)
  BY <1>1 DEF Filling, CInv, PageInv, PageFacts, LockedPcs
<1>4. Result(w) = last_stable_version + 1 /\ Result(w) \in Nat
  BY <1>3, PointsAre DEF CInv
<1>5. vp_map[p] = NoFrame
  BY <1>1, <1>2 DEF CInv, FileInv
<1>6. created'[p] = Result(w)
      /\ \A q \in PageNos \ {p} : disk'[q] = disk[q] /\ created'[q] = created[q]
  BY <1>1 DEF CInv, IInv, TypeOK
<1>7. ASSUME NEW v \in Points, created'[p] <= v
      PROVE  SeenAt(p, v) = 0
  <2>1. written[p] = {0}
    BY <1>1, <1>2 DEF WrittenInv
  <2>2. v \in Nat /\ TypeOK
    BY PointsAre DEF CInv, IInv
  <2> QED BY <2>1, <2>2, SeenIs
<1>8. \A v \in Points : created'[p] <= v => vp_pool'[f].bytes = SeenAt(p, v)
  BY <1>1, <1>7
<1>9. created'[p] <= Result(w)
  BY <1>4, <1>6
<1>10. created'[p] = last_stable_version + 1 /\ IsUpdate(w)
  BY <1>3, <1>4, <1>6
<1> QED BY <1>1, <1>5, <1>6, <1>8, <1>9, <1>10, AttachSnap

\* An update puts its copy behind the frame that it had, which the others keep
\* finding.
LEMMA FillEditSnap ==
  ASSUME CInv, CInv', SnapInv, NEW w \in Workers, FillEdit(w)
  PROVE  SnapInv'
<1>1. PICK f \in Frames, p \in PageNos, base \in Frames :
           /\ f = req[w].victim /\ p = req[w].page /\ base = req[w].cur
           /\ Filling(w, "edit") /\ Deliver(w, f, p) /\ base # f
           /\ IsUpdate(w) /\ <<base, p>> \in held[w]
           /\ Attached(base) /\ vp_pool[base].page = p /\ vp_pool[base].next = NoFrame
           /\ vp_pool'[f].page = p /\ vp_pool'[f].version = Result(w)
           /\ vp_pool'[f].prev = base /\ vp_pool'[f].next = NoFrame
           /\ vp_pool'[f].bytes = vp_pool[base].bytes /\ vp_pool'[f].dirty = TRUE
           /\ \A g \in Frames \ {f} :
                /\ vp_pool'[g].page = vp_pool[g].page /\ vp_pool'[g].version = vp_pool[g].version
                /\ vp_pool'[g].prev = vp_pool[g].prev
                /\ vp_pool'[g].next = IF g = base THEN f ELSE vp_pool[g].next
                /\ vp_pool'[g].bytes = vp_pool[g].bytes /\ vp_pool'[g].dirty = vp_pool[g].dirty
           /\ UNCHANGED <<vp_map, disk, page_count, scope, last_stable_version, written, created>>
  BY FillEditPool
<1>2. pc[w] = "fill" /\ \A g \in Frames : (Detached(g) <=> g = f) /\ ~Detached(g)'
  BY <1>1, FillVictim DEF Filling
<1>3. /\ ~Cleaning' /\ NoScopeInv' /\ Points' = Points
      /\ \A u \in Workers : RequestServes(u)'
      /\ \A u \in Workers : Result(u)' = Result(u) /\ (IsUpdate(u)' <=> IsUpdate(u))
      /\ held'[w] = {h \in held[w] : h[2] # p} \cup {<<f, p>>}
      /\ \A u \in Workers \ {w} : held'[u] = held[u]
  BY <1>1, <1>2, DeliverSnap
<1>4. PICK n \in Points : n = Result(w)
  BY <1>1, PointsAre DEF CInv
<1>5. /\ n = last_stable_version + 1 /\ n \in Nat /\ last_stable_version \in Nat
      /\ \A v \in Points : v \in Nat /\ v <= n
  BY <1>1, <1>4, PointsAre, VersionTypes DEF CInv, IInv
<1>6. created[p] <= n /\ Serves(base, n)
  BY <1>1, <1>4, HeldSees
<1>7. vp_pool[base].bytes = SeenAt(p, n)
  <2>1. FrameServes(base)
    BY <1>1 DEF SnapInv, PoolServes
  <2> QED BY <1>1, <1>6, <2>1 DEF FrameServes
<1>8. \A q, v : SeenAt(q, v)' = SeenAt(q, v)
  BY <1>1 DEF SeenAt
<1>9. FileServes'
  BY <1>1, <1>3, <1>8 DEF SnapInv, FileServes
<1>10. ASSUME NEW g \in Frames, Attached(g)
       PROVE  g # f /\ (vp_pool[g].next \in Frames \ {f} \/ vp_pool[g].next = NoFrame)
  <2>1. g # f
    BY <1>2, <1>10 DEF Attached
  <2>2. vp_pool[g].next \in Frames => vp_pool[g].next # f
    BY <1>2, <1>10 DEF CInv, ChainInv, LinkInv, SamePage, Attached
  <2> QED BY <2>1, <2>2, LinkTypes DEF CInv
<1>11. ASSUME NEW g \in Frames, Attached(g)
       PROVE  /\ \A v : Serves(g, v)' => Serves(g, v)
              /\ g # base => \A v : Serves(g, v) => Serves(g, v)'
  <2>1. /\ vp_pool'[g].version = vp_pool[g].version /\ vp_pool'[g].prev = vp_pool[g].prev
        /\ vp_pool'[g].next = IF g = base THEN f ELSE vp_pool[g].next
    <3>1. g \in Frames \ {f}
      BY <1>10, <1>11
    <3> QED BY <1>1, <3>1
  <2>2. vp_pool[g].next # NoFrame =>
          vp_pool'[vp_pool[g].next].version = vp_pool[vp_pool[g].next].version
    <3>1. vp_pool[g].next \in Frames \ {f} \/ vp_pool[g].next = NoFrame
      BY <1>10, <1>11
    <3> QED BY <1>1, <3>1
  <2>3. CASE g = base
    BY <1>1, <2>1, <2>3 DEF Serves
  <2>4. CASE g # base
    BY <2>1, <2>2, <2>4 DEF Serves
  <2> QED BY <2>3, <2>4
<1>12. \A g \in Frames \ {f} : Attached(g)' => Attached(g)
  BY <1>1, <1>2 DEF Attached
<1>13. PoolServes'
  <2>1. FrameServes(f)'
    <3> SUFFICES ASSUME NEW v \in Points, Serves(f, v)'
                 PROVE  vp_pool'[f].bytes = SeenAt(p, v)
      BY <1>1, <1>3, <1>8 DEF FrameServes
    <3>1. n <= v
      BY <1>1, <1>4, FramesAndPages DEF Serves
    <3>2. n = v
      BY <1>5, <3>1
    <3> QED BY <1>1, <1>7, <3>2
  <2>2. ASSUME NEW g \in Frames \ {f}, Attached(g)'
        PROVE  FrameServes(g)'
    <3>1. Attached(g)
      BY <1>12, <2>2
    <3>2. FrameServes(g)
      BY <3>1 DEF SnapInv, PoolServes
    <3>3. vp_pool'[g].page = vp_pool[g].page /\ vp_pool'[g].bytes = vp_pool[g].bytes
      BY <1>1
    <3> QED BY <1>1, <1>3, <1>8, <1>11, <3>1, <3>2, <3>3 DEF FrameServes
  <2> QED BY <2>1, <2>2 DEF PoolServes
<1>14. CreatedInv'
  BY <1>1, <1>3 DEF SnapInv, CreatedInv
<1>15. CopyInv'
  <2> SUFFICES ASSUME NEW g \in Frames, Attached(g)',
                      vp_pool'[g].version > last_stable_version,
                      created[vp_pool'[g].page] <= last_stable_version
               PROVE  vp_pool'[g].prev # NoFrame
    BY <1>1 DEF CopyInv
  <2>1. CASE g = f
    BY <1>1, <2>1, FramesAndPages
  <2>2. CASE g # f
    BY <1>1, <1>12, <2>2 DEF SnapInv, CopyInv
  <2> QED BY <2>1, <2>2
<1>16. HeldServes'
  <2> SUFFICES ASSUME NEW u \in Workers, NEW g \in Frames, NEW q \in PageNos,
                      <<g, q>> \in held'[u]
               PROVE  created[q] <= Result(u) /\ Serves(g, Result(u))'
    BY <1>1, <1>3 DEF HeldServes
  <2>0. Result(u)' = Result(u)
    BY <1>3
  <2>1. CASE <<g, q>> = <<f, p>> /\ u = w
    <3>1. Serves(f, n)'
      BY <1>1, <1>4, <1>5 DEF Serves
    <3> QED BY <1>4, <1>6, <2>0, <2>1, <3>1 DEF Serves
  <2>2. CASE <<g, q>> \in held[u] /\ (u = w => q # p)
    <3>1. Attached(g) /\ vp_pool[g].page = q /\ created[q] <= Result(u) /\ Serves(g, Result(u))
      BY <2>2, HeldSees
    <3>2. CASE g # base
      BY <1>11, <2>0, <3>1, <3>2 DEF Serves
    <3>3. CASE g = base
      <4>1. u # w
        BY <1>1, <2>2, <3>1, <3>3
      <4>2. ~IsUpdate(u)
        BY <1>1, <4>1, OneUpdate DEF CInv, IInv
      <4>3. Result(u) <= last_stable_version /\ Result(u) \in Nat
        <5>1. Result(u) = Start(u)
          BY <4>2 DEF Result, Start
        <5> QED BY <5>1, VersionTypes DEF CInv, VersionInv, IInv
      <4>4. /\ vp_pool'[base].version = vp_pool[base].version
            /\ vp_pool'[base].prev = vp_pool[base].prev
            /\ vp_pool'[base].next = f /\ vp_pool'[f].version = n
        BY <1>1, <1>4
      <4>5. n > Result(u)
        BY <1>5, <4>3
      <4>6. vp_pool[base].version <= Result(u) \/ vp_pool[base].prev = NoFrame
        BY <3>1, <3>3 DEF Serves
      <4> QED BY <2>0, <3>1, <3>3, <4>4, <4>5, <4>6 DEF Serves
    <3> QED BY <3>2, <3>3
  <2> QED BY <1>3, <2>1, <2>2
<1> QED BY <1>3, <1>9, <1>13, <1>14, <1>15, <1>16 DEF SnapInv

\* An update writes its copy of a page: nobody else finds it.
LEMMA WritePageSnap ==
  ASSUME CInv, CInv', SnapInv, WrittenInv, NEW w \in Workers, WritePage(w)
  PROVE  SnapInv'
<1>1. PICK h \in held[w] :
        /\ vp_pool[h[1]].version = Result(w)
        /\ vp_pool' = [vp_pool EXCEPT ![h[1]].bytes = Result(w)]
        /\ written' = [written EXCEPT ![h[2]] = @ \cup {Result(w)}]
  BY DEF WritePage
<1>2. PICK f \in Frames, p \in PageNos : h = <<f, p>>
  BY DEF CInv, IInv, TypeOK
<1>3. /\ pc[w] = "running" /\ IsUpdate(w) /\ <<f, p>> \in held[w]
      /\ UNCHANGED <<vp_map, disk, scope, last_stable_version, pc, req, held, created>>
  BY <1>1, <1>2 DEF WritePage, fileVars, scopeVars
<1>4. PICK n \in Points : n = Result(w)
  BY <1>3, PointsAre DEF CInv
<1>5. /\ n = last_stable_version + 1 /\ n \in Nat /\ last_stable_version \in Nat
      /\ \A v \in Points : v \in Nat /\ v <= n
  BY <1>3, <1>4, PointsAre, VersionTypes DEF CInv, IInv
<1>6. Attached(f) /\ vp_pool[f].page = p /\ vp_pool[f].next = NoFrame
  BY <1>3, HeldAttached DEF CInv
<1>7. /\ vp_pool \in [Frames -> VPage] /\ written \in [PageNos -> SUBSET Versions]
      /\ \A q \in PageNos : written[q] \subseteq Nat
      /\ \A g \in Frames : vp_pool[g].version \in Nat
  BY DataTypes, VersionTypes DEF CInv, IInv, TypeOK
<1>8. /\ vp_pool[f].version = n /\ vp_pool'[f].bytes = n
      /\ \A g \in Frames \ {f} : vp_pool'[g] = vp_pool[g]
      /\ vp_pool'[f].page = vp_pool[f].page /\ vp_pool'[f].version = vp_pool[f].version
      /\ vp_pool'[f].prev = vp_pool[f].prev /\ vp_pool'[f].next = vp_pool[f].next
  <2> DEFINE x == [vp_pool[f] EXCEPT !.bytes = n]
  <2>1. vp_pool[f] \in VPage
    BY <1>7
  <2>2. /\ x.page = vp_pool[f].page /\ x.version = vp_pool[f].version
        /\ x.prev = vp_pool[f].prev /\ x.next = vp_pool[f].next /\ x.bytes = n
    BY <2>1 DEF VPage
  <2>3. vp_pool' = [vp_pool EXCEPT ![f] = x]
    BY <1>1, <1>2, <1>4
  <2> HIDE DEF x
  <2> QED BY <1>1, <1>2, <1>4, <1>7, <2>2, <2>3
<1>9. /\ written'[p] = written[p] \cup {n}
      /\ \A q \in PageNos \ {p} : written'[q] = written[q]
  BY <1>1, <1>2, <1>4, <1>7
<1>10. SameLinks(vp_pool, vp_pool')
  BY <1>8 DEF SameLinks
<1>11. \A v : \A g \in Frames : Serves(g, v)' <=> Serves(g, v)
  BY <1>10, SameServes DEF CInv, IInv
<1>12. \A g \in Frames : Detached(g)' <=> Detached(g)
  BY <1>3 DEF Detached
<1>13. /\ Points' = Points /\ NoScopeInv'
       /\ \A u \in Workers : Result(u)' = Result(u) /\ (IsUpdate(u)' <=> IsUpdate(u))
  BY <1>3, SameScope DEF SnapInv
<1>14. ~Cleaning' /\ \A u \in Workers : RequestServes(u)'
  <2>1. \A u \in Workers : RequestServes(u)'
    BY <1>3, <1>10, KeepRequests
  <2> QED BY <1>3, <2>1 DEF SnapInv, Cleaning
<1>15. \A q \in PageNos \ {p} : \A v : SeenAt(q, v)' = SeenAt(q, v)
  BY <1>9 DEF SeenAt
<1>16. \A v \in Points : v # n => SeenAt(p, v)' = SeenAt(p, v)
  <2> SUFFICES ASSUME NEW v \in Points, v # n
               PROVE  {u \in written'[p] : u <= v} = {u \in written[p] : u <= v}
    BY DEF SeenAt
  <2>1. ~(n <= v)
    BY <1>5
  <2> QED BY <1>9, <2>1
<1>17. Latest({u \in written'[p] : u <= n}) = n
  <2> DEFINE S == {u \in written'[p] : u <= n}
  <2>1. S \subseteq Nat /\ n \in S /\ \A u \in S : u <= n
    BY <1>5, <1>7, <1>9
  <2> HIDE DEF S
  <2>2. Latest(S) = n
    BY <2>1, LatestIs
  <2> QED BY <2>2 DEF S
<1>18. FileServes'
  <2>1. vp_map[p] # NoFrame
    BY <1>6 DEF CInv, ChainInv, EntryInv
  <2> SUFFICES ASSUME NEW q \in PageNos, NEW v \in Points, vp_map[q] = NoFrame,
                      created[q] <= v
               PROVE  disk[q] = SeenAt(q, v)'
    BY <1>3, <1>13 DEF FileServes, SeenAt
  <2>2. q # p /\ disk[q] = SeenAt(q, v)
    BY <2>1 DEF SnapInv, FileServes
  <2> QED BY <1>15, <2>2
<1>19. PoolServes'
  <2>1. ASSUME NEW v \in Points, created[p] <= v, Serves(f, v)
        PROVE  v = n
    <3>1. CASE vp_pool[f].version <= v
      BY <1>5, <1>8, <3>1
    <3>2. CASE vp_pool[f].prev = NoFrame
      <4>1. ~(created[p] <= last_stable_version)
        BY <1>5, <1>6, <1>8, <3>2 DEF SnapInv, CopyInv
      <4>2. created[p] = last_stable_version + 1
        BY <4>1 DEF SnapInv, CreatedInv
      <4> QED BY <1>5, <2>1, <4>2
    <3> QED BY <2>1, <3>1, <3>2 DEF Serves
  <2>2. FrameServes(f)'
    <3> SUFFICES ASSUME NEW v \in Points, created[p] <= v, Serves(f, v)
                 PROVE  n = SeenAt(p, v)'
      BY <1>3, <1>6, <1>8, <1>11, <1>13 DEF FrameServes, SeenAt, Serves
    <3>1. v = n
      BY <2>1
    <3> QED BY <1>17, <3>1 DEF SeenAt
  <2>3. ASSUME NEW g \in Frames \ {f}, Attached(g)
        PROVE  FrameServes(g)'
    <3>1. FrameServes(g) /\ vp_pool[g].page \in PageNos
      BY <2>3, LinkTypes DEF SnapInv, PoolServes, Attached, CInv
    <3> SUFFICES ASSUME NEW v \in Points, created[vp_pool[g].page] <= v, Serves(g, v)
                 PROVE  vp_pool[g].bytes = SeenAt(vp_pool[g].page, v)'
      BY <1>3, <1>8, <1>11, <1>13 DEF FrameServes, SeenAt, Serves
    <3>2. vp_pool[g].bytes = SeenAt(vp_pool[g].page, v)
      BY <3>1 DEF FrameServes
    <3>3. CASE vp_pool[g].page # p
      BY <1>8, <1>15, <3>1, <3>2, <3>3 DEF SeenAt
    <3>4. CASE vp_pool[g].page = p
      <4>1. vp_pool[g].next # NoFrame
        BY <1>6, <2>3, <3>4 DEF CInv, ChainInv, NewestInv, SamePage
      <4>2. PICK m \in Frames : m = vp_pool[g].next
        BY <4>1, LinkTypes DEF CInv
      <4>3. vp_pool[m].version > v
        BY <4>1, <4>2 DEF Serves
      <4>4. vp_pool[m].version <= n
        BY <1>5, <1>7 DEF CInv, VersionInv
      <4>5. v # n
        BY <1>5, <1>7, <4>3, <4>4
      <4> QED BY <1>8, <1>16, <3>2, <3>4, <4>5 DEF SeenAt
    <3> QED BY <3>3, <3>4
  <2>4. \A g \in Frames : Attached(g)' <=> Attached(g)
    BY <1>10, <1>12 DEF Attached, SameLinks
  <2> QED BY <2>2, <2>3, <2>4 DEF PoolServes
<1>20. CreatedInv'
  BY <1>3, <1>13 DEF SnapInv, CreatedInv
<1>21. CopyInv'
  BY <1>3, <1>10, <1>12 DEF SnapInv, CopyInv, Attached, SameLinks
<1>22. HeldServes'
  <2> SUFFICES ASSUME NEW u \in Workers, NEW g \in Frames, NEW q \in PageNos,
                      <<g, q>> \in held[u]
               PROVE  created[q] <= Result(u) /\ Serves(g, Result(u))'
    BY <1>3, <1>13 DEF HeldServes
  <2>1. created[q] <= Result(u) /\ Serves(g, Result(u))
    BY HeldSees
  <2>2. Result(u)' = Result(u)
    BY <1>13
  <2> QED BY <1>11, <2>1, <2>2 DEF Serves
<1> QED BY <1>13, <1>14, <1>18, <1>19, <1>20, <1>21, <1>22 DEF SnapInv

LEMMA InitSnap == Init => SnapInv
<1> SUFFICES ASSUME Init PROVE SnapInv
  OBVIOUS
<1>1. \A f \in Frames : ~Attached(f)
  BY DEF Init, Attached
<1>2. /\ ~Cleaning /\ PoolServes /\ CopyInv /\ HeldServes /\ NoScopeInv
      /\ \A w \in Workers : RequestServes(w)
  BY <1>1 DEF Init, Cleaning, PoolServes, CopyInv, HeldServes, NoScopeInv, RequestServes,
              LockedPcs
<1>3. CreatedInv
  BY DEF Init, CreatedInv
<1>4. FileServes
  <2>1. TypeOK /\ WrittenInv /\ CInv
    BY InitDInv DEF DInv, CInv, DataInv, IInv
  <2> SUFFICES ASSUME NEW p \in PageNos, NEW v \in Points
               PROVE  SeenAt(p, v) = 0
    BY DEF Init, FileServes
  <2>2. v \in Nat
    BY <2>1, PointsAre DEF CInv
  <2>3. SeenAt(p, v) \in {0}
    BY <2>1, <2>2, SeenIs DEF Init
  <2> QED BY <2>3
<1> QED BY <1>2, <1>3, <1>4 DEF SnapInv

LEMMA NextSnap ==
  ASSUME ~UnpinnedEdit, DInv, DInv', SnapInv, [Next]_vars,
         [\A w \in Workers : EvictVersion(w) => ~Needed(vp_clock)]_vars
  PROVE  SnapInv'
<1>1. CInv /\ CInv' /\ DataInv /\ WrittenInv /\ ClosedInv
  BY DEF DInv, DataInv
<1>2. CASE UNCHANGED vars
  BY <1>1, <1>2, StutterSnap
<1>3. CASE Close
  BY <1>1, <1>3, CloseSnap
<1>4. ASSUME NEW w \in Workers,
             \/ BeginReadonly(w) \/ BeginEditable(w) \/ Terminate(w)
             \/ GetPageReadonly(w) \/ GetPageEditable(w) \/ AppendVPage(w)
             \/ WritePage(w) \/ Unpin(w)
      PROVE  SnapInv'
  BY <1>1, <1>4, BeginSnap, TerminateSnap, RequestSnap, WritePageSnap, UnpinSnap
<1>5. ASSUME NEW w \in Workers, Locked(w), EvictVersion(w) => ~Needed(vp_clock)
      PROVE  SnapInv'
  <2>1. ~CleanPrevious(w)
    BY DEF CleanPrevious, SnapInv, Cleaning
  <2> QED BY <1>1, <1>5, <2>1, WalkNextSnap, WalkEndSnap, ScanPassSnap, ScanOnlyVersionSnap,
             EvictVersionSnap, FillReadSnap, FillEditSnap, FillEditMissedChains, FillAppendSnap
             DEF Locked
<1> QED BY <1>2, <1>3, <1>4, <1>5 DEF Next

\* While no version leaves the pool that somebody may still have to find there,
\* SnapInv holds in every reachable state.
THEOREM SnapInvariance ==
  ASSUME ~UnpinnedEdit
  PROVE  Spec /\ KeepsNeededVersions => []SnapInv
<1>1. Init => SnapInv
  BY InitSnap
<1>2. DInv /\ DInv' /\ SnapInv /\ [Next]_vars
      /\ [\A w \in Workers : EvictVersion(w) => ~Needed(vp_clock)]_vars => SnapInv'
  BY NextSnap
<1> QED BY <1>1, <1>2, FileInvariance, PTL DEF Spec, KeepsNeededVersions

\* Snapshot isolation, but for evictions: as long as no version leaves the pool
\* that an open scope or the next one may have to find there, the bytes under every
\* pinned page are those of the version of its scope.
THEOREM SnapshotsHold ==
  ASSUME ~UnpinnedEdit
  PROVE  Spec /\ KeepsNeededVersions => []SnapshotReads
<1>1. ASSUME DInv, SnapInv
      PROVE  SnapshotReads
  <2> SUFFICES ASSUME NEW w \in Workers, NEW h \in held[w]
               PROVE  vp_pool[h[1]].bytes = Visible(w, h[2])
    BY DEF SnapshotReads
  <2>1. PICK f \in Frames, p \in PageNos : h = <<f, p>>
    BY <1>1 DEF DInv, CInv, IInv, TypeOK
  <2>2. /\ Attached(f) /\ vp_pool[f].page = p /\ created[p] <= Result(w)
        /\ Serves(f, Result(w)) /\ Result(w) \in Points
    BY <1>1, <2>1, HeldSees DEF DInv
  <2>3. FrameServes(f)
    BY <1>1, <2>2 DEF SnapInv, PoolServes
  <2>4. vp_pool[f].bytes = SeenAt(p, Result(w))
    BY <2>2, <2>3 DEF FrameServes
  <2> QED BY <2>1, <2>4 DEF SeenAt, Visible
<1> QED BY <1>1, SnapInvariance, FileInvariance, PTL

-----------------------------------------------------------------------------
(* The snapshot store.                                                     *)

PagesHeld(w) == {p \in PageNos : HoldsPage(w, p)}

\* What a worker looks at are the bytes of its version, on the pages it holds.
ViewsInv ==
  \A w \in Workers : View(w) = {<<p, SeenAt(p, Result(w))>> : p \in PagesHeld(w)}

LEMMA ViewsAre ==
  ASSUME DInv, SnapInv
  PROVE  ViewsInv
<1> SUFFICES ASSUME NEW w \in Workers
             PROVE  View(w) = {<<p, SeenAt(p, Result(w))>> : p \in PagesHeld(w)}
  BY DEF ViewsInv
<1>1. ASSUME NEW f \in Frames, NEW p \in PageNos, <<f, p>> \in held[w]
      PROVE  vp_pool[f].bytes = SeenAt(p, Result(w))
  <2>1. /\ Attached(f) /\ vp_pool[f].page = p /\ created[p] <= Result(w)
        /\ Serves(f, Result(w)) /\ Result(w) \in Points
    BY <1>1, HeldSees DEF DInv
  <2>2. FrameServes(f)
    BY <2>1 DEF SnapInv, PoolServes
  <2> QED BY <2>1, <2>2 DEF FrameServes
<1>2. held[w] \subseteq Frames \X PageNos
  BY DEF DInv, CInv, IInv, TypeOK
<1>3. ASSUME NEW x \in View(w)
      PROVE  x \in {<<p, SeenAt(p, Result(w))>> : p \in PagesHeld(w)}
  <2>1. PICK h \in held[w] : x = <<h[2], vp_pool[h[1]].bytes>>
    BY DEF View
  <2>2. PICK f \in Frames, p \in PageNos : h = <<f, p>>
    BY <1>2
  <2>3. x = <<p, SeenAt(p, Result(w))>> /\ p \in PagesHeld(w)
    BY <1>1, <2>1, <2>2 DEF PagesHeld, HoldsPage
  <2> QED BY <2>3
<1>4. ASSUME NEW p \in PagesHeld(w)
      PROVE  <<p, SeenAt(p, Result(w))>> \in View(w)
  <2>1. PICK f \in Frames : <<f, p>> \in held[w] /\ p \in PageNos
    BY DEF PagesHeld, HoldsPage
  <2>2. <<p, vp_pool[f].bytes>> \in View(w)
    BY <2>1 DEF View
  <2> QED BY <1>1, <2>1, <2>2
<1> QED BY <1>3, <1>4

LEMMA StoreBytes ==
  ASSUME TypeOK, WrittenInv, NEW p \in PageNos, NEW v \in Nat
  PROVE  Store!Bytes(p, v) = SeenAt(p, v)
<1>1. written[p] \subseteq Nat
  BY DataTypes
<1> DEFINE R(u) == u <= v /\ \A t \in written[p] : t <= v => t <= u
<1>2. SeenAt(p, v) \in written[p] /\ R(SeenAt(p, v))
  BY SeenIs
<1>3. \A u \in written[p] : R(u) => u = SeenAt(p, v)
  BY <1>1, <1>2
<1>4. Store!Bytes(p, v) = CHOOSE u \in written[p] : R(u)
  BY DEF Store!Bytes
<1> HIDE DEF R
<1> QED BY <1>2, <1>3, <1>4

LEMMA StoreAt == \A w : Store!At(w) = Result(w)
BY DEF Store!At, Result, IsUpdate

\* Where neither the scope nor what it can see changes, the view follows the pages.
LEMMA NextView ==
  ASSUME ViewsInv', NEW u \in Workers, UNCHANGED <<scope, last_stable_version>>,
         \A p \in PageNos : written'[p] = written[p]
  PROVE  View(u)' = {<<p, SeenAt(p, Result(u))>> : p \in PagesHeld(u)'}
<1>1. \A p \in PageNos : SeenAt(p, Result(u))' = SeenAt(p, Result(u))
  BY SameScope DEF SeenAt
<1>2. View(u)' = {<<p, SeenAt(p, Result(u))>> : p \in PagesHeld(u)}'
  BY DEF ViewsInv
<1>3. PagesHeld(u)' \subseteq PageNos
  BY DEF PagesHeld
<1>4. \A x : x \in View(u)' <=> \E p \in PagesHeld(u)' : x = <<p, SeenAt(p, Result(u))>>
  <2>1. \A x : x \in View(u)' <=> \E p \in PagesHeld(u)' : x = <<p, SeenAt(p, Result(u))>>'
    BY <1>2
  <2> QED BY <1>1, <1>3, <2>1
<1> QED BY <1>4

\* Steps that no worker can see.
LEMMA UnseenStep ==
  ASSUME ViewsInv, ViewsInv', UNCHANGED <<scope, last_stable_version, written>>,
         \A u \in Workers : PagesHeld(u)' = PagesHeld(u)
  PROVE  UNCHANGED Store!vars
<1>1. ASSUME NEW u \in Workers
      PROVE  View(u)' = View(u)
  BY NextView DEF ViewsInv
<1>2. [w \in Workers |-> View(w)]' = [w \in Workers |-> View(w)]
  BY <1>1
<1> QED BY <1>2 DEF Store!vars

\* A worker gets a page: it looks at it.
LEMMA LookStep ==
  ASSUME DInv, ViewsInv, ViewsInv', UNCHANGED <<scope, last_stable_version, written>>,
         NEW w \in Workers, scope[w].kind # "none", NEW p \in PageNos,
         PagesHeld(w)' = PagesHeld(w) \cup {p},
         \A u \in Workers \ {w} : PagesHeld(u)' = PagesHeld(u)
  PROVE  Store!Next
<1>2. ASSUME NEW u \in Workers
      PROVE  View(u)' = {<<q, SeenAt(q, Result(u))>> : q \in PagesHeld(u)'}
  BY NextView
<1>3. Store!Bytes(p, Store!At(w)) = SeenAt(p, Result(w))
  <2>1. TypeOK /\ WrittenInv /\ Result(w) \in Nat
    BY PointsAre DEF DInv, CInv, IInv, DataInv
  <2> QED BY <2>1, StoreAt, StoreBytes
<1>4. View(w)' = View(w) \cup {<<p, Store!Bytes(p, Store!At(w))>>}
  BY <1>2, <1>3 DEF ViewsInv
<1>5. \A u \in Workers \ {w} : View(u)' = View(u)
  BY <1>2 DEF ViewsInv
<1>6. scope[w] # Store!NoScope
  BY DEF Store!NoScope
<1>7. Store!Look(w, p)
  BY <1>4, <1>5, <1>6 DEF Store!Look
<1> QED BY <1>7 DEF Store!Next

LEMMA SamePages ==
  ASSUME NEW u \in Workers, held'[u] = held[u]
  PROVE  PagesHeld(u)' = PagesHeld(u)
BY DEF PagesHeld, HoldsPage

\* A request returns.
LEMMA DeliverLooks ==
  ASSUME DInv, ViewsInv, ViewsInv', UNCHANGED <<scope, last_stable_version, written>>,
         NEW w \in Workers, pc[w] \in LockedPcs, NEW f \in Frames, NEW p \in PageNos,
         Deliver(w, f, p)
  PROVE  Store!Next
<1>1. held' = [held EXCEPT ![w] = {h \in held[w] : h[2] # p} \cup {<<f, p>>}]
  BY DEF Deliver
<1>2. /\ held'[w] = {h \in held[w] : h[2] # p} \cup {<<f, p>>}
      /\ \A u \in Workers \ {w} : held'[u] = held[u]
  BY <1>1 DEF DInv, CInv, IInv, TypeOK
<1>3. PagesHeld(w)' = PagesHeld(w) \cup {p}
  <2>1. ASSUME NEW q \in PageNos
        PROVE  HoldsPage(w, q)' <=> HoldsPage(w, q) \/ q = p
    BY <1>2 DEF HoldsPage
  <2> QED BY <2>1 DEF PagesHeld
<1>4. \A u \in Workers \ {w} : PagesHeld(u)' = PagesHeld(u)
  BY <1>2, SamePages
<1>5. scope[w].kind # "none"
  BY DEF DInv, CInv, IInv, ScopeInv, LockedPcs
<1> QED BY <1>3, <1>4, <1>5, LookStep

\* What the holder of vp_mutex does before its request returns, the begin of a
\* request and the destructor leave every view as it is.
LEMMA SearchStutters ==
  ASSUME ViewsInv, ViewsInv', UNCHANGED <<scope, last_stable_version, written, held>>
  PROVE  UNCHANGED Store!vars
<1>1. \A u \in Workers : PagesHeld(u)' = PagesHeld(u)
  BY SamePages
<1> QED BY <1>1, UnseenStep

LEMMA LockedLooks ==
  ASSUME DInv, SnapInv, ViewsInv, ViewsInv', NEW w \in Workers, Locked(w)
  PROVE  Store!Next \/ UNCHANGED Store!vars
<1>0. CInv
  BY DEF DInv
<1>1. CASE \/ WalkNext(w) \/ ScanPinned(w) \/ ScanSecondChance(w) \/ ScanOnlyVersion(w)
           \/ ScanInUse(w) \/ ScanNotInUse(w) \/ EvictVersion(w) \/ CleanPrevious(w)
  <2>1. UNCHANGED <<scope, last_stable_version, written, held>>
    BY <1>1 DEF WalkNext, ScanPinned, ScanSecondChance, ScanOnlyVersion, ScanInUse,
                ScanNotInUse, EvictVersion, CleanPrevious, scopeVars, histVars
  <2> QED BY <2>1, SearchStutters
<1>2. CASE WalkEnd(w)
  <2>1. UNCHANGED <<scope, last_stable_version, written>> /\ pc[w] \in LockedPcs
    BY <1>2 DEF WalkEnd, scopeVars, histVars, LockedPcs
  <2>2. PICK f \in Frames, p \in PageNos : f = req[w].cur /\ p = req[w].page
    BY <1>2 DEF DInv, CInv, IInv, RequestInv, WalkEnd, LockedPcs
  <2>3. UNCHANGED held \/ Deliver(w, f, p)
    BY <1>2, <2>2 DEF WalkEnd
  <2> QED BY <2>1, <2>3, SearchStutters, DeliverLooks
<1>3. CASE FillRead(w)
  <2>1. UNCHANGED <<scope, last_stable_version, written>> /\ pc[w] \in LockedPcs
    BY <1>3 DEF FillRead, Filling, scopeVars, histVars, LockedPcs
  <2>2. \E f \in Frames, p \in PageNos : Deliver(w, f, p)
    BY <1>0, <1>3, FillReadPool
  <2> QED BY <2>1, <2>2, DeliverLooks
<1>4. CASE FillAppend(w)
  <2>1. UNCHANGED <<scope, last_stable_version, written>> /\ pc[w] \in LockedPcs
    BY <1>4 DEF FillAppend, Filling, scopeVars, histVars, LockedPcs
  <2>2. \E f \in Frames, p \in PageNos : Deliver(w, f, p)
    BY <1>0, <1>4, FillAppendPool
  <2> QED BY <2>1, <2>2, DeliverLooks
<1>5. CASE FillEdit(w)
  <2>1. UNCHANGED <<scope, last_stable_version, written>> /\ pc[w] \in LockedPcs
    BY <1>5 DEF FillEdit, Filling, scopeVars, histVars, LockedPcs
  <2>2. req[w].victim \in Frames /\ req[w].page \in PageNos
    BY <1>0, <1>5 DEF FillEdit, Filling, CInv, IInv, RequestInv, LockedPcs
  <2>3. Deliver(w, req[w].victim, req[w].page)
    BY <1>5 DEF FillEdit
  <2> QED BY <2>1, <2>2, <2>3, DeliverLooks
<1> QED BY <1>0, <1>1, <1>2, <1>3, <1>4, <1>5, FillEditMissedChains DEF Locked

\* A worker gives a page back: it looks away, unless it has the page in another frame.
LEMMA UnpinLooks ==
  ASSUME DInv, ViewsInv, ViewsInv', NEW w \in Workers, Unpin(w)
  PROVE  Store!Next \/ UNCHANGED Store!vars
<1>1. PICK h \in held[w] : held' = [held EXCEPT ![w] = held[w] \ {h}]
  BY DEF Unpin
<1>2. PICK f \in Frames, p \in PageNos : h = <<f, p>>
  BY DEF DInv, CInv, IInv, TypeOK
<1>3. UNCHANGED <<scope, last_stable_version, written>>
  BY DEF Unpin, scopeVars, histVars
<1>4. held'[w] = held[w] \ {<<f, p>>} /\ \A u \in Workers \ {w} : held'[u] = held[u]
  BY <1>1, <1>2 DEF DInv, CInv, IInv, TypeOK
<1>5. \A u \in Workers \ {w} : PagesHeld(u)' = PagesHeld(u)
  BY <1>4, SamePages
<1>6. p \in PagesHeld(w)
  BY <1>1, <1>2 DEF PagesHeld, HoldsPage
<1>7. PagesHeld(w)' = PagesHeld(w) \/ PagesHeld(w)' = PagesHeld(w) \ {p}
  <2>1. ASSUME NEW q \in PageNos, q # p
        PROVE  HoldsPage(w, q)' <=> HoldsPage(w, q)
    BY <1>4, <2>1 DEF HoldsPage
  <2> QED BY <1>6, <2>1 DEF PagesHeld
<1>8. CASE PagesHeld(w)' = PagesHeld(w)
  BY <1>3, <1>5, <1>8, UnseenStep
<1>9. CASE PagesHeld(w)' = PagesHeld(w) \ {p}
  <2> DEFINE x == <<p, SeenAt(p, Result(w))>>
  <2>1. ASSUME NEW u \in Workers
        PROVE  View(u)' = {<<q, SeenAt(q, Result(u))>> : q \in PagesHeld(u)'}
    BY <1>3, NextView
  <2>2. x \in View(w)
    BY <1>6 DEF ViewsInv
  <2>3. View(w)' = View(w) \ {x}
    BY <1>9, <2>1 DEF ViewsInv
  <2>4. \A u \in Workers \ {w} : View(u)' = View(u)
    BY <1>5, <2>1 DEF ViewsInv
  <2> HIDE DEF x
  <2>5. Store!LookAway(w, x)
    BY <1>3, <2>3, <2>4 DEF Store!LookAway
  <2> QED BY <2>2, <2>5 DEF Store!Next
<1> QED BY <1>7, <1>8, <1>9

\* An update writes a page that it has: only its own view follows.
LEMMA WriteLooks ==
  ASSUME DInv, ViewsInv, ViewsInv', NEW w \in Workers, WritePage(w)
  PROVE  Store!Next
<1>1. PICK h \in held[w] : written' = [written EXCEPT ![h[2]] = @ \cup {Result(w)}]
  BY DEF WritePage
<1>2. PICK f \in Frames, p \in PageNos : h = <<f, p>>
  BY DEF DInv, CInv, IInv, TypeOK
<1>3. IsUpdate(w) /\ UNCHANGED <<scope, last_stable_version, held>>
  BY DEF WritePage, scopeVars
<1>4. PICK n \in Nat : n = Result(w) /\ n = last_stable_version + 1
                       /\ last_stable_version \in Nat
  BY <1>3, PointsAre, VersionTypes DEF DInv, CInv, IInv
<1>5. /\ written' = [written EXCEPT ![p] = written[p] \cup {n}]
      /\ written'[p] = written[p] \cup {n}
      /\ \A q \in PageNos \ {p} : written'[q] = written[q]
      /\ \A q \in PageNos : written[q] \subseteq Nat
  BY <1>1, <1>2, <1>4, DataTypes DEF DInv, CInv, IInv, TypeOK
<1>6. \A u \in Workers : PagesHeld(u)' = PagesHeld(u) /\ Result(u)' = Result(u)
  BY <1>3, SamePages, SameScope
<1>7. ASSUME NEW u \in Workers \ {w}, NEW q \in PageNos
      PROVE  SeenAt(q, Result(u))' = SeenAt(q, Result(u))
  <2>1. ~IsUpdate(u)
    BY <1>3, OneUpdate DEF DInv, CInv, IInv
  <2>2. Result(u) <= last_stable_version /\ Result(u) \in Nat
    <3>1. Result(u) = Start(u)
      BY <2>1 DEF Result, Start
    <3> QED BY <3>1, VersionTypes DEF DInv, CInv, VersionInv, IInv
  <2>3. {t \in written'[q] : t <= Result(u)} = {t \in written[q] : t <= Result(u)}
    <3>1. ~(n <= Result(u))
      BY <1>4, <2>2
    <3>2. written'[q] = written[q] \/ written'[q] = written[q] \cup {n}
      BY <1>5
    <3> QED BY <3>1, <3>2
  <2>4. Result(u)' = Result(u)
    BY <1>6
  <2> QED BY <2>3, <2>4 DEF SeenAt
<1>8. ASSUME NEW q \in PageNos
      PROVE  SeenAt(q, Result(w))' = IF q = p THEN n ELSE SeenAt(q, Result(w))
  <2>1. CASE q = p
    <3> DEFINE S == {t \in written'[p] : t <= n}
    <3>1. S \subseteq Nat /\ n \in S /\ \A t \in S : t <= n
      BY <1>4, <1>5
    <3> HIDE DEF S
    <3>2. Latest(S) = n
      BY <3>1, LatestIs
    <3>3. Result(w)' = n
      BY <1>4, <1>6
    <3> QED BY <2>1, <3>2, <3>3 DEF SeenAt, S
  <2>2. CASE q # p
    <3>1. written'[q] = written[q] /\ Result(w)' = Result(w)
      BY <1>5, <1>6, <2>2
    <3>2. SeenAt(q, Result(w))' = SeenAt(q, Result(w))
      BY <3>1 DEF SeenAt
    <3> QED BY <2>2, <3>2
  <2> QED BY <2>1, <2>2
<1>9. PagesHeld(w) \subseteq PageNos /\ p \in PagesHeld(w)
  BY <1>2 DEF PagesHeld, HoldsPage
<1>10. View(w)' = {x \in View(w) : x[1] # p} \cup {<<p, n>>}
  <2>1. \A x : x \in View(w)' <=> \E q \in PagesHeld(w) : x = <<q, SeenAt(q, Result(w))>>'
    BY <1>6 DEF ViewsInv
  <2>2. \A x : x \in View(w) <=> \E q \in PagesHeld(w) : x = <<q, SeenAt(q, Result(w))>>
    BY DEF ViewsInv
  <2> QED BY <1>8, <1>9, <2>1, <2>2
<1>11. \A u \in Workers \ {w} : View(u)' = View(u)
  <2> SUFFICES ASSUME NEW u \in Workers \ {w} PROVE View(u)' = View(u)
    OBVIOUS
  <2>1. \A x : x \in View(u)' <=> \E q \in PagesHeld(u) : x = <<q, SeenAt(q, Result(u))>>'
    BY <1>6 DEF ViewsInv
  <2>2. \A x : x \in View(u) <=> \E q \in PagesHeld(u) : x = <<q, SeenAt(q, Result(u))>>
    BY DEF ViewsInv
  <2>3. PagesHeld(u) \subseteq PageNos
    BY DEF PagesHeld
  <2> QED BY <1>7, <2>1, <2>2, <2>3
<1>12. scope[w].kind = "edit"
  BY <1>3 DEF IsUpdate
<1>13. Store!At(w) = n
  BY <1>4, StoreAt
<1>14. Store!Write(w, p)
  BY <1>3, <1>5, <1>10, <1>11, <1>12, <1>13 DEF Store!Write
<1> QED BY <1>14 DEF Store!Next

LEMMA InitStore == Init => Store!Init
<1> SUFFICES ASSUME Init PROVE Store!Init
  OBVIOUS
<1>1. \A w \in Workers : View(w) = {}
  BY DEF Init, View
<1>2. [w \in Workers |-> View(w)] = [w \in Workers |-> {}]
  BY <1>1
<1> QED BY <1>2 DEF Init, Store!Init, Store!NoScope

\* A scope opens: nobody looks at another page for that.
LEMMA OpenLooks ==
  ASSUME DInv, SnapInv, NEW w \in Workers, BeginReadonly(w) \/ BeginEditable(w)
  PROVE  Store!Next
<1>1. UNCHANGED <<last_stable_version, vp_pool, held, written>> /\ pc[w] = "idle"
  BY DEF BeginReadonly, BeginEditable, poolVars, histVars
<1>2. [u \in Workers |-> View(u)]' = [u \in Workers |-> View(u)]
  BY <1>1 DEF View
<1>3. scope[w] = Store!NoScope
  <2>1. scope[w].kind = "none"
    BY <1>1 DEF DInv, CInv, IInv, ScopeInv
  <2>2. scope[w].start = 0
    BY <2>1 DEF SnapInv, NoScopeInv
  <2>3. scope[w] \in [kind : {"none", "read", "edit"}, start : Versions]
    BY DEF DInv, CInv, IInv, TypeOK
  <2> QED BY <2>1, <2>2, <2>3 DEF Store!NoScope
<1>4. CASE BeginReadonly(w)
  <2>1. Store!OpenRead(w)
    BY <1>1, <1>2, <1>3, <1>4 DEF BeginReadonly, Store!OpenRead
  <2> QED BY <2>1 DEF Store!Next
<1>5. CASE BeginEditable(w)
  <2>1. \A u \in Workers : scope[u].kind # "edit"
    BY <1>5, NoWorkerAssumption DEF BeginEditable, DInv, CInv, IInv, ScopeInv, IsUpdate
  <2>2. Store!OpenUpdate(w)
    BY <1>1, <1>2, <1>3, <1>5, <2>1 DEF BeginEditable, Store!OpenUpdate
  <2> QED BY <2>2 DEF Store!Next
<1> QED BY <1>4, <1>5

\* A scope closes once its worker looks at no page.
LEMMA CloseLooks ==
  ASSUME DInv, NEW w \in Workers, Terminate(w)
  PROVE  Store!Next
<1>1. UNCHANGED <<vp_pool, held, written>> /\ pc[w] = "running" /\ held[w] = {}
  BY DEF Terminate, poolVars, histVars
<1>2. [u \in Workers |-> View(u)]' = [u \in Workers |-> View(u)] /\ View(w) = {}
  BY <1>1 DEF View
<1>3. scope[w] # Store!NoScope
  BY <1>1 DEF DInv, CInv, IInv, ScopeInv, Store!NoScope
<1>4. last_stable_version' =
        IF scope[w].kind = "edit" THEN last_stable_version + 1 ELSE last_stable_version
  BY DEF Terminate, IsUpdate
<1>5. scope' = [scope EXCEPT ![w] = Store!NoScope]
  BY DEF Terminate, Store!NoScope
<1>6. Store!CloseScope(w)
  BY <1>1, <1>2, <1>3, <1>4, <1>5 DEF Store!CloseScope
<1> QED BY <1>6 DEF Store!Next

LEMMA NextLooks ==
  ASSUME DInv, SnapInv, ViewsInv, ViewsInv', [Next]_vars
  PROVE  [Store!Next]_Store!vars
<1>1. CASE UNCHANGED vars \/ Close
  <2>1. UNCHANGED <<scope, last_stable_version, written, held>>
    BY <1>1 DEF vars, Close, scopeVars, histVars
  <2> QED BY <2>1, SearchStutters
<1>2. ASSUME NEW w \in Workers,
             GetPageReadonly(w) \/ GetPageEditable(w) \/ AppendVPage(w)
      PROVE  UNCHANGED Store!vars
  <2>1. UNCHANGED <<scope, last_stable_version, written, held>>
    BY <1>2 DEF GetPageReadonly, GetPageEditable, AppendVPage, Lookup, Enter, scopeVars,
                histVars
  <2> QED BY <2>1, SearchStutters
<1>3. ASSUME NEW w \in Workers,
             \/ BeginReadonly(w) \/ BeginEditable(w) \/ Terminate(w)
             \/ Locked(w) \/ WritePage(w) \/ Unpin(w)
      PROVE  Store!Next \/ UNCHANGED Store!vars
  BY <1>3, OpenLooks, CloseLooks, LockedLooks, WriteLooks, UnpinLooks
<1> QED BY <1>1, <1>2, <1>3 DEF Next

\* Snapshot isolation as one abstract store: as long as no version leaves the pool
\* that an open scope or the next one may have to find there, every behaviour of
\* the pages is one of SnapshotStore, where a scope looks at the pages of its
\* version and only the one update writes, for the scopes opened after its end.
THEOREM SnapshotStoreImplemented ==
  ASSUME ~UnpinnedEdit
  PROVE  Spec /\ KeepsNeededVersions => ImplementsSnapshotStore
<1>1. Init => Store!Init
  BY InitStore
<1>2. DInv /\ SnapInv => ViewsInv
  BY ViewsAre
<1>3. DInv /\ SnapInv /\ ViewsInv /\ ViewsInv' /\ [Next]_vars => [Store!Next]_Store!vars
  BY NextLooks
<1> QED BY <1>1, <1>2, <1>3, SnapInvariance, FileInvariance, PTL
        DEF Spec, ImplementsSnapshotStore, Store!Spec

-----------------------------------------------------------------------------
(* Updates read the last writes, whatever is evicted.                      *)

\* What an update has in its hands is the last write of each page, of an earlier
\* update or its own: it never starts from a version that another replaced.
UpdatesReadTheLatest ==
  \A w \in Workers : IsUpdate(w) =>
    \A h \in held[w] : vp_pool[h[1]].bytes = Latest(written[h[2]])

LEMMA CleanedBytes ==
  ASSUME NEW q \in [Frames -> VPage], NEW c, NEW r, r = [q EXCEPT ![c] = MarkedClean(@)]
  PROVE  \A g \in Frames : r[g].bytes = q[g].bytes
<1>1. \A g \in Frames : r[g] = IF g = c THEN MarkedClean(q[g]) ELSE q[g]
  OBVIOUS
<1>2. \A g \in Frames : MarkedClean(q[g]).bytes = q[g].bytes
  BY CleanData
<1> QED BY <1>1, <1>2

\* Frames that are looked for, evicted or marked as clean keep their bytes.
LEMMA SearchBytes ==
  ASSUME CInv, NEW w \in Workers,
         \/ WalkNext(w) \/ ScanPinned(w) \/ ScanSecondChance(w) \/ ScanOnlyVersion(w)
         \/ ScanInUse(w) \/ ScanNotInUse(w) \/ EvictVersion(w) \/ CleanPrevious(w)
  PROVE  /\ \A g \in Frames : vp_pool'[g].bytes = vp_pool[g].bytes
         /\ UNCHANGED <<scope, written, held>>
<1>1. UNCHANGED <<scope, written, held>>
  BY DEF WalkNext, ScanPinned, ScanSecondChance, ScanOnlyVersion, ScanInUse,
         ScanNotInUse, EvictVersion, CleanPrevious, scopeVars, histVars
<1>2. vp_pool \in [Frames -> VPage] /\ vp_clock \in Frames /\ TypeOK
  BY DEF CInv, IInv, TypeOK
<1>3. CASE WalkNext(w)
  BY <1>1, <1>3 DEF WalkNext, poolVars
<1>4. CASE ScanPinned(w) \/ ScanSecondChance(w) \/ ScanInUse(w) \/ ScanNotInUse(w)
  BY <1>1, <1>4, ScanPassSame DEF SameData
<1>5. CASE ScanOnlyVersion(w)
  <2>1. UNCHANGED vp_pool \/ vp_pool' = [vp_pool EXCEPT ![Hand] = MarkedClean(@)]
    BY <1>5 DEF ScanOnlyVersion
  <2> QED BY <1>1, <1>2, <2>1, CleanedBytes
<1>6. CASE EvictVersion(w)
  <2>1. PICK q : q = Unlink(vp_clock)
    OBVIOUS
  <2>2. q \in [Frames -> VPage] /\ SameData(vp_pool, q)
    BY <1>2, <2>1, UnlinkType, UnlinkData
  <2>3. vp_pool' = q \/ vp_pool' = [q EXCEPT ![vp_clock] = MarkedClean(@)]
    BY <1>6, <2>1 DEF EvictVersion
  <2>4. \A g \in Frames : vp_pool'[g].bytes = q[g].bytes
    BY <2>2, <2>3, CleanedBytes
  <2> QED BY <1>1, <2>2, <2>4 DEF SameData
<1>7. CASE CleanPrevious(w)
  <2>1. vp_pool' = [vp_pool EXCEPT ![req[w].clean] = MarkedClean(@)]
    BY <1>7 DEF CleanPrevious
  <2> QED BY <1>1, <1>2, <2>1, CleanedBytes
<1> QED BY <1>1, <1>3, <1>4, <1>5, <1>6, <1>7

\* While no request is in the cleaning loop, the newest version has the last write.
LEMMA OpenUpdates ==
  ASSUME DInv, ~Cleaning
  PROVE  UpdatesReadTheLatest
<1> SUFFICES ASSUME NEW w \in Workers, IsUpdate(w), NEW h \in held[w]
             PROVE  vp_pool[h[1]].bytes = Latest(written[h[2]])
  BY DEF UpdatesReadTheLatest
<1>1. PICK f \in Frames, p \in PageNos : h = <<f, p>>
  BY DEF DInv, CInv, IInv, TypeOK
<1>2. Attached(f) /\ vp_pool[f].page = p /\ vp_pool[f].next = NoFrame
  BY <1>1, HeldAttached DEF DInv, CInv
<1>3. pc[w] # "idle"
  BY <1>1 DEF DInv, CInv, HeldInv
<1>4. BytesInv
  <2>1. closed # TRUE
    BY <1>3 DEF DInv, ClosedInv
  <2>2. closed = FALSE
    BY <2>1 DEF DInv, CInv, IInv, TypeOK
  <2> QED BY <2>2 DEF DInv, DataInv, Open
<1> QED BY <1>1, <1>2, <1>4 DEF BytesInv, FrameBytes

\* An update writes a page that it has: that is the last write, and the only frame
\* it has for the page is the one written.
LEMMA WriteUpdates ==
  ASSUME CInv, WrittenInv, UpdatesReadTheLatest, NEW w \in Workers, WritePage(w)
  PROVE  UpdatesReadTheLatest'
<1>1. PICK h \in held[w] :
        /\ vp_pool' = [vp_pool EXCEPT ![h[1]].bytes = Result(w)]
        /\ written' = [written EXCEPT ![h[2]] = @ \cup {Result(w)}]
  BY DEF WritePage
<1>2. PICK f \in Frames, p \in PageNos : h = <<f, p>>
  BY DEF CInv, IInv, TypeOK
<1>3. IsUpdate(w) /\ UNCHANGED <<scope, held>>
  BY DEF WritePage, scopeVars
<1>4. PICK n \in Nat : n = Result(w) /\ n = last_stable_version + 1
                       /\ last_stable_version \in Nat
  BY <1>3, PointsAre, VersionTypes DEF CInv, IInv
<1>5. /\ written'[p] = written[p] \cup {n} /\ written[p] \subseteq Nat
      /\ \A q \in PageNos \ {p} : written'[q] = written[q]
  BY <1>1, <1>2, <1>4, DataTypes DEF CInv, IInv, TypeOK
<1>6. vp_pool'[f].bytes = n /\ \A g \in Frames \ {f} : vp_pool'[g] = vp_pool[g]
  <2>1. vp_pool[f] \in VPage /\ vp_pool \in [Frames -> VPage]
    BY DEF CInv, IInv, TypeOK
  <2>2. vp_pool' = [vp_pool EXCEPT ![f] = [vp_pool[f] EXCEPT !.bytes = n]]
    BY <1>1, <1>2, <1>4
  <2>3. [vp_pool[f] EXCEPT !.bytes = n].bytes = n
    BY <2>1 DEF VPage
  <2> QED BY <2>1, <2>2, <2>3
<1>7. Latest(written'[p]) = n
  <2>1. \A v \in written[p] : v <= n
    <3>1. \A v \in written[p] : v <= last_stable_version \/ v = last_stable_version + 1
      BY DEF WrittenInv
    <3> QED BY <1>4, <1>5, <3>1
  <2>2. n \in written'[p] /\ written'[p] \subseteq Nat /\ \A v \in written'[p] : v <= n
    BY <1>4, <1>5, <2>1
  <2> QED BY <2>2, LatestIs
<1> SUFFICES ASSUME NEW u \in Workers, IsUpdate(u)', NEW k \in held'[u]
             PROVE  vp_pool'[k[1]].bytes = Latest(written'[k[2]])
  BY DEF UpdatesReadTheLatest
<1>8. u = w /\ k \in held[w]
  <2>1. IsUpdate(u)
    BY <1>3 DEF IsUpdate
  <2> QED BY <1>3, <2>1, OneUpdate DEF CInv, IInv
<1>9. PICK g \in Frames, q \in PageNos : k = <<g, q>>
  BY <1>8 DEF CInv, IInv, TypeOK
<1>10. Attached(g) /\ vp_pool[g].page = q /\ vp_pool[g].next = NoFrame
  BY <1>3, <1>8, <1>9, HeldAttached DEF CInv
<1>11. Attached(f) /\ vp_pool[f].page = p /\ vp_pool[f].next = NoFrame
  BY <1>2, <1>3, HeldAttached DEF CInv
<1>12. CASE q = p
  <2>1. g = f
    BY <1>10, <1>11, <1>12 DEF CInv, ChainInv, NewestInv, SamePage
  <2> QED BY <1>6, <1>7, <1>9, <1>12, <2>1
<1>13. CASE q # p
  <2>1. g # f
    BY <1>10, <1>11, <1>13
  <2>2. vp_pool[g].bytes = Latest(written[q])
    BY <1>3, <1>8, <1>9 DEF UpdatesReadTheLatest
  <2>3. vp_pool'[g] = vp_pool[g] /\ written'[q] = written[q]
    BY <1>5, <1>6, <1>13, <2>1
  <2> QED BY <1>9, <2>2, <2>3
<1> QED BY <1>12, <1>13

\* Steps that write nothing and give no update a page.
LEMMA KeepUpdates ==
  ASSUME CInv, UpdatesReadTheLatest, UNCHANGED written,
         \A g \in Frames : vp_pool'[g].bytes = vp_pool[g].bytes,
         \A u \in Workers : \/ held'[u] = {}
                            \/ held'[u] \subseteq held[u] /\ (IsUpdate(u)' => IsUpdate(u))
  PROVE  UpdatesReadTheLatest'
<1> SUFFICES ASSUME NEW u \in Workers, IsUpdate(u)', NEW k \in held'[u]
             PROVE  vp_pool'[k[1]].bytes = Latest(written'[k[2]])
  BY DEF UpdatesReadTheLatest
<1>1. k \in held[u] /\ IsUpdate(u)
  OBVIOUS
<1>2. PICK g \in Frames, q \in PageNos : k = <<g, q>>
  BY <1>1 DEF CInv, IInv, TypeOK
<1>3. vp_pool[g].bytes = Latest(written[q])
  BY <1>1, <1>2 DEF UpdatesReadTheLatest
<1> QED BY <1>2, <1>3

\* In the loop the mutex is taken: no request returns.
LEMMA NextUpdates ==
  ASSUME DInv, DInv', UpdatesReadTheLatest, [Next]_vars, Cleaning'
  PROVE  UpdatesReadTheLatest'
<1>1. CInv /\ WrittenInv /\ TypeOK
  BY DEF DInv, DataInv, CInv, IInv
<1>2. PICK c \in Workers : pc'[c] = "clean"
  BY DEF Cleaning
<1>3. vp_mutex' = c
  BY <1>2 DEF DInv, CInv, IInv, MutexInv, LockedPcs
<1>4. \A f, p : \A w \in Workers : ~Deliver(w, f, p)
  BY <1>3, NoWorkerAssumption DEF Deliver
<1>5. ASSUME UNCHANGED <<vp_pool, written, held, scope>>
      PROVE  UpdatesReadTheLatest'
  BY <1>1, <1>5, KeepUpdates DEF IsUpdate
<1>6. CASE UNCHANGED vars
  BY <1>5, <1>6 DEF vars, poolVars, scopeVars, histVars
<1>7. ~Close
  BY <1>2 DEF Close
<1>8. ASSUME NEW w \in Workers,
             GetPageReadonly(w) \/ GetPageEditable(w) \/ AppendVPage(w)
      PROVE  UpdatesReadTheLatest'
  <2>1. UNCHANGED <<vp_pool, written, held, scope>>
    BY <1>8 DEF GetPageReadonly, GetPageEditable, AppendVPage, Lookup, Enter, poolVars,
                scopeVars, histVars
  <2> QED BY <1>5, <2>1
<1>9. ASSUME NEW w \in Workers, BeginReadonly(w) \/ BeginEditable(w) \/ Terminate(w)
      PROVE  UpdatesReadTheLatest'
  <2>1. UNCHANGED <<vp_pool, written, held>> /\ pc[w] \in {"idle", "running"}
        /\ (Terminate(w) => held[w] = {}) /\ (~Terminate(w) => pc[w] = "idle")
    BY <1>9 DEF BeginReadonly, BeginEditable, Terminate, poolVars, histVars
  <2>2. held[w] = {}
    BY <2>1 DEF DInv, CInv, HeldInv
  <2>3. \A u \in Workers \ {w} : scope'[u] = scope[u]
    BY <1>1, <1>9 DEF BeginReadonly, BeginEditable, Terminate, TypeOK
  <2>4. \A u \in Workers \ {w} : IsUpdate(u)' => IsUpdate(u)
    BY <2>3 DEF IsUpdate
  <2> QED BY <1>1, <2>1, <2>2, <2>4, KeepUpdates
<1>10. ASSUME NEW w \in Workers, Locked(w)
       PROVE  UpdatesReadTheLatest'
  <2>1. CASE \/ WalkNext(w) \/ ScanPinned(w) \/ ScanSecondChance(w) \/ ScanOnlyVersion(w)
             \/ ScanInUse(w) \/ ScanNotInUse(w) \/ EvictVersion(w) \/ CleanPrevious(w)
    <3>1. /\ \A g \in Frames : vp_pool'[g].bytes = vp_pool[g].bytes
          /\ UNCHANGED <<scope, written, held>>
      BY <1>1, <2>1, SearchBytes
    <3>2. \A u \in Workers : IsUpdate(u)' => IsUpdate(u)
      BY <3>1 DEF IsUpdate
    <3> QED BY <1>1, <3>1, <3>2, KeepUpdates
  <2>2. CASE WalkEnd(w)
    <3>1. UNCHANGED <<vp_pool, held>>
      BY <1>4, <2>2 DEF WalkEnd
    <3>2. UNCHANGED <<written, scope>>
      BY <2>2 DEF WalkEnd, scopeVars, histVars
    <3> QED BY <1>5, <3>1, <3>2
  <2>3. ~FillRead(w) /\ ~FillEdit(w) /\ ~FillEditMissed(w) /\ ~FillAppend(w)
    BY <1>4 DEF FillRead, FillEdit, FillEditMissed, FillAppend
  <2> QED BY <1>10, <2>1, <2>2, <2>3 DEF Locked
<1>11. ASSUME NEW w \in Workers, Unpin(w)
       PROVE  UpdatesReadTheLatest'
  <2>1. PICK h \in held[w] : held' = [held EXCEPT ![w] = @ \ {h}]
    BY <1>11 DEF Unpin
  <2>2. \A u \in Workers : held'[u] \subseteq held[u]
    BY <1>1, <2>1 DEF TypeOK
  <2>3. UNCHANGED <<written, scope>>
    BY <1>11 DEF Unpin, scopeVars, histVars
  <2>4. \A u \in Workers : IsUpdate(u)' => IsUpdate(u)
    BY <2>3 DEF IsUpdate
  <2>5. \A g \in Frames : vp_pool'[g].bytes = vp_pool[g].bytes
    BY <1>1, <1>11, UnpinSame DEF SameData
  <2> QED BY <1>1, <2>2, <2>3, <2>4, <2>5, KeepUpdates
<1>12. ASSUME NEW w \in Workers, WritePage(w)
       PROVE  UpdatesReadTheLatest'
  BY <1>1, <1>12, WriteUpdates
<1> QED BY <1>6, <1>7, <1>8, <1>9, <1>10, <1>11, <1>12 DEF Next

\* No update is ever given, or keeps, a page without the last write: what evictions
\* take from readers they do not take from updates, so no write is lost.
THEOREM UpdatesReadLatest ==
  ASSUME ~UnpinnedEdit
  PROVE  Spec => []UpdatesReadTheLatest
<1>1. Init => UpdatesReadTheLatest
  BY DEF Init, UpdatesReadTheLatest
<1>2. DInv /\ ~Cleaning => UpdatesReadTheLatest
  BY OpenUpdates
<1>3. /\ DInv /\ DInv' /\ UpdatesReadTheLatest /\ [Next]_vars /\ Cleaning'
      => UpdatesReadTheLatest'
  BY NextUpdates
<1> QED BY <1>1, <1>2, <1>3, FileInvariance, PTL DEF Spec

=============================================================================
