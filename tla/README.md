# Verification of MillenniumDB with path plans

This directory holds TLA+ modules for the graph database in `src/`: a fork of
MillenniumDB that adds *custom plans*, trees of relational operators for
regular path queries. TLC checks the modules on small instances; TLAPS proves
some of their properties for every value of the constants. Paths below are
relative to `src/`; the C++ code is under `src/src/`, so a source named
`storage/x.cc` in prose is `src/src/storage/x.cc` of the repository. The web
interface is only present as its build, `src/browser/assets/index-CKywuBjz.js`.

Contents

1. The system: components, state, interactions, hard behaviour
2. The modules and how they correspond to the code
3. The runs, their bounds, and why they are enough
4. Fairness
5. What is proved, and along which argument
6. Where the code and its documents disagree
7. What is only model-checked, and what is not modelled
8. Plan

## 1. The system

MillenniumDB is one process, `mdb-server` (or the command line client, which
executes queries in the same way without sessions). A database directory is
written once by the bulk import (`mdb-import`) and then opened by the server.
A query is parsed, optimised into a tree of pull iterators (`BindingIter`),
and executed by the thread of the session it came from. Data is in pages;
every page goes through one `BufferManager`.

    browser -- chunks over a WebSocket --+
                                         |
    clients -- Listener/Dispatcher -- sessions -- parser, optimizer, planner
                     |                    |                   |
               QueryContext         VersionScope       BindingIter tree
               (one a thread)             |             (custom operators,
                     |                    |              joins, paths, ...)
               main thread:               |                   |
               timeouts, shutdown         +--- BufferManager -+- B+trees, tables,
                                                  |              hashes, tries
                                             FileManager

| component | state it keeps | operations | what is hard | what makes it correct |
|---|---|---|---|---|
| Versioned pages, version scopes (`storage/buffer_manager`, `page/versioned_page.h`) | frames with pin counts, one list of versions for each page, clock, dirty flags; `running_version_count`, `last_stable_version` | `get_page_readonly`, `get_page_editable`, `append_vpage`, pin, unpin, `init_version_*`, `terminate`, flush | requests run under `vp_mutex`, but pins and scopes do not; old versions are evicted while scopes use them | pins are counted, a pinned frame is not given away, lists are ordered, every scope reads its snapshot, a clean shutdown writes everything, requests return |
| KC operator (`custom_ops/kc_operator`) | store of rows, set of seen rows, which vertices are computed, iteration count | `_begin`, `get_neighbors`, `compute_fix_point` | rounds in the order of a hash table; computation vertex by vertex into shared state; children that are lazy themselves | the rows found are exactly the closure, each stored once |
| Custom operators SJ, TI, two-way TI, MC, Union, scans (`custom_ops`) | a store of pairs, the vertices computed so far, an *empty path* flag | `_begin`, `_next`, `seek_to_vertex`, `get_neighbors` | eager and lazy computation of the same relation; constants on either end; empty paths | both ways give the pairs of the path expression |
| Custom planner (`optimizer/custom_model`) | operands, best plans by subset | `get_plan`, `rpq_preprocess`, `kleene_planning`, dynamic program | expressions with closures, alternatives and constants | the plan means what the expression means |
| Path enumeration (`binding_iter/paths`), automata (`parser/paths/automaton`) | search queue, visited product states, found paths by thread | BFS, DFS and all-shortest variants, simple paths, trails | search state survives between pulls; bindings change under it | each mode enumerates its definition |
| Other binding iterators: joins, leapfrog, hash joins, filters, aggregation, ORDER BY | iterator positions, hash tables, tuple files | `begin`, `next`, `reset` | reset with new bindings; spilled partitions; merge of runs | the relational operation, once for each row |
| B+trees (`index/bplus_tree`) | directory and leaf pages | `insert`, `delete_record`, `get_range`, `estimate_records`, bulk import | splits that reach the root, empty leaves after deletes, pages that the import leaves half built | searches and scans are exact, answers of updates are right, branches have one depth |
| Hash of distinct tuples (`index/hash/distinct_binding_hash`) | a directory in memory, buckets with their depths in private pages | `is_in`, `is_in_or_insert`, `reset` | splits of a bucket or of the directory, redirected entries, pages that leave the pool in between, resets that keep the depths | a tuple is new exactly once between two resets; insertions end |
| Tables, tries, tensors (`index/...`) | pages | append, get, insert, search | unversioned pages, free lists, concurrent searches | maps are maps |
| String manager and strings hash | blocks of strings, an extendible hash | `get_or_create`, `append_new_block` | creation is not one step, mapped files | one identifier for each string |
| Private pages and temporary files (`get_ppage`, `page/private_page.h`) | for each worker frames, map, clock and the list of its temporary files with their sizes and descriptors | `get_ppage`, unpin, `get_tmp_file_id`, `remove_tmp`, clear of the list | files grow on eviction over pages never written; an exception half way; numbers of files are given again | a page read is the page written, or zeros; nothing is left of a removed file; requests return |
| Unversioned pages | one pool with its map, under `up_mutex` | get, append, evict | append and get share the pool and do not treat the evicted page alike | a page read is the page written |
| Update executor (`update/sparql`) | none; changes eleven indexes and the catalog | INSERT DATA, DELETE DATA | one index after the other | all indexes hold the same triples |
| Bulk import (`import`) | temporary files, external merge sort | index creation | duplicates, runs, block counts | the indexes hold the triples of the input |
| Response buffer and chunk decoder (`streaming_response_buffer.h`, `ChunkDecoder` of the driver) | a buffer with an open chunk; the state of the decoder, what the chunk still lacks, slices | `xsputn`, `seal`, `flush`; `decode` | headers are written before the size is known; frames hold many messages or a part of one | the driver gets each message once, whole, in order; the buffer never overflows; no chunk reads as a seal |
| Browser interface and driver (`browser/assets`) | the query page; for each query a `Session` with socket, pending requests, queue of observers, timer | run, stop, leave, pull the next rows, load nodes and catalog | callbacks of old sessions, requests before the connection is open, answers matched by order only, rows that the grid of the table queues for a moment | the table ends with the rows of the last query, all of them on success; waiting ends |
| Query server (`network/server`) | thread pool, a `QueryContext` per thread (flag, timeout, variables), sessions with buffer, state and plan | accept, RUN, PULL, DISCARD, CATALOG, HTTP request, timeouts, shutdown | sessions share contexts one after the other; three threads may write the flag; clients vanish | queries are interrupted only for cause and always when expired; threads are given back; results come from the right plan |
| Catalogs, parsers, optimizers, expressions, response writers, service client, logger | little or none | pure conversion, or input and output | formats | outside this development |

How they interact:

- A session blocks its thread. `handle_run` resets the thread's
  `QueryContext`, writes flag and timeout under `thread_info_vec_mutex`, plans,
  and computes the first result; later PULL requests continue the plan. The
  main thread compares the timeouts of all contexts with its clock.
- An HTTP query holds a `VersionScope` while it runs. An update also holds
  `update_mutex` and ends with `last_stable_version + 1`.
- Every iterator asks the buffer manager for pages at the version of the scope
  and keeps them pinned while it reads; an update upgrades pinned pages.
- A query of the page opens a session, a WebSocket of its own: RUN and CATALOG
  when it opens, PULL after each answer, a close when the page stops it. Answers
  come back through the response buffer and the chunk decoder; an observer is
  queued for each request and gets the answers until a SUCCESS or an ERROR.
- Operators call each other: `next` for rows, and `seek_to_vertex` or
  `get_neighbors` for the rows of a vertex, which in a lazy operator triggers
  a computation.

`PROJECT.json` lists each component with its sources and each hazard with the
line where it bites and the properties that would notice.

## 2. The modules

Every module has a header that says what is abstracted. A definition
`Mut<Name>` is a deliberately wrong form of `<Name>`; it shows that some
property notices that change. Names are those of the source where TLA+ allows.

### VersionedPages

One action per step of a request under `vp_mutex`, because pins and scopes
interleave with them.

| code | model |
|---|---|
| `vp_pool`, fields of `VPage` | `vp_pool`: page, prev, next, version, pins, chance, dirty, bytes |
| `vp_map`, `vp_clock`, `vp_mutex` | the variables of those names |
| `VersionScope`, `init_version_readonly`, `init_version_editable`, `terminate` | `scope`, `BeginReadonly`, `BeginEditable`, `Terminate` |
| `get_page_readonly`, `get_page_editable`, `append_vpage` | the lookup (`GetPageReadonly`, `GetPageEditable`, `AppendVPage`), the walk along the versions (`WalkNext`, `WalkEnd`) and the final assignment (`FillRead`, `FillEdit`, `FillEditMissed`, `FillAppend`) |
| `get_vpage_available` | one action for each branch at one frame: `ScanPinned`, `ScanSecondChance`, `ScanOnlyVersion`, `ScanInUse`, `ScanNotInUse`, then `EvictVersion`, and `CleanPrevious` for each turn of its loop |
| `upgrade_to_editable` of B+tree pages | `GetPageEditable`, and `Unpinned` in the actions that deliver the page |
| `~BufferManager`, `flush` | `Close` |

Bytes are abstracted to the number of the update that wrote them last.
`written` and `created` are history. What callers do is modelled from the B+tree
and the sessions: a worker asks only for pages its version has, does not pin a
page twice, writes only pages of its own version, and closes its scope when it
holds nothing. `UnpinnedEdit = TRUE` adds calls of `get_page_editable` for pages
that are not pinned, which the interface allows and the server never makes.

### SnapshotStore

What the pages promise: no pool, no file, no mutex. A scope opened when version
v was stable sees on every page the newest bytes at or below v; one update at a
time writes v + 1. `VersionedPages!ImplementsSnapshotStore` instantiates it with
`stable <- last_stable_version`, `open <- scope`, `history <- written`, and the
bytes under the pages a worker has pinned as its view.

### KleeneClosure

`compute_fix_point` as rounds over sets of rows: `Collect` takes the first rows
from the child, `JoinRow` joins one row of the last round with the child's rows
(in any order, since the store iterates a hash table), `FixPoint` and
`NextRound` end a round. `BeginEager`/`BeginLazy` are `_begin`;
`GetNeighbors(v)` is the lazy request. The four kinds of children differ in what
`seek_to_vertex` finds (`Sought`). The loop over the neighbours of one vertex is
one step because nothing can interleave with it and its effect has no order.
Graph, kind, laziness and constants are chosen in `Init`, within what
`kleene_planning` produces (`Planned`): at most one constant, and a lazy child
only below a constant first column.

### PathPlans

The way of a path pattern through the program, as one function after the
other, each checked against what the expression means (`Meaning`):

| code | model |
|---|---|
| `visitPathAlternative`, `visitPathSequence`, `visitPathEltOrInverse` | `Parse`: inverses go down to the atoms, sequences below them are turned around, redundant options are dropped |
| `PathDenull`, called by the constructor of a star | `Denull`; `ParseReturns` excludes the expressions for which it does not return |
| `create_atom_plan`, `create_btree_plan` | `AtomPlan`, `TriplePlan` |
| `rpq_preprocess`, `kleene_planning` | `Plans(e, s, d, t)`: the plans that slot t may hold for the ends s and d |
| `dp` over the elements of a sequence | `Part`, `Joins` |
| `_begin` and `next` of scan, Union, two-way TI and KC | `Rows`, by `Edges`, `UnionRows`, `JoinRows` with `EmptyLeft` and `EmptyRight`, `ClosureRows` |
| `get_neighbors` of an eager operand | `Neighbors` |
| `compute_union_for_vertex`, `compute_results_for_vertex` | `UnionVertex` with `Met`, `JoinVertex` |
| `seek_to_vertex` below a closure | `Sought` |
| `epsilon` of plans and of iterators | the fields `eps` and `own` of a node; `Epsilon` |
| `get_plan`, and the operand of a TI that `dp` makes lazy | `MakePlan`, with either slot |
| the rest of the query | `Begin` for an eager root; `GetNeighbors(v)`, in any order and repeatedly, for a lazy one |

A plan is a record with its operator, its operands and the constants of its two
columns. Costs are abstracted: the dynamic program may keep any plan it
compares, so the properties hold for every estimate. Stores are sets of
rows. The module uses recursive operators, so nothing is proved about it;
KleeneClosure has the closure in detail, with its proofs.

Left out by guards: expressions for which the parser or the planner stops
(`ParseReturns`, a slot without a plan), and lazy operators above an empty path
(`Modelled`), whose computation reads bindings that other operands wrote.
Left out of the properties: three forms of plans that do not mean their
expression, in `Regular`; and, for exactness but not for soundness, expressions
whose empty path is lost, in `KeepsEmptyPath`. Section 6 describes them.

### BPlusTree

One index of one version: import (`ImportLeaf`, `BulkDescend`, `BulkFits`,
`BulkSplitDir`, `BulkSplitRoot`), then `insert` and `delete_record` as a descent
(`Descend`), an action for each case at the leaf, and an action for each level
of the split on the way back (`DirFits`, `DirSplits`, `RootSplits`). The two
binary searches and the range iterator are recursive functions translated from
their loops. Leaves keep the *whole* array of records: `equal_record` reads the
slot that `search_index` returned, even if it is not in use. Records are numbers
in place of tuples, directories are sequences of keys and signed children, as
in the code (negative: a directory).

The slot after the last one of a full leaf is the unused end of the page. For
records of two or more identifiers the page has such an end and it is never
equal to a record. For `N = 1` the page is used completely and the code reads
the first bytes of the next frame of the pool; this module does not model that.

### QueryServer

Time, the main thread (`ReadClock`, `Sweep`, `Wake` are a turn of
`execute_timeouts`; `FlagOne`, `Stop`, `Join` the shutdown), the thread pool,
streaming sessions and HTTP sessions. A query is abstract: it computes for as
long as it likes and then answers, is refused, throws, or notices the flag.

| code | model |
|---|---|
| `thread_info.interruption_requested`, `.timeout` | the variables of those names, per worker |
| `get_query_ctx().reset()`, `tmp_manager.reset()` | `BeginQuery` sets `context` |
| the locked lines of `handle_run` and `create_*_logical_plan` | `SetThreadInfo` |
| one turn of `start_session` | `Handles`: read behind what the buffer holds, handle the *first* request in it |
| `clear` of the buffer, or an exception before it | `Consumed`, `Kept` |
| `handle_run`, `handle_pull`, `handle_discard`, `handle_catalog` | `HandleRun`, then `PlanReady` or `QueryRefused`; `HandlePull`, then `PullMore` or `PullFinal`; `HandleDiscard`, `IgnoreDiscard`; `HandleCatalog` |
| `ProtocolException`, other exceptions | `RefuseRequest`, `QueryThrows` (the request stays in the buffer) |
| `InterruptedException` and the write in its handler | `Interrupted`, `Terminates` |

`phase` is where the code of a session is. `plan` tells whether
`current_physical_plan` belongs to the last query begun. The flag is a plain
`bool` written by several threads; the model takes each write as one step, in
any order. Clients may send any request at any time, ahead of the answers, and
hang up.

### PrivatePages and TmpFiles

| code | model |
|---|---|
| `pp_pool` with the fields of `PPage`, `pp_map`, `pp_clocks` of one worker | `pp_pool`, `pp_map`, `pp_clock` |
| `tmp_info` | `tmp_info` (logical and real size, whether a descriptor is open), `tmp_count` |
| what `std::tmpfile` holds | `disk`, zeros where nothing is written |
| `get_ppage` | `GetPPageHit`, or `GetPPageMiss` and then the clock (`ScanPinned`, `ScanSecondChance`) and `FillPage`; its exceptions are `TruncateFails`, `FlushFails`, `ReadFails` |
| `get_tmp_file_id`, `remove_tmp`, `init_version_*` | `GetTmpFileId`, `RemoveTmp`, `InitVersion` |
| a part of a plan that has a page (bucket, run, partition) | `held[u]`; `WritePage`, `Unpin` |

Workers share nothing here, so one is modelled. `alive` are the files whose owner
still exists, and `failed` those of a plan that ended with an exception of
`get_ppage`: its destructors remove them, and the thread begins no other plan
before that. What an exception leaves half done stays as the code leaves it: the
evicted page out of the map but in its frame, or a frame pinned for a page that
nobody got.

`TmpFiles` is what operators rely on: arrays of pages that are zero at first. It has
no pool and no sizes. `PrivatePages!ImplementsTmpFiles` maps a page to its frame if it
has one, else to what its file has below the real size, else to zeros; an exception is
the loss of all files of the query.

### DistinctHash and DistinctSet

`DistinctBindingHash`, with which DISTINCT, aggregates over distinct values, CONSTRUCT and
DESCRIBE recognise what they have seen. A number is the set of the positions of its
bits, so that `hash & mask` is `Suffix(hash, depth)` and `number | 1 << depth` a union; the
module needs no powers of two, and neither do its proofs.

| code | model |
|---|---|
| `global_depth`, `dir` | the same, `dir` a function of the numbers of `global_depth` bits |
| a bucket (tuples, hashes, count, `local_depth`) | a record in `pages`; the places of tuples are left out, since they are searched from end to end |
| the page of a bucket in the pool, in the file, and its dirty flag | `pages`, `file`, `dirty`; `Evict` is what `get_ppage` does to the page that it takes the frame from |
| `is_in_or_insert` | `IsInOrInsert`, then turns of its loop: `Found`, `Insert`, `SplitBucket`, `SplitDirectory` |
| `redistribute`; the loop over entries; `duplicate_dirs` | `Split`; `Redirected`; `Duplicated` |
| `is_in`, `reset`, the constructor | `IsIn`, `Reset`, `Init` |

The hash runs on the thread of its query, so nothing but evictions happens between two
turns. That pages are as `TmpFiles` says is what PrivatePages shows; the dirty flag, with
which its users do their part, is in this module. `HashAssumption` contains what a comment
of `redistribute` supposes: not more tuples than a bucket has places have one hash.
A depth is at most 31 here: the code shifts an `int` by it.

`DistinctSet` is a set of tuples with `Return`, which says whether the tuple was there;
the refinement maps it to the tuples that `is_in` would find (`Stored`).

### ChunkedStream and MessageChannel

The server writes a message in pieces (`Write` begins one; `Xsputn` is a turn of
the loop: it sends the buffer if not even a byte fits, opens a chunk, and copies
what fits), ends it with `Seal`, and after a request sends what is there
(`Sync`). The buffer is `closed`, the bytes before the open chunk, and
`chunk`, the bytes after its reserved header. Frames are sequences of bytes;
bytes are digits to the base `Base`, so that a header has a high and a low digit as
in the code. The browser takes a frame (`OnMessage`) and enters the decoder,
one action for each state of its `switch` (`HandleHeaderFirstByte`,
`HandleHeaderSecondByte`, `HandleBody`); with `CutsFrames` frames arrive in
any parts, which the decoder allows for and a WebSocket never does.

`MessageChannel` is what the driver relies on: an ordered channel of whole
messages. `ChunkedStream!DeliversMessages` instantiates it with the sealed and the
decoded messages.

### BrowserSession

The page, the driver and the server of a session, with the messages between
them whole. A handler of JavaScript runs to its end before the next event, and
calls down to the socket and up to the page; so the operators on a session
record (`Write`, `Send`, `Cancel`, `SafeClose`, `Close`) are the functions of the
driver, and the actions are the events: clicks (`Run`, `StopQuery`, `Load`, `LeavePage`), the
callbacks of the socket (`Opened`, `Refused`, `Message`, `Disconnected`), the timer
that closes a socket (`TimerFires`), and the server's handlers. `Swallowed` is the
exception that the server logs and does not answer; `TimedOut` the error after
which it closes the connection.

The table of the page is a grid of a library, and its interface is used in two ways:
`addRow` is an asynchronous transaction, which the grid queues (`page.pending`) and applies
by a timer of 100 ms (`ExecuteBatch`, at any time later); `clearRows` removes at once the rows
that the grid has applied (`page.rows`), and leaves the queue alone. The library has the queue and
its timer in the same bundle (`batchUpdateRowData`, `executeBatchUpdateRowData`).

A session that was not used yet is `Fresh`, and `Run` and `Load` take any one of
them, since they are alike. Bound in the model only: a connection is lost only
while the page has not closed the session; a node is loaded only when nothing
else is on its way.

### Modules with proofs

`VersionedPages_proofs`, `KleeneClosure_proofs`, `BPlusTree_proofs`, `QueryServer_proofs`,
`ChunkedStream_proofs`, `PrivatePages_proofs`, `DistinctHash_proofs` and `BrowserSession_proofs`
extend the modules they are about and `TLAPS`. `MC...` modules name the model values
and the small sets the configurations use.

## 3. The runs

| run | question | instance | why this size |
|---|---|---|---|
| `pages_pool` | do pins, lists of versions, version counts and the final flush survive every interleaving, and do requests return? | 2 workers that may both update, 3 frames, 2 pages of which one may be appended, 2 updates, up to 2 pages held, live | with 3 frames the pool holds fewer frames than the versions that the two pages have, so reading, editing and evicting compete; a list can have three versions, so its middle can be unlinked; a worker that scans meets the other's pins, unpins and scopes at each frame, and may find all of them in use |
| `pages_large_pool` | is every read of its snapshot when hardly any version has to leave? | 2 workers of which one updates, 5 frames, 2 pages (1 or 2 of them stored), 2 updates, edits of pages that are not pinned | room for five of six versions; the run shows that what `pages_stale_eviction` finds needs an eviction that the pool could not avoid; the only run that fires `FillEditMissed`, an edit that takes two frames |
| `pages_stale_eviction` (violation) | do scopes always read their snapshot? | 2 workers, 3 frames, 1 or 2 stored pages | see section 6 |
| `closure_exact` | is the closure exact, whatever the child, the constants, laziness and order? | every graph of at most 4 edges on 4 vertices, 3 kinds of child, any sequence of lazy requests | four vertices give paths of three rounds, cycles with tails, two cycles, self loops, unreachable parts and rows found twice; four edges are enough for each of them; the limit of 9 is never met by 4 vertices, which `RoundsAreBounded` shows |
| `btree_exact` | are searches, scans, depths and answers right after any import and any updates? | 2 records to a leaf, 2 keys to a directory, 13 records, 4 imports, 4 updates | the imports are an empty tree, one with a full root, one with a full directory below the root, and one whose right-most branch the import splits twice (directories without keys); four updates are enough to split a leaf, its directory and the root in one insert, to empty a leaf, refill it and scan across it |
| `btree_unused_slot` (violation) | is every answer right? | the same with 2 updates | see section 6 |
| `server_sessions` | are queries interrupted for cause, and threads given back? | 1 thread, 1 streaming and 1 HTTP session, time limit 1, 3 requests, 1 in flight | one thread *shared* by two sessions is what makes stale flags, timeouts and contexts matter, in either order; three requests give RUN that succeeds, RUN that fails, PULL, and RUN, DISCARD, RUN; the clock runs as long as a query is within its limit |
| `stream_frames` | do messages survive chunks, full buffers and cut frames? | base 3, a buffer of 7 bytes, pieces of 1, 3 and 6 bytes that include zeros, 3 messages (a message of two bytes or more gets no further piece), frames cut anywhere | a chunk of five bytes fills the buffer, so a piece of six is cut; behind chunks of three and four bytes there are two and one left for the seal, and none behind one of three that follows a seal; sizes from 3 on need the high digit; three messages share frames and are cut by them |
| `private_files` | do pages survive eviction, files that grow, failures, and numbers that are given again, and do requests return? | 2 users, 2 frames, 1 file of 3 pages, live | three pages in two frames force evictions in each order, also of page 2 before page 0 or 1 was ever written; two users share a page, or pin both frames' worth, the tightest pool in which the clock still finds one; the number of the file is used again after the list was cleared. That more files are kept apart rests on the proofs |
| `distinct_set` | is the hash a set, and its directory exact, whatever is split, reset and evicted? | 4 tuples, buckets of one, hashes of 3 bits, depth 0 at first | two hashes differ in the last bit, so the directory is doubled three times and splits move all there is, or nothing; the other two share a bucket to which four entries lead by then, so a split must redirect two of them; the numbers of places and of tuples with one hash matter only in the proofs |
| `browser_sessions` | does the table end with the query that was run last, and does waiting end? | 2 sessions, results of up to 2 rows, one row to a pull, live | two sessions are an old and a new query, in either order of their ends; a result of two rows is a multiple of the fetch size, one row the end in the first pull, none the empty result |
| `path_plans` | does every plan of a path mean the path? | all expressions of one operator on every graph of up to 2 edges over 3 vertices and 2 labels; all expressions of two levels and sequences of three parts on 2 graphs; every constant end | two edges tell composition, union and closure apart and give rows to both labels; two levels put each operator below each other one; sequences of three have two orders of joins; the graphs have a cycle, a branch, a loop and a vertex without edges of a label |

The properties of each run are listed in `PROJECT.json`, with one wrong form of
the code for each property that the run rejects.

Bounds that appear in guards: `MaxPages`, `MaxVersion`, `MaxHeld`
(VersionedPages), `MaxIterations` (the constant 1000 of the code, KleeneClosure),
`MaxUpdates` (BPlusTree), `MaxFiles`, `MaxPages` (PrivatePages), `NBits` (DistinctHash; reached by no split), `LastTick`, `MaxRequests`, `MaxInFlight`
(QueryServer), `MaxMessage`, `MaxMessages` (ChunkedStream), `MaxRows` and the
number of sessions (BrowserSession). `Base` and `BUFFER_SIZE` stand for 256 and 1400,
`FetchSize` for 2500; the proofs of ChunkedStream hold for the real values.
PathPlans has no bounds but its expressions and graphs (`MaxEdges`). `LastTick` only stops time when no query waits for it, so it
does not hide a timeout. Deadlock is not checked where the system may stop:
when all updates, requests or versions of the bound are used up, and after a
clean shutdown.

Symmetry is used for the vertices of `closure_exact`, which has only invariants.

What the properties say, beyond their names:

- `ClosedFileIsComplete` relates the file at shutdown to everything ever
  written. The dirty flag survives `reassign` and the last flush goes in frame
  order, so it depends on the whole history of each frame.
- `ImplementsSnapshotStore` is the whole promise of multi-version reads, as a
  refinement.
- `ClosureIsExact` says that the rows found are the *least* closed relation
  over the vertices asked for so far; it catches lost rows and invented rows.
- `StepsAreExact` compares each answer and each change of contents with the
  set of records, except for steps at which an unused slot is taken for a
  record; `EveryStepIsExact` has no exception and is violated.
- `InterruptedForCause` needs the mutex in `handle_run`, the reset of the flag
  and of the timeout, and the order of clock and mutex in the main thread: a
  query that began after the clock was read cannot be past its own limit, since
  the limit is at least one tick.
- `FramesAreWholeChunks` and `DeliversMessages` together are the protocol: the
  decoder has no other way to find a header than to count the bytes before it, so
  one byte that is lost or one empty chunk shifts everything behind it.
- `ObserversMatchRequests` is what `WaitingEnds` rests on: the answers carry no name, so a request without an observer, or an answer
  too many, would give every later answer to the wrong callback.
- `TableEndsWithTheResult` says what the table is and will be when the queue of the grid
  has been applied: rows of earlier queries first, those that were still queued when Run
  emptied the table (section 6), then the new query's, each once, in order, and all
  of them on success. Nothing is put between or behind them.
- `OtherSessionsLeaveThePage` is not obvious from the code: the callback that
  ends a query closes *the current* session, not its own, and is correct only
  because a stopped session calls no callback any more.
- `EagerIsExact` compares parser, planner and operators together with the meaning of
  the expression, for every plan that the costs may prefer. `LazyIsExact` does
  so for each vertex, after any other vertices have left rows in the same store.
  Both say, where empty paths get lost, that no pair is invented.
- `RemovedFilesLeaveNothing` has two parts: nothing is left of a file that was removed
  (`NothingIsLeft`), and no frame of a file is pinned when it can be removed
  (`ResetMeetsNoPin`), which `PPage::reset` asserts. The second leaves out the files
  of a plan that `get_ppage` failed, since there it does not hold (section 6). The
  module is a build without assertions, as `Release` is.
- `ImplementsTmpFiles` needs that a file is extended exactly when it has to be, that
  what is beyond its size is never read, that the evicted page leaves the map, and
  that after an exception nothing of the failed plan is found by the next one.
- `ExpiredQueriesEnd` holds although the client of the query may have hung up,
  and although a DISCARD or the next query may race with the timeouts thread.

## 4. Fairness

- VersionedPages: weak fairness of `Locked(w)`, the steps of the thread inside
  `vp_mutex`. The code has no wait inside the mutex other than the clock's own
  loop, so the scheduler of the operating system is the only assumption.
  Nothing is assumed of workers outside it: they may keep pages for ever. So `RequestsReturn`
  says that a request returns unless all frames are pinned, or versions in use, at some time
  (`Exhausted`), or it is in the cleaning loop of section 6 (`Loops`).
- PrivatePages: weak fairness of `GetFrame`: the thread goes on with the loop it is in.
  That the loop ends is the property (`RequestsReturn`); it needs that at no time more
  pages are in use than the worker has frames. A user here is one handle of a page: a
  hash that splits a bucket has two, a merge of runs more. The default is 16384 frames a
  worker (64 MB, `--private-buffer`); nothing verifies what the option says.
- QueryServer: weak fairness of time; of the main thread, which sleeps for a
  bounded time; of the lines between `reset()` and the plan; of handling a
  request that has arrived; of noticing that a connection is closed; and of
  `Interrupted`, that is, a query that computes looks at the flag again and
  again. The last is what the iterators do that poll
  `thread_info.interruption_requested`. The scans of the custom operators are
  given a flag of their own, which nobody sets
  (`bplus_tree_two_column_binding_iter.cc:92`): for those the assumption, and
  so `ExpiredQueriesEnd`, does not apply. Nothing is assumed of clients, nor that
  a query ever returns.
- ChunkedStream: weak fairness of `Respond`, since a request is answered before the
  session reads the next, and of `Decode`, the events of the browser. Nothing is
  assumed of who writes messages: `MessagesArrive` is about sealed ones.
- BrowserSession: weak fairness of the steps of the system together: connecting
  succeeds or fails, what was sent arrives or the connection ends, the timers fire, the
  server comes to every request and its queries end, by `ExpiredQueriesEnd` of
  QueryServer at the latest. A session has a bounded number of steps, so a common
  fairness serves each of them. Nothing is assumed of the user.
  `WaitingEnds` leaves out sessions in which the server swallowed an exception,
  see section 6.
- PathPlans, KleeneClosure, BPlusTree and DistinctHash have no liveness properties.
  `RoundsAreBounded` bounds the work of the closure instead, and the type of the depths that of
  the hash: every turn of `is_in_or_insert` that does not return makes a bucket deeper.

Liveness of the server is stated up to the signal. After it, the code does not
promise it: the timeouts thread is gone, and a RUN that arrives in an open
session resets its flag and has no limit; idle sessions hold their threads until
their clients leave, so the final join may wait for ever.

## 5. What is proved

All theorems hold for every value of the constants that satisfies
`ConstantsAssumption` (and, for the pages, `NoWorkerAssumption`); these fix types,
finiteness, disjointness and positive sizes, and TLC evaluates them in each run.

**VersionedPages_proofs.** `TypeCorrect`, `PinsCounted`, `RunningVersionsCounted`,
`PinnedNotReassigned`. Type correctness is not inductive: `pins` and the version
counts are natural numbers only because each decrement has a matching increment.
The invariant is

    IInv = TypeOK /\ PinsAreCounted /\ RunningVersionsAreCounted
           /\ MutexInv /\ RequestInv /\ ScopeInv

`MutexInv` says that a worker is inside a request exactly when it holds the
mutex, so that the frame found by the clock is still unpinned when it is filled:
only the holder can pin an unpinned frame. `RequestInv` keeps the locals of
the request in range for each step (`victim`, `clean`, `old`, `cur`);
`ScopeInv` ties the kind of scope to what the worker is doing. The counting lemmas
relate cardinalities before and after one element enters or leaves a set.
`PinnedNotReassigned` is the action property from the same invariant.

**The chains of versions** (second part of VersionedPages_proofs). `ChainInvariance`, `PinnedKeepTheirPage`, `ChainsOrdered`,
`FileInvariance`, `ClosedFileComplete`, `CleaningNeverEnds`.
They assume `~UnpinnedEdit`: `get_page_editable` is called only for a page that the
caller has pinned, which all callers in the server do; without it the clock may take
the frame the walk ended at. The invariant is

    CInv = IInv /\ ChainInv /\ VersionInv /\ PageInv /\ FileInv /\ HeldInv

`ChainInv` speaks of the attached frames, those that hold a page and are not the
victim of a request: `prev` and `next` mirror each other, versions grow along `next`,
`vp_map` enters at the frame without a `prev`, and a page has one frame without a
`next`. `PageInv` says what a request knows of its page at each step: a walk is on a
frame of that page; a read that missed still misses, because only the holder of
`vp_mutex` changes `vp_map`; an edit copies a frame its worker has pinned.
`VersionInv` and `HeldInv` are the argument for the order: frames above the stable
version belong to the one update, which holds the newest version of whatever it
holds, so its copy goes behind the last frame of the chain and above its version.
That a page absent from `vp_map` has no attached frame follows from a frame of least
version, which needs that the pool is finite.

What the file holds at the end follows from

    DInv = CInv /\ DataInv /\ ClosedInv /\ ClosedFileIsComplete

`DataInv` says that the last write of a page is in the newest frame of its chain if the
page is in the pool, dirty unless the file has it too, and otherwise in the file. It says so
only while no request is in the loop of section 6, which evictions rely on: a frame
that has a previous version, or that the running update wrote, is dirty, so the eviction of
a newest version with a previous one enters the loop, never to leave it (`LoopInv`,
`LoopGoesOn`), and with `vp_mutex` kept the pool is never closed; every other eviction loses
nothing, since the victim is clean, is written back, or has a newer version behind it. `CleaningNeverEnds` states the first half
for every step: who is in the loop stays there and keeps `vp_mutex`. `WrittenInv` relates
the versions written to the stable version and to the open update. The flush of `Close` writes the
dirty frames in their order; that each page ends with its newest frame is `FlushWritesAll`,
and that it has one follows from a frame of greatest version (`NewestExists`).

**What scopes read** (third part of VersionedPages_proofs, also under `~UnpinnedEdit`).
`SnapInvariance`, `SnapshotsHold`, `SnapshotStoreImplemented`, `UpdatesReadLatest`. Readers
do not always find their snapshot (section 6). The theorems show that evictions of versions
somebody still needs are the only cause:

    KeepsNeededVersions = [][no EvictVersion takes a frame that is Needed]_vars
    Spec /\ KeepsNeededVersions => []SnapshotReads
    Spec /\ KeepsNeededVersions => ImplementsSnapshotStore

A frame is `Needed` if the walk of an open scope, or of one that would open now, ends at it;
the code asks only whether a scope runs at the very version of the frame. So code that asked
the first question would give every scope its snapshot, and nothing else in the requests, the
copies, the write-back or the scopes stands in the way. The hypothesis is about one step of
the clock and is met by behaviours that do evict: in the instance of `pages_large_pool`, with
edits of pinned pages, versions leave the pool and TLC finds that none of them is needed; with
four frames one is. The invariant is

    SnapInv = ~Cleaning /\ FileServes /\ PoolServes /\ CreatedInv /\ CopyInv /\ HeldServes
              /\ (\A w : RequestServes(w)) /\ NoScopeInv

`Points` are the versions at which open scopes look, and the stable one. `PoolServes`: the frame
at which a walk for such a version ends has the last write at or below it; `FileServes`: so has
the file for a page that is not in the pool. `CopyInv` and `CreatedInv` are what makes the copy
of an update harmless: it comes behind the frame others find, unless the update has appended
the page, which nobody else can reach. `HeldServes` and `RequestServes` say that a worker has,
or has not yet gone past, the frame of its version. A request never cleans under the
hypothesis, since the newest frame of a chain is always needed (`TopPoint`). For the
refinement, `ViewsInv` gives the view of each worker as a function of the pages it holds, so
every step is one of SnapshotStore: a request that returns is `Look`, an unpin is `LookAway`,
and the rest of the search is a stutter (`LockedLooks`, `UnpinLooks`, `WriteLooks`, `OpenLooks`, `CloseLooks`).

`UpdatesReadLatest` has no hypothesis on evictions: whatever an update has pinned are the
last writes, so no update starts from bytes that another has replaced. Outside of the cleaning
loop this is `DataInv` and `HeldInv`; in the loop nobody gets a page any more, and what the update
has keeps its bytes until the update itself writes them (`NextUpdates`).

**KleeneClosure_proofs.** `TypeCorrect`, `ClosureExact`, `StoreExact`, `RoundsBounded`,
`LimitNeverCuts`. The invariant has a part for each reason why the fix point is complete:

    Inv = TypeOK /\ Pending /\ ChildInv /\ Sound /\ Complete /\ Stored

`Complete` says that a found row has been joined with all rows of the child
unless it is still `todo`, in `next_store`, or the limit cut the run short;
`Pending` says which rows those can be at each `pc`; `ChildInv` that the
child's rows of a vertex are known once it was asked for; `Sound` that every
closed subset of the found rows contains them all; `Stored` that the store
and its count follow the found rows. That four-vertex graphs are enough in the
run is thus not an assumption for these properties.

The number of rounds needs no argument about paths. `RoundInv` says that from the first
column of each row under way as many vertices were reached, in the rounds before, as there
were rounds: a row that a round finds is a pair not seen before, so each round adds a
vertex to what its first column reaches (`NextRoundRounds`). Hence a graph with no more
vertices than the limit never meets it, and its answers are whole. `Vertices # {}` is assumed, since
even a graph without vertices takes one round.

**BPlusTree_proofs.** `Invariance`, `TypeCorrect`, `Searchable`, `ExactSteps`, `RangeExact`, for
any set of records, any imported set, and any capacities (a leaf of at least one record, a
directory of at least two keys). The pages alone do not say why a search is right, since a key of a
directory may be in no leaf. The invariant therefore speaks of sets of records
that are no variables of the program:

    IInv  = Scalars /\ Files /\ Fresh /\ Importing /\ Grows
    Grows = leaves # EmptyFile =>
              \E D, L, H, w : Tree(dirs, leaves, D, L, H, w) /\ Place(D, L, H, w)

`D[p]` and `L[p]` are the records that a search takes to a directory and to a leaf, `H[p]` is the
height of a directory. `Tree` has a part for each thing that can go wrong: `Routes` (every record
of `D[p]` is in the set of the child that the keys choose), `Exact` (and in no other's), `Levels`
(all leaves are at one depth), `Apart` (pages of a level share no record), `LeavesOf` (a leaf is in
order and within its set), `Reached` (each leaf has a parent). A split on its way up is
`w`: `Owned` says which directory will take it, at which position, and that its key divides
that child's records. Each of the three ways to make room is an argument about trees
before it is one about actions: a directory takes the split (`Fitted`), is cut in two and hands a
split to its parent (`CutDir`), or is the root, which is copied first (`RaiseRoot`) and then cut.
bulk_insert uses the same three at the right end, so its directory without keys is no special case.
`Place` ties the stack of the operation (`Way`), the record and the returned split to `w`, and
`Chained` puts the leaves in the order of their sets along `next_leaf`.

The searches and the iterator are recursive functions, which TLA+ defines by a choice: `LeafBisectStep`, `DirBisectStep`,
`DownStepOf` and `IterStepOf` show first that the equation has a solution, by the length of the
interval, the height, or the number of positions ahead; then `SearchIndexExact`, `ChildIs`,
`DownEnds` and `IterLists` follow by induction over the same number. The induction is
`AllNumbers`, about a set of numbers in place of a predicate, from the least element that well-founded
orders have.

**QueryServer_proofs.** `TypeCorrect`, `InterruptionHasCause`,
`PullsAreOfTheirContext`. The invariant is

    IInv = TypeOK /\ OneSession /\ MainInv /\ TimeoutInv /\ FlagInv
           /\ ReadyInv /\ ContextInv /\ PlanInv

`OneSession`: at most one active session on a thread, hence the flag and the
context of the thread belong to one query. `MainInv`: the clock that was read
is not in the future, and flags are set by the shutdown only after the signal.
`TimeoutInv`: while a query of the thread computes, its timeout is that query's
limit. `FlagInv`: a flag that is up while a query computes means that its limit is
past or the signal came; a flag left from before is reset in the same locked step
that makes the query compute. `ReadyInv`, `ContextInv`, `PlanInv`: a session that is
STREAMING has the plan of its last query, and the context of its thread was last
reset for it, because no other session can run on the thread in between.

**ChunkedStream_proofs.** `Invariance`, `TypeCorrect`, `BufferNeverOverflows`,
`FramesWhole`, and the refinement `Delivers`: `Spec => DeliversMessages`. The first three rest on

    IInv = TypeOK /\ BufferIsLargeEnough /\ OpenChunksHaveBytes /\ HighByteKept

`BufferIsLargeEnough` needs `OpenChunksHaveBytes`: a header is reserved only where a
byte fits behind it, and an open chunk has one, so sealing into a buffer with less than
a header's room first sends it. The same fact says that the size in a header is never
zero, so a chunk is never read as a seal. `TypeOK` contains that the size of a
chunk fits two bytes, for any `BUFFER_SIZE` up to `Base * Base`; `HighByteKept` that the
decoder between the two bytes of a header holds a multiple of the base.

The other two follow the bytes under way, for any base, any buffer that takes a header and a
byte, and also where frames are cut (`CutsFrames`). `Decodings` relates bytes to what they do:
from these slices and this many messages decoded to those. It is the least relation closed
under reading nothing, a seal, or a chunk, where a seal is read only if the slices are the next
message of the server. That it is the least takes the place of an induction over bytes, which
the prover does not have: each fact about all strings (`ReadOn`, that readings compose;
`ReadMore`, that a new message disturbs none; `WhatIsReadIsWhole`) is shown by giving a closed
set. `Deliveries` is the same for sequences of frames. The invariant, beside `IInv`, is

    FlowInv = \E t, d : what the decoder keeps, the frame it is in and the frames under way
                       lead from slices and Len(decoded) to t and d;
                       what is in the buffer leads from t and d to a w and Len(sealed),
                       and message is w and the open chunk

`Kept` is the half of a header, or the header with what is left of its size, that the decoder
holds in `remaining`, given back as bytes. Each step of the server moves bytes from the second
line to the first (`PutFlows`, `SealFlows`, `SyncFlows`); each step of the decoder takes them off
the front of the first (`FlowTakes`, `FlowHeader`, `FlowBodyEnds`, `FlowBodyGoesOn`). A header that
says zero can only be read as a seal, so the slices passed on are the next message
(`DecoderFlows`), which is `Receive` of the channel. `WholeChunksIsRecursive` shows that
`WholeChunks` has the value its recursive definition asks for, by the same kind of least set.

**PrivatePages_proofs.** `TypeCorrect`, `NothingLeft`, and the refinement `Implements`:
`Spec => ImplementsTmpFiles`. The invariant is

    IInv = TypeOK /\ PinInv /\ MapInv /\ WantInv /\ DiskInv /\ ClosedInv

`DiskInv` carries the refinement: beyond the real size of a file there are zeros, so a
page that is not in the pool is what `disk` has at its place, written or not, and a clean
frame equals that place. Eviction then changes no page (`FillStep`): a page leaves the map
either clean, or written by the same step. `MapInv` says that map and frames agree except
for files that failed; `PinInv` that a frame has at least as many pins as users (one more
may be left by a failure), so the frame the clock finds has no user; `WantInv` that the
page asked for is still not in the pool when a frame is found, since nothing else
runs on the thread. Each action is then shown to be a step of `TmpFiles` or a stutter
(`CreateStep`, `RemoveStep`, `HitStep`, `SearchStep`, `FillStep`, `ThrowStep`, `WriteStep`,
`ReleaseStep`). `NothingLeft` needs a second invariant for the assertion of `PPage::reset`,
`OwnedInv`: a frame has exactly as many pins as users, unless its file is one that a failure
made the plan give up (`NextOwned`).

**DistinctHash_proofs.** `TypeCorrect`, `DirectoryExact`, and the refinement `Implements`:
`Spec => ImplementsDistinctSet`, for any number of tuples and bits, any size of buckets and
any hash function that satisfies `HashAssumption`. The invariant is

    IInv = TypeOK /\ Exact /\ InPlace /\ CleanPagesAreOnFile

`Exact` is `DirectoryIsExact`; `InPlace` says that hashes of tuples end in the number of their
bucket. A split is argued once, about plain values (`BucketSplit`): the number of the new
bucket is in use nowhere, exactly the redirected entries end in it, and each tuple is found
where its hash leads afterwards. The split of the directory is a doubling that changes
nothing that can be found (`Doubling`), followed by the split of a bucket. `RoomToSplit` is
where the supposition about hashes is needed: a full bucket as deep as hashes are long would
have one tuple too many with its number for a hash. `CleanPagesAreOnFile` makes evictions
stutter (`EvictStep`).

**BrowserSession_proofs.** `TypeCorrect`, `TableCorrect`, `ObserversCorrect`,
`OthersLeaveThePage`, for any number of sessions, rows and any fetch size. The invariant is

    IInv = TypeOK /\ PageInv(page)
           /\ \A s : SessionInv(s's records) /\ ShowsInv(s, s's records, page)

Its parts are operators on the records of one session, because each step of the system
touches one session, and the page only if that session is the current one or new
(`Local`, `StepInv`); so each action is argued for that session alone. A used session is
`Opening` or `Closing`: an open one has exactly one observer, a closed one has none that the page
would hear of, which is why an old answer cannot reach the table of a new query. `Talking` says where
the one request of an open session is: waiting for the socket (`Connecting`), on its way
(`Asked`), kept by the server (`Kept`), answered (`Answered`, `Expired`), or gone with the connection
(`Lost`); this is what keeps observers and requests in step. `TableInv` says how the table and its
queue are made up: rows of earlier queries, then those of the last one. Applying the queue does
not change the two together (`ExecuteBatchStep`), and emptying the table leaves rows of earlier
queries only, since the new one has none yet (`Emptied`). `ShownInv` continues them into
the messages under way: the rows that travel follow the `Shown` ones, and a last SUCCESS comes
behind the last of them. `SuccessInv` says that nothing can change a table that is complete.
`OthersLeaveThePage` is the action property from `CurrentInv`: the current session of the
page is the one open session of a query.

Each proof has one lemma or step per action or group of actions with the same
effect, and a leaf for each conjunct that the action can disturb.

## 6. Where the code and its documents disagree

Two disagreements are runs whose violation TLC finds.

- **Stale eviction** (`pages_stale_eviction`, `SnapshotReads`;
  `storage/buffer_manager.cc:145`). A version may leave the pool when no scope has
  exactly its number. An older scope that has not asked for the page yet may still
  need it, and then finds a newer one. The header promises MVCC. It is the only way to a wrong
  snapshot, and never concerns updates (`SnapshotsHold`, `UpdatesReadLatest`). This needs updates
  while other queries run; at this commit the HTTP session does not execute updates,
  so it is a property of the storage layer as its interface offers it.
- **Unused slot** (`btree_unused_slot`, `EveryStepIsExact`;
  `bplus_tree_leaf.cc:99`). After the last record of a leaf is deleted, inserting
  it again is refused as a duplicate, and deleting it again removes the
  record before it.

Other observations made while modelling. The properties are stated around them, and the
models say where.

- The cleaning loop (`storage/buffer_manager.cc:178`) reads `page.prev_version` in
  every turn in place of `p->prev_version`, so with a previous version in the pool it
  does not end, and it holds `vp_mutex`. `RequestsReturn` excludes it (`Loops`).
- `get_ppage` asserts (`storage/buffer_manager.cc:468`) that the logical size of a
  temporary file is at least its real size, but sets it to the page asked for plus one, also
  when that is smaller than before. A hash that splits bucket 1 and then bucket 0 does that;
  the eviction of the later page then makes the real size the larger one. Nothing else
  reads the logical size, so only builds with assertions notice.
- When reading a page of a temporary file fails (`storage/file_manager.cc:78`), `get_ppage`
  has pinned the frame already (`reassign`, `storage/buffer_manager.cc:464`) and nobody
  unpins it. The plan is then destroyed and removes its files, and `PPage::reset` asserts
  that the frame is not pinned (`storage/page/private_page.h:63`): a build with assertions
  stops there. Without them the frame is reset like the others and nothing
  is left (`ReadFails`, `RemoveTmp`). It is the only way to a pinned frame in a removal
  (`ResetMeetsNoPin`).
- A query that is run within 100 ms after rows of the one before arrived has these rows at the
  top of its table: `addRow` is `applyTransactionAsync` with `asyncTransactionWaitMillis: 100`,
  and `clearRows` removes the rows the grid has applied and does not flush the queue
  (`browser/assets/index-CKywuBjz.js:1228`). Stop and Run are one button, so a double click
  on it is enough; it can also follow a query that ended by itself.
  `TableEndsWithTheResult` says what remains true.
- Lazy closure below a closure (`kc_operator.cc:120`, `BlindClosure`): a closure only
  seeks in its child, a lazy closure computes nothing when it is sought in, so `(a+)+`
  from a constant is empty.
- A whole union with a constant second column adds the constant as a pair with
  itself, whether or not an empty path exists (`union_operator.cc:350`,
  `ConstantUnion`); `?y b/(c|d) :o` has a row too many.
- Sequences of forward and inverse atoms, `a/^b`: the plans of the inverse atom are
  made from its own subject (`create_btree_plan`) and so are in the slots of the
  opposite direction; no join is found for one slot and the planner copies a null
  pointer (`custom_planner.cc:709`). Where all atoms are inverse, plans exist but in
  exchanged slots, and a closure above them is the closure of the converse
  (`TurnedChild`).
- `(a+)*` does not return from the parser: `PathDenull` has no form for a plus and
  calls itself (`denull_path.cc:46`).
- Empty paths that are lost (`KeepsEmptyPath`): the union iterator is never told
  its epsilon; `TITwoWayOperatorPlan` has an `epsilon` that hides the one that an
  option sets; a closure ignores the empty path of its child; a union adds the one of
  a child only beside rows that are new.
- A lazy two-way join whose left operand has the empty path compares with a binding
  that the right operand does not write (`ti_two_way_operator.cc:297`); not modelled.
- An exception of an unmanaged type while a record is written is logged and not
  answered (`streaming_rdf_response_writer.h:124`): the page runs until it is stopped,
  and half a record stays in the buffer. `WaitingEnds` excludes it.
- `result.cancel()` of the driver, which the page never calls alone, would put one
  observer too few; and `DriverContext` calls `close` on a field that the driver
  names `_driver`.

## 7. What is only model-checked, and what is not modelled

Only checked by TLC, on the instances above:

- liveness (`RequestsReturn` of both pools, `ExpiredQueriesEnd`, `HungUpSessionsEnd`,
  `MessagesArrive`, `WaitingEnds`), since the prover has neither fairness nor ENABLED;
- that the pool of `pages_large_pool` evicts no version that is needed, which depends on the
  constants (section 6); `ImplementsSnapshotStore` is proved for behaviours with that property,
  and checked without it, for edits of pages that are not pinned;
- `PinnedFramesKeepTheirPage` and `ChainsAreOrdered` where pages are edited without
  being pinned;
- PathPlans, which is recursive over expressions and plans: its recursive operators are out
  of the provers' reach.

In the modelled components the following is left out:

- VersionedPages: failures of the file system; an update that throws half way
  (its scope ends like any other in the code, so the model has nothing to tell
  apart); crashes (no log is written, so nothing is recovered).
- PrivatePages: assertions, which stop the program in builds that have them (section 6 says
  which two fail and when); `tmpfile` itself failing (the code passes the null pointer to `fileno`),
  and more pages in use at a time than frames, which `RequestsReturn` excludes.
- DistinctHash: exceptions of `get_ppage` in the middle of a split (the query ends, and the
  hash with it); the shift of an `int` by 31 and more, for a directory of 16 GB.
- KleeneClosure: `reset`, which only rewinds the iteration, and the iteration of
  the finished store.
- BPlusTree: `check`, printing, and the poll of the interruption flag; leaves of records of one
  identifier (`N = 1`), at whose end the code reads bytes of another page (section 2).
- PathPlans: the parts of the planner for several patterns (SJ, TI, MC) and the
  costs, sequences longer than three, counts (`a{2,3}`, which the parser writes out as
  sequences and options), patterns with the same variable on both ends, and
  what section 2 says is left out by guards.
- ChunkedStream: the encoding of values; frames of the WebSocket as such.
- BrowserSession: how the table is drawn, its columns and its pages; the other pages of the
  interface, so that leaving the query page and coming back is one step to a new one; the
  length of the 100 ms; and the threads and timeouts of the server, which QueryServer has.
- QueryServer: the browser listener, the encoding of messages and results,
  a second signal; execution of updates, which is not reachable.
  Streaming sessions open no version scope and leave `start_version` as an
  earlier query of the thread set it; without updates every version is 0, so nothing can go wrong
  at this commit. It is to be modelled with the composition of sessions and pages.
- QueryServer, errors of HTTP sessions (`HttpEnds`): HTTP clients never hang up in the model. In the
  code the destructor of `HttpResponseBuffer` flushes, and throws when the client is gone by then
  (`http_response_buffer.h:17`, `:69`), which terminates the process; and exceptions of planning other
  than the three that `http_rdf_session.cc:91` handles leave the thread, which does the same.
- QueryServer, the write that fails in the handler of a timeout (`Terminates`): the ostream keeps
  to itself what its own writes and `flush` throw (`streaming_response_writer.h:31`); only `seal`
  writes to the buffer directly and can throw out of the handler, when it has to flush
  first (`streaming_response_buffer.h:33`, `streaming_websocket_session.cc:85`). The model does not
  know how full the buffer is, and allows the process to terminate at every failing write.

The web interface in the repository is a bundle: of its lines only some twenty, very
long ones, are this program's own (driver, contexts, pages); the others are React,
MUI, the Monaco editor with its workers, and graph drawing, and are not modelled.

The components without a module are listed in `PROJECT.json` with the reason;
parsers, formats, expressions, logging and clients are to stay so, the others are
in the plan.

## 8. Plan

Done, in this order: VersionedPages with SnapshotStore, KleeneClosure, BPlusTree,
QueryServer; proofs of the first, second and fourth; ChunkedStream with
MessageChannel and its proofs, BrowserSession, PathPlans; the chains of versions
(second part of VersionedPages_proofs) and what scopes read (third part); PrivatePages with TmpFiles, DistinctHash with DistinctSet,
and the proofs of both refinements; the proofs of ChunkedStream's refinement, of BrowserSession, of
the closed file, of the bounds of KleeneClosure, and of BPlusTree.

Next, by importance:

1. **UpdateExecutor**: several indexes changed one after the other, against one
   set of triples; composes what BPlusTree promises (a set with answers), with the
   exception of section 6. Runs: triples with equal positions.
2. **UnversionedPages**: the pool of the string hash, against an array of pages.
3. **Sessions on versions**: QueryServer composed with the scopes of VersionedPages,
   for `start_version` in streaming sessions.
4. The rest of the path operators: TI and SJ over several patterns, with the lazy
   operands that PathPlans has, against the join of the patterns.
5. **StringStore**: `get_or_create` and the blocks under concurrent creation.
6. Pure algorithms as functions checked over bounded inputs: the merge sort of
   `DiskVector` with its duplicates, the merge of `TupleIdCollection`, leapfrog search,
   reduction of automata, the free list of the trie.
7. Path enumeration: all-shortest walks and trails against their definitions.

Proofs to add: the invariants of the new modules.
