--------------------------- MODULE BrowserSession ---------------------------
(***************************************************************************)
(* The browser interface and the server, joined by the streaming protocol. *)
(*                                                                         *)
(* Every query of the page, every node that is loaded and every look at    *)
(* the catalog has a Session of the JavaScript driver, and with it a       *)
(* WebSocket, for itself (index-CKywuBjz.js).  A session answers nothing   *)
(* by itself: requests go out, an observer is queued for each, and what    *)
(* comes back is given to the observer at the head of the queue until a    *)
(* SUCCESS or an ERROR takes it off.  The page pulls the next rows when it *)
(* got the ones before, and shows whatever the callbacks of its query say; *)
(* Stop closes the session, also one that has not been connected yet.      *)
(*                                                                         *)
(* The server handles the requests of a session one after the other        *)
(* (streaming_request_handler.cc); QueryServer.tla has its threads and     *)
(* timeouts, ChunkedStream.tla the way of the messages.                    *)
(***************************************************************************)
EXTENDS Integers, Sequences, FiniteSets

CONSTANTS
  Sessions,   \* the sessions that the page may open, each used once
  NoSession,  \* null
  MaxRows,    \* bound: rows of a result
  FetchSize   \* rows of a PULL: 2500

ASSUME ConstantsAssumption ==
  /\ NoSession \notin Sessions
  /\ MaxRows \in Nat /\ FetchSize \in Nat \ {0}

VARIABLES
  session,   \* Sessions -> driver: the objects of the session
  page,      \* browser: the query page
  server,    \* Sessions -> the session of the server at the other end
  toBrowser  \* Sessions -> messages under way to the browser, and the end

vars == <<session, page, server, toBrowser>>

-----------------------------------------------------------------------------
Requests == {"RUN", "PULL", "DISCARD", "CATALOG", "CLOSE"}
Kinds == {"query", "records", "catalog"}
ReadyStates == {"CONNECTING", "OPEN", "CLOSING", "CLOSED"}
ObserverStates == {"WAITING_RUN", "WAITING_PULL", "FINISHED"}

Session ==
  [kind : Kinds, readyState : ReadyStates, wsOpen : BOOLEAN, connOpen : BOOLEAN,
   pendingRequests : Seq(Requests), timer : BOOLEAN, open : BOOLEAN, observers : 0 .. 2,
   state : ObserverStates, subscribed : BOOLEAN, toServer : Seq(Requests)]

ServerSession ==
  [phase : {"none", "open", "closed"}, state : {"READY", "STREAMING"},
   rows : Nat, row : Nat, kept : {"none"} \cup (Requests \ {"CLOSE"})]

Page ==
  [running : BOOLEAN, current : Sessions \cup {NoSession}, query : Sessions \cup {NoSession},
   rows : Seq(Sessions \X Nat), pending : Seq(Sessions \X Nat),
   outcome : {"none", "success", "error", "stopped"}]

Messages ==
  [type : {"RECORD"}, row : Sessions \X Nat] \cup [type : {"SUCCESS"}, hasNext : BOOLEAN]
  \cup [type : {"ERROR"}] \cup [type : {"CLOSED"}, wasClean : BOOLEAN]

Record(s, i)      == [type |-> "RECORD", row |-> <<s, i>>]
Success(hasNext)  == [type |-> "SUCCESS", hasNext |-> hasNext]
Error             == [type |-> "ERROR"]
Closed(wasClean)  == [type |-> "CLOSED", wasClean |-> wasClean]
IsClosed(m)       == m.type = "CLOSED"
Ends(m)           == m.type \in {"SUCCESS", "ERROR"}

\* A session before getSession.  readyState, wsOpen, connOpen, pendingRequests
\* and timer are of its WebSocketConnection, observers (the current one and the
\* pending ones, which are all the same) of its ResponseHandler, state and
\* subscribed of the observer; toServer is what ws.send was given.
Fresh ==
  [kind |-> "query", readyState |-> "CLOSED", wsOpen |-> FALSE, connOpen |-> TRUE,
   pendingRequests |-> <<>>, timer |-> FALSE, open |-> FALSE, observers |-> 0,
   state |-> "WAITING_RUN", subscribed |-> FALSE, toServer |-> <<>>]

NoServer ==
  [phase |-> "none", state |-> "READY", rows |-> 0, row |-> 0, kept |-> "none"]

\* A query page with its table.  The grid of the table keeps the rows of asynchronous
\* transactions in pending (rowDataTransactionBatch) until its timer applies them.
NewPage ==
  [running |-> FALSE, current |-> NoSession, query |-> NoSession,
   rows |-> <<>>, pending |-> <<>>, outcome |-> "none"]

Init ==
  /\ session = [s \in Sessions |-> Fresh]
  /\ page = NewPage
  /\ server = [s \in Sessions |-> NoServer]
  /\ toBrowser = [s \in Sessions |-> <<>>]

-----------------------------------------------------------------------------
(***************************************************************************)
(* The driver.  A handler runs to its end before the next event, and calls *)
(* down to the socket and up to the page; so the operators below map the   *)
(* record d of a session to the record after a call.                       *)
(***************************************************************************)
AddObserver(d) == [d EXCEPT !.observers = @ + 1]

\* triggerConnectionError, on the side of the session: the observer is told once
\* and every request is given up.
Abandoned(d) ==
  IF d.observers > 0 THEN [d EXCEPT !.state = "FINISHED", !.observers = 0] ELSE d

\* WebSocketConnection.write: on a closed connection it reports the error and goes
\* on.  What is sent to a socket that is not open is dropped.
Write(d, r) ==
  LET e == IF d.connOpen THEN d ELSE Abandoned(d)
  IN  IF ~e.wsOpen THEN [e EXCEPT !.pendingRequests = Append(@, r)]
      ELSE IF e.readyState = "OPEN" THEN [e EXCEPT !.toServer = Append(@, r)]
      ELSE e

Send(d, r) == Write(AddObserver(d), r)

\* A mistake: the observer of a further request is not queued.
MutFetchMore(d) == Write(d, "PULL")
FetchMore(d) == Send(d, "PULL")

\* A mistake: the callbacks of the page stay subscribed.
MutCancel(d) ==
  IF d.kind = "catalog" \/ d.state = "FINISHED" THEN d
  ELSE [Send(d, "DISCARD") EXCEPT !.state = "WAITING_PULL"]

\* StreamObserver.cancel; a catalog session has no results to cancel.
Cancel(d) ==
  IF d.kind = "catalog" \/ d.state = "FINISHED" THEN d
  ELSE [Send([d EXCEPT !.subscribed = FALSE], "DISCARD") EXCEPT !.state = "WAITING_PULL"]

\* A mistake: a socket that is connecting is left alone.
MutSafeClose(d) ==
  IF d.readyState = "OPEN"
  THEN [d EXCEPT !.readyState = "CLOSING", !.toServer = Append(@, "CLOSE")]
  ELSE d

\* _safeCloseWebSocket: a socket that is connecting is tried again later.
SafeClose(d) ==
  CASE d.readyState = "CONNECTING" -> [d EXCEPT !.timer = TRUE]
    [] d.readyState = "OPEN" -> [d EXCEPT !.timer = FALSE, !.readyState = "CLOSING",
                                          !.toServer = Append(@, "CLOSE")]
    [] OTHER -> [d EXCEPT !.timer = FALSE]

\* Session.close
Close(d) ==
  IF d.open THEN SafeClose([Cancel([d EXCEPT !.open = FALSE]) EXCEPT !.connOpen = FALSE])
  ELSE d

-----------------------------------------------------------------------------
(***************************************************************************)
(* The page.  An operator on a pair w of the sessions and the page, for a  *)
(* callback may close a session other than the one whose event it is.      *)
(***************************************************************************)
Now == [session |-> session, page |-> page]

With(w, s, d) == [w EXCEPT !.session = [@ EXCEPT ![s] = d]]

\* h: closes whatever session is the current one.
StopRunning(w, outcome) ==
  [session |-> [s \in Sessions |-> IF s = w.page.current THEN Close(w.session[s])
                                   ELSE w.session[s]],
   page |-> [w.page EXCEPT !.running = FALSE, !.current = NoSession,
                           !.outcome = outcome]]

\* What the subscriber of session s does when it hears of the outcome: the query
\* page calls h, the two loaders close the session that they wait for.
Told(w, s, outcome) ==
  IF ~w.session[s].subscribed THEN w
  ELSE IF w.session[s].kind = "query" THEN StopRunning(w, outcome)
  ELSE With(w, s, Close(w.session[s]))

\* A loader goes on when its promise is settled: after the handler.
Awaits(w, s) == w.session[s].kind # "query"

\* onError of the observer of s: subscribers first, then the state.
OnError(w, s) ==
  IF Awaits(w, s)
  THEN Told(With(w, s, [w.session[s] EXCEPT !.state = "FINISHED"]), s, "error")
  ELSE LET v == Told(w, s, "error")
       IN  With(v, s, [v.session[s] EXCEPT !.state = "FINISHED"])

\* triggerConnectionError
ConnectionError(w, s) ==
  IF w.session[s].observers = 0 THEN w
  ELSE LET v == OnError(w, s) IN With(v, s, [v.session[s] EXCEPT !.observers = 0])

\* _nextObserver
NextObserver(w, s) ==
  With(w, s, [w.session[s] EXCEPT !.observers = IF @ = 0 THEN 0 ELSE @ - 1])

\* onSuccess of the observer of s.
OnSuccess(w, s, m) ==
  LET d == w.session[s]
  IN  CASE d.kind # "catalog" /\ d.state = "WAITING_RUN" ->
             With(w, s, FetchMore([d EXCEPT !.state = "WAITING_PULL"]))
        [] d.kind # "catalog" /\ d.state = "WAITING_PULL" /\ m.hasNext ->
             With(w, s, FetchMore(d))
        [] OTHER -> Told(With(w, s, [d EXCEPT !.state = "FINISHED"]), s, "success")

\* onRecord: only the query page shows rows.  addRow is an asynchronous transaction:
\* the row is queued.
OnRecord(w, s, m) ==
  IF w.session[s].subscribed /\ w.session[s].kind = "query"
  THEN [w EXCEPT !.page.pending = Append(@, m.row)] ELSE w

\* ResponseHandler.handle: with no observer the message is ignored, and a success
\* for an observer that has finished is thrown back.
Handle(w, s, m) ==
  IF \/ w.session[s].observers = 0
     \/ m.type = "SUCCESS" /\ w.session[s].state = "FINISHED"
  THEN w
  ELSE CASE m.type = "SUCCESS" -> NextObserver(OnSuccess(w, s, m), s)
         [] m.type = "ERROR"   -> NextObserver(OnError(w, s), s)
         [] m.type = "RECORD"  -> OnRecord(w, s, m)

Becomes(w) == session' = w.session /\ page' = w.page

-----------------------------------------------------------------------------
(***************************************************************************)
(* What the user does.                                                     *)
(***************************************************************************)
\* getSession, then run or catalog, then subscribe: all while it is connecting.  The
\* new session is any fresh one: they are all alike.
Begin(s, kind) ==
  /\ session[s] = Fresh /\ s = CHOOSE t \in Sessions : session[t] = Fresh
  /\ session' = [session EXCEPT ![s] =
       Send([Fresh EXCEPT !.kind = kind, !.readyState = "CONNECTING", !.open = TRUE,
                          !.subscribed = TRUE],
            IF kind = "catalog" THEN "CATALOG" ELSE "RUN")]
  /\ UNCHANGED <<server, toBrowser>>

\* The button says Run when nothing is running.  clearRows removes the rows that the
\* table has; those that are queued are not among them, and stay queued.
Run(s) ==
  /\ ~page.running
  /\ Begin(s, "query")
  /\ page' = [page EXCEPT !.running = TRUE, !.current = s, !.query = s,
                          !.rows = <<>>, !.outcome = "none"]

\* The Stop button.
StopQuery ==
  /\ page.running
  /\ Becomes(StopRunning(Now, "stopped"))
  /\ UNCHANGED <<server, toBrowser>>

\* The page is left, which stops its query, and its table goes with it: when the user
\* comes back there is a new one.
LeavePage ==
  /\ page # NewPage
  /\ Becomes([StopRunning(Now, "none") EXCEPT !.page = NewPage])
  /\ UNCHANGED <<server, toBrowser>>

\* The timer of the grid, 100 ms after the first row was queued: what has been queued
\* by then enters the table.  No event waits for it.
ExecuteBatch ==
  /\ page.pending # <<>>
  /\ page' = [page EXCEPT !.rows = @ \o page.pending, !.pending = <<>>]
  /\ UNCHANGED <<session, server, toBrowser>>

\* The loaders of a node and of the catalog.  Bound: nothing else is on its way; a
\* loader and a query page share no state.
Load(s) ==
  /\ \A t \in Sessions : session[t].readyState = "CLOSED" /\ toBrowser[t] = <<>>
  /\ \E kind \in {"records", "catalog"} : Begin(s, kind)
  /\ UNCHANGED page

-----------------------------------------------------------------------------
(***************************************************************************)
(* Events of the WebSockets.                                               *)
(***************************************************************************)
\* onopen: what was written before is sent, with an error for each request if the
\* connection has been closed meanwhile.
Opened(s) ==
  LET late == session[s].pendingRequests # <<>> /\ ~session[s].connOpen
      w == IF late THEN ConnectionError(Now, s) ELSE Now
  IN  /\ session[s].readyState = "CONNECTING"
      /\ Becomes(With(w, s, [w.session[s] EXCEPT
           !.readyState = "OPEN", !.wsOpen = TRUE, !.toServer = @ \o w.session[s].pendingRequests,
           !.pendingRequests = <<>>]))
      /\ server' = [server EXCEPT ![s].phase = "open"]
      /\ UNCHANGED toBrowser

\* onerror, if the browser calls it, then onclose: the one of _createWebSocket, or
\* the one that close() has put in its place.
CloseEvent(w, s, errs, wasClean) ==
  LET v == With(w, s, [w.session[s] EXCEPT !.readyState = "CLOSED"])
      u == IF errs THEN ConnectionError(v, s) ELSE v
      t == IF wasClean THEN u ELSE ConnectionError(u, s)
  IN  IF u.session[s].open
      THEN With(t, s, [t.session[s] EXCEPT !.connOpen = FALSE])
      ELSE With(u, s, [u.session[s] EXCEPT !.wsOpen = FALSE])

\* The server cannot be reached.
Refused(s) ==
  /\ session[s].readyState = "CONNECTING"
  /\ Becomes(CloseEvent(Now, s, TRUE, FALSE))
  /\ UNCHANGED <<server, toBrowser>>

\* The end of the connection, which is behind all that is under way.
TheEnd(messages) ==
  LET last == messages[Len(messages)] IN IF IsClosed(last) THEN <<last>> ELSE <<>>

\* onmessage, which a socket that is closing does not call any more: what is under
\* way is dropped.
Message(s) ==
  /\ toBrowser[s] # <<>> /\ ~IsClosed(Head(toBrowser[s]))
  /\ \/ /\ session[s].readyState = "OPEN"
        /\ Becomes(Handle(Now, s, Head(toBrowser[s])))
        /\ toBrowser' = [toBrowser EXCEPT ![s] = Tail(@)]
     \/ /\ session[s].readyState # "OPEN"
        /\ toBrowser' = [toBrowser EXCEPT ![s] = TheEnd(@)]
        /\ UNCHANGED <<session, page>>
  /\ UNCHANGED server

\* The connection has ended, by a handshake or without one.
Disconnected(s) ==
  /\ toBrowser[s] # <<>> /\ IsClosed(Head(toBrowser[s]))
  /\ toBrowser' = [toBrowser EXCEPT ![s] = Tail(@)]
  /\ LET wasClean == Head(toBrowser[s]).wasClean
     IN  \E errs \in IF wasClean THEN {FALSE} ELSE BOOLEAN :
           Becomes(CloseEvent(Now, s, errs, wasClean))
  /\ UNCHANGED server

\* The timer of _safeCloseWebSocket; it is set again while the socket connects.
TimerFires(s) ==
  /\ session[s].timer
  /\ session[s].readyState # "CONNECTING"
  /\ session' = [session EXCEPT ![s] = SafeClose(@)]
  /\ UNCHANGED <<page, server, toBrowser>>

-----------------------------------------------------------------------------
(***************************************************************************)
(* The server.                                                             *)
(***************************************************************************)
\* start_session reads a message into request_buffer; a request that was not
\* consumed is still in front of it.
Handled(s) == IF server[s].kept = "none" THEN Head(session[s].toServer)
              ELSE server[s].kept

Reads(s) ==
  /\ server[s].phase = "open"
  /\ session[s].toServer # <<>> /\ Head(session[s].toServer) # "CLOSE"
  /\ session' = [session EXCEPT ![s].toServer = Tail(@)]
  /\ UNCHANGED page

\* The session is destroyed (rows is kept to be compared with what the page shows).
Ended(x) == [NoServer EXCEPT !.phase = "closed", !.rows = x.rows]

Answers(s, x, messages) ==
  /\ server' = [server EXCEPT ![s] = [x EXCEPT !.kept = "none"]]
  /\ toBrowser' = [toBrowser EXCEPT ![s] = @ \o messages]

\* An exception that is logged and nothing more: the request stays in the buffer.
Swallowed(s, messages) ==
  /\ server' = [server EXCEPT ![s].kept = Handled(s)]
  /\ toBrowser' = [toBrowser EXCEPT ![s] = @ \o messages]

\* The query was interrupted: an error, then the handshake.
TimedOut(s, messages) ==
  /\ server' = [server EXCEPT ![s] = Ended(@)]
  /\ toBrowser' = [toBrowser EXCEPT ![s] = @ \o messages \o <<Error, Closed(TRUE)>>]

HandleRun(s) ==
  /\ Reads(s) /\ Handled(s) = "RUN"
  /\ \/ /\ server[s].state = "READY"
        /\ \/ \E n \in 0 .. MaxRows :
                Answers(s, [server[s] EXCEPT !.state = "STREAMING", !.rows = n, !.row = 0],
                        <<Success(FALSE)>>)
           \/ Answers(s, server[s], <<Error>>)
           \/ TimedOut(s, <<>>)
     \/ Swallowed(s, <<>>)

\* The next n rows of a result.
Pulled(s, n) == [i \in 1 .. n |-> Record(s, server[s].row + i)]

\* A mistake: the end of the result is not looked at.
MutPullSize(s) == FetchSize

\* SelectStreamingExecutor::pull
PullSize(s) ==
  LET left == server[s].rows - server[s].row
  IN  IF left < FetchSize THEN left ELSE FetchSize

\* A mistake: a pull that got all it asked for is taken to have a next one, and one
\* that leaves a single row is not.
MutHasNext(s) == server[s].row + PullSize(s) + 1 < server[s].rows

HasNext(s) == server[s].row + PullSize(s) < server[s].rows

HandlePull(s) ==
  /\ Reads(s) /\ Handled(s) = "PULL"
  /\ \/ /\ server[s].state = "STREAMING"
        /\ \/ Answers(s, [server[s] EXCEPT !.row = @ + PullSize(s),
                                   !.state = IF HasNext(s) THEN @ ELSE "READY"],
                      Append(Pulled(s, PullSize(s)), Success(HasNext(s))))
           \/ \E n \in 0 .. PullSize(s) : TimedOut(s, Pulled(s, n))
           \/ \E n \in 0 .. PullSize(s) : Swallowed(s, Pulled(s, n))
     \/ server[s].state = "READY" /\ Swallowed(s, <<>>)

\* No answer is given to a DISCARD that finds no query.
HandleDiscard(s) ==
  /\ Reads(s) /\ Handled(s) = "DISCARD"
  /\ IF server[s].state = "STREAMING"
     THEN Answers(s, [server[s] EXCEPT !.state = "READY"], <<Success(FALSE)>>)
     ELSE Answers(s, server[s], <<>>)

HandleCatalog(s) ==
  /\ Reads(s) /\ Handled(s) = "CATALOG"
  /\ Answers(s, server[s], <<Success(FALSE)>>)

\* stream.read gets the close frame and answers it.
EndSession(s) ==
  /\ server[s].phase = "open"
  /\ session[s].toServer # <<>> /\ Head(session[s].toServer) = "CLOSE"
  /\ server' = [server EXCEPT ![s] = Ended(@)]
  /\ toBrowser' = [toBrowser EXCEPT ![s] = Append(@, Closed(TRUE))]
  /\ UNCHANGED <<session, page>>

\* The connection is lost: the last messages on their way may be lost with it.  Bound:
\* only before the browser has closed it, when it matters to somebody.
ConnectionLost(s) ==
  /\ server[s].phase = "open" /\ session[s].open
  /\ server' = [server EXCEPT ![s] = Ended(@)]
  /\ \E n \in 0 .. Len(toBrowser[s]) :
       toBrowser' = [toBrowser EXCEPT ![s] = Append(SubSeq(@, 1, n), Closed(FALSE))]
  /\ UNCHANGED <<session, page>>

-----------------------------------------------------------------------------
User(s) == Run(s) \/ Load(s) \/ StopQuery \/ LeavePage
Socket(s) == Opened(s) \/ Refused(s) \/ Message(s) \/ Disconnected(s) \/ TimerFires(s)
Serve(s) ==
  HandleRun(s) \/ HandlePull(s) \/ HandleDiscard(s) \/ HandleCatalog(s) \/ EndSession(s)

System == ExecuteBatch \/ \E s \in Sessions : Socket(s) \/ Serve(s)

Next == System \/ \E s \in Sessions : User(s) \/ ConnectionLost(s)

Spec == Init /\ [][Next]_vars

\* Connecting succeeds or fails, what was sent arrives, the timers fire, and the
\* server gets to every request: its queries end, or are ended by their timeout.  A
\* session takes a bounded number of steps, so that none has to be named here.
LiveSpec == Spec /\ WF_vars(System)

-----------------------------------------------------------------------------
(***************************************************************************)
(* Properties.                                                             *)
(***************************************************************************)
TypeOK ==
  /\ session \in [Sessions -> Session]
  /\ page \in Page
  /\ server \in [Sessions -> ServerSession]
  /\ \A s \in Sessions : server[s].row <= server[s].rows
  /\ toBrowser \in [Sessions -> Seq(Messages)]

\* The rows of the table, and behind them those that are to enter it.
Table(p) == p.rows \o p.pending

\* The table ends with the first rows of the query that was run last, in order and
\* without a gap, whatever sessions are still on their way to their end.  What is in
\* front of them is of queries before it, whose rows were queued when Run emptied the
\* table: they are never mixed with the new ones.  "Query executed successfully" is
\* said when all rows of the query are in the table or queued, also when their number
\* is a multiple of the fetch size.
TableEndsWithTheResult ==
  LET table == Table(page)
  IN  \E n \in 0 .. Len(table) :
        /\ \A k \in 1 .. Len(table) : IF k <= n THEN table[k][1] # page.query
                                      ELSE table[k] = <<page.query, k - n>>
        /\ page.outcome = "success" => Len(table) - n = server[page.query].rows

\* While the page says that it is running there is a request under way for its
\* session, and an observer that passes on what comes of it: otherwise nothing could
\* end the waiting.
RunningIsObserved ==
  page.running =>
    LET d == session[page.current]
    IN  d.open /\ d.connOpen /\ d.subscribed /\ d.observers > 0 /\ d.state # "FINISHED"

\* A request has one observer and gets one answer: in an open session the observers
\* are as many as the requests and answers under way (the server keeps a request to
\* which it will give none), and the one of a running query is among them.
ObserversMatchRequests ==
  /\ RunningIsObserved
  /\ \A s \in Sessions :
       LET d == session[s]
       IN  (d.open /\ server[s].kept = "none" /\ ~\E i \in 1 .. Len(toBrowser[s]) :
                                                  toBrowser[s][i] = Closed(FALSE))
           => d.observers = Len(d.pendingRequests) + Len(d.toServer)
                            + Cardinality({i \in 1 .. Len(toBrowser[s]) : Ends(toBrowser[s][i])})

\* What happens to a session that is not the current one of the page, in particular to
\* one that was stopped, changes nothing that the page shows or has queued: h closes
\* the current session, whichever callback calls it.  (Rows that were queued before
\* the session was stopped are the grid's: TableEndsWithTheResult.)
OtherSessionsLeaveThePage ==
  [][\A s \in Sessions :
       /\ session[s] # Fresh /\ s # page.current
       /\ \/ session'[s].readyState # session[s].readyState
          \/ Len(toBrowser'[s]) < Len(toBrowser[s])
       => page' = page]_vars

\* Waiting comes to an end, in the page and at the server: running a query, unless
\* the server swallowed an exception, and a session that the page closed, which has a
\* thread of the server to itself, also if it was closed before it was connected.
WaitingEnds ==
  /\ page.running ~> \/ ~page.running
                     \/ \E s \in Sessions : s = page.current /\ server[s].kept # "none"
  /\ \A s \in Sessions :
       (session[s] # Fresh /\ ~session[s].open) ~> server[s].phase # "open"
=============================================================================
