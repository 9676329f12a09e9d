------------------------ MODULE BrowserSession_proofs ------------------------
(***************************************************************************)
(* What holds of BrowserSession for every number of sessions, of rows and  *)
(* every fetch size: the types, that the table of the page ends with the   *)
(* result of its query, that every request of an open session has one      *)
(* observer and one answer, and that sessions which are not the current    *)
(* one leave the page alone.                                               *)
(***************************************************************************)
EXTENDS BrowserSession, FiniteSetTheorems, SequenceTheorems, TLAPS

\* A session that can be used: one observer waits for the answer to one request.
Opening(d) ==
  /\ d.open /\ d.connOpen /\ d.subscribed /\ ~d.timer /\ d.observers = 1
  /\ d.state # "FINISHED" /\ (d.kind = "catalog" => d.state = "WAITING_RUN")

\* A session that was closed: no observer is left that the page would hear of.
Closing(d) ==
  /\ ~d.open /\ ~d.connOpen
  /\ d.subscribed /\ d.kind = "query" => d.observers = 0
  /\ d.readyState = "OPEN" => d.observers = 0
  /\ d.readyState = "CONNECTING" => d.pendingRequests # <<>>

Used(d) == Opening(d) \/ Closing(d)

\* The socket and the two ends of the connection.
Connected(d, x, q) ==
  /\ x.phase = "none" => x = NoServer /\ q = <<>> /\ d.toServer = <<>>
  /\ d = Fresh \/ d.readyState = "CONNECTING" => x.phase = "none"
  /\ d.readyState = "CONNECTING" => ~d.wsOpen
  /\ d.readyState = "OPEN" => d.wsOpen /\ x.phase # "none"
  /\ d.wsOpen => d.pendingRequests = <<>>
  /\ x.phase # "open" => x.kept = "none"
  /\ \A k \in 1 .. Len(q) : IsClosed(q[k]) => k = Len(q) /\ x.phase = "closed"

\* The request that an observer waits for.
Request(d) ==
  IF d.kind = "catalog" THEN "CATALOG"
  ELSE IF d.state = "WAITING_RUN" THEN "RUN" ELSE "PULL"

\* Where the request of an open session is: in the socket that connects, on its
\* way to the server, kept there, or answered; or the connection is lost.
Connecting(d) ==
  d.readyState = "CONNECTING" /\ d.pendingRequests = <<Request(d)>> /\ d.state = "WAITING_RUN"

Asked(d, x, q) == x.phase = "open" /\ x.kept = "none" /\ d.toServer = <<Request(d)>> /\ q = <<>>

Kept(d, x, q) ==
  /\ x.phase = "open" /\ x.kept # "none" /\ d.toServer = <<>>
  /\ \A k \in 1 .. Len(q) : ~Ends(q[k])

Answered(d, x, q) ==
  /\ x.kept = "none" /\ d.toServer = <<>> /\ q # <<>>
  /\ x.phase = "open" /\ Ends(q[Len(q)])

Expired(d, x, q) ==
  /\ x.kept = "none" /\ d.toServer = <<>> /\ Len(q) > 1
  /\ q[Len(q) - 1] = Error /\ q[Len(q)] = Closed(TRUE)

Lost(q) == q # <<>> /\ q[Len(q)] = Closed(FALSE)

InOrder(d, q) ==
  /\ \A k \in 1 .. Len(q) : Ends(q[k]) => d.toServer = <<>> /\ (k = Len(q) \/ IsClosed(q[k + 1]))
  /\ d.state = "WAITING_RUN" => \A k \in 1 .. Len(q) : q[k].type # "RECORD"

Talking(d, x, q) ==
  d.open =>
    /\ \/ Connecting(d)
       \/ /\ d.readyState = "OPEN"
          /\ Asked(d, x, q) \/ Kept(d, x, q) \/ Answered(d, x, q) \/ Expired(d, x, q) \/ Lost(q)
    /\ InOrder(d, q)

SessionInv(d, x, q) ==
  /\ d = Fresh \/ Used(d)
  /\ Connected(d, x, q)
  /\ Talking(d, x, q)

\* The current session of the page is the one open session of a query.
CurrentInv(s, d, p) == s = p.current <=> d.open /\ d.kind = "query"

\* How many rows of its query the page has been given: the number of the last one.
Shown(p) ==
  LET t == Table(p)
  IN  IF Len(t) = 0 \/ t[Len(t)][1] # p.query THEN 0 ELSE t[Len(t)][2]

\* The rows of the query are behind those of other ones.
TableInv(p) ==
  LET t == Table(p)
  IN  /\ Shown(p) \in 0 .. Len(t)
      /\ \A k \in 1 .. Len(t) :
           IF k <= Len(t) - Shown(p) THEN t[k][1] # p.query
           ELSE t[k] = <<p.query, k - (Len(t) - Shown(p))>>

\* No row of session s has come to the page.
NoRows(s, p) == \A k \in 1 .. Len(Table(p)) : Table(p)[k][1] # s

\* The rows under way follow the n rows that are shown, and the last success is
\* behind the last of them.
ShownInv(s, d, x, q, n) ==
  /\ d.state = "WAITING_RUN" => n = 0
  /\ \A k \in 1 .. Len(q) :
       /\ q[k].type = "RECORD" => q[k].row = <<s, n + k>>
       /\ q[k].type = "SUCCESS" /\ x.phase = "open" => x.row = n + k - 1
       /\ q[k].type = "SUCCESS" /\ d.state = "WAITING_PULL" /\ ~q[k].hasNext
            => x.rows = n + k - 1
  /\ d.toServer = <<"PULL">> /\ x.phase = "open" => x.row = n

\* Nothing changes the result of a query that has succeeded.
SuccessInv(d, x, n) ==
  /\ d.readyState \in {"CLOSING", "CLOSED"} /\ ~d.open /\ ~d.connOpen
  /\ d.toServer = <<>> \/ d.toServer = <<"CLOSE">>
  /\ x.kept = "none" /\ x.rows = n

PageInv(p) ==
  /\ p.running <=> p.current \in Sessions
  /\ p.current \in Sessions => p.query = p.current /\ p.outcome = "none"
  /\ p.outcome = "success" => p.query \in Sessions
  /\ TableInv(p)

ShowsInv(s, d, x, q, p) ==
  /\ CurrentInv(s, d, p)
  /\ d = Fresh => NoRows(s, p)
  /\ s = p.current => ShownInv(s, d, x, q, Shown(p))
  /\ s = p.query /\ p.outcome = "success" => SuccessInv(d, x, Shown(p))

IInv ==
  /\ TypeOK
  /\ PageInv(page)
  /\ \A s \in Sessions :
       /\ SessionInv(session[s], server[s], toBrowser[s])
       /\ ShowsInv(s, session[s], server[s], toBrowser[s], page)

-----------------------------------------------------------------------------
(***************************************************************************)
(* The operators of the driver.                                            *)
(***************************************************************************)
\* Sending DISCARD adds an observer and a request, nothing else.
LEMMA SendDiscard ==
  ASSUME NEW d \in Session, d.connOpen, d.observers = 1
  PROVE  LET e == Send(d, "DISCARD")
         IN  /\ e \in Session /\ e.observers = 2
             /\ e.kind = d.kind /\ e.readyState = d.readyState /\ e.wsOpen = d.wsOpen
             /\ e.connOpen = d.connOpen /\ e.timer = d.timer /\ e.open = d.open
             /\ e.state = d.state /\ e.subscribed = d.subscribed
             /\ d.wsOpen => e.pendingRequests = d.pendingRequests
             /\ d.pendingRequests # <<>> => e.pendingRequests # <<>>
             /\ d.readyState # "OPEN" => e.toServer = d.toServer
<1> DEFINE a == [d EXCEPT !.observers = 2]
           e == Send(d, "DISCARD")
<1>1. a = AddObserver(d) /\ a \in Session
  BY DEF AddObserver, Session
<1>2. /\ a.kind = d.kind /\ a.readyState = d.readyState /\ a.wsOpen = d.wsOpen
      /\ a.connOpen = d.connOpen /\ a.timer = d.timer /\ a.open = d.open
      /\ a.state = d.state /\ a.subscribed = d.subscribed /\ a.observers = 2
      /\ a.pendingRequests = d.pendingRequests /\ a.toServer = d.toServer
  BY DEF Session
<1>3. e = Write(a, "DISCARD")
  BY <1>1 DEF Send
<1>4. "DISCARD" \in Requests
  BY DEF Requests
<1> HIDE DEF a, e
<1>5. CASE ~a.wsOpen
  <2> DEFINE l == Append(a.pendingRequests, "DISCARD")
  <2>1. e = [a EXCEPT !.pendingRequests = l]
    BY <1>2, <1>3, <1>5 DEF Write
  <2>2. l \in Seq(Requests) /\ l # <<>>
    BY <1>1, <1>4, AppendProperties DEF Session
  <2> HIDE DEF l
  <2>3. e \in Session /\ e.pendingRequests = l
    BY <1>1, <2>1, <2>2 DEF Session
  <2>4. /\ e.kind = a.kind /\ e.readyState = a.readyState /\ e.wsOpen = a.wsOpen
        /\ e.connOpen = a.connOpen /\ e.timer = a.timer /\ e.open = a.open
        /\ e.state = a.state /\ e.subscribed = a.subscribed /\ e.observers = a.observers
        /\ e.toServer = a.toServer
    BY <1>1, <2>1 DEF Session
  <2> QED BY <1>2, <1>5, <2>2, <2>3, <2>4 DEF e
<1>6. CASE a.wsOpen /\ a.readyState = "OPEN"
  <2> DEFINE l == Append(a.toServer, "DISCARD")
  <2>1. e = [a EXCEPT !.toServer = l]
    BY <1>2, <1>3, <1>6 DEF Write
  <2>2. l \in Seq(Requests)
    BY <1>1, <1>4, AppendProperties DEF Session
  <2> HIDE DEF l
  <2>3. e \in Session
    BY <1>1, <2>1, <2>2 DEF Session
  <2>4. /\ e.kind = a.kind /\ e.readyState = a.readyState /\ e.wsOpen = a.wsOpen
        /\ e.connOpen = a.connOpen /\ e.timer = a.timer /\ e.open = a.open
        /\ e.state = a.state /\ e.subscribed = a.subscribed /\ e.observers = a.observers
        /\ e.pendingRequests = a.pendingRequests
    BY <1>1, <2>1 DEF Session
  <2> QED BY <1>2, <1>6, <2>3, <2>4 DEF e
<1>7. CASE a.wsOpen /\ a.readyState # "OPEN"
  <2>1. e = a
    BY <1>2, <1>3, <1>7 DEF Write
  <2> QED BY <1>1, <1>2, <1>7, <2>1 DEF e
<1>8. a.wsOpen \in BOOLEAN
  BY <1>1 DEF Session
<1> QED BY <1>5, <1>6, <1>7, <1>8 DEF e

\* Cancelling gives up the callbacks and asks the server to stop, unless there is
\* nothing to cancel.
LEMMA CancelOpen ==
  ASSUME NEW d \in Session, d.connOpen, d.observers = 1
  PROVE  LET e == Cancel(d)
         IN  /\ e \in Session
             /\ e.kind = d.kind /\ e.readyState = d.readyState /\ e.wsOpen = d.wsOpen
             /\ e.connOpen = d.connOpen /\ e.timer = d.timer /\ e.open = d.open
             /\ d.wsOpen => e.pendingRequests = d.pendingRequests
             /\ d.pendingRequests # <<>> => e.pendingRequests # <<>>
             /\ d.readyState # "OPEN" => e.toServer = d.toServer
             /\ d.kind = "catalog" \/ d.state = "FINISHED" => e = d
             /\ ~(d.kind = "catalog" \/ d.state = "FINISHED") =>
                  e.observers = 2 /\ ~e.subscribed /\ e.state = "WAITING_PULL"
<1>1. CASE d.kind = "catalog" \/ d.state = "FINISHED"
  BY <1>1 DEF Cancel
<1>2. CASE ~(d.kind = "catalog" \/ d.state = "FINISHED")
  <2> DEFINE a == [d EXCEPT !.subscribed = FALSE]
             b == Send(a, "DISCARD")
             e == [b EXCEPT !.state = "WAITING_PULL"]
  <2>1. Cancel(d) = e
    BY <1>2 DEF Cancel
  <2>2. /\ a \in Session /\ a.connOpen /\ a.observers = 1 /\ ~a.subscribed
        /\ a.kind = d.kind /\ a.readyState = d.readyState /\ a.wsOpen = d.wsOpen
        /\ a.connOpen = d.connOpen /\ a.timer = d.timer /\ a.open = d.open
        /\ a.pendingRequests = d.pendingRequests /\ a.toServer = d.toServer
    BY DEF Session
  <2> HIDE DEF a
  <2>3. /\ b \in Session /\ b.observers = 2
        /\ b.kind = a.kind /\ b.readyState = a.readyState /\ b.wsOpen = a.wsOpen
        /\ b.connOpen = a.connOpen /\ b.timer = a.timer /\ b.open = a.open
        /\ b.subscribed = a.subscribed
        /\ a.wsOpen => b.pendingRequests = a.pendingRequests
        /\ a.pendingRequests # <<>> => b.pendingRequests # <<>>
        /\ a.readyState # "OPEN" => b.toServer = a.toServer
    BY <2>2, SendDiscard
  <2> HIDE DEF b
  <2>4. e \in Session /\ e.state = "WAITING_PULL"
    BY <2>3 DEF Session, ObserverStates
  <2>5. /\ e.kind = b.kind /\ e.readyState = b.readyState /\ e.wsOpen = b.wsOpen
        /\ e.connOpen = b.connOpen /\ e.timer = b.timer /\ e.open = b.open
        /\ e.subscribed = b.subscribed /\ e.observers = b.observers
        /\ e.pendingRequests = b.pendingRequests /\ e.toServer = b.toServer
    BY <2>3 DEF Session
  <2> HIDE DEF e
  <2> QED BY <1>2, <2>1, <2>2, <2>3, <2>4, <2>5
<1> QED BY <1>1, <1>2

\* Closing the socket sends the close frame if it is open.
LEMMA SafeCloseFields ==
  ASSUME NEW d \in Session
  PROVE  LET e == SafeClose(d)
         IN  /\ e \in Session
             /\ e.kind = d.kind /\ e.wsOpen = d.wsOpen /\ e.connOpen = d.connOpen
             /\ e.open = d.open /\ e.observers = d.observers /\ e.state = d.state
             /\ e.subscribed = d.subscribed /\ e.pendingRequests = d.pendingRequests
             /\ e.readyState = IF d.readyState = "OPEN" THEN "CLOSING" ELSE d.readyState
             /\ e.toServer = IF d.readyState = "OPEN" THEN Append(d.toServer, "CLOSE")
                             ELSE d.toServer
<1>1. CASE d.readyState = "CONNECTING"
  <2>1. SafeClose(d) = [d EXCEPT !.timer = TRUE]
    BY <1>1 DEF SafeClose
  <2> QED BY <1>1, <2>1 DEF Session
<1>2. CASE d.readyState = "OPEN"
  <2> DEFINE l == Append(d.toServer, "CLOSE")
  <2>1. SafeClose(d) = [d EXCEPT !.timer = FALSE, !.readyState = "CLOSING", !.toServer = l]
    BY <1>2 DEF SafeClose
  <2>2. l \in Seq(Requests)
    BY AppendProperties DEF Session, Requests
  <2>3. l = Append(d.toServer, "CLOSE")
    OBVIOUS
  <2> HIDE DEF l
  <2> QED BY <1>2, <2>1, <2>2, <2>3 DEF Session, ReadyStates
<1>3. CASE d.readyState \notin {"CONNECTING", "OPEN"}
  <2>1. SafeClose(d) = [d EXCEPT !.timer = FALSE]
    BY <1>3 DEF SafeClose
  <2> QED BY <1>3, <2>1 DEF Session
<1> QED BY <1>1, <1>2, <1>3

\* d was closed and became e; the socket is told, and what is pending stays.
Over(d, e) ==
  /\ e \in Session /\ ~e.open /\ ~e.connOpen
  /\ e.kind = d.kind /\ e.wsOpen = d.wsOpen
  /\ e.readyState = IF d.readyState = "OPEN" THEN "CLOSING" ELSE d.readyState
  /\ d.wsOpen => e.pendingRequests = d.pendingRequests
  /\ d.pendingRequests # <<>> => e.pendingRequests # <<>>
  /\ d.readyState # "OPEN" => e.toServer = d.toServer

\* What Session.close makes of a session with one observer.
LEMMA CloseOpen ==
  ASSUME NEW d \in Session, d.open, d.connOpen, d.observers = 1
  PROVE  LET e == Close(d)
         IN  /\ Over(d, e)
             /\ d.kind = "catalog" \/ d.state = "FINISHED" =>
                  /\ e.observers = 1 /\ e.subscribed = d.subscribed /\ e.state = d.state
                  /\ d.readyState = "OPEN" => e.toServer = Append(d.toServer, "CLOSE")
             /\ ~(d.kind = "catalog" \/ d.state = "FINISHED") =>
                  e.observers = 2 /\ ~e.subscribed /\ e.state = "WAITING_PULL"
<1> DEFINE a == [d EXCEPT !.open = FALSE]
           b == Cancel(a)
           c == [b EXCEPT !.connOpen = FALSE]
<1>1. Close(d) = SafeClose(c)
  BY DEF Close
<1>2. /\ a \in Session /\ a.connOpen /\ a.observers = 1 /\ ~a.open
      /\ a.kind = d.kind /\ a.readyState = d.readyState /\ a.wsOpen = d.wsOpen
      /\ a.state = d.state /\ a.subscribed = d.subscribed
      /\ a.pendingRequests = d.pendingRequests /\ a.toServer = d.toServer
  BY DEF Session
<1> HIDE DEF a
<1>3. /\ b \in Session
      /\ b.kind = a.kind /\ b.readyState = a.readyState /\ b.wsOpen = a.wsOpen
      /\ b.open = a.open
      /\ a.wsOpen => b.pendingRequests = a.pendingRequests
      /\ a.pendingRequests # <<>> => b.pendingRequests # <<>>
      /\ a.readyState # "OPEN" => b.toServer = a.toServer
      /\ a.kind = "catalog" \/ a.state = "FINISHED" => b = a
      /\ ~(a.kind = "catalog" \/ a.state = "FINISHED") =>
           b.observers = 2 /\ ~b.subscribed /\ b.state = "WAITING_PULL"
  BY <1>2, CancelOpen
<1> HIDE DEF b
<1>4. /\ c \in Session /\ ~c.connOpen
      /\ c.kind = b.kind /\ c.readyState = b.readyState /\ c.wsOpen = b.wsOpen
      /\ c.open = b.open /\ c.state = b.state /\ c.subscribed = b.subscribed
      /\ c.observers = b.observers
      /\ c.pendingRequests = b.pendingRequests /\ c.toServer = b.toServer
  BY <1>3 DEF Session
<1> HIDE DEF c
<1> DEFINE e == SafeClose(c)
<1>5. /\ e \in Session
      /\ e.kind = c.kind /\ e.wsOpen = c.wsOpen /\ e.connOpen = c.connOpen
      /\ e.open = c.open /\ e.observers = c.observers /\ e.state = c.state
      /\ e.subscribed = c.subscribed /\ e.pendingRequests = c.pendingRequests
      /\ e.readyState = IF c.readyState = "OPEN" THEN "CLOSING" ELSE c.readyState
      /\ e.toServer = IF c.readyState = "OPEN" THEN Append(c.toServer, "CLOSE")
                      ELSE c.toServer
  BY <1>4, SafeCloseFields
<1>6. Close(d) = e
  BY <1>1
<1> HIDE DEF e
<1>7. Over(d, e)
  BY <1>2, <1>3, <1>4, <1>5 DEF Over
<1>8. ASSUME d.kind = "catalog" \/ d.state = "FINISHED"
      PROVE  /\ e.observers = 1 /\ e.subscribed = d.subscribed /\ e.state = d.state
             /\ d.readyState = "OPEN" => e.toServer = Append(d.toServer, "CLOSE")
  <2>1. b = a
    BY <1>2, <1>3, <1>8
  <2> QED BY <2>1, <1>2, <1>4, <1>5
<1>9. ASSUME ~(d.kind = "catalog" \/ d.state = "FINISHED")
      PROVE  e.observers = 2 /\ ~e.subscribed /\ e.state = "WAITING_PULL"
  BY <1>2, <1>3, <1>4, <1>5, <1>9
<1> QED BY <1>6, <1>7, <1>8, <1>9

\* ... and of one whose response was read to its end.
LEMMA CloseFinished ==
  ASSUME NEW d \in Session, d.open, d.connOpen, d.observers = 1, d.state = "FINISHED",
         d.readyState = "OPEN"
  PROVE  LET e == Close(d)
         IN  Over(d, e) /\ e.observers = 1 /\ e.toServer = Append(d.toServer, "CLOSE")
BY CloseOpen

-----------------------------------------------------------------------------
(***************************************************************************)
(* The operators of the page, on pairs of the sessions and the page.       *)
(***************************************************************************)
Pairs == [session : [Sessions -> Session], page : Page]

\* The page after one of its queries has ended.
Stopped(p, outcome) ==
  [p EXCEPT !.running = FALSE, !.current = NoSession, !.outcome = outcome]

Outcomes == {"none", "success", "error", "stopped"}

LEMMA WithFields ==
  ASSUME NEW w \in Pairs, NEW s \in Sessions, NEW d \in Session
  PROVE  /\ With(w, s, d) \in Pairs
         /\ With(w, s, d).page = w.page
         /\ With(w, s, d).session = [w.session EXCEPT ![s] = d]
         /\ With(w, s, d).session[s] = d
BY DEF With, Pairs

LEMMA StoppedType ==
  ASSUME NEW p \in Page, NEW o \in Outcomes
  PROVE  /\ Stopped(p, o) \in Page
         /\ ~Stopped(p, o).running /\ Stopped(p, o).current = NoSession
         /\ Stopped(p, o).outcome = o /\ Stopped(p, o).query = p.query
         /\ Stopped(p, o).rows = p.rows /\ Stopped(p, o).pending = p.pending
BY DEF Page, Stopped, Outcomes

\* Stopping closes the current session, and no other one.
LEMMA StopRunningFields ==
  ASSUME NEW w \in Pairs, NEW s \in Sessions, w.page.current = s, NEW o \in Outcomes,
         Close(w.session[s]) \in Session
  PROVE  LET v == StopRunning(w, o)
         IN  /\ v \in Pairs
             /\ v.session = [w.session EXCEPT ![s] = Close(w.session[s])]
             /\ v.page = Stopped(w.page, o)
<1> DEFINE c == Close(w.session[s])
<1>1. c \in Session
  OBVIOUS
<1>2. StopRunning(w, o).session
        = [t \in Sessions |-> IF t = s THEN Close(w.session[t]) ELSE w.session[t]]
  BY DEF StopRunning
<1>3. @ = [t \in Sessions |-> IF t = s THEN c ELSE w.session[t]]
  OBVIOUS
<1>4. StopRunning(w, o).page = Stopped(w.page, o)
  BY DEF StopRunning, Stopped
<1>5. c = Close(w.session[s])
  OBVIOUS
<1> HIDE DEF c
<1>6. w.session \in [Sessions -> Session] /\ w.page \in Page
  BY DEF Pairs
<1>7. [t \in Sessions |-> IF t = s THEN c ELSE w.session[t]] = [w.session EXCEPT ![s] = c]
  BY <1>6
<1>8. [w.session EXCEPT ![s] = c] \in [Sessions -> Session]
  BY <1>1, <1>6
<1>9. StopRunning(w, o) = [session |-> [w.session EXCEPT ![s] = c], page |-> Stopped(w.page, o)]
  BY <1>2, <1>3, <1>4, <1>7 DEF StopRunning
<1> QED BY <1>5, <1>6, <1>8, <1>9, StoppedType DEF Pairs

\* An open session that hears of an outcome is closed, whatever its page; the page of
\* a query has its outcome.
LEMMA ToldOpen ==
  ASSUME NEW w \in Pairs, NEW s \in Sessions, NEW o \in Outcomes,
         w.session[s].open, w.session[s].connOpen, w.session[s].observers = 1,
         w.session[s].subscribed,
         w.session[s].kind = "query" => w.page.current = s
  PROVE  LET v == Told(w, s, o)
         IN  /\ v \in Pairs
             /\ v.session = [w.session EXCEPT ![s] = Close(w.session[s])]
             /\ v.page = IF w.session[s].kind = "query" THEN Stopped(w.page, o) ELSE w.page
<1>1. w.session[s] \in Session
  BY DEF Pairs
<1>2. Close(w.session[s]) \in Session
  BY <1>1, CloseOpen DEF Over
<1>3. CASE w.session[s].kind = "query"
  <2>1. Told(w, s, o) = StopRunning(w, o)
    BY <1>3 DEF Told
  <2> QED BY <1>2, <1>3, <2>1, StopRunningFields
<1>4. CASE w.session[s].kind # "query"
  <2>1. Told(w, s, o) = With(w, s, Close(w.session[s]))
    BY <1>4 DEF Told
  <2> QED BY <1>2, <1>4, <2>1, WithFields
<1> QED BY <1>3, <1>4

\* onError of an open session closes it, and at most one observer is left when this one
\* is gone; the page of a query does not hear of them any more.
LEMMA OnErrorOpen ==
  ASSUME NEW w \in Pairs, NEW s \in Sessions, Opening(w.session[s]),
         w.session[s].kind = "query" => w.page.current = s
  PROVE  LET v == OnError(w, s)
             d == w.session[s]
             e == v.session[s]
         IN  /\ v \in Pairs /\ Over(d, e) /\ e.state = "FINISHED"
             /\ d.kind = "query" => ~e.subscribed
             /\ v.session = [w.session EXCEPT ![s] = e]
             /\ v.page = IF d.kind = "query" THEN Stopped(w.page, "error") ELSE w.page
<1> DEFINE d == w.session[s]
<1>1. d \in Session
  BY DEF Pairs
<1>2. /\ d.open /\ d.connOpen /\ d.observers = 1 /\ d.subscribed /\ d.state # "FINISHED"
      /\ d.kind = "query" => w.page.current = s
  BY DEF Opening
<1>3. "error" \in Outcomes
  BY DEF Outcomes
<1>4. CASE d.kind # "query"
  <2> DEFINE a == [d EXCEPT !.state = "FINISHED"]
             u == With(w, s, a)
  <2>1. OnError(w, s) = Told(u, s, "error")
    BY <1>4 DEF OnError, Awaits
  <2>2. /\ a \in Session /\ a.state = "FINISHED"
        /\ a.open /\ a.connOpen /\ a.observers = 1 /\ a.subscribed
        /\ a.kind = d.kind /\ a.readyState = d.readyState /\ a.wsOpen = d.wsOpen
        /\ a.pendingRequests = d.pendingRequests /\ a.toServer = d.toServer
    BY <1>1, <1>2 DEF Session, ObserverStates
  <2> HIDE DEF a
  <2>3. u \in Pairs /\ u.page = w.page /\ u.session = [w.session EXCEPT ![s] = a] /\ u.session[s] = a
    BY <2>2, WithFields
  <2> HIDE DEF u
  <2>4. LET v == Told(u, s, "error")
        IN  v \in Pairs /\ v.session = [u.session EXCEPT ![s] = Close(a)] /\ v.page = u.page
    <3>1. /\ u.session[s].open /\ u.session[s].connOpen /\ u.session[s].observers = 1
          /\ u.session[s].subscribed /\ u.session[s].kind # "query"
      BY <1>4, <2>2, <2>3
    <3>2. LET v == Told(u, s, "error")
          IN  /\ v \in Pairs
              /\ v.session = [u.session EXCEPT ![s] = Close(u.session[s])]
              /\ v.page = IF u.session[s].kind = "query" THEN Stopped(u.page, "error") ELSE u.page
      BY <1>3, <2>3, <3>1, ToldOpen
    <3> QED BY <2>3, <3>1, <3>2
  <2> DEFINE c == Close(a)
  <2>5. Over(a, c) /\ c.state = "FINISHED"
    BY <2>2, CloseOpen
  <2> HIDE DEF c
  <2>6. Over(d, c)
    BY <2>2, <2>5 DEF Over
  <2>7. w.session \in [Sessions -> Session]
    BY DEF Pairs
  <2>8. [u.session EXCEPT ![s] = c] = [w.session EXCEPT ![s] = c]
    BY <2>3, <2>7
  <2>9. Told(u, s, "error").session = [w.session EXCEPT ![s] = c]
    BY <2>4, <2>8 DEF c
  <2>10. Told(u, s, "error").session[s] = c
    BY <2>9, <2>7
  <2> QED BY <1>4, <2>1, <2>3, <2>4, <2>5, <2>6, <2>9, <2>10
<1>5. CASE d.kind = "query"
  <2> DEFINE c == Close(d)
             v == Told(w, s, "error")
             e == [c EXCEPT !.state = "FINISHED"]
  <2>1. v \in Pairs /\ v.session = [w.session EXCEPT ![s] = c] /\ v.page = Stopped(w.page, "error")
    BY <1>2, <1>3, <1>5, ToldOpen
  <2>2. Over(d, c) /\ ~c.subscribed
    BY <1>1, <1>2, <1>5, CloseOpen
  <2> HIDE DEF c
  <2>3. w.session \in [Sessions -> Session]
    BY DEF Pairs
  <2>4. v.session[s] = c
    BY <2>1, <2>3
  <2>5. OnError(w, s) = With(v, s, e)
    BY <1>5, <2>4 DEF OnError, Awaits
  <2>6. Over(d, e) /\ ~e.subscribed /\ e.state = "FINISHED"
    BY <2>2 DEF Over, Session, ObserverStates
  <2> HIDE DEF e, v
  <2>7. /\ With(v, s, e) \in Pairs /\ With(v, s, e).page = v.page
        /\ With(v, s, e).session = [v.session EXCEPT ![s] = e] /\ With(v, s, e).session[s] = e
    BY <2>1, <2>6, WithFields DEF Over
  <2>8. [v.session EXCEPT ![s] = e] = [w.session EXCEPT ![s] = e]
    BY <2>1, <2>3
  <2> QED BY <1>5, <2>1, <2>5, <2>6, <2>7, <2>8
<1> QED BY <1>4, <1>5

\* A session that is gone: what comes of it does not reach the page of a query.
Gone(e) == e.subscribed /\ e.kind = "query" => e.observers = 0

\* A connection error closes an open session ...
LEMMA ConnectionErrorOpen ==
  ASSUME NEW w \in Pairs, NEW s \in Sessions, Opening(w.session[s]),
         w.session[s].kind = "query" => w.page.current = s
  PROVE  LET v == ConnectionError(w, s)
             d == w.session[s]
             e == v.session[s]
         IN  /\ v \in Pairs /\ Over(d, e) /\ Gone(e)
             /\ v.session = [w.session EXCEPT ![s] = e]
             /\ v.page = IF d.kind = "query" THEN Stopped(w.page, "error") ELSE w.page
<1> DEFINE d == w.session[s]
           u == OnError(w, s)
           c == u.session[s]
           e == [c EXCEPT !.observers = 0]
<1>1. /\ u \in Pairs /\ Over(d, c) /\ u.session = [w.session EXCEPT ![s] = c]
      /\ u.page = IF d.kind = "query" THEN Stopped(w.page, "error") ELSE w.page
  BY OnErrorOpen
<1>2. d.observers # 0
  BY DEF Opening
<1>3. ConnectionError(w, s) = With(u, s, e)
  BY <1>2 DEF ConnectionError
<1> HIDE DEF u, c
<1>4. Over(d, e) /\ Gone(e)
  BY <1>1 DEF Over, Session, Gone
<1> HIDE DEF e
<1>5. /\ With(u, s, e) \in Pairs /\ With(u, s, e).page = u.page
      /\ With(u, s, e).session = [u.session EXCEPT ![s] = e] /\ With(u, s, e).session[s] = e
  BY <1>1, <1>4, WithFields DEF Over
<1>6. [u.session EXCEPT ![s] = e] = [w.session EXCEPT ![s] = e]
  BY <1>1 DEF Pairs
<1> QED BY <1>1, <1>3, <1>4, <1>5, <1>6

\* The fields of a session that a late error leaves as they are.
SameSocket(d, e) ==
  /\ e \in Session
  /\ e.kind = d.kind /\ e.readyState = d.readyState /\ e.wsOpen = d.wsOpen
  /\ e.connOpen = d.connOpen /\ e.pendingRequests = d.pendingRequests
  /\ e.open = d.open /\ e.subscribed = d.subscribed /\ e.toServer = d.toServer

\* ... and only takes the observers of a closed one: the page hears nothing of it.
LEMMA ConnectionErrorClosed ==
  ASSUME NEW w \in Pairs, NEW s \in Sessions, ~w.session[s].open, Gone(w.session[s])
  PROVE  LET v == ConnectionError(w, s)
             e == v.session[s]
         IN  /\ v \in Pairs /\ SameSocket(w.session[s], e) /\ e.observers = 0
             /\ v.session = [w.session EXCEPT ![s] = e]
             /\ v.page = w.page
<1> DEFINE d == w.session[s]
           a == [d EXCEPT !.state = "FINISHED"]
           u == With(w, s, a)
           e == [a EXCEPT !.observers = 0]
<1>1. d \in Session /\ w.session \in [Sessions -> Session]
  BY DEF Pairs
<1>2. CASE d.observers = 0
  <2>1. ConnectionError(w, s) = w
    BY <1>2 DEF ConnectionError
  <2> QED BY <1>1, <1>2, <2>1 DEF SameSocket
<1>3. CASE d.observers # 0
  <2>1. a \in Session /\ SameSocket(d, a) /\ ~a.open
    BY <1>1 DEF Session, ObserverStates, SameSocket
  <2>2. e \in Session /\ SameSocket(d, e) /\ e.observers = 0
    <3> HIDE DEF a
    <3> QED BY <2>1 DEF Session, SameSocket
  <2>3. /\ u \in Pairs /\ u.page = w.page /\ u.session = [w.session EXCEPT ![s] = a]
        /\ u.session[s] = a
    BY <2>1, WithFields
  <2>4. OnError(w, s) = u
    <3>1. CASE d.kind = "query"
      <4>1. ~d.subscribed
        BY <1>3, <3>1 DEF Gone
      <4>2. Told(w, s, "error") = w
        BY <4>1 DEF Told
      <4> QED BY <3>1, <4>2 DEF OnError, Awaits
    <3>2. CASE d.kind # "query"
      <4>1. OnError(w, s) = Told(u, s, "error")
        BY <3>2 DEF OnError, Awaits
      <4>2. Close(a) = a
        BY <2>1 DEF Close
      <4>3. With(u, s, a) = u
        <5> HIDE DEF a
        <5>1. w.session \in [Sessions -> Session]
          BY DEF Pairs
        <5> QED BY <2>1, <5>1 DEF With
      <4>4. a.kind # "query"
        BY <2>1, <3>2 DEF SameSocket
      <4> HIDE DEF a, u
      <4>5. Told(u, s, "error") = u
        BY <2>3, <4>2, <4>3, <4>4 DEF Told
      <4> QED BY <4>1, <4>5
    <3> QED BY <3>1, <3>2
  <2>5. ConnectionError(w, s) = With(u, s, e)
    <3> HIDE DEF a, u
    <3> QED BY <1>3, <2>3, <2>4 DEF ConnectionError
  <2> HIDE DEF a, u, e
  <2>6. /\ With(u, s, e) \in Pairs /\ With(u, s, e).page = u.page
        /\ With(u, s, e).session = [u.session EXCEPT ![s] = e] /\ With(u, s, e).session[s] = e
    BY <2>2, <2>3, WithFields
  <2>7. [u.session EXCEPT ![s] = e] = [w.session EXCEPT ![s] = e]
    BY <1>1, <2>3
  <2> QED BY <2>2, <2>3, <2>5, <2>6, <2>7
<1> QED BY <1>2, <1>3

\* Messages for which there is nobody are ignored.
LEMMA HandleClosed ==
  ASSUME NEW w, NEW s, NEW m, w.session[s].observers = 0
  PROVE  Handle(w, s, m) = w
BY DEF Handle

\* v is w after session s has asked for more.
AsksOn(w, s, v) ==
  LET d == w.session[s]
      e == v.session[s]
  IN  /\ v.session = [w.session EXCEPT ![s] = e] /\ v.page = w.page
      /\ e \in Session /\ Opening(e)
      /\ e.kind = d.kind /\ e.readyState = "OPEN" /\ e.wsOpen
      /\ e.pendingRequests = d.pendingRequests /\ e.state = "WAITING_PULL"
      /\ e.toServer = Append(d.toServer, "PULL")

\* A success after which more is to come: the next request goes out, and its observer
\* takes the place of the one that is done.
LEMMA HandleMore ==
  ASSUME NEW w \in Pairs, NEW s \in Sessions, NEW m, m.type = "SUCCESS",
         Opening(w.session[s]), w.session[s].readyState = "OPEN", w.session[s].wsOpen,
         w.session[s].kind # "catalog",
         w.session[s].state = "WAITING_RUN" \/ m.hasNext
  PROVE  AsksOn(w, s, Handle(w, s, m))
<1> DEFINE d == w.session[s]
           a == [d EXCEPT !.state = "WAITING_PULL"]
           b == [a EXCEPT !.observers = 2]
           l == Append(d.toServer, "PULL")
           c == [b EXCEPT !.toServer = l]
           e == [c EXCEPT !.observers = 1]
<1>1. d \in Session /\ w.session \in [Sessions -> Session]
  BY DEF Pairs
<1>2. /\ d.open /\ d.connOpen /\ d.observers = 1 /\ d.subscribed /\ ~d.timer
      /\ d.state \in {"WAITING_RUN", "WAITING_PULL"}
  BY <1>1 DEF Opening, Session, ObserverStates
<1>3. l \in Seq(Requests)
  BY <1>1, AppendProperties DEF Session, Requests
<1>l. l = Append(d.toServer, "PULL")
  OBVIOUS
<1> HIDE DEF l
<1>a. /\ a \in Session /\ a.observers = 1 /\ a.connOpen /\ a.wsOpen /\ a.readyState = "OPEN"
      /\ a.open /\ a.subscribed /\ ~a.timer /\ a.kind = d.kind /\ a.state = "WAITING_PULL"
      /\ a.toServer = d.toServer /\ a.pendingRequests = d.pendingRequests
  BY <1>1, <1>2 DEF Session, ObserverStates
<1>b. a = [d EXCEPT !.state = "WAITING_PULL"]
  OBVIOUS
<1> HIDE DEF a
<1>4. /\ b \in Session /\ b.observers = 2 /\ b.connOpen /\ b.wsOpen /\ b.readyState = "OPEN"
      /\ b.open /\ b.subscribed /\ ~b.timer /\ b.kind = d.kind /\ b.state = "WAITING_PULL"
      /\ b.toServer = d.toServer /\ b.pendingRequests = d.pendingRequests
  BY <1>a DEF Session
<1>5. b = AddObserver(a)
  BY <1>a DEF AddObserver, Session
<1>6. FetchMore(a) = Write(b, "PULL")
  BY <1>5 DEF FetchMore, Send
<1> HIDE DEF b
<1>7. FetchMore(a) = c
  BY <1>4, <1>6, <1>l DEF Write
<1>8. /\ c \in Session /\ c.observers = 2 /\ c.connOpen /\ c.wsOpen /\ c.readyState = "OPEN"
      /\ c.open /\ c.subscribed /\ ~c.timer /\ c.kind = d.kind /\ c.state = "WAITING_PULL"
      /\ c.toServer = l /\ c.pendingRequests = d.pendingRequests
  BY <1>3, <1>4 DEF Session
<1> HIDE DEF c
<1>9. OnSuccess(w, s, m) = With(w, s, c)
  <2>1. CASE d.state = "WAITING_RUN"
    BY <2>1, <1>7, <1>b DEF OnSuccess
  <2>2. CASE d.state = "WAITING_PULL" /\ m.hasNext
    <3>1. a = d
      BY <1>1, <1>b, <2>2 DEF Session
    <3> QED BY <2>2, <1>7, <3>1 DEF OnSuccess
  <2> QED BY <1>2, <2>1, <2>2
<1>10. /\ e \in Session /\ e.observers = 1 /\ e.connOpen /\ e.wsOpen /\ e.readyState = "OPEN"
       /\ e.open /\ e.subscribed /\ ~e.timer /\ e.kind = d.kind /\ e.state = "WAITING_PULL"
       /\ e.toServer = l /\ e.pendingRequests = d.pendingRequests
  BY <1>8 DEF Session
<1>11. /\ With(w, s, c) \in Pairs /\ With(w, s, c).page = w.page
       /\ With(w, s, c).session = [w.session EXCEPT ![s] = c] /\ With(w, s, c).session[s] = c
  BY <1>8, WithFields
<1> DEFINE u == With(w, s, c)
<1> HIDE DEF u
<1>12. Handle(w, s, m) = NextObserver(u, s)
  BY <1>2, <1>9 DEF Handle, u
<1>13. @ = With(u, s, e)
  BY <1>8, <1>11 DEF NextObserver, u
<1>14. Handle(w, s, m) = With(u, s, e)
  BY <1>12, <1>13
<1> HIDE DEF e
<1>15. /\ With(u, s, e).page = u.page
       /\ With(u, s, e).session = [u.session EXCEPT ![s] = e] /\ With(u, s, e).session[s] = e
  BY <1>10, <1>11, WithFields DEF u
<1>16. [u.session EXCEPT ![s] = e] = [w.session EXCEPT ![s] = e]
  BY <1>1, <1>11 DEF u
<1>17. Opening(e)
  BY <1>10 DEF Opening
<1>18. With(u, s, e).session = [w.session EXCEPT ![s] = e] /\ With(u, s, e).page = w.page
  BY <1>11, <1>15, <1>16 DEF u
<1> QED BY <1>10, <1>14, <1>15, <1>17, <1>18, <1>l DEF AsksOn

\* No further request follows the success m.
Last(d, m) == d.kind = "catalog" \/ (d.state = "WAITING_PULL" /\ ~m.hasNext)

\* v is w after session s has had all it asked for.
Finishes(w, s, v) ==
  LET d == w.session[s]
      e == v.session[s]
  IN  /\ v.session = [w.session EXCEPT ![s] = e]
      /\ v.page = IF d.kind = "query" THEN Stopped(w.page, "success") ELSE w.page
      /\ v \in Pairs /\ Over(d, e) /\ e.observers = 0
      /\ e.toServer = Append(d.toServer, "CLOSE")

\* The last success closes the session, and nothing is sent but the close frame.
LEMMA HandleLast ==
  ASSUME NEW w \in Pairs, NEW s \in Sessions, NEW m, m.type = "SUCCESS",
         Opening(w.session[s]), w.session[s].readyState = "OPEN",
         w.session[s].kind = "query" => w.page.current = s,
         Last(w.session[s], m)
  PROVE  Finishes(w, s, Handle(w, s, m))
<1> DEFINE d == w.session[s]
           a == [d EXCEPT !.state = "FINISHED"]
           u == With(w, s, a)
           v == Told(u, s, "success")
           c == Close(a)
           e == [c EXCEPT !.observers = 0]
<1>1. d \in Session /\ w.session \in [Sessions -> Session]
  BY DEF Pairs
<1>2. /\ d.open /\ d.connOpen /\ d.observers = 1 /\ d.subscribed /\ d.state # "FINISHED"
  BY DEF Opening
<1>3. OnSuccess(w, s, m) = v
  <2>1. CASE d.kind = "catalog"
    BY <2>1 DEF OnSuccess
  <2>2. CASE d.kind # "catalog"
    <3>1. d.state = "WAITING_PULL" /\ ~m.hasNext
      BY <2>2 DEF Last
    <3> QED BY <2>2, <3>1 DEF OnSuccess
  <2> QED BY <2>1, <2>2
<1>4. /\ a \in Session /\ a.state = "FINISHED"
      /\ a.open /\ a.connOpen /\ a.observers = 1 /\ a.subscribed
      /\ a.kind = d.kind /\ a.readyState = d.readyState /\ a.wsOpen = d.wsOpen
      /\ a.pendingRequests = d.pendingRequests /\ a.toServer = d.toServer
  BY <1>1, <1>2 DEF Session, ObserverStates
<1> HIDE DEF a
<1>5. u \in Pairs /\ u.page = w.page /\ u.session = [w.session EXCEPT ![s] = a] /\ u.session[s] = a
  BY <1>4, WithFields
<1> HIDE DEF u
<1>6. /\ v \in Pairs /\ v.session = [u.session EXCEPT ![s] = Close(a)]
      /\ v.page = IF d.kind = "query" THEN Stopped(u.page, "success") ELSE u.page
  <2>1. /\ u.session[s].open /\ u.session[s].connOpen /\ u.session[s].observers = 1
        /\ u.session[s].subscribed
    BY <1>4, <1>5
  <2>2. u.session[s].kind = "query" => u.page.current = s
    BY <1>4, <1>5
  <2>3. u.session[s].kind = d.kind /\ u \in Pairs
    BY <1>4, <1>5
  <2>4. "success" \in Outcomes
    BY DEF Outcomes
  <2>5. LET t == Told(u, s, "success")
        IN  /\ t \in Pairs
            /\ t.session = [u.session EXCEPT ![s] = Close(u.session[s])]
            /\ t.page = IF u.session[s].kind = "query" THEN Stopped(u.page, "success") ELSE u.page
    BY <2>1, <2>2, <2>3, <2>4, ToldOpen, Zenon
  <2> QED BY <1>5, <2>3, <2>5
<1>7. Over(a, c) /\ c.observers = 1 /\ c.toServer = Append(a.toServer, "CLOSE")
  BY <1>1, <1>4, CloseFinished DEF Opening
<1>8. v.session[s] = c
  BY <1>5, <1>6 DEF Pairs
<1> HIDE DEF c, v
<1>9. Handle(w, s, m) = With(v, s, e)
  <2>1. Handle(w, s, m) = NextObserver(OnSuccess(w, s, m), s)
    BY <1>2 DEF Handle
  <2>2. NextObserver(v, s) = With(v, s, e)
    BY <1>7, <1>8 DEF NextObserver
  <2> QED BY <1>3, <2>1, <2>2
<1>10. Over(d, e) /\ e.observers = 0 /\ e.toServer = Append(d.toServer, "CLOSE")
  <2>1. Over(a, c) /\ c.toServer = Append(d.toServer, "CLOSE")
    BY <1>4, <1>7
  <2>2. e \in Session /\ SameSocket(c, e) /\ e.observers = 0
    <3>1. c \in Session
      BY <2>1 DEF Over
    <3> QED BY <3>1 DEF Session, SameSocket
  <2> HIDE DEF e
  <2>3. Over(d, e)
    BY <1>4, <2>1, <2>2 DEF Over, SameSocket
  <2> QED BY <2>1, <2>2, <2>3 DEF SameSocket
<1> HIDE DEF e
<1>11. /\ With(v, s, e) \in Pairs /\ With(v, s, e).page = v.page
       /\ With(v, s, e).session = [v.session EXCEPT ![s] = e] /\ With(v, s, e).session[s] = e
  BY <1>6, <1>10, WithFields DEF Over
<1>12. [v.session EXCEPT ![s] = e] = [w.session EXCEPT ![s] = e]
  BY <1>1, <1>5, <1>6
<1> QED BY <1>5, <1>6, <1>9, <1>10, <1>11, <1>12 DEF Finishes

\* An error closes the session.
LEMMA HandleError ==
  ASSUME NEW w \in Pairs, NEW s \in Sessions, NEW m, m.type = "ERROR",
         Opening(w.session[s]),
         w.session[s].kind = "query" => w.page.current = s
  PROVE  LET v == Handle(w, s, m)
             d == w.session[s]
             e == v.session[s]
         IN  /\ v.session = [w.session EXCEPT ![s] = e]
             /\ v.page = IF d.kind = "query" THEN Stopped(w.page, "error") ELSE w.page
             /\ v \in Pairs /\ Over(d, e) /\ Gone(e)
<1> DEFINE d == w.session[s]
           u == OnError(w, s)
           c == u.session[s]
           e == [c EXCEPT !.observers = IF c.observers = 0 THEN 0 ELSE c.observers - 1]
<1>1. /\ u \in Pairs /\ Over(d, c) /\ u.session = [w.session EXCEPT ![s] = c]
      /\ u.page = IF d.kind = "query" THEN Stopped(w.page, "error") ELSE w.page
      /\ d.kind = "query" => ~c.subscribed
  BY OnErrorOpen
<1>2. d.observers # 0
  BY DEF Opening
<1>3. Handle(w, s, m) = With(u, s, e)
  BY <1>2 DEF Handle, NextObserver
<1> HIDE DEF u, c
<1>4. Over(d, e) /\ Gone(e)
  BY <1>1 DEF Over, Session, Gone
<1> HIDE DEF e
<1>5. /\ With(u, s, e) \in Pairs /\ With(u, s, e).page = u.page
      /\ With(u, s, e).session = [u.session EXCEPT ![s] = e] /\ With(u, s, e).session[s] = e
  BY <1>1, <1>4, WithFields DEF Over
<1>6. [u.session EXCEPT ![s] = e] = [w.session EXCEPT ![s] = e]
  BY <1>1 DEF Pairs
<1> QED BY <1>1, <1>3, <1>4, <1>5, <1>6

\* A row is shown if it is of a query.
LEMMA HandleRecord ==
  ASSUME NEW w \in Pairs, NEW s \in Sessions, NEW m, m.type = "RECORD",
         Opening(w.session[s])
  PROVE  LET v == Handle(w, s, m)
         IN  /\ v.session = w.session
             /\ v.page = IF w.session[s].kind = "query"
                         THEN [w.page EXCEPT !.pending = Append(@, m.row)] ELSE w.page
BY DEF Handle, OnRecord, Opening, Pairs

\* d became e when the connection ended.
HungUp(d, e) ==
  /\ e \in Session /\ ~e.open /\ ~e.connOpen /\ Gone(e)
  /\ e.kind = d.kind /\ e.readyState = "CLOSED" /\ e.toServer = d.toServer
  /\ e.wsOpen => d.wsOpen /\ e.pendingRequests = d.pendingRequests

\* The end of the connection, with an error or without the handshake if the session
\* was open, closes the session.
LEMMA CloseEventFields ==
  ASSUME NEW w \in Pairs, NEW s \in Sessions, NEW errs \in BOOLEAN, NEW wasClean \in BOOLEAN,
         \/ Opening(w.session[s]) /\ (errs \/ ~wasClean)
         \/ ~w.session[s].open /\ ~w.session[s].connOpen /\ Gone(w.session[s]),
         w.session[s].open /\ w.session[s].kind = "query" => w.page.current = s
  PROVE  LET v == CloseEvent(w, s, errs, wasClean)
             d == w.session[s]
             e == v.session[s]
         IN  /\ v \in Pairs /\ HungUp(d, e)
             /\ v.session = [w.session EXCEPT ![s] = e]
             /\ v.page = IF d.open /\ d.kind = "query" THEN Stopped(w.page, "error") ELSE w.page
<1> DEFINE d == w.session[s]
           a == [d EXCEPT !.readyState = "CLOSED"]
           v == With(w, s, a)
           r == CloseEvent(w, s, errs, wasClean)
<1>1. d \in Session /\ w.session \in [Sessions -> Session]
  BY DEF Pairs
<1>2. /\ a \in Session /\ a.readyState = "CLOSED" /\ a.kind = d.kind /\ a.wsOpen = d.wsOpen
      /\ a.connOpen = d.connOpen /\ a.pendingRequests = d.pendingRequests
      /\ a.timer = d.timer /\ a.open = d.open /\ a.observers = d.observers
      /\ a.state = d.state /\ a.subscribed = d.subscribed /\ a.toServer = d.toServer
  BY <1>1 DEF Session, ReadyStates
<1> HIDE DEF a
<1>3. /\ v \in Pairs /\ v.page = w.page /\ v.session = [w.session EXCEPT ![s] = a]
      /\ v.session[s] = a
  BY <1>2, WithFields
<1>4. \A c \in Session : [v.session EXCEPT ![s] = c] = [w.session EXCEPT ![s] = c]
  BY <1>1, <1>3
<1>5. r = LET u == IF errs THEN ConnectionError(v, s) ELSE v
              t == IF wasClean THEN u ELSE ConnectionError(u, s)
          IN  IF u.session[s].open
              THEN With(t, s, [t.session[s] EXCEPT !.connOpen = FALSE])
              ELSE With(u, s, [u.session[s] EXCEPT !.wsOpen = FALSE])
  BY DEF CloseEvent, a
<1> HIDE DEF v, r
<1>6. CASE Opening(d) /\ (errs \/ ~wasClean)
  <2> DEFINE u == ConnectionError(v, s)
             c == u.session[s]
             e == IF errs THEN [c EXCEPT !.wsOpen = FALSE] ELSE [c EXCEPT !.connOpen = FALSE]
  <2>1. Opening(v.session[s])
    BY <1>2, <1>3, <1>6 DEF Opening
  <2>2. v.session[s].kind = "query" => v.page.current = s
    BY <1>2, <1>3, <1>6 DEF Opening
  <2>3. /\ u \in Pairs /\ Over(a, c) /\ Gone(c) /\ u.session = [v.session EXCEPT ![s] = c]
        /\ u.page = IF a.kind = "query" THEN Stopped(v.page, "error") ELSE v.page
    <3>1. /\ u \in Pairs /\ Over(v.session[s], c) /\ Gone(c) /\ u.session = [v.session EXCEPT ![s] = c]
          /\ u.page = IF v.session[s].kind = "query" THEN Stopped(v.page, "error") ELSE v.page
      BY <1>3, <2>1, <2>2, ConnectionErrorOpen, Zenon
    <3> QED BY <1>3, <3>1
  <2>4. ~c.open /\ a.open
    BY <1>2, <1>6, <2>3 DEF Over, Opening
  <2>5. r = With(u, s, e)
    <3>1. CASE errs
      BY <1>5, <2>4, <3>1
    <3>2. CASE ~errs /\ ~wasClean
      BY <1>3, <1>5, <2>4, <3>2
    <3> QED BY <1>6, <3>1, <3>2
  <2>6. HungUp(d, e)
    <3> HIDE DEF c
    <3>1. c \in Session /\ ~c.open /\ ~c.connOpen /\ Gone(c)
      BY <2>3 DEF Over
    <3>2. /\ c.kind = d.kind /\ c.readyState = "CLOSED" /\ c.toServer = d.toServer
          /\ c.wsOpen = d.wsOpen /\ (d.wsOpen => c.pendingRequests = d.pendingRequests)
      BY <1>2, <2>3 DEF Over
    <3>3. CASE errs
      BY <3>1, <3>2, <3>3 DEF HungUp, Session, Gone
    <3>4. CASE ~errs
      <4>1. e = [c EXCEPT !.connOpen = FALSE]
        BY <3>4
      <4> QED BY <3>1, <3>2, <4>1 DEF HungUp, Session, Gone
    <3> QED BY <3>3, <3>4
  <2> HIDE DEF e, c, u
  <2>7. /\ With(u, s, e) \in Pairs /\ With(u, s, e).page = u.page
        /\ With(u, s, e).session = [u.session EXCEPT ![s] = e] /\ With(u, s, e).session[s] = e
    BY <2>3, <2>6, WithFields DEF HungUp
  <2>8. [u.session EXCEPT ![s] = e] = [w.session EXCEPT ![s] = e]
    BY <1>1, <1>3, <2>3
  <2>9. d.open /\ a.kind = d.kind
    BY <1>2, <1>6 DEF Opening
  <2> QED BY <1>3, <2>3, <2>5, <2>6, <2>7, <2>8, <2>9 DEF r
<1>7. CASE ~d.open /\ ~d.connOpen /\ Gone(d)
  <2> DEFINE u == IF errs THEN ConnectionError(v, s) ELSE v
             c == u.session[s]
             e == [c EXCEPT !.wsOpen = FALSE]
  <2>1. /\ u \in Pairs /\ SameSocket(a, c) /\ Gone(c) /\ u.session = [v.session EXCEPT ![s] = c]
        /\ u.page = w.page
    <3>1. CASE errs
      <4>1. ~v.session[s].open /\ Gone(v.session[s])
        BY <1>2, <1>3, <1>7 DEF Gone
      <4>2. /\ u \in Pairs /\ SameSocket(v.session[s], c) /\ c.observers = 0
            /\ u.session = [v.session EXCEPT ![s] = c] /\ u.page = v.page
        BY <1>3, <3>1, <4>1, ConnectionErrorClosed
      <4> QED BY <1>3, <4>2 DEF Gone
    <3>2. CASE ~errs
      <4>1. u = v /\ c = a
        BY <1>3, <3>2
      <4>2. v.session = [v.session EXCEPT ![s] = a]
        BY <1>1, <1>3
      <4> QED BY <1>2, <1>3, <1>7, <4>1, <4>2 DEF SameSocket, Gone
    <3> QED BY <3>1, <3>2
  <2>2. ~c.open
    BY <1>2, <1>7, <2>1 DEF SameSocket
  <2>3. r = With(u, s, e)
    BY <1>5, <2>2
  <2> HIDE DEF c, u
  <2>4. HungUp(d, e)
    BY <1>2, <1>7, <2>1 DEF HungUp, SameSocket, Session, Gone
  <2> HIDE DEF e
  <2>5. /\ With(u, s, e) \in Pairs /\ With(u, s, e).page = u.page
        /\ With(u, s, e).session = [u.session EXCEPT ![s] = e] /\ With(u, s, e).session[s] = e
    BY <2>1, <2>4, WithFields DEF HungUp
  <2>6. [u.session EXCEPT ![s] = e] = [w.session EXCEPT ![s] = e]
    BY <1>1, <1>3, <2>1
  <2> QED BY <1>7, <2>1, <2>3, <2>4, <2>5, <2>6 DEF r
<1> QED BY <1>6, <1>7

-----------------------------------------------------------------------------
(***************************************************************************)
(* The table.                                                              *)
(***************************************************************************)
LEMMA TableType ==
  ASSUME NEW p \in Page
  PROVE  /\ Table(p) \in Seq(Sessions \X Nat) /\ Len(Table(p)) \in Nat
         /\ Len(Table(p)) = Len(p.rows) + Len(p.pending)
         /\ \A k \in 1 .. Len(Table(p)) : Table(p)[k] \in Sessions \X Nat
<1>1. p.rows \in Seq(Sessions \X Nat) /\ p.pending \in Seq(Sessions \X Nat)
  BY DEF Page
<1>2. /\ Table(p) \in Seq(Sessions \X Nat)
      /\ Len(Table(p)) = Len(p.rows) + Len(p.pending)
  BY <1>1, ConcatProperties DEF Table
<1> HIDE DEF Table
<1>3. Len(Table(p)) \in Nat
  BY <1>2, LenProperties
<1>4. \A k \in 1 .. Len(Table(p)) : Table(p)[k] \in Sessions \X Nat
  BY <1>2, ElementOfSeq
<1> QED BY <1>2, <1>3, <1>4

LEMMA ShownNat ==
  ASSUME NEW p \in Page, PageInv(p)
  PROVE  Shown(p) \in Nat /\ Shown(p) <= Len(Table(p))
<1>1. Shown(p) \in 0 .. Len(Table(p)) /\ Len(Table(p)) \in Nat
  BY TableType DEF PageInv, TableInv
<1> QED BY <1>1

\* Two pages with the same table and query.
LEMMA SameTable ==
  ASSUME NEW p, NEW r, Table(r) = Table(p), r.query = p.query
  PROVE  /\ Shown(r) = Shown(p) /\ (TableInv(p) => TableInv(r))
         /\ \A s \in Sessions : NoRows(s, p) => NoRows(s, r)
BY DEF Shown, TableInv, NoRows

\* A table with none of the rows of the query.
LEMMA NoneShown ==
  ASSUME NEW p \in Page, NoRows(p.query, p)
  PROVE  Shown(p) = 0 /\ TableInv(p)
<1> DEFINE t == Table(p)
<1>1. Len(t) \in Nat /\ \A k \in 1 .. Len(t) : t[k][1] # p.query
  BY TableType DEF NoRows
<1>2. Shown(p) = 0
  BY <1>1 DEF Shown
<1> HIDE DEF t
<1>3. Len(t) - 0 = Len(t) /\ 0 \in 0 .. Len(t) /\ \A k \in 1 .. Len(t) : k <= Len(t)
  BY <1>1
<1> QED BY <1>1, <1>2, <1>3 DEF TableInv, t

\* The next row of the query is queued.
LEMMA OneMore ==
  ASSUME NEW p \in Page, PageInv(p), NEW r \in Page, r.rows = p.rows, r.query = p.query,
         p.query \in Sessions, r.pending = Append(p.pending, <<p.query, Shown(p) + 1>>)
  PROVE  /\ Shown(r) = Shown(p) + 1 /\ TableInv(r)
         /\ \A s \in Sessions \ {p.query} : NoRows(s, p) => NoRows(s, r)
<1> DEFINE t == Table(p)
           u == Table(r)
           n == Shown(p)
           row == <<p.query, n + 1>>
           l == Len(t)
<1>1. n \in Nat /\ n <= l /\ l \in Nat
  BY ShownNat, TableType
<1>2. /\ p.rows \in Seq(Sessions \X Nat) /\ p.pending \in Seq(Sessions \X Nat)
      /\ row \in Sessions \X Nat
  BY <1>1 DEF Page
<1>3. \A k \in 1 .. l : IF k <= l - n THEN t[k][1] # p.query ELSE t[k] = <<p.query, k - (l - n)>>
  BY DEF PageInv, TableInv
<1> HIDE DEF n
<1>4. u = Append(t, row)
  <2>1. u = p.rows \o Append(p.pending, row)
    BY DEF Table, n
  <2> HIDE DEF row
  <2>2. p.rows \o Append(p.pending, row) = Append(p.rows \o p.pending, row)
    <3> DEFINE a == p.rows
               b == p.pending
               S == Sessions \X Nat
    <3>1. a \in Seq(S) /\ b \in Seq(S) /\ row \in S
      BY <1>2
    <3> HIDE DEF a, b, S
    <3>2. <<row>> \in Seq(S) /\ a \o b \in Seq(S)
      BY <3>1, ConcatProperties
    <3>3. Append(b, row) = b \o <<row>> /\ Append(a \o b, row) = (a \o b) \o <<row>>
      BY <3>1, <3>2, AppendIsConcat
    <3>4. (a \o b) \o <<row>> = a \o (b \o <<row>>)
      BY <3>1, <3>2, ConcatAssociative
    <3>5. a \o Append(b, row) = Append(a \o b, row)
      BY <3>3, <3>4
    <3> QED BY <3>5 DEF a, b
  <2> QED BY <2>1, <2>2 DEF Table
<1>5. /\ Len(u) = l + 1 /\ u[l + 1] = row
      /\ \A k \in 1 .. l : u[k] = t[k]
  <2>1. t \in Seq(Sessions \X Nat)
    BY TableType
  <2> HIDE DEF t, row, u
  <2> QED BY <1>2, <1>4, <2>1, AppendProperties
<1> HIDE DEF t, u, l
<1>6. row[1] = r.query /\ row[2] = n + 1
  OBVIOUS
<1>7. Shown(r) = n + 1
  <2>1. Len(u) # 0
    BY <1>1, <1>5
  <2> QED BY <1>5, <1>6, <2>1 DEF Shown, u
<1>8. TableInv(r)
  <2>1. Len(u) - Shown(r) = l - n /\ Shown(r) \in 0 .. Len(u)
    BY <1>1, <1>5, <1>7
  <2>2. ASSUME NEW k \in 1 .. Len(u)
        PROVE  IF k <= l - n THEN u[k][1] # r.query ELSE u[k] = <<r.query, k - (l - n)>>
    <3>1. CASE k \in 1 .. l
      BY <1>3, <1>5, <3>1
    <3>2. CASE k = l + 1
      <4>1. ~(k <= l - n) /\ k - (l - n) = n + 1
        BY <1>1, <3>2
      <4> QED BY <1>5, <3>2, <4>1
    <3>3. k \in 1 .. l \/ k = l + 1
      BY <1>1, <1>5
    <3> QED BY <3>1, <3>2, <3>3
  <2> QED BY <2>1, <2>2 DEF TableInv, u
<1>9. ASSUME NEW s \in Sessions, s # p.query, NoRows(s, p)
      PROVE  NoRows(s, r)
  <2>1. \A k \in 1 .. l : t[k][1] # s
    BY <1>9 DEF NoRows, l, t
  <2>2. \A k \in 1 .. Len(u) : k \in 1 .. l \/ k = l + 1
    BY <1>1, <1>5
  <2>3. \A k \in 1 .. Len(u) : u[k][1] # s
    BY <1>5, <1>6, <1>9, <2>1, <2>2
  <2> QED BY <2>3 DEF NoRows, u
<1> QED BY <1>7, <1>8, <1>9 DEF n

\* Run empties the table but for the rows that are queued.
LEMMA Emptied ==
  ASSUME NEW p \in Page, NEW r \in Page, r.rows = <<>>, r.pending = p.pending
  PROVE  \A s \in Sessions : NoRows(s, p) => NoRows(s, r)
<1> DEFINE a == p.rows
           b == p.pending
<1>1. a \in Seq(Sessions \X Nat) /\ b \in Seq(Sessions \X Nat)
  BY DEF Page
<1>2. Table(p) = a \o b /\ Table(r) = b
  <2>1. <<>> \o b = b
    BY <1>1, ConcatEmptySeq
  <2> QED BY <2>1 DEF Table
<1> HIDE DEF a, b
<1>3. Len(a) \in Nat /\ Len(b) \in Nat /\ Len(a \o b) = Len(a) + Len(b)
  BY <1>1, LenProperties, ConcatProperties
<1>4. ASSUME NEW k \in 1 .. Len(b)
      PROVE  Len(a) + k \in 1 .. Len(a \o b) /\ (a \o b)[Len(a) + k] = b[k]
  <2>1. Len(a) + k \in 1 .. Len(a) + Len(b) /\ ~(Len(a) + k <= Len(a)) /\ (Len(a) + k) - Len(a) = k
    BY <1>3
  <2> QED BY <1>1, <1>3, <2>1
<1>5. ASSUME NEW s \in Sessions, NoRows(s, p)
      PROVE  NoRows(s, r)
  <2>1. \A k \in 1 .. Len(a \o b) : (a \o b)[k][1] # s
    BY <1>2, <1>5 DEF NoRows
  <2>2. \A k \in 1 .. Len(b) : b[k][1] # s
    BY <1>4, <2>1
  <2> QED BY <1>2, <2>2 DEF NoRows
<1> QED BY <1>5

\* A new page.
LEMMA NewPageInv ==
  /\ NewPage \in Page /\ PageInv(NewPage) /\ NewPage.current = NoSession
  /\ NewPage.query = NoSession /\ NewPage.outcome = "none"
  /\ \A s \in Sessions : NoRows(s, NewPage)
<1>1. /\ NewPage \in Page /\ NewPage.current = NoSession /\ NewPage.query = NoSession
      /\ NewPage.outcome = "none" /\ ~NewPage.running
      /\ NewPage.rows = <<>> /\ NewPage.pending = <<>>
  BY EmptySeq DEF NewPage, Page
<1>2. Len(Table(NewPage)) = 0
  BY <1>1 DEF Table
<1>3. \A s : NoRows(s, NewPage)
  BY <1>2 DEF NoRows
<1>4. TableInv(NewPage)
  BY <1>1, <1>3, NoneShown
<1> QED BY <1>1, <1>3, <1>4, ConstantsAssumption DEF PageInv

-----------------------------------------------------------------------------
(***************************************************************************)
(* Steps.  Each touches one session, and the page if it is the page's, or  *)
(* the page alone.                                                         *)
(***************************************************************************)
LEMMA InitInv == Init => IInv
<1> SUFFICES ASSUME Init PROVE IInv
  OBVIOUS
<1> USE DEF Init
<1>1. Fresh \in Session
  BY EmptySeq DEF Fresh, Session, Kinds, ReadyStates, ObserverStates
<1>2. NoServer \in ServerSession /\ NoServer.row <= NoServer.rows
  BY DEF NoServer, ServerSession
<1>3. page \in Page
  BY NewPageInv
<1>4. TypeOK
  <2>1. session \in [Sessions -> Session] /\ server \in [Sessions -> ServerSession]
    BY <1>1, <1>2
  <2>2. toBrowser \in [Sessions -> Seq(Messages)]
    BY EmptySeq
  <2> QED BY <1>2, <1>3, <2>1, <2>2 DEF TypeOK
<1>5. PageInv(page)
  BY NewPageInv
<1>6. ASSUME NEW s \in Sessions
      PROVE  SessionInv(Fresh, NoServer, <<>>) /\ ShowsInv(s, Fresh, NoServer, <<>>, page)
  <2>1. Connected(Fresh, NoServer, <<>>)
    BY DEF Connected, Fresh, NoServer
  <2>2. ~Fresh.open
    BY DEF Fresh
  <2>3. s # page.current /\ page.outcome # "success" /\ NoRows(s, page)
    BY ConstantsAssumption, NewPageInv
  <2> QED BY <2>1, <2>2, <2>3 DEF SessionInv, Talking, ShowsInv, CurrentInv
<1> QED BY <1>4, <1>5, <1>6 DEF IInv

\* A step that touches one session, and the page only if that session is its current
\* one, or a new one.
Local(s) ==
  /\ session' = [session EXCEPT ![s] = session'[s]]
  /\ toBrowser' = [toBrowser EXCEPT ![s] = toBrowser'[s]]
  /\ page' = page \/ page.current = s \/ session[s] = Fresh

\* A step of the page alone.
OfThePage == session' = session /\ toBrowser' = toBrowser

\* Such a step is judged by that session and the page.
LEMMA StepInv ==
  ASSUME IInv, NEW s \in Sessions,
         session' = [session EXCEPT ![s] = session'[s]], session'[s] \in Session,
         server' = [server EXCEPT ![s] = server'[s]], server'[s] \in ServerSession,
         server'[s].row <= server'[s].rows,
         toBrowser' = [toBrowser EXCEPT ![s] = toBrowser'[s]], toBrowser'[s] \in Seq(Messages),
         page' \in Page, PageInv(page'),
         \/ page' = page
         \/ /\ page.current = s \/ (page.current = NoSession /\ session[s] = Fresh)
            /\ page'.current \in {s, NoSession} /\ page'.query = s
            /\ \A t \in Sessions \ {s} : NoRows(t, page) => NoRows(t, page'),
         SessionInv(session'[s], server'[s], toBrowser'[s]),
         ShowsInv(s, session'[s], server'[s], toBrowser'[s], page')
  PROVE  IInv' /\ Local(s)
<1>1. /\ session \in [Sessions -> Session] /\ server \in [Sessions -> ServerSession]
      /\ toBrowser \in [Sessions -> Seq(Messages)]
      /\ \A t \in Sessions : server[t].row <= server[t].rows
  BY DEF IInv, TypeOK
<1>2. \A t \in Sessions \ {s} : session'[t] = session[t] /\ server'[t] = server[t]
                                /\ toBrowser'[t] = toBrowser[t]
  BY <1>1
<1>3. TypeOK'
  <2>1. session' \in [Sessions -> Session] /\ server' \in [Sessions -> ServerSession]
        /\ toBrowser' \in [Sessions -> Seq(Messages)]
    BY <1>1
  <2>2. \A t \in Sessions : server'[t].row <= server'[t].rows
    BY <1>1, <1>2
  <2> QED BY <2>1, <2>2 DEF TypeOK
<1>4. ASSUME NEW t \in Sessions
      PROVE  /\ SessionInv(session'[t], server'[t], toBrowser'[t])
             /\ ShowsInv(t, session'[t], server'[t], toBrowser'[t], page')
  <2>1. CASE t = s
    BY <2>1
  <2>2. CASE t # s
    <3>1. /\ SessionInv(session[t], server[t], toBrowser[t])
          /\ ShowsInv(t, session[t], server[t], toBrowser[t], page)
      BY DEF IInv
    <3>2. CASE page' = page
      BY <1>2, <2>2, <3>1, <3>2
    <3>3. CASE /\ page.current \in {s, NoSession}
               /\ page'.current \in {s, NoSession} /\ page'.query = s
               /\ \A u \in Sessions \ {s} : NoRows(u, page) => NoRows(u, page')
      <4>1. t # page.current /\ t # page'.current /\ t # page'.query
        BY <2>2, <3>3, ConstantsAssumption
      <4>2. CurrentInv(t, session[t], page')
        BY <3>1, <4>1 DEF ShowsInv, CurrentInv
      <4>4. session[t] = Fresh => NoRows(t, page')
        BY <2>2, <3>1, <3>3 DEF ShowsInv
      <4>3. ShowsInv(t, session[t], server[t], toBrowser[t], page')
        BY <4>1, <4>2, <4>4 DEF ShowsInv
      <4> QED BY <1>2, <2>2, <3>1, <4>3
    <3> QED BY <3>2, <3>3
  <2> QED BY <2>1, <2>2
<1> QED BY <1>3, <1>4 DEF IInv, Local

\* The invariant of one session, unfolded as the steps need it.
LEMMA AtSession ==
  ASSUME IInv, NEW s \in Sessions
  PROVE  /\ session[s] \in Session /\ server[s] \in ServerSession
         /\ toBrowser[s] \in Seq(Messages) /\ page \in Page /\ PageInv(page)
         /\ server[s].row <= server[s].rows
         /\ Now \in Pairs /\ Now.session[s] = session[s] /\ Now.page = page
         /\ Now.session = session
         /\ SessionInv(session[s], server[s], toBrowser[s])
         /\ CurrentInv(s, session[s], page) /\ (session[s] = Fresh => NoRows(s, page))
         /\ s = page.current => ShownInv(s, session[s], server[s], toBrowser[s], Shown(page))
         /\ s = page.query /\ page.outcome = "success"
              => SuccessInv(session[s], server[s], Shown(page))
<1>1. /\ session \in [Sessions -> Session] /\ server \in [Sessions -> ServerSession]
      /\ toBrowser \in [Sessions -> Seq(Messages)] /\ page \in Page
      /\ server[s].row <= server[s].rows
  BY DEF IInv, TypeOK
<1>2. Now \in Pairs /\ Now.session = session /\ Now.page = page
  BY <1>1 DEF Now, Pairs
<1>3. /\ PageInv(page) /\ SessionInv(session[s], server[s], toBrowser[s])
      /\ ShowsInv(s, session[s], server[s], toBrowser[s], page)
  BY DEF IInv
<1> QED BY <1>1, <1>2, <1>3 DEF ShowsInv

\* A closed session has nothing to say but what its connection does.
LEMMA ClosedInv ==
  ASSUME NEW d, NEW x, NEW q, Closing(d), Connected(d, x, q)
  PROVE  SessionInv(d, x, q)
BY DEF SessionInv, Used, Talking, Closing

\* A closed session is not a fresh one.
LEMMA ClosedIsNotFresh ==
  ASSUME NEW d, ~d.connOpen PROVE d # Fresh
BY DEF Fresh

\* An open session in the words of the invariant.
LEMMA OpenFacts ==
  ASSUME NEW d, NEW x, NEW q, SessionInv(d, x, q), d.open
  PROVE  /\ Opening(d) /\ Connected(d, x, q) /\ InOrder(d, q) /\ d # Fresh
         /\ \/ Connecting(d)
            \/ /\ d.readyState = "OPEN"
               /\ Asked(d, x, q) \/ Kept(d, x, q) \/ Answered(d, x, q) \/ Expired(d, x, q) \/ Lost(q)
<1>1. d # Fresh
  BY DEF Fresh
<1> QED BY <1>1 DEF SessionInv, Used, Closing, Talking

\* ... and one whose connection is established.
LEMMA ConnectedFacts ==
  ASSUME NEW d, NEW x, NEW q, SessionInv(d, x, q), d.open, d.readyState = "OPEN"
  PROVE  /\ Opening(d) /\ Connected(d, x, q) /\ InOrder(d, q) /\ d # Fresh
         /\ Asked(d, x, q) \/ Kept(d, x, q) \/ Answered(d, x, q) \/ Expired(d, x, q) \/ Lost(q)
<1>1. ~Connecting(d)
  BY DEF Connecting
<1> QED BY <1>1, OpenFacts

\* A used session that is not open.
LEMMA ClosedFacts ==
  ASSUME NEW d, NEW x, NEW q, SessionInv(d, x, q), d # Fresh, ~d.open
  PROVE  Closing(d) /\ Connected(d, x, q)
BY DEF SessionInv, Used, Opening

\* Closing an open session keeps the invariant of the session ...
LEMMA OverInv ==
  ASSUME NEW d, NEW e, NEW x, NEW q, SessionInv(d, x, q), d.open,
         d \in Session, Over(d, e), Gone(e)
  PROVE  SessionInv(e, x, q) /\ Closing(e)
<1>1. /\ Opening(d) /\ Connected(d, x, q)
      /\ d.readyState = "OPEN" \/ Connecting(d)
  BY OpenFacts
<1>2. e # Fresh
  BY ClosedIsNotFresh DEF Over
<1>3. e.readyState = "CONNECTING" => d.readyState = "CONNECTING"
  BY DEF Over
<1>4. Closing(e)
  <2>1. e.readyState # "OPEN"
    BY DEF Over
  <2>2. e.readyState = "CONNECTING" => e.pendingRequests # <<>>
    <3>1. d.readyState = "CONNECTING" => d.pendingRequests = <<Request(d)>>
      BY <1>1 DEF Connecting
    <3>2. <<Request(d)>> # <<>>
      OBVIOUS
    <3> QED BY <1>3, <3>1, <3>2 DEF Over
  <2> QED BY <2>1, <2>2 DEF Closing, Over, Gone
<1>5. Connected(e, x, q)
  BY <1>1, <1>2, <1>3 DEF Connected, Over
<1> QED BY <1>4, <1>5, ClosedInv

\* ... and so does the end of its connection.
LEMMA HungUpInv ==
  ASSUME NEW d, NEW e, NEW x, NEW q, SessionInv(d, x, q), HungUp(d, e)
  PROVE  SessionInv(e, x, q) /\ Closing(e)
<1>1. e # Fresh
  BY ClosedIsNotFresh DEF HungUp
<1>2. Connected(e, x, q)
  BY <1>1 DEF SessionInv, Connected, HungUp
<1>3. Closing(e)
  BY DEF Closing, HungUp, Gone
<1> QED BY <1>2, <1>3, ClosedInv

\* A step of a session that is closed, and stays closed, leaves the page alone.
LEMMA ClosedStep ==
  ASSUME IInv, NEW s \in Sessions, ~session[s].open, ~session'[s].open, page' = page,
         session'[s] # Fresh,
         session' = [session EXCEPT ![s] = session'[s]], session'[s] \in Session,
         server' = [server EXCEPT ![s] = server'[s]], server'[s] \in ServerSession,
         server'[s].row <= server'[s].rows,
         toBrowser' = [toBrowser EXCEPT ![s] = toBrowser'[s]], toBrowser'[s] \in Seq(Messages),
         SessionInv(session'[s], server'[s], toBrowser'[s]),
         SuccessInv(session[s], server[s], Shown(page))
           => SuccessInv(session'[s], server'[s], Shown(page))
  PROVE  IInv' /\ Local(s)
<1>1. page' \in Page /\ PageInv(page')
  BY AtSession
<1>2. s # page.current
  BY AtSession DEF CurrentInv
<1>3. ShowsInv(s, session'[s], server'[s], toBrowser'[s], page')
  <2>1. CurrentInv(s, session'[s], page')
    BY <1>2 DEF CurrentInv
  <2> QED BY <1>2, <2>1, AtSession DEF ShowsInv
<1> QED BY <1>1, <1>3, StepInv

\* The page of a query that ends.
LEMMA StoppedInv ==
  ASSUME NEW p \in Page, PageInv(p), p.current \in Sessions, NEW o \in Outcomes
  PROVE  /\ PageInv(Stopped(p, o)) /\ Stopped(p, o) \in Page
         /\ Shown(Stopped(p, o)) = Shown(p)
         /\ \A s \in Sessions : NoRows(s, p) => NoRows(s, Stopped(p, o))
<1> DEFINE r == Stopped(p, o)
<1>1. /\ r \in Page /\ ~r.running /\ r.current = NoSession /\ r.outcome = o
      /\ r.query = p.query /\ r.rows = p.rows /\ r.pending = p.pending
  BY StoppedType
<1> HIDE DEF r
<1>2. p.query \in Sessions /\ TableInv(p)
  BY DEF PageInv
<1>4. Table(r) = Table(p)
  BY <1>1 DEF Table
<1>5. /\ Shown(r) = Shown(p) /\ TableInv(r)
      /\ \A s \in Sessions : NoRows(s, p) => NoRows(s, r)
  BY <1>1, <1>2, <1>4, SameTable
<1>3. PageInv(r)
  BY <1>1, <1>2, <1>5, ConstantsAssumption DEF PageInv
<1> QED BY <1>1, <1>3, <1>5 DEF r

\* A step that closes a session, of which the page hears if it is of its query.
LEMMA EndStep ==
  ASSUME IInv, NEW s \in Sessions, session[s].open, NEW o \in Outcomes,
         session' = [session EXCEPT ![s] = session'[s]], session'[s] \in Session,
         ~session'[s].open, session'[s] # Fresh, server' = server,
         toBrowser' = [toBrowser EXCEPT ![s] = toBrowser'[s]], toBrowser'[s] \in Seq(Messages),
         page' = IF session[s].kind = "query" THEN Stopped(page, o) ELSE page,
         SessionInv(session'[s], server[s], toBrowser'[s]),
         o = "success" /\ session[s].kind = "query"
           => SuccessInv(session'[s], server[s], Shown(page))
  PROVE  IInv' /\ Local(s)
<1>1. /\ page \in Page /\ PageInv(page) /\ CurrentInv(s, session[s], page)
      /\ server[s] \in ServerSession /\ server[s].row <= server[s].rows
  BY AtSession
<1>2. server' = [server EXCEPT ![s] = server'[s]] /\ server'[s] = server[s]
  BY DEF IInv, TypeOK
<1>3. CASE session[s].kind = "query"
  <2>1. page.current = s /\ page.query = s
    BY <1>1, <1>3 DEF CurrentInv, PageInv
  <2>2. /\ page' \in Page /\ PageInv(page') /\ page'.current = NoSession /\ page'.query = s
        /\ page'.outcome = o /\ Shown(page') = Shown(page)
        /\ \A t \in Sessions : NoRows(t, page) => NoRows(t, page')
    BY <1>1, <1>3, <2>1, StoppedInv, StoppedType
  <2>3. s # NoSession
    BY ConstantsAssumption
  <2>4. ShowsInv(s, session'[s], server'[s], toBrowser'[s], page')
    BY <1>2, <1>3, <2>2, <2>3 DEF ShowsInv, CurrentInv
  <2> QED BY <1>1, <1>2, <2>1, <2>2, <2>4, StepInv
<1>4. CASE session[s].kind # "query"
  <2>1. page' = page /\ s # page.current
    BY <1>1, <1>4 DEF CurrentInv
  <2>2. ~(s = page.query /\ page.outcome = "success")
    BY AtSession DEF SuccessInv
  <2>3. ShowsInv(s, session'[s], server'[s], toBrowser'[s], page')
    BY <2>1, <2>2 DEF ShowsInv, CurrentInv
  <2> QED BY <1>1, <1>2, <2>1, <2>3, StepInv
<1> QED BY <1>3, <1>4

\* A step of an open session that stays open; the page stays, too.
LEMMA OpenStep ==
  ASSUME IInv, NEW s \in Sessions, session[s].open, session'[s].open, page' = page,
         session' = [session EXCEPT ![s] = session'[s]], session'[s] \in Session,
         session'[s].kind = session[s].kind,
         server' = [server EXCEPT ![s] = server'[s]], server'[s] \in ServerSession,
         server'[s].row <= server'[s].rows,
         toBrowser' = [toBrowser EXCEPT ![s] = toBrowser'[s]], toBrowser'[s] \in Seq(Messages),
         SessionInv(session'[s], server'[s], toBrowser'[s]),
         s = page.current => ShownInv(s, session'[s], server'[s], toBrowser'[s], Shown(page))
  PROVE  IInv' /\ Local(s)
<1>1. page' \in Page /\ PageInv(page')
  BY AtSession
<1>2. CurrentInv(s, session'[s], page')
  BY AtSession DEF CurrentInv
<1>3. ~(s = page.query /\ page.outcome = "success") /\ session'[s] # Fresh
  BY AtSession DEF SuccessInv, Fresh
<1>4. ShowsInv(s, session'[s], server'[s], toBrowser'[s], page')
  BY <1>2, <1>3 DEF ShowsInv
<1> QED BY <1>1, <1>4, StepInv

-----------------------------------------------------------------------------
LEMMA EmptyLen ==
  ASSUME NEW S, NEW q \in Seq(S)
  PROVE  Len(q) \in Nat /\ (q = <<>> <=> Len(q) = 0)
BY EmptySeq, LenProperties

\* Taking the first message of a queue.
LEMMA TailFacts ==
  ASSUME NEW q \in Seq(Messages), q # <<>>
  PROVE  /\ Tail(q) \in Seq(Messages) /\ Len(q) \in Nat \ {0}
         /\ Len(Tail(q)) = Len(q) - 1 /\ (Tail(q) = <<>> <=> Len(q) = 1)
         /\ \A k \in 1 .. Len(q) - 1 : Tail(q)[k] = q[k + 1]
         /\ Head(q) = q[1] /\ q[1] \in Messages
<1>1. Len(q) \in Nat \ {0}
  BY EmptySeq
<1>2. q[1] \in Messages
  BY <1>1, ElementOfSeq
<1>3. Tail(q) \in Seq(Messages) /\ Len(Tail(q)) = Len(q) - 1
  BY HeadTailProperties
<1>4. Tail(q) = <<>> <=> Len(q) = 1
  <2> DEFINE t == Tail(q)
  <2>1. t \in Seq(Messages) /\ Len(t) = Len(q) - 1
    BY <1>3
  <2> HIDE DEF t
  <2>2. t = <<>> <=> Len(t) = 0
    BY <2>1, EmptyLen
  <2>3. t = <<>> <=> Len(q) = 1
    BY <1>1, <2>1, <2>2
  <2> QED BY <2>3 DEF t
<1> QED BY <1>1, <1>2, <1>3, <1>4, HeadTailProperties

LEMMA ConnectedTail ==
  ASSUME NEW d, NEW x, NEW q \in Seq(Messages), q # <<>>, Connected(d, x, q)
  PROVE  Connected(d, x, Tail(q))
<1>1. /\ Len(Tail(q)) = Len(q) - 1 /\ Len(q) \in Nat \ {0}
      /\ \A k \in 1 .. Len(q) - 1 : Tail(q)[k] = q[k + 1]
  BY TailFacts
<1>2. x.phase # "none"
  BY DEF Connected
<1> DEFINE t == Tail(q)
<1>3. Len(t) = Len(q) - 1 /\ \A k \in 1 .. Len(q) - 1 : t[k] = q[k + 1]
  BY <1>1
<1> HIDE DEF t
<1>4. ASSUME NEW k \in 1 .. Len(t), IsClosed(t[k])
      PROVE  k = Len(t) /\ x.phase = "closed"
  <2>1. k + 1 \in 1 .. Len(q) /\ t[k] = q[k + 1]
    BY <1>1, <1>3
  <2>2. k + 1 = Len(q) /\ x.phase = "closed"
    BY <1>4, <2>1 DEF Connected
  <2>3. Len(t) = Len(q) - 1 /\ Len(q) \in Nat /\ k \in Nat
    BY <1>1, <1>3
  <2> QED BY <2>2, <2>3
<1>5. Connected(d, x, t)
  BY <1>2, <1>4 DEF Connected
<1> QED BY <1>5 DEF t

\* A message is one of four kinds.
LEMMA MessageKinds ==
  ASSUME NEW m \in Messages
  PROVE  \/ m.type = "RECORD" /\ m.row \in Sessions \X Nat
         \/ m.type = "SUCCESS" /\ m.hasNext \in BOOLEAN
         \/ m.type = "ERROR"
         \/ m.type = "CLOSED" /\ m.wasClean \in BOOLEAN
BY DEF Messages

\* A record goes to the page if it is the page's; the answer is still behind it.
LEMMA RecordStep ==
  ASSUME IInv, NEW s \in Sessions, session[s].readyState = "OPEN", session[s].open,
         toBrowser[s] # <<>>, Head(toBrowser[s]).type = "RECORD",
         Becomes(Handle(Now, s, Head(toBrowser[s]))),
         toBrowser' = [toBrowser EXCEPT ![s] = Tail(@)], server' = server
  PROVE  IInv' /\ Local(s)
<1> DEFINE d == session[s]
           x == server[s]
           q == toBrowser[s]
           t == Tail(q)
           n == Shown(page)
<1>1. /\ d \in Session /\ x \in ServerSession /\ q \in Seq(Messages) /\ page \in Page
      /\ PageInv(page) /\ Now \in Pairs /\ Now.session = session /\ Now.page = page
      /\ x.row <= x.rows /\ SessionInv(d, x, q) /\ CurrentInv(s, d, page)
      /\ s = page.current => ShownInv(s, d, x, q, n)
  BY AtSession
<1>2. /\ Opening(d) /\ Connected(d, x, q) /\ InOrder(d, q) /\ d # Fresh
      /\ Asked(d, x, q) \/ Kept(d, x, q) \/ Answered(d, x, q) \/ Expired(d, x, q) \/ Lost(q)
  <2>1. SessionInv(d, x, q) /\ d.open /\ d.readyState = "OPEN"
    BY <1>1
  <2> QED BY <2>1, ConnectedFacts, Zenon
<1>3. /\ t \in Seq(Messages) /\ Len(q) \in Nat \ {0} /\ Len(t) = Len(q) - 1
      /\ (t = <<>> <=> Len(q) = 1) /\ \A k \in 1 .. Len(q) - 1 : t[k] = q[k + 1]
      /\ Head(q) = q[1] /\ q[1] \in Messages
  <2>1. q \in Seq(Messages)
    BY <1>1
  <2> QED BY <2>1, TailFacts
<1>4. LET v == Handle(Now, s, q[1])
      IN  /\ v.session = session
          /\ v.page = IF d.kind = "query" THEN [page EXCEPT !.pending = Append(@, q[1].row)] ELSE page
  <2>1. Opening(Now.session[s]) /\ Now.session[s].kind = d.kind /\ q[1].type = "RECORD"
    BY <1>1, <1>2, <1>3
  <2> QED BY <1>1, <2>1, HandleRecord
<1>5. /\ session' = session
      /\ page' = IF d.kind = "query" THEN [page EXCEPT !.pending = Append(@, q[1].row)] ELSE page
  BY <1>3, <1>4 DEF Becomes
<1>6. d.state # "WAITING_RUN"
  BY <1>2, <1>3 DEF InOrder
<1>7. /\ session' = [session EXCEPT ![s] = session'[s]] /\ session'[s] = d
      /\ server' = [server EXCEPT ![s] = server'[s]] /\ server'[s] = x
      /\ toBrowser' = [toBrowser EXCEPT ![s] = toBrowser'[s]] /\ toBrowser'[s] = t
  BY <1>5 DEF IInv, TypeOK
<1> HIDE DEF t
<1>8. SessionInv(d, x, t)
  <2>1. Connected(d, x, t)
    BY <1>1, <1>2, ConnectedTail DEF t
  <2>2. InOrder(d, t)
    <3>1. ASSUME NEW k \in 1 .. Len(t), Ends(t[k])
          PROVE  d.toServer = <<>> /\ (k = Len(t) \/ IsClosed(t[k + 1]))
      <4>1. k + 1 \in 1 .. Len(q) /\ t[k] = q[k + 1]
        BY <1>3
      <4>2. d.toServer = <<>> /\ (k + 1 = Len(q) \/ IsClosed(q[k + 1 + 1]))
        BY <1>2, <3>1, <4>1 DEF InOrder
      <4>3. k # Len(t) => t[k + 1] = q[k + 1 + 1]
        BY <1>3
      <4> QED BY <1>3, <4>2, <4>3
    <3> QED BY <1>6, <3>1 DEF InOrder
  <2>3. Kept(d, x, t) \/ Answered(d, x, t) \/ Expired(d, x, t) \/ Lost(t)
    <3>1. CASE Asked(d, x, q)
      BY <3>1 DEF Asked
    <3>2. CASE Kept(d, x, q)
      BY <1>3, <3>2 DEF Kept
    <3>3. CASE Answered(d, x, q)
      <4>1. Len(q) # 1
        BY <1>3, <3>3 DEF Answered, Ends
      <4>2. t[Len(t)] = q[Len(q)]
        BY <1>3, <4>1
      <4> QED BY <1>3, <3>3, <4>1, <4>2 DEF Answered
    <3>4. CASE Expired(d, x, q)
      <4>0. Len(q) > 1 /\ q[Len(q) - 1].type = "ERROR" /\ q[1].type = "RECORD"
        BY <1>3, <3>4 DEF Expired, Error
      <4>1. Len(q) # 2
        <5>1. Len(q) = 2 => Len(q) - 1 = 1
          OBVIOUS
        <5> QED BY <4>0, <5>1
      <4>2. t[Len(t)] = q[Len(q)] /\ t[Len(t) - 1] = q[Len(q) - 1] /\ Len(t) > 1
        <5>1. /\ Len(t) > 1 /\ Len(t) \in 1 .. Len(q) - 1 /\ Len(t) - 1 \in 1 .. Len(q) - 1
              /\ Len(t) + 1 = Len(q) /\ (Len(t) - 1) + 1 = Len(q) - 1
          BY <1>3, <4>0, <4>1
        <5> QED BY <1>3, <5>1
      <4> QED BY <3>4, <4>2 DEF Expired
    <3>5. CASE Lost(q)
      <4>1. Len(q) # 1
        BY <1>3, <3>5 DEF Lost, Closed
      <4>2. t[Len(t)] = q[Len(q)]
        BY <1>3, <4>1
      <4> QED BY <1>3, <3>5, <4>1, <4>2 DEF Lost
    <3> QED BY <1>2, <3>1, <3>2, <3>3, <3>4, <3>5
  <2> QED BY <1>2, <2>1, <2>2, <2>3 DEF SessionInv, Talking, Used
<1>9. CASE d.kind # "query"
  <2>1. s # page.current /\ page' = page
    BY <1>1, <1>5, <1>9 DEF CurrentInv
  <2> QED BY <1>1, <1>2, <1>3, <1>7, <1>8, <2>1, OpenStep
<1>10. CASE d.kind = "query"
  <2>1. /\ page.current = s /\ page.query = s /\ s # NoSession /\ page.outcome = "none"
        /\ page.running = TRUE
    BY <1>1, <1>2, <1>10, ConstantsAssumption DEF CurrentInv, PageInv, Opening, Page
  <2>2. ShownInv(s, d, x, q, n)
    BY <1>1, <2>1
  <2>3. q[1].row = <<s, n + 1>>
    <3>1. 1 \in 1 .. Len(q) /\ q[1].type = "RECORD"
      BY <1>1, <1>3
    <3>2. \A k \in 1 .. Len(q) : q[k].type = "RECORD" => q[k].row = <<s, n + k>>
      BY <2>2, Zenon DEF ShownInv
    <3> QED BY <3>1, <3>2
  <2> DEFINE pending == Append(page.pending, <<s, n + 1>>)
             p == [page EXCEPT !.pending = pending]
  <2>4. page' = p
    BY <1>5, <1>10, <2>3
  <2>5. n \in Nat /\ page.pending \in Seq(Sessions \X Nat)
    BY <1>1, ShownNat DEF Page
  <2> HIDE DEF n
  <2>6. pending \in Seq(Sessions \X Nat)
    BY <2>5, AppendProperties
  <2> HIDE DEF pending
  <2>8. /\ p \in Page /\ p.rows = page.rows /\ p.pending = pending /\ p.current = page.current
        /\ p.query = page.query /\ p.running = TRUE /\ p.outcome = page.outcome
    BY <1>1, <2>1, <2>6 DEF Page
  <2> HIDE DEF p
  <2>7. /\ Shown(p) = n + 1 /\ TableInv(p)
        /\ \A u \in Sessions \ {s} : NoRows(u, page) => NoRows(u, p)
    <3>1. p.pending = Append(page.pending, <<page.query, Shown(page) + 1>>) /\ page.query \in Sessions
      BY <2>1, <2>8 DEF pending, n
    <3> QED BY <1>1, <2>1, <2>8, <3>1, OneMore DEF n
  <2>9. PageInv(p)
    BY <2>1, <2>7, <2>8, ConstantsAssumption DEF PageInv
  <2>10. ShownInv(s, d, x, t, n + 1)
    <3>1. ASSUME NEW k \in 1 .. Len(t)
          PROVE  /\ t[k].type = "RECORD" => t[k].row = <<s, n + 1 + k>>
                 /\ t[k].type = "SUCCESS" /\ x.phase = "open" => x.row = n + 1 + k - 1
                 /\ t[k].type = "SUCCESS" /\ d.state = "WAITING_PULL" /\ ~t[k].hasNext
                      => x.rows = n + 1 + k - 1
      <4>1. k + 1 \in 1 .. Len(q) /\ t[k] = q[k + 1]
        BY <1>3
      <4>2. /\ q[k + 1].type = "RECORD" => q[k + 1].row = <<s, n + (k + 1)>>
            /\ q[k + 1].type = "SUCCESS" /\ x.phase = "open" => x.row = n + (k + 1) - 1
            /\ q[k + 1].type = "SUCCESS" /\ d.state = "WAITING_PULL" /\ ~q[k + 1].hasNext
                 => x.rows = n + (k + 1) - 1
        BY <2>2, <4>1 DEF ShownInv
      <4>3. n + (k + 1) = n + 1 + k
        BY <2>5
      <4> QED BY <2>5, <4>1, <4>2, <4>3
    <3>2. ~(d.toServer = <<"PULL">> /\ x.phase = "open")
      <4>1. <<"PULL">> # <<>>
        OBVIOUS
      <4>2. Kept(d, x, q) \/ Answered(d, x, q) \/ Expired(d, x, q) => d.toServer = <<>>
        BY DEF Kept, Answered, Expired
      <4>3. ~Asked(d, x, q)
        BY DEF Asked
      <4>4. Lost(q) => x.phase = "closed"
        BY <1>2, <1>3 DEF Lost, Connected, IsClosed, Closed
      <4> QED BY <1>2, <4>1, <4>2, <4>3, <4>4
    <3> QED BY <1>6, <3>1, <3>2 DEF ShownInv
  <2>11. ShowsInv(s, d, x, t, p)
    BY <1>1, <1>2, <2>1, <2>7, <2>8, <2>10 DEF ShowsInv, CurrentInv
  <2>12. /\ SessionInv(session'[s], server'[s], toBrowser'[s])
         /\ ShowsInv(s, session'[s], server'[s], toBrowser'[s], page')
         /\ page' \in Page /\ PageInv(page')
    BY <1>7, <1>8, <2>4, <2>8, <2>9, <2>11
  <2>13. /\ page.current = s /\ page'.current \in {s, NoSession} /\ page'.query = s
         /\ \A u \in Sessions \ {s} : NoRows(u, page) => NoRows(u, page')
    BY <2>1, <2>4, <2>7, <2>8
  <2>14. /\ session'[s] \in Session /\ server'[s] \in ServerSession
         /\ server'[s].row <= server'[s].rows /\ toBrowser'[s] \in Seq(Messages)
    BY <1>1, <1>3, <1>7
  <2> QED BY <1>7, <2>12, <2>13, <2>14, StepInv
<1> QED BY <1>9, <1>10

\* A success after which more is to come: the request of the next rows is on its way,
\* and nothing else.
LEMMA MoreStep ==
  ASSUME IInv, NEW s \in Sessions, session[s].readyState = "OPEN", session[s].open,
         toBrowser[s] # <<>>, Head(toBrowser[s]).type = "SUCCESS",
         session[s].kind # "catalog",
         session[s].state = "WAITING_RUN" \/ Head(toBrowser[s]).hasNext,
         Becomes(Handle(Now, s, Head(toBrowser[s]))),
         toBrowser' = [toBrowser EXCEPT ![s] = Tail(@)], server' = server
  PROVE  IInv' /\ Local(s)
<1> DEFINE d == session[s]
           x == server[s]
           q == toBrowser[s]
           t == Tail(q)
           n == Shown(page)
           e == Handle(Now, s, Head(q)).session[s]
<1>1. /\ d \in Session /\ x \in ServerSession /\ q \in Seq(Messages) /\ page \in Page
      /\ Now \in Pairs /\ Now.session = session /\ Now.page = page
      /\ x.row <= x.rows /\ SessionInv(d, x, q)
      /\ s = page.current => ShownInv(s, d, x, q, n)
  BY AtSession
<1>2. /\ Opening(d) /\ Connected(d, x, q) /\ InOrder(d, q)
      /\ Asked(d, x, q) \/ Kept(d, x, q) \/ Answered(d, x, q) \/ Expired(d, x, q) \/ Lost(q)
  <2>1. SessionInv(d, x, q) /\ d.open /\ d.readyState = "OPEN"
    BY <1>1
  <2> QED BY <2>1, ConnectedFacts, Zenon
<1>3. /\ t \in Seq(Messages) /\ Len(q) \in Nat \ {0} /\ Len(t) = Len(q) - 1
      /\ (t = <<>> <=> Len(q) = 1) /\ \A k \in 1 .. Len(q) - 1 : t[k] = q[k + 1]
      /\ Head(q) = q[1] /\ q[1].type = "SUCCESS"
  <2>1. q \in Seq(Messages) /\ q # <<>>
    BY <1>1
  <2>2. /\ Tail(q) \in Seq(Messages) /\ Len(q) \in Nat \ {0} /\ Len(Tail(q)) = Len(q) - 1
        /\ (Tail(q) = <<>> <=> Len(q) = 1)
        /\ \A k \in 1 .. Len(q) - 1 : Tail(q)[k] = q[k + 1]
        /\ Head(q) = q[1]
    BY <2>1, TailFacts, ZenonT(30)
  <2> QED BY <2>2
<1>4. /\ Handle(Now, s, Head(q)).session = [session EXCEPT ![s] = e]
      /\ Handle(Now, s, Head(q)).page = page
      /\ e \in Session /\ Opening(e) /\ e.kind = d.kind /\ e.readyState = "OPEN" /\ e.wsOpen
      /\ e.pendingRequests = d.pendingRequests /\ e.state = "WAITING_PULL"
      /\ e.toServer = Append(d.toServer, "PULL")
  <2>1. d.wsOpen
    BY <1>2 DEF Connected
  <2>2. /\ Opening(Now.session[s]) /\ Now.session[s].readyState = "OPEN"
        /\ Now.session[s].wsOpen /\ Now.session[s].kind # "catalog"
        /\ Now.session[s].state = "WAITING_RUN" \/ Head(q).hasNext
        /\ Head(q).type = "SUCCESS"
    BY <1>1, <1>2, <1>3, <2>1
  <2>3. Now.session[s] = d
    BY <1>1
  <2>4. AsksOn(Now, s, Handle(Now, s, Head(q)))
    <3>1. Now \in Pairs
      BY <1>1
    <3> QED BY <2>2, <3>1, HandleMore
  <2> QED BY <1>1, <2>3, <2>4 DEF AsksOn
<1> HIDE DEF e, t, n
<1>5. /\ session' = [session EXCEPT ![s] = session'[s]] /\ session'[s] = e /\ page' = page
      /\ server' = [server EXCEPT ![s] = server'[s]] /\ server'[s] = x
      /\ toBrowser' = [toBrowser EXCEPT ![s] = toBrowser'[s]] /\ toBrowser'[s] = t
  <2>1. session' = [session EXCEPT ![s] = e] /\ page' = page
    BY <1>4 DEF Becomes
  <2> QED BY <2>1 DEF IInv, TypeOK, t
<1>6. d.toServer = <<>> /\ (Len(q) = 1 \/ IsClosed(q[2]))
  <2>1. 1 \in 1 .. Len(q) /\ Ends(q[1])
    BY <1>3 DEF Ends
  <2>2. d.toServer = <<>> /\ (1 = Len(q) \/ IsClosed(q[1 + 1]))
    BY <1>2, <2>1 DEF InOrder
  <2> QED BY <2>2
<1>7. e.toServer = <<"PULL">>
  BY <1>4, <1>6
<1>8. Len(q) # 1 => Len(q) = 2 /\ t = <<q[2]>> /\ x.phase = "closed"
  <2>1. SUFFICES ASSUME Len(q) # 1
                 PROVE  Len(q) = 2 /\ t = <<q[2]>> /\ x.phase = "closed"
    OBVIOUS
  <2>2. 2 \in 1 .. Len(q) /\ IsClosed(q[2])
    BY <1>3, <1>6, <2>1
  <2>3. Len(q) = 2 /\ x.phase = "closed"
    BY <1>2, <2>2 DEF Connected
  <2>4. Len(t) = 1 /\ t[1] = q[2]
    BY <1>3, <2>3
  <2>5. t = <<q[2]>>
    BY <1>3, <2>4
  <2> QED BY <2>3, <2>5
<1>9. Asked(e, x, t) \/ Lost(t)
  <2>1. CASE Kept(d, x, q)
    BY <1>3, <2>1 DEF Kept, Ends
  <2>2. CASE Answered(d, x, q)
    <3>1. t = <<>>
      BY <1>3, <1>8, <2>2 DEF Answered
    <3>2. Request(e) = "PULL"
      BY <1>2, <1>4 DEF Request
    <3> QED BY <1>7, <2>2, <3>1, <3>2 DEF Answered, Asked
  <2>3. CASE Expired(d, x, q)
    <3>1. Len(q) = 2 /\ q[Len(q) - 1] = Error
      BY <1>3, <1>8, <2>3 DEF Expired
    <3>2. q[1] = Error
      BY <3>1
    <3> QED BY <1>3, <3>2 DEF Error
  <2>4. CASE Lost(q)
    <3>1. q[1] # Closed(FALSE)
      BY <1>3 DEF Closed
    <3>2. Len(q) = 2 /\ t = <<q[2]>>
      BY <1>8, <2>4, <3>1 DEF Lost
    <3>3. t = <<Closed(FALSE)>>
      BY <2>4, <3>2 DEF Lost
    <3>4. Len(<<Closed(FALSE)>>) = 1 /\ <<Closed(FALSE)>>[1] = Closed(FALSE) /\ <<Closed(FALSE)>> # <<>>
      OBVIOUS
    <3> QED BY <3>3, <3>4 DEF Lost
  <2>5. CASE Asked(d, x, q)
    BY <2>5 DEF Asked
  <2> QED BY <1>2, <2>1, <2>2, <2>3, <2>4, <2>5
<1>10. \A k \in 1 .. Len(t) : IsClosed(t[k])
  <2>1. CASE Len(q) = 1
    BY <1>3, <2>1
  <2>2. CASE Len(q) # 1
    <3>1. Len(t) = 1 /\ t[1] = q[2]
      BY <1>3, <1>8, <2>2
    <3> QED BY <1>6, <2>2, <3>1
  <2> QED BY <2>1, <2>2
<1>11. SessionInv(e, x, t)
  <2>1. Connected(e, x, t)
    <3>1. Connected(d, x, t)
      BY <1>1, <1>2, ConnectedTail DEF t
    <3>2. x.phase # "none" /\ d.wsOpen /\ d.readyState = "OPEN"
      BY <1>2 DEF Connected
    <3>3. e # Fresh
      BY <1>4 DEF Fresh
    <3> QED BY <1>4, <3>1, <3>2, <3>3 DEF Connected
  <2>2. InOrder(e, t)
    <3>1. \A k \in 1 .. Len(t) : ~Ends(t[k])
      BY <1>10 DEF Ends, IsClosed
    <3> QED BY <1>4, <3>1 DEF InOrder
  <2> QED BY <1>4, <1>9, <2>1, <2>2 DEF SessionInv, Used, Talking
<1>12. ASSUME s = page.current PROVE ShownInv(s, e, x, t, n)
  <2>1. ShownInv(s, d, x, q, n)
    BY <1>1, <1>12
  <2>2. \A k \in 1 .. Len(t) : t[k].type = "CLOSED"
    BY <1>10 DEF IsClosed
  <2>3. n \in Nat
    BY <1>1, ShownNat, AtSession DEF n
  <2>4. x.phase = "open" => x.row = n
    <3>1. 1 \in 1 .. Len(q)
      BY <1>3
    <3>2. x.phase = "open" => x.row = n + 1 - 1
      BY <1>3, <2>1, <3>1 DEF ShownInv
    <3> QED BY <2>3, <3>2
  <2> QED BY <1>4, <2>2, <2>4 DEF ShownInv
<1>13. /\ session'[s].open /\ session'[s].kind = session[s].kind /\ session'[s] \in Session
       /\ server'[s] \in ServerSession /\ server'[s].row <= server'[s].rows
       /\ toBrowser'[s] \in Seq(Messages) /\ SessionInv(session'[s], server'[s], toBrowser'[s])
  BY <1>1, <1>3, <1>4, <1>5, <1>11 DEF Opening
<1>14. s = page.current => ShownInv(s, session'[s], server'[s], toBrowser'[s], Shown(page))
  BY <1>5, <1>12 DEF n
<1> QED BY <1>5, <1>13, <1>14, OpenStep

\* The last success and an error close the session; what was shown when a query
\* succeeds is all that there is.
LEMMA LastStep ==
  ASSUME IInv, NEW s \in Sessions, session[s].readyState = "OPEN", session[s].open,
         toBrowser[s] # <<>>,
         LET m == Head(toBrowser[s])
         IN  \/ m.type = "ERROR"
             \/ m.type = "SUCCESS" /\ Last(session[s], m),
         Becomes(Handle(Now, s, Head(toBrowser[s]))),
         toBrowser' = [toBrowser EXCEPT ![s] = Tail(@)], server' = server
  PROVE  IInv' /\ Local(s)
<1> DEFINE d == session[s]
           x == server[s]
           q == toBrowser[s]
           t == Tail(q)
           m == Head(q)
           e == Handle(Now, s, m).session[s]
           o == IF m.type = "ERROR" THEN "error" ELSE "success"
<1>1. /\ d \in Session /\ x \in ServerSession /\ q \in Seq(Messages) /\ page \in Page
      /\ Now \in Pairs /\ Now.session = session /\ Now.page = page /\ SessionInv(d, x, q)
      /\ s = page.current => ShownInv(s, d, x, q, Shown(page))
      /\ CurrentInv(s, d, page)
  BY AtSession
<1>2. /\ Opening(d) /\ Connected(d, x, q) /\ InOrder(d, q)
      /\ Asked(d, x, q) \/ Kept(d, x, q) \/ Answered(d, x, q) \/ Expired(d, x, q) \/ Lost(q)
  <2>1. SessionInv(d, x, q) /\ d.open /\ d.readyState = "OPEN"
    BY <1>1
  <2> QED BY <2>1, ConnectedFacts, Zenon
<1>3. /\ t \in Seq(Messages) /\ Len(q) \in Nat \ {0} /\ m = q[1]
  <2>1. q \in Seq(Messages)
    BY <1>1
  <2> QED BY <2>1, TailFacts
<1>4. /\ Handle(Now, s, m).session = [session EXCEPT ![s] = e]
      /\ Handle(Now, s, m).page = IF d.kind = "query" THEN Stopped(page, o) ELSE page
      /\ Over(d, e) /\ Gone(e)
      /\ o = "success" => e.toServer = Append(d.toServer, "CLOSE")
  <2>0. Now \in Pairs /\ Now.session = session /\ Now.page = page
    BY <1>1
  <2>1. d.kind = "query" => page.current = s
    BY <1>1 DEF CurrentInv
  <2>4. /\ Opening(Now.session[s]) /\ Now.session[s].readyState = "OPEN"
        /\ Now.session[s].kind = "query" => Now.page.current = s
    <3>1. Now.session[s] = d /\ Now.page = page
      BY <2>0
    <3> QED BY <1>2, <2>1, <3>1, Zenon
  <2>2. CASE m.type = "ERROR"
    <3>1. LET v == Handle(Now, s, m)
              b == Now.session[s]
              c == v.session[s]
          IN  /\ v.session = [Now.session EXCEPT ![s] = c]
              /\ v.page = IF b.kind = "query" THEN Stopped(Now.page, "error") ELSE Now.page
              /\ v \in Pairs /\ Over(b, c) /\ Gone(c)
      <4>1. Now \in Pairs /\ s \in Sessions
        BY <2>0
      <4> QED BY <4>1, <2>2, <2>4, HandleError, ZenonT(30)
    <3>2. o = "error"
      BY <2>2
    <3> QED BY <1>1, <3>1, <3>2
  <2>3. CASE m.type = "SUCCESS" /\ Last(d, m)
    <3>1. Last(Now.session[s], m)
      BY <1>1, <2>3
    <3>2. Finishes(Now, s, Handle(Now, s, m))
      BY <1>1, <2>3, <2>4, <3>1, HandleLast
    <3> QED BY <1>1, <2>3, <3>2 DEF Gone, Finishes
  <2> QED BY <2>2, <2>3
<1>5. o \in Outcomes
  BY DEF Outcomes
<1>6. o = "success" => m.type = "SUCCESS"
  OBVIOUS
<1>7. o = "success" /\ d.kind = "query" => d.state = "WAITING_PULL" /\ ~m.hasNext
  BY DEF Last
<1> HIDE DEF e, t, o
<1>8. /\ session' = [session EXCEPT ![s] = session'[s]] /\ session'[s] = e
      /\ page' = IF d.kind = "query" THEN Stopped(page, o) ELSE page
      /\ toBrowser' = [toBrowser EXCEPT ![s] = toBrowser'[s]] /\ toBrowser'[s] = t
  <2>1. /\ session' = [session EXCEPT ![s] = e]
        /\ page' = IF d.kind = "query" THEN Stopped(page, o) ELSE page
    BY <1>4 DEF Becomes
  <2> QED BY <2>1 DEF IInv, TypeOK, t
<1>9. SessionInv(e, x, t)
  <2>1. SessionInv(e, x, q) /\ Closing(e)
    BY <1>1, <1>4, OverInv
  <2>2. Connected(e, x, t)
    BY <1>1, <2>1, ConnectedTail DEF SessionInv, t
  <2> QED BY <2>1, <2>2, ClosedInv
<1>10. ASSUME o = "success", d.kind = "query"
       PROVE  SuccessInv(e, x, Shown(page))
  <2>1. 1 \in 1 .. Len(q) /\ Ends(q[1]) /\ q[1].type = "SUCCESS"
    BY <1>3, <1>6, <1>10 DEF Ends
  <2>2. d.toServer = <<>>
    BY <1>2, <2>1 DEF InOrder
  <2>3. x.kept = "none"
    <3>1. CASE Kept(d, x, q)
      BY <2>1, <3>1 DEF Kept
    <3>2. CASE Lost(q)
      <4>1. x.phase = "closed"
        BY <1>2, <1>3, <3>2 DEF Lost, Connected, IsClosed, Closed
      <4> QED BY <1>2, <4>1 DEF Connected
    <3> QED BY <1>2, <3>1, <3>2 DEF Asked, Answered, Expired
  <2>4. x.rows = Shown(page)
    <3>1. ShownInv(s, d, x, q, Shown(page))
      BY <1>1, <1>10 DEF CurrentInv
    <3>2. x.rows = Shown(page) + 1 - 1
      BY <1>3, <1>7, <1>10, <2>1, <3>1 DEF ShownInv
    <3>3. Shown(page) \in Nat
      BY <1>1, ShownNat, AtSession
    <3> QED BY <3>2, <3>3
  <2>5. e.toServer = <<"CLOSE">>
    BY <1>4, <1>10, <2>2
  <2>6. e.readyState = "CLOSING" /\ ~e.open /\ ~e.connOpen
    BY <1>4 DEF Over
  <2> QED BY <2>3, <2>4, <2>5, <2>6 DEF SuccessInv
<1>11. /\ session'[s] \in Session /\ ~session'[s].open /\ session'[s] # Fresh
       /\ toBrowser'[s] \in Seq(Messages)
       /\ SessionInv(session'[s], server[s], toBrowser'[s])
       /\ o = "success" /\ session[s].kind = "query"
            => SuccessInv(session'[s], server[s], Shown(page))
  BY <1>3, <1>4, <1>8, <1>9, <1>10, ClosedIsNotFresh DEF Over
<1> QED BY <1>5, <1>8, <1>11, EndStep

\* A message that comes to a closed session, or finds its socket closing, is lost on it.
LEMMA MissedStep ==
  ASSUME IInv, NEW s \in Sessions, session[s] # Fresh, ~session[s].open,
         session' = session, page' = page, server' = server,
         toBrowser' = [toBrowser EXCEPT ![s] = toBrowser'[s]], toBrowser'[s] \in Seq(Messages),
         Connected(session[s], server[s], toBrowser'[s])
  PROVE  IInv' /\ Local(s)
<1>1. /\ session[s] \in Session /\ server[s] \in ServerSession
      /\ server[s].row <= server[s].rows /\ SessionInv(session[s], server[s], toBrowser[s])
  BY AtSession
<1>2. /\ session' = [session EXCEPT ![s] = session'[s]]
      /\ server' = [server EXCEPT ![s] = server'[s]]
  BY DEF IInv, TypeOK
<1>3. SessionInv(session[s], server[s], toBrowser'[s])
  BY <1>1, ClosedFacts, ClosedInv
<1> QED BY <1>1, <1>2, <1>3, ClosedStep

LEMMA MessageStep ==
  ASSUME IInv, NEW s \in Sessions, Message(s)
  PROVE  IInv' /\ Local(s)
<1> DEFINE d == session[s]
           x == server[s]
           q == toBrowser[s]
           m == Head(q)
<1>1. /\ d \in Session /\ q \in Seq(Messages) /\ SessionInv(d, x, q)
      /\ Now.session = session /\ Now.page = page
  BY AtSession
<1>2. q # <<>> /\ ~IsClosed(m) /\ server' = server
  BY DEF Message
<1>3. /\ Tail(q) \in Seq(Messages) /\ Len(q) \in Nat \ {0} /\ m \in Messages
  BY <1>1, <1>2, TailFacts
<1>4. Connected(d, x, q) /\ d # Fresh
  <2>1. Connected(d, x, q)
    BY <1>1 DEF SessionInv
  <2> QED BY <1>2, <2>1 DEF Connected
<1>5. d.open => d.readyState = "OPEN"
  <2>1. d.readyState # "CONNECTING"
    BY <1>2, <1>4 DEF Connected
  <2> QED BY <1>1, <2>1, OpenFacts DEF Connecting
<1>6. CASE /\ d.readyState = "OPEN" /\ Becomes(Handle(Now, s, m))
           /\ toBrowser' = [toBrowser EXCEPT ![s] = Tail(@)]
  <2>1. CASE d.open
    <3>1. CASE m.type = "RECORD"
      BY <1>2, <1>6, <2>1, <3>1, RecordStep
    <3>2. CASE m.type = "SUCCESS"
      <4>1. Opening(d) /\ d.state \in ObserverStates /\ d.state # "FINISHED"
        BY <1>1, <2>1, OpenFacts DEF Opening, Session
      <4>3. CASE d.kind # "catalog" /\ (d.state = "WAITING_RUN" \/ m.hasNext)
        BY <1>2, <1>6, <2>1, <3>2, <4>3, MoreStep
      <4>4. CASE Last(d, m)
        BY <1>2, <1>6, <2>1, <3>2, <4>4, LastStep
      <4>2. d.state = "WAITING_RUN" \/ d.state = "WAITING_PULL"
        BY <4>1 DEF ObserverStates
      <4>5. \/ d.kind # "catalog" /\ (d.state = "WAITING_RUN" \/ m.hasNext)
            \/ Last(d, m)
        BY <4>2 DEF Last
      <4> QED BY <4>3, <4>4, <4>5
    <3>3. CASE m.type = "ERROR"
      BY <1>2, <1>6, <2>1, <3>3, LastStep
    <3> QED BY <1>2, <1>3, <3>1, <3>2, <3>3, MessageKinds DEF IsClosed
  <2>2. CASE ~d.open
    <3>1. d.observers = 0
      BY <1>1, <1>4, <1>6, <2>2, ClosedFacts DEF Closing
    <3>2. Handle(Now, s, m) = Now
      BY <1>1, <3>1, HandleClosed
    <3>3. session' = session /\ page' = page
      BY <1>1, <1>6, <3>2 DEF Becomes
    <3>4. toBrowser' = [toBrowser EXCEPT ![s] = toBrowser'[s]] /\ toBrowser'[s] = Tail(q)
      BY <1>6 DEF IInv, TypeOK
    <3>5. Connected(d, x, Tail(q))
      BY <1>1, <1>2, <1>4, ConnectedTail
    <3> QED BY <1>2, <1>3, <1>4, <2>2, <3>3, <3>4, <3>5, MissedStep
  <2> QED BY <2>1, <2>2
<1>7. CASE /\ d.readyState # "OPEN" /\ toBrowser' = [toBrowser EXCEPT ![s] = TheEnd(@)]
           /\ UNCHANGED <<session, page>>
  <2>1. ~d.open
    BY <1>5, <1>7
  <2>2. toBrowser' = [toBrowser EXCEPT ![s] = toBrowser'[s]] /\ toBrowser'[s] = TheEnd(q)
    BY <1>7 DEF IInv, TypeOK
  <2>3. q[Len(q)] \in Messages
    BY <1>1, <1>3, ElementOfSeq
  <2>4. TheEnd(q) \in Seq(Messages)
    BY <2>3 DEF TheEnd
  <2>5. Connected(d, x, TheEnd(q))
    <3>1. Len(TheEnd(q)) \in {0, 1}
      BY DEF TheEnd
    <3>2. ASSUME NEW k \in 1 .. Len(TheEnd(q))
          PROVE  k = Len(TheEnd(q)) /\ x.phase = "closed"
      <4> DEFINE l == Len(TheEnd(q))
      <4>1. k = 1 /\ l = 1
        <5>1. (l = 0 \/ l = 1) /\ k \in 1 .. l
          BY <3>1, <3>2
        <5> HIDE DEF l
        <5> QED BY <5>1
      <4>2. IsClosed(q[Len(q)])
        BY <4>1 DEF TheEnd
      <4>3. x.phase = "closed"
        BY <1>3, <1>4, <4>2 DEF Connected
      <4> QED BY <4>1, <4>3
    <3>3. x.phase # "none"
      BY <1>2, <1>4 DEF Connected
    <3> QED BY <1>4, <3>2, <3>3 DEF Connected
  <2> QED BY <1>2, <1>4, <1>7, <2>1, <2>2, <2>4, <2>5, MissedStep
<1> QED BY <1>6, <1>7 DEF Message

\* The end of the connection of a session.
LEMMA HangUpStep ==
  ASSUME IInv, NEW s \in Sessions, session[s] # Fresh,
         NEW errs \in BOOLEAN, NEW wasClean \in BOOLEAN, session[s].open => errs \/ ~wasClean,
         Becomes(CloseEvent(Now, s, errs, wasClean)), server' = server,
         toBrowser' = [toBrowser EXCEPT ![s] = toBrowser'[s]], toBrowser'[s] \in Seq(Messages),
         Connected(session[s], server[s], toBrowser'[s])
  PROVE  IInv' /\ Local(s)
<1> DEFINE d == session[s]
           x == server[s]
           v == CloseEvent(Now, s, errs, wasClean)
           e == v.session[s]
<1>1. /\ d \in Session /\ x \in ServerSession /\ x.row <= x.rows
      /\ SessionInv(d, x, toBrowser[s]) /\ CurrentInv(s, d, page)
      /\ Now \in Pairs /\ Now.session = session /\ Now.page = page
  BY AtSession
<1>2. \/ Opening(d) /\ d.open /\ (errs \/ ~wasClean)
      \/ ~d.open /\ ~d.connOpen /\ Gone(d)
  BY <1>1 DEF SessionInv, Used, Opening, Closing, Gone
<1>3. /\ HungUp(d, e) /\ v.session = [session EXCEPT ![s] = e]
      /\ v.page = IF d.open /\ d.kind = "query" THEN Stopped(page, "error") ELSE page
  <2>1. \/ Opening(Now.session[s]) /\ (errs \/ ~wasClean)
        \/ ~Now.session[s].open /\ ~Now.session[s].connOpen /\ Gone(Now.session[s])
    BY <1>1, <1>2
  <2>2. Now.session[s].open /\ Now.session[s].kind = "query" => Now.page.current = s
    BY <1>1 DEF CurrentInv
  <2>3. /\ HungUp(Now.session[s], e) /\ v.session = [Now.session EXCEPT ![s] = e]
        /\ v.page = IF Now.session[s].open /\ Now.session[s].kind = "query"
                    THEN Stopped(Now.page, "error") ELSE Now.page
    <3>1. Now \in Pairs
      BY <1>1
    <3> HIDE DEF d, x
    <3> QED BY <2>1, <2>2, <3>1, CloseEventFields
  <2> QED BY <1>1, <2>3
<1> HIDE DEF e
<1>4. /\ session' = [session EXCEPT ![s] = session'[s]] /\ session'[s] = e
      /\ page' = IF d.open /\ d.kind = "query" THEN Stopped(page, "error") ELSE page
      /\ server' = [server EXCEPT ![s] = server'[s]] /\ server'[s] = x
  <2>1. /\ session' = [session EXCEPT ![s] = e]
        /\ page' = IF d.open /\ d.kind = "query" THEN Stopped(page, "error") ELSE page
    BY <1>3 DEF Becomes
  <2> QED BY <2>1 DEF IInv, TypeOK
<1>5. SessionInv(e, x, toBrowser'[s]) /\ e \in Session /\ ~e.open /\ e # Fresh
  <2>1. SessionInv(e, x, toBrowser[s]) /\ Closing(e)
    BY <1>1, <1>3, HungUpInv
  <2>2. e # Fresh
    BY ClosedIsNotFresh, <1>3 DEF HungUp
  <2>3. Connected(e, x, toBrowser'[s])
    BY <1>3, <2>2 DEF Connected, HungUp
  <2> QED BY <1>3, <2>1, <2>2, <2>3, ClosedInv DEF HungUp
<1>6. CASE d.open
  <2>1. page' = IF d.kind = "query" THEN Stopped(page, "error") ELSE page
    BY <1>4, <1>6
  <2>2. "error" \in Outcomes
    BY DEF Outcomes
  <2> QED BY <1>4, <1>5, <1>6, <2>1, <2>2, EndStep
<1>7. CASE ~d.open
  <2>1. page' = page
    BY <1>4, <1>7
  <2>2. SuccessInv(d, x, Shown(page)) => SuccessInv(e, x, Shown(page))
    BY <1>3 DEF SuccessInv, HungUp
  <2> QED BY <1>1, <1>4, <1>5, <1>7, <2>1, <2>2, ClosedStep
<1> QED BY <1>6, <1>7

LEMMA RefusedStep ==
  ASSUME IInv, NEW s \in Sessions, Refused(s)
  PROVE  IInv' /\ Local(s)
<1>1. session[s].readyState = "CONNECTING" /\ Becomes(CloseEvent(Now, s, TRUE, FALSE))
  BY DEF Refused
<1>2. server' = server /\ toBrowser' = toBrowser
  BY DEF Refused
<1>3. toBrowser' = [toBrowser EXCEPT ![s] = toBrowser'[s]]
  BY <1>2 DEF IInv, TypeOK
<1>4. Connected(session[s], server[s], toBrowser'[s]) /\ toBrowser'[s] \in Seq(Messages)
  BY <1>2, AtSession DEF SessionInv
<1>5. session[s] # Fresh
  BY <1>1 DEF Fresh
<1> QED BY <1>1, <1>2, <1>3, <1>4, <1>5, HangUpStep

LEMMA DisconnectedStep ==
  ASSUME IInv, NEW s \in Sessions, Disconnected(s)
  PROVE  IInv' /\ Local(s)
<1> DEFINE d == session[s]
           x == server[s]
           q == toBrowser[s]
<1>1. /\ d \in Session /\ q \in Seq(Messages) /\ SessionInv(d, x, q) /\ Connected(d, x, q)
  BY AtSession DEF SessionInv
<1>2. /\ q # <<>> /\ IsClosed(Head(q)) /\ server' = server
      /\ toBrowser' = [toBrowser EXCEPT ![s] = Tail(@)]
  BY DEF Disconnected
<1>3. PICK errs \in IF Head(q).wasClean THEN {FALSE} ELSE BOOLEAN :
        Becomes(CloseEvent(Now, s, errs, Head(q).wasClean))
  BY DEF Disconnected
<1>4. /\ Tail(q) \in Seq(Messages) /\ Len(q) \in Nat \ {0} /\ Head(q) = q[1] /\ q[1] \in Messages
  BY <1>1, <1>2, TailFacts
<1>5. q[1].wasClean \in BOOLEAN /\ q[1].type = "CLOSED"
  BY <1>2, <1>4, MessageKinds DEF IsClosed
<1>6. errs \in BOOLEAN
  BY <1>3
<1>7. toBrowser' = [toBrowser EXCEPT ![s] = toBrowser'[s]] /\ toBrowser'[s] = Tail(q)
  BY <1>2 DEF IInv, TypeOK
<1>8. Len(q) = 1
  <2>1. 1 \in 1 .. Len(q)
    BY <1>4
  <2> QED BY <1>1, <1>2, <1>4, <2>1 DEF Connected
<1>9. d # Fresh
  BY <1>1, <1>2 DEF Connected
<1>10. d.open => ~q[1].wasClean
  <2> SUFFICES ASSUME d.open PROVE ~q[1].wasClean
    OBVIOUS
  <2>1. x.phase = "closed"
    BY <1>1, <1>2, <1>4, <1>8 DEF Connected
  <2>2. Lost(q)
    <3>1. d.readyState # "CONNECTING"
      BY <1>1, <2>1 DEF Connected
    <3>2. Asked(d, x, q) \/ Kept(d, x, q) \/ Answered(d, x, q) \/ Expired(d, x, q) \/ Lost(q)
      BY <1>1, <3>1, OpenFacts DEF Connecting
    <3>3. ~Asked(d, x, q) /\ ~Kept(d, x, q) /\ ~Answered(d, x, q)
      BY <2>1 DEF Asked, Kept, Answered
    <3>4. ~Expired(d, x, q)
      BY <1>8 DEF Expired
    <3> QED BY <3>2, <3>3, <3>4
  <2> QED BY <1>8, <2>2 DEF Lost, Closed
<1>11. Connected(d, x, Tail(q))
  BY <1>1, <1>2, ConnectedTail
<1> QED BY <1>2, <1>3, <1>4, <1>5, <1>6, <1>7, <1>9, <1>10, <1>11, HangUpStep

\* What onopen makes of the objects of a session.
LEMMA OpenedFields ==
  ASSUME NEW d \in Session, d.toServer = <<>>
  PROVE  LET e == [d EXCEPT !.readyState = "OPEN", !.wsOpen = TRUE,
                            !.toServer = @ \o d.pendingRequests, !.pendingRequests = <<>>]
         IN  /\ e \in Session /\ e.readyState = "OPEN" /\ e.wsOpen = TRUE
             /\ e.toServer = d.pendingRequests /\ e.pendingRequests = <<>>
             /\ e.kind = d.kind /\ e.connOpen = d.connOpen /\ e.timer = d.timer
             /\ e.open = d.open /\ e.observers = d.observers /\ e.state = d.state
             /\ e.subscribed = d.subscribed
<1> DEFINE l == d.toServer \o d.pendingRequests
<1>1. d.pendingRequests \in Seq(Requests) /\ <<>> \in Seq(Requests)
  BY EmptySeq DEF Session
<1>2. l = d.pendingRequests /\ l \in Seq(Requests)
  BY <1>1, ConcatEmptySeq
<1>3. l = d.toServer \o d.pendingRequests
  OBVIOUS
<1> HIDE DEF l
<1> QED BY <1>1, <1>2, <1>3 DEF Session, ReadyStates

\* A socket opens, and the server starts a session for it.
LEMMA OpenedStep ==
  ASSUME IInv, NEW s \in Sessions, Opened(s)
  PROVE  IInv' /\ Local(s)
<1> DEFINE d == session[s]
           x == server[s]
           q == toBrowser[s]
           late == d.pendingRequests # <<>> /\ ~d.connOpen
           w == IF late THEN ConnectionError(Now, s) ELSE Now
           c == w.session[s]
           e == [c EXCEPT !.readyState = "OPEN", !.wsOpen = TRUE,
                          !.toServer = @ \o c.pendingRequests, !.pendingRequests = <<>>]
           y == [x EXCEPT !.phase = "open"]
<1>1. /\ d \in Session /\ q \in Seq(Messages) /\ SessionInv(d, x, q) /\ Connected(d, x, q)
      /\ Now \in Pairs /\ Now.session = session /\ Now.page = page
      /\ CurrentInv(s, d, page)
      /\ s = page.current => ShownInv(s, d, x, q, Shown(page))
  BY AtSession DEF SessionInv
<1>2. d.readyState = "CONNECTING" /\ d # Fresh
  BY DEF Opened, Fresh
<1>3. x = NoServer /\ q = <<>> /\ d.toServer = <<>>
  BY <1>1, <1>2 DEF Connected
<1>4. /\ Becomes(With(w, s, e)) /\ toBrowser' = toBrowser
      /\ server' = [server EXCEPT ![s].phase = "open"]
  BY DEF Opened
<1>5. /\ y \in ServerSession /\ y.row <= y.rows /\ y.phase = "open" /\ y.kept = "none"
      /\ y.state = "READY" /\ y.row = 0
  BY <1>3 DEF NoServer, ServerSession
<1>6. /\ server' = [server EXCEPT ![s] = server'[s]] /\ server'[s] = y
      /\ toBrowser' = [toBrowser EXCEPT ![s] = toBrowser'[s]] /\ toBrowser'[s] = <<>>
  BY <1>3, <1>4 DEF IInv, TypeOK
<1>7. toBrowser'[s] \in Seq(Messages)
  BY <1>1, <1>3, <1>6
<1> HIDE DEF e, y
<1>8. CASE d.open
  <2>1. Opening(d) /\ Connecting(d)
    BY <1>1, <1>2, <1>8, OpenFacts
  <2>2. w = Now /\ c = d
    BY <1>1, <2>1 DEF Opening
  <2> HIDE DEF w, c
  <2>3. /\ e \in Session /\ e.readyState = "OPEN" /\ e.wsOpen = TRUE
        /\ e.toServer = d.pendingRequests /\ e.pendingRequests = <<>>
        /\ e.kind = d.kind /\ e.connOpen = d.connOpen /\ e.timer = d.timer
        /\ e.open = d.open /\ e.observers = d.observers /\ e.state = d.state
        /\ e.subscribed = d.subscribed
    <3>1. e = [d EXCEPT !.readyState = "OPEN", !.wsOpen = TRUE,
                        !.toServer = @ \o d.pendingRequests, !.pendingRequests = <<>>]
      BY <2>2 DEF e
    <3>2. d \in Session /\ d.toServer = <<>>
      BY <1>1, <1>3
    <3> HIDE DEF d
    <3> QED BY <3>1, <3>2, OpenedFields
  <2>4. session' = [session EXCEPT ![s] = e] /\ page' = page
    BY <1>1, <1>4, <2>2, <2>3, WithFields DEF Becomes
  <2>5. session' = [session EXCEPT ![s] = session'[s]] /\ session'[s] = e
    BY <2>4 DEF IInv, TypeOK
  <2>6. Opening(e) /\ e.toServer = <<Request(e)>> /\ e.state = "WAITING_RUN" /\ e # Fresh
    BY <2>1, <2>3 DEF Opening, Connecting, Request, Fresh
  <2>7. SessionInv(e, y, <<>>)
    <3>1. Connected(e, y, <<>>)
      BY <1>5, <2>3, <2>6 DEF Connected
    <3>2. Asked(e, y, <<>>) /\ InOrder(e, <<>>)
      BY <1>5, <2>6 DEF Asked, InOrder
    <3> QED BY <2>3, <2>6, <3>1, <3>2 DEF SessionInv, Used, Talking
  <2>8. ASSUME s = page.current
        PROVE  ShownInv(s, e, y, <<>>, Shown(page))
    <3>1. Shown(page) = 0
      BY <1>1, <2>1, <2>8 DEF ShownInv, Connecting
    <3>2. e.toServer # <<"PULL">>
      <4>1. Request(e) # "PULL"
        BY <2>6 DEF Request
      <4> QED BY <2>6, <4>1
    <3> QED BY <3>1, <3>2 DEF ShownInv
  <2> QED BY <1>5, <1>6, <1>7, <1>8, <2>3, <2>4, <2>5, <2>7, <2>8, OpenStep
<1>9. CASE ~d.open
  <2>1. Closing(d)
    BY <1>1, <1>2, <1>9, ClosedFacts
  <2>2. w = ConnectionError(Now, s)
    BY <1>2, <2>1 DEF Closing
  <2>3. Gone(d)
    BY <2>1 DEF Closing, Gone
  <2>4. /\ w \in Pairs /\ SameSocket(d, c) /\ c.observers = 0
        /\ w.session = [session EXCEPT ![s] = c] /\ w.page = page
    <3>1. Now.session[s] = d /\ ~Now.session[s].open /\ Gone(Now.session[s])
      BY <1>1, <1>9, <2>3
    <3>2. LET v == ConnectionError(Now, s)
              b == v.session[s]
          IN  /\ v \in Pairs /\ SameSocket(Now.session[s], b) /\ b.observers = 0
              /\ v.session = [Now.session EXCEPT ![s] = b]
              /\ v.page = Now.page
      BY <1>1, <3>1, ConnectionErrorClosed, Zenon
    <3> QED BY <1>1, <2>2, <3>1, <3>2
  <2>5. c \in Session /\ c.toServer = <<>> /\ ~c.open /\ ~c.connOpen /\ c.kind = d.kind
    BY <1>3, <2>1, <2>4 DEF SameSocket, Closing
  <2> HIDE DEF w, c
  <2>6. /\ e \in Session /\ e.readyState = "OPEN" /\ e.wsOpen = TRUE /\ e.pendingRequests = <<>>
        /\ e.connOpen = c.connOpen /\ e.open = c.open /\ e.observers = c.observers
    BY <2>5, OpenedFields DEF e
  <2>7. session' = [session EXCEPT ![s] = e] /\ page' = page
    <3>1. /\ With(w, s, e).page = page
          /\ With(w, s, e).session = [w.session EXCEPT ![s] = e]
      <4>1. w \in Pairs /\ e \in Session /\ w.page = page
        BY <2>4, <2>6
      <4> QED BY <4>1, WithFields
    <3>2. [w.session EXCEPT ![s] = e] = [session EXCEPT ![s] = e]
      BY <2>4 DEF IInv, TypeOK
    <3> QED BY <1>4, <3>1, <3>2 DEF Becomes
  <2>8. session' = [session EXCEPT ![s] = session'[s]] /\ session'[s] = e
    BY <2>7 DEF IInv, TypeOK
  <2>9. SessionInv(e, y, <<>>)
    <3>1. Closing(e) /\ e # Fresh
      BY <2>4, <2>5, <2>6 DEF Closing, Fresh
    <3>2. Connected(e, y, <<>>)
      BY <1>5, <2>6, <3>1 DEF Connected
    <3> QED BY <3>1, <3>2, ClosedInv
  <2>10. ~SuccessInv(d, x, Shown(page)) /\ e # Fresh
    BY <1>2, <2>6 DEF SuccessInv, Fresh
  <2> QED BY <1>5, <1>6, <1>7, <1>9, <2>5, <2>6, <2>7, <2>8, <2>9, <2>10, ClosedStep
<1> QED BY <1>8, <1>9

\* The timer of a closed session.
LEMMA TimerStep ==
  ASSUME IInv, NEW s \in Sessions, TimerFires(s)
  PROVE  IInv' /\ Local(s)
<1> DEFINE d == session[s]
           x == server[s]
           q == toBrowser[s]
           e == SafeClose(d)
<1>1. /\ d \in Session /\ x \in ServerSession /\ x.row <= x.rows
      /\ q \in Seq(Messages) /\ SessionInv(d, x, q) /\ Connected(d, x, q)
  BY AtSession DEF SessionInv
<1>2. d.timer /\ d.readyState # "CONNECTING" /\ session' = [session EXCEPT ![s] = e]
  BY DEF TimerFires
<1>3. ~d.open /\ Closing(d) /\ d # Fresh
  BY <1>1, <1>2, ClosedFacts DEF SessionInv, Used, Opening, Closing, Fresh
<1>4. /\ e \in Session
      /\ e.kind = d.kind /\ e.wsOpen = d.wsOpen /\ e.connOpen = d.connOpen
      /\ e.open = d.open /\ e.observers = d.observers /\ e.state = d.state
      /\ e.subscribed = d.subscribed /\ e.pendingRequests = d.pendingRequests
      /\ e.readyState = IF d.readyState = "OPEN" THEN "CLOSING" ELSE d.readyState
      /\ e.toServer = IF d.readyState = "OPEN" THEN Append(d.toServer, "CLOSE")
                      ELSE d.toServer
  BY <1>1, SafeCloseFields
<1> HIDE DEF e
<1>5. /\ session' = [session EXCEPT ![s] = session'[s]] /\ session'[s] = e
      /\ server' = [server EXCEPT ![s] = server'[s]] /\ server'[s] = x
      /\ toBrowser' = [toBrowser EXCEPT ![s] = toBrowser'[s]] /\ toBrowser'[s] = q
      /\ page' = page
  BY <1>2 DEF IInv, TypeOK, TimerFires
<1>6. SessionInv(e, x, q)
  <2>1. e # Fresh /\ e.readyState # "CONNECTING" /\ e.readyState # "OPEN"
    BY <1>2, <1>3, <1>4, ClosedIsNotFresh DEF Closing
  <2>2. Connected(e, x, q)
    BY <1>1, <1>2, <1>4, <2>1 DEF Connected
  <2>3. Closing(e)
    BY <1>3, <1>4, <2>1 DEF Closing
  <2> QED BY <2>2, <2>3, ClosedInv
<1>7. SuccessInv(d, x, Shown(page)) => SuccessInv(e, x, Shown(page))
  BY <1>4 DEF SuccessInv
<1>8. e # Fresh
  BY <1>3, <1>4, ClosedIsNotFresh DEF Closing
<1> QED BY <1>1, <1>3, <1>4, <1>5, <1>6, <1>7, <1>8, ClosedStep

-----------------------------------------------------------------------------
(***************************************************************************)
(* The server.                                                             *)
(***************************************************************************)
\* What the server finds when it reads a request.
LEMMA ReadsFacts ==
  ASSUME IInv, NEW s \in Sessions, Reads(s)
  PROVE  LET d == session[s]
             e == session'[s]
         IN  /\ d # Fresh /\ server[s].phase = "open" /\ d.readyState # "CONNECTING"
             /\ session' = [session EXCEPT ![s] = e] /\ page' = page
             /\ e \in Session /\ e.toServer = Tail(d.toServer)
             /\ e.kind = d.kind /\ e.readyState = d.readyState /\ e.wsOpen = d.wsOpen
             /\ e.connOpen = d.connOpen /\ e.pendingRequests = d.pendingRequests
             /\ e.timer = d.timer /\ e.open = d.open /\ e.observers = d.observers
             /\ e.state = d.state /\ e.subscribed = d.subscribed
             /\ Handled(s) \in Requests \ {"CLOSE"}
             /\ d.toServer # <<>> /\ d.toServer # <<"CLOSE">>
             /\ d.open => /\ Opening(d) /\ Asked(d, server[s], toBrowser[s])
                          /\ Handled(s) = Request(d) /\ e.toServer = <<>>
<1> DEFINE d == session[s]
           x == server[s]
           q == toBrowser[s]
           l == Tail(d.toServer)
           e == [d EXCEPT !.toServer = l]
<1>1. /\ d \in Session /\ x \in ServerSession /\ SessionInv(d, x, q)
      /\ Connected(d, x, q) /\ q \in Seq(Messages)
  BY AtSession DEF SessionInv
<1>2. /\ x.phase = "open" /\ d.toServer # <<>> /\ Head(d.toServer) # "CLOSE"
      /\ session' = [session EXCEPT ![s].toServer = Tail(@)] /\ page' = page
  BY DEF Reads
<1>3. d # Fresh /\ d.readyState # "CONNECTING"
  BY <1>1, <1>2 DEF Connected
<1>4. d.toServer \in Seq(Requests) /\ l \in Seq(Requests) /\ Head(d.toServer) \in Requests
  BY <1>1, <1>2, HeadTailProperties DEF Session
<1>5. session' = [session EXCEPT ![s] = e]
  BY <1>2
<1> HIDE DEF l
<1>6. /\ e \in Session /\ e.toServer = l
      /\ e.kind = d.kind /\ e.readyState = d.readyState /\ e.wsOpen = d.wsOpen
      /\ e.connOpen = d.connOpen /\ e.pendingRequests = d.pendingRequests
      /\ e.timer = d.timer /\ e.open = d.open /\ e.observers = d.observers
      /\ e.state = d.state /\ e.subscribed = d.subscribed
  BY <1>1, <1>4 DEF Session
<1> HIDE DEF e
<1>7. session' = [session EXCEPT ![s] = session'[s]] /\ session'[s] = e
  BY <1>5 DEF IInv, TypeOK
<1>8. Handled(s) \in Requests \ {"CLOSE"}
  <2>1. x.kept \in {"none"} \cup (Requests \ {"CLOSE"})
    BY <1>1 DEF ServerSession
  <2> QED BY <1>2, <1>4, <2>1 DEF Handled
<1>9. d.toServer # <<"CLOSE">>
  BY <1>2
<1>10. ASSUME d.open
       PROVE  Opening(d) /\ Asked(d, x, q) /\ Handled(s) = Request(d) /\ l = <<>>
  <2>1. Opening(d)
    BY <1>1, <1>10, OpenFacts
  <2>2. Asked(d, x, q) \/ Kept(d, x, q) \/ Answered(d, x, q) \/ Expired(d, x, q) \/ Lost(q)
    BY <1>1, <1>3, <1>10, OpenFacts DEF Connecting
  <2>3. ~Lost(q)
    <3>1. ASSUME Lost(q) PROVE FALSE
      <4>1. Len(q) \in 1 .. Len(q) /\ IsClosed(q[Len(q)])
        BY <1>1, <3>1, EmptyLen DEF Lost, IsClosed, Closed
      <4> QED BY <1>1, <1>2, <4>1 DEF Connected
    <3> QED BY <3>1
  <2>4. Asked(d, x, q)
    BY <1>2, <2>2, <2>3 DEF Kept, Answered, Expired
  <2>5. x.kept = "none" /\ d.toServer = <<Request(d)>>
    BY <2>4 DEF Asked
  <2>6. Handled(s) = Request(d) /\ l = <<>>
    BY <2>5 DEF Handled, l
  <2> QED BY <2>1, <2>4, <2>6
<1> QED BY <1>2, <1>3, <1>6, <1>7, <1>8, <1>9, <1>10 DEF l

\* The messages r are the answer to a request, or the server keeps it; then it is in state y.
Reply(d, y, r) ==
  /\ \/ y.kept # "none" /\ y.phase = "open" /\ \A k \in 1 .. Len(r) : ~Ends(r[k])
     \/ y.kept = "none" /\ y.phase = "open" /\ r # <<>> /\ Ends(r[Len(r)])
     \/ y.kept = "none" /\ Len(r) > 1 /\ r[Len(r) - 1] = Error /\ r[Len(r)] = Closed(TRUE)
  /\ \A k \in 1 .. Len(r) : Ends(r[k]) => k = Len(r) \/ IsClosed(r[k + 1])
  /\ d.state = "WAITING_RUN" => \A k \in 1 .. Len(r) : r[k].type # "RECORD"

\* A session of the server after it has handled a request.
Sane(y, r) ==
  /\ y \in ServerSession /\ y.row <= y.rows /\ y.phase # "none"
  /\ y.phase = "closed" => y.kept = "none"
  /\ r \in Seq(Messages)
  /\ \A k \in 1 .. Len(r) : IsClosed(r[k]) => k = Len(r) /\ y.phase = "closed"

\* The end of a connection is the last of its messages, also when more are added.
LEMMA ConnectedAfter ==
  ASSUME NEW d, NEW x, NEW y, NEW q \in Seq(Messages), NEW r, Connected(d, x, q),
         x.phase = "open", Sane(y, r), d.toServer # <<>>,
         NEW e, e # Fresh, e.readyState = d.readyState, e.wsOpen = d.wsOpen,
         e.pendingRequests = d.pendingRequests
  PROVE  Connected(e, y, q \o r)
<1> DEFINE c == q \o r
<1>1. /\ r \in Seq(Messages) /\ Len(q) \in Nat /\ Len(r) \in Nat /\ Len(c) = Len(q) + Len(r)
      /\ \A k \in 1 .. Len(q) + Len(r) : c[k] = IF k <= Len(q) THEN q[k] ELSE r[k - Len(q)]
  BY ConcatProperties, EmptyLen DEF Sane
<1> HIDE DEF c
<1>2. ASSUME NEW k \in 1 .. Len(c), IsClosed(c[k])
      PROVE  k = Len(c) /\ y.phase = "closed"
  <2>1. k > Len(q)
    <3>1. ASSUME k \in 1 .. Len(q) PROVE FALSE
      <4>1. IsClosed(q[k])
        BY <1>1, <1>2, <3>1
      <4> QED BY <3>1, <4>1 DEF Connected
    <3> QED BY <1>1, <3>1
  <2>2. k - Len(q) \in 1 .. Len(r) /\ IsClosed(r[k - Len(q)])
    BY <1>1, <1>2, <2>1
  <2>3. k - Len(q) = Len(r) /\ y.phase = "closed"
    BY <2>2 DEF Sane
  <2> QED BY <1>1, <2>3
<1>3. e.readyState # "CONNECTING"
  BY DEF Connected
<1>4. y.phase # "none" /\ (y.phase # "open" => y.kept = "none")
  BY DEF Sane, ServerSession
<1>5. Connected(e, y, c)
  BY <1>2, <1>3, <1>4 DEF Connected
<1> QED BY <1>5 DEF c

\* A request is read and handled.
LEMMA ServeStep ==
  ASSUME IInv, NEW s \in Sessions, Reads(s), NEW y, NEW r, Sane(y, r),
         server' = [server EXCEPT ![s] = y], toBrowser' = [toBrowser EXCEPT ![s] = @ \o r],
         session[s].open => Reply(session[s], y, r),
         s = page.current => ShownInv(s, session'[s], y, r, Shown(page))
  PROVE  IInv' /\ Local(s)
<1> DEFINE d == session[s]
           e == session'[s]
           x == server[s]
           q == toBrowser[s]
<1>1. /\ d \in Session /\ x \in ServerSession /\ q \in Seq(Messages) /\ Connected(d, x, q)
      /\ SessionInv(d, x, q) /\ CurrentInv(s, d, page)
  BY AtSession DEF SessionInv
<1>2. /\ d # Fresh /\ x.phase = "open" /\ d.readyState # "CONNECTING"
      /\ session' = [session EXCEPT ![s] = e] /\ page' = page
      /\ e \in Session /\ e.toServer = Tail(d.toServer)
      /\ e.kind = d.kind /\ e.readyState = d.readyState /\ e.wsOpen = d.wsOpen
      /\ e.connOpen = d.connOpen /\ e.pendingRequests = d.pendingRequests
      /\ e.timer = d.timer /\ e.open = d.open /\ e.observers = d.observers
      /\ e.state = d.state /\ e.subscribed = d.subscribed
      /\ d.toServer # <<>> /\ d.toServer # <<"CLOSE">>
      /\ d.open => Opening(d) /\ Asked(d, x, q) /\ e.toServer = <<>>
  BY ReadsFacts
<1>3. /\ server' = [server EXCEPT ![s] = server'[s]] /\ server'[s] = y
      /\ toBrowser' = [toBrowser EXCEPT ![s] = toBrowser'[s]] /\ toBrowser'[s] = q \o r
  BY DEF IInv, TypeOK
<1>4. y \in ServerSession /\ y.row <= y.rows /\ q \o r \in Seq(Messages)
  BY <1>1, ConcatProperties DEF Sane
<1> HIDE DEF e, d
<1>5. CASE d.open
  <2>1. q = <<>> /\ q \o r = r
    <3>1. q = <<>>
      BY <1>2, <1>5 DEF Asked
    <3> QED BY <3>1, ConcatEmptySeq DEF Sane
  <2>2. Opening(e) /\ e # Fresh
    BY <1>2, <1>5 DEF Opening, Fresh
  <2>3. e.readyState = "OPEN"
    <3>1. d.readyState = "OPEN"
      BY <1>1, <1>2, <1>5, OpenFacts DEF Connecting
    <3> QED BY <1>2, <3>1
  <2>4. Connected(e, y, q \o r)
    BY <1>1, <1>2, <2>2, ConnectedAfter
  <2>5. Kept(e, y, r) \/ Answered(e, y, r) \/ Expired(e, y, r)
    BY <1>2, <1>5 DEF Reply, Kept, Answered, Expired, d
  <2>6. InOrder(e, r)
    BY <1>2, <1>5 DEF Reply, InOrder, d
  <2>7. SessionInv(e, y, q \o r)
    <3>1. Connected(e, y, r)
      BY <2>1, <2>4
    <3>2. SessionInv(e, y, r)
      BY <2>2, <2>3, <2>5, <2>6, <3>1 DEF SessionInv, Used, Talking
    <3> QED BY <2>1, <3>2
  <2>8. s = page.current => ShownInv(s, e, y, q \o r, Shown(page))
    BY <2>1 DEF e
  <2> QED BY <1>2, <1>3, <1>4, <1>5, <2>7, <2>8, OpenStep DEF e, d
<1>6. CASE ~d.open
  <2>1. Closing(d)
    BY <1>1, <1>2, <1>6, ClosedFacts
  <2>2. Closing(e) /\ e # Fresh
    BY <1>2, <2>1 DEF Closing, Fresh
  <2>3. Connected(e, y, q \o r)
    BY <1>1, <1>2, <2>2, ConnectedAfter
  <2>4. SessionInv(e, y, q \o r)
    BY <2>2, <2>3, ClosedInv
  <2>5. ~SuccessInv(d, x, Shown(page)) /\ ~e.open
    BY <1>2, <1>6 DEF SuccessInv
  <2> QED BY <1>2, <1>3, <1>4, <1>6, <2>2, <2>4, <2>5, ClosedStep DEF e, d
<1> QED BY <1>5, <1>6

\* The request of the current query.
LEMMA CurrentServed ==
  ASSUME IInv, NEW s \in Sessions, Reads(s), s = page.current
  PROVE  LET d == session[s]
             e == session'[s]
             n == Shown(page)
         IN  /\ d.open /\ n \in Nat /\ e.toServer = <<>> /\ e.state = d.state
             /\ \/ Handled(s) = "RUN" /\ d.state = "WAITING_RUN" /\ n = 0
                \/ Handled(s) = "PULL" /\ d.state = "WAITING_PULL" /\ server[s].row = n
<1> DEFINE d == session[s]
<1>1. /\ d \in Session /\ CurrentInv(s, d, page) /\ page \in Page
      /\ ShownInv(s, d, server[s], toBrowser[s], Shown(page))
  BY AtSession
<1>2. d.open /\ d.kind = "query"
  BY <1>1 DEF CurrentInv
<1>3. /\ Opening(d) /\ Asked(d, server[s], toBrowser[s]) /\ Handled(s) = Request(d)
      /\ session'[s].toServer = <<>> /\ session'[s].state = d.state
  BY <1>2, ReadsFacts
<1>4. Shown(page) \in Nat
  BY <1>1, ShownNat, AtSession
<1>5. d.state = "WAITING_RUN" \/ d.state = "WAITING_PULL"
  BY <1>1, <1>3 DEF Opening, Session, ObserverStates
<1>6. d.state = "WAITING_RUN" => Handled(s) = "RUN" /\ Shown(page) = 0
  BY <1>1, <1>2, <1>3 DEF Request, ShownInv
<1>7. d.state = "WAITING_PULL" => Handled(s) = "PULL" /\ server[s].row = Shown(page)
  BY <1>1, <1>2, <1>3 DEF Request, ShownInv, Asked
<1> QED BY <1>2, <1>3, <1>4, <1>5, <1>6, <1>7

LEMMA MessagesInclude ==
  /\ Error \in Messages
  /\ \A b \in BOOLEAN : Success(b) \in Messages /\ Closed(b) \in Messages
  /\ \A s \in Sessions, i \in Nat : Record(s, i) \in Messages
BY DEF Error, Success, Closed, Record, Messages

\* An answer of one message.
LEMMA OneAnswer ==
  ASSUME IInv, NEW s \in Sessions, Reads(s), NEW z \in ServerSession, z.row <= z.rows,
         z.phase = "open", NEW m \in Messages, Ends(m), Answers(s, z, <<m>>),
         s = page.current /\ m.type = "SUCCESS" => session[s].state = "WAITING_RUN" /\ z.row = 0
  PROVE  IInv' /\ Local(s)
<1> DEFINE y == [z EXCEPT !.kept = "none"]
           r == <<m>>
<1>1. /\ y \in ServerSession /\ y.kept = "none" /\ y.phase = "open"
      /\ y.row = z.row /\ y.rows = z.rows
  BY DEF ServerSession
<1>2. server' = [server EXCEPT ![s] = y] /\ toBrowser' = [toBrowser EXCEPT ![s] = @ \o r]
  BY DEF Answers
<1>3. r \in Seq(Messages) /\ Len(r) = 1 /\ r[1] = m /\ r # <<>>
  OBVIOUS
<1>4. ~IsClosed(m) /\ m.type # "RECORD"
  BY DEF Ends, IsClosed
<1> HIDE DEF y, r
<1>5. Sane(y, r)
  BY <1>1, <1>3, <1>4 DEF Sane
<1>6. Reply(session[s], y, r)
  BY <1>1, <1>3, <1>4 DEF Reply
<1>7. ASSUME s = page.current
      PROVE  ShownInv(s, session'[s], y, r, Shown(page))
  <2>1. /\ Shown(page) \in Nat /\ session'[s].toServer = <<>>
        /\ session'[s].state = session[s].state
        /\ session[s].state = "WAITING_RUN" => Shown(page) = 0
    BY <1>7, CurrentServed
  <2>2. m.type = "SUCCESS" => session[s].state = "WAITING_RUN" /\ y.row = 0
    BY <1>1, <1>7
  <2> QED BY <1>3, <1>4, <2>1, <2>2 DEF ShownInv
<1> QED BY <1>2, <1>5, <1>6, <1>7, ServeStep

\* The first rows of what is pulled.
LEMMA PulledFacts ==
  ASSUME IInv, NEW s \in Sessions, NEW n \in Nat
  PROVE  /\ Pulled(s, n) \in Seq(Messages) /\ Len(Pulled(s, n)) = n
         /\ \A k \in 1 .. n : /\ Pulled(s, n)[k].type = "RECORD"
                              /\ Pulled(s, n)[k].row = <<s, server[s].row + k>>
<1>1. server[s].row \in Nat
  BY AtSession DEF ServerSession
<1>2. \A i \in 1 .. n : Record(s, server[s].row + i) \in Messages
  BY <1>1, MessagesInclude
<1>3. Pulled(s, n) \in [1 .. n -> Messages]
  BY <1>2 DEF Pulled
<1>4. Pulled(s, n) \in Seq(Messages) /\ Len(Pulled(s, n)) = n
  BY <1>3, LenProperties, SeqDef
<1> QED BY <1>4 DEF Pulled, Record

\* Only records follow a PULL that was not answered, and none a RUN.
OnlyRecords(s, r) ==
  /\ r \in Seq(Messages)
  /\ \A k \in 1 .. Len(r) : /\ r[k].type = "RECORD" /\ r[k].row = <<s, server[s].row + k>>
                            /\ Handled(s) = "PULL"

\* A request that the server keeps.
LEMMA SwallowedStep ==
  ASSUME IInv, NEW s \in Sessions, Reads(s), NEW r, OnlyRecords(s, r), Swallowed(s, r)
  PROVE  IInv' /\ Local(s)
<1> DEFINE h == Handled(s)
           x == server[s]
           y == [x EXCEPT !.kept = h]
<1>1. /\ h \in Requests \ {"CLOSE"} /\ x.phase = "open" /\ x \in ServerSession /\ x.row <= x.rows
      /\ session[s].open => h = Request(session[s])
  BY ReadsFacts, AtSession
<1>2. server' = [server EXCEPT ![s] = y] /\ toBrowser' = [toBrowser EXCEPT ![s] = @ \o r]
  BY DEF Swallowed
<1>3. h # "none"
  BY <1>1 DEF Requests
<1>h. h = "PULL" <=> Handled(s) = "PULL"
  OBVIOUS
<1> HIDE DEF h
<1>4. y \in ServerSession /\ y.kept # "none" /\ y.phase = "open" /\ y.row = x.row /\ y.rows = x.rows
  BY <1>1, <1>3 DEF ServerSession
<1> HIDE DEF y
<1>5. \A k \in 1 .. Len(r) : ~Ends(r[k]) /\ ~IsClosed(r[k])
  BY DEF OnlyRecords, Ends, IsClosed
<1>6. Sane(y, r)
  BY <1>1, <1>4, <1>5 DEF Sane, OnlyRecords
<1>7. ASSUME session[s].open PROVE Reply(session[s], y, r)
  <2>1. session[s].state = "WAITING_RUN" => h # "PULL"
    BY <1>1, <1>7 DEF Request
  <2>2. session[s].state = "WAITING_RUN" => \A k \in 1 .. Len(r) : r[k].type # "RECORD"
    BY <1>h, <2>1 DEF OnlyRecords
  <2> QED BY <1>4, <1>5, <2>2 DEF Reply
<1>8. ASSUME s = page.current
      PROVE  ShownInv(s, session'[s], y, r, Shown(page))
  <2>1. /\ session'[s].toServer = <<>> /\ session'[s].state = session[s].state
        /\ Shown(page) \in Nat
        /\ session[s].state = "WAITING_RUN" => Shown(page) = 0
        /\ Handled(s) = "PULL" => x.row = Shown(page)
    BY <1>8, CurrentServed
  <2> QED BY <2>1 DEF ShownInv, OnlyRecords
<1> QED BY <1>2, <1>6, <1>7, <1>8, ServeStep

\* The session of the server after it was destroyed.
LEMMA EndedFields ==
  ASSUME NEW x \in ServerSession
  PROVE  LET y == Ended(x)
         IN  /\ y \in ServerSession /\ y.phase = "closed" /\ y.kept = "none"
             /\ y.rows = x.rows /\ y.row <= y.rows
<1>1. NoServer \in ServerSession /\ NoServer.kept = "none" /\ NoServer.row = 0
  BY DEF NoServer, ServerSession
<1>2. x.rows \in Nat
  BY DEF ServerSession
<1> DEFINE a == [NoServer EXCEPT !.phase = "closed"]
           b == [a EXCEPT !.rows = x.rows]
<1>3. a \in ServerSession /\ a.phase = "closed" /\ a.kept = "none" /\ a.row = 0
  BY <1>1 DEF ServerSession
<1>4. Ended(x) = b
  BY DEF Ended
<1> HIDE DEF a
<1>5. /\ b \in ServerSession /\ b.phase = "closed" /\ b.kept = "none" /\ b.row = 0
      /\ b.rows = x.rows
  BY <1>2, <1>3 DEF ServerSession
<1> HIDE DEF b
<1> QED BY <1>2, <1>4, <1>5

\* A query that its timeout interrupts.
LEMMA TimedOutStep ==
  ASSUME IInv, NEW s \in Sessions, Reads(s), NEW p, OnlyRecords(s, p), TimedOut(s, p)
  PROVE  IInv' /\ Local(s)
<1> DEFINE x == server[s]
           y == Ended(x)
           r == p \o <<Error, Closed(TRUE)>>
           n == Len(p)
<1>1. /\ x \in ServerSession /\ toBrowser[s] \in Seq(Messages)
      /\ session[s].open => Handled(s) = Request(session[s])
  BY ReadsFacts, AtSession
<1>2. /\ y \in ServerSession /\ y.row <= y.rows /\ y.phase = "closed" /\ y.kept = "none"
  BY <1>1, EndedFields
<1>3. /\ p \in Seq(Messages) /\ n \in Nat /\ <<Error, Closed(TRUE)>> \in Seq(Messages)
  <2>1. p \in Seq(Messages)
    BY DEF OnlyRecords
  <2>2. Error \in Messages /\ Closed(TRUE) \in Messages
    BY MessagesInclude
  <2>3. \A a, b \in Messages : <<a, b>> \in Seq(Messages)
    OBVIOUS
  <2>4. n \in Nat
    BY <2>1, EmptyLen
  <2> QED BY <2>1, <2>2, <2>3, <2>4, Zenon
<1>4. /\ r \in Seq(Messages) /\ Len(r) = n + 2 /\ r[n + 1] = Error /\ r[n + 2] = Closed(TRUE)
      /\ \A k \in 1 .. n : r[k] = p[k]
  <2> DEFINE u == <<Error, Closed(TRUE)>>
  <2>1. u \in Seq(Messages) /\ Len(u) = 2 /\ u[1] = Error /\ u[2] = Closed(TRUE)
    BY <1>3
  <2>2. r = p \o u
    OBVIOUS
  <2> HIDE DEF u, r
  <2>3. /\ r \in Seq(Messages) /\ Len(r) = n + 2
        /\ \A k \in 1 .. n + 2 : r[k] = IF k <= n THEN p[k] ELSE u[k - n]
    <3>1. p \in Seq(Messages) /\ u \in Seq(Messages) /\ Len(u) = 2
      BY <1>3, <2>1
    <3>2. /\ p \o u \in Seq(Messages) /\ Len(p \o u) = Len(p) + Len(u)
          /\ \A k \in 1 .. Len(p) + Len(u) :
               (p \o u)[k] = IF k <= Len(p) THEN p[k] ELSE u[k - Len(p)]
      BY <3>1, ConcatProperties
    <3> QED BY <2>2, <3>1, <3>2
  <2>4. r[n + 1] = u[n + 1 - n] /\ r[n + 2] = u[n + 2 - n] /\ \A k \in 1 .. n : r[k] = p[k]
    BY <1>3, <2>3
  <2>5. n + 1 - n = 1 /\ n + 2 - n = 2
    BY <1>3
  <2> QED BY <2>1, <2>3, <2>4, <2>5
<1>5. server' = [server EXCEPT ![s] = y] /\ toBrowser' = [toBrowser EXCEPT ![s] = @ \o r]
  <2>1. toBrowser' = [toBrowser EXCEPT ![s] = @ \o p \o <<Error, Closed(TRUE)>>]
    BY DEF TimedOut
  <2>2. toBrowser[s] \o p \o <<Error, Closed(TRUE)>> = toBrowser[s] \o r
    <3> DEFINE u == <<Error, Closed(TRUE)>>
               q == toBrowser[s]
    <3>1. q \in Seq(Messages) /\ u \in Seq(Messages) /\ p \in Seq(Messages)
      BY <1>1, <1>3
    <3> HIDE DEF u, q
    <3>2. (q \o p) \o u = q \o (p \o u)
      BY <3>1, ConcatAssociative
    <3> QED BY <3>2 DEF u, q
  <2> QED BY <2>1, <2>2 DEF TimedOut
<1> HIDE DEF y, r, n
<1>6. \A k \in 1 .. Len(r) :
        \/ k \in 1 .. n /\ r[k].type = "RECORD" /\ r[k].row = <<s, x.row + k>> /\ Handled(s) = "PULL"
        \/ k = n + 1 /\ r[k].type = "ERROR"
        \/ k = n + 2 /\ r[k].type = "CLOSED"
  <2> TAKE k \in 1 .. Len(r)
  <2>1. k \in 1 .. n \/ k = n + 1 \/ k = n + 2
    BY <1>3, <1>4
  <2>2. r[n + 1].type = "ERROR" /\ r[n + 2].type = "CLOSED"
    BY <1>4 DEF Error, Closed
  <2>3. \A i \in 1 .. n : /\ p[i].type = "RECORD" /\ p[i].row = <<s, x.row + i>>
                          /\ Handled(s) = "PULL"
    BY DEF OnlyRecords, n
  <2> QED BY <1>4, <2>1, <2>2, <2>3
<1>7. Sane(y, r)
  BY <1>2, <1>3, <1>4, <1>6 DEF Sane, IsClosed
<1>8. ASSUME session[s].open PROVE Reply(session[s], y, r)
  <2>1. Len(r) > 1 /\ r[Len(r) - 1] = Error /\ r[Len(r)] = Closed(TRUE)
    BY <1>3, <1>4
  <2>2. \A k \in 1 .. Len(r) : Ends(r[k]) => k = Len(r) \/ IsClosed(r[k + 1])
    <3> TAKE k \in 1 .. Len(r)
    <3>1. Ends(r[k]) => k = n + 1
      BY <1>6 DEF Ends
    <3>2. n + 1 + 1 = n + 2 /\ IsClosed(r[n + 2])
      BY <1>3, <1>4 DEF IsClosed, Closed
    <3> QED BY <3>1, <3>2
  <2>3. session[s].state = "WAITING_RUN" => \A k \in 1 .. Len(r) : r[k].type # "RECORD"
    <3>1. session[s].state = "WAITING_RUN" => Handled(s) # "PULL"
      BY <1>1, <1>8 DEF Request
    <3> QED BY <1>6, <3>1
  <2> QED BY <1>2, <2>1, <2>2, <2>3 DEF Reply
<1>9. ASSUME s = page.current
      PROVE  ShownInv(s, session'[s], y, r, Shown(page))
  <2>1. /\ session'[s].toServer = <<>> /\ session'[s].state = session[s].state
        /\ Shown(page) \in Nat
        /\ session[s].state = "WAITING_RUN" => Shown(page) = 0
        /\ Handled(s) = "PULL" => x.row = Shown(page)
    BY <1>9, CurrentServed
  <2>2. \A k \in 1 .. Len(r) : r[k].type = "RECORD" => r[k].row = <<s, Shown(page) + k>>
    BY <1>6, <2>1
  <2>3. \A k \in 1 .. Len(r) : r[k].type # "SUCCESS"
    BY <1>6
  <2> QED BY <2>1, <2>2, <2>3 DEF ShownInv
<1> QED BY <1>5, <1>7, <1>8, <1>9, ServeStep

LEMMA NoRecords ==
  ASSUME NEW s PROVE OnlyRecords(s, <<>>)
BY EmptySeq DEF OnlyRecords

LEMMA HandleRunStep ==
  ASSUME IInv, NEW s \in Sessions, HandleRun(s)
  PROVE  IInv' /\ Local(s)
<1> DEFINE x == server[s]
<1>1. /\ Reads(s) /\ Handled(s) = "RUN"
      /\ \/ \E n \in 0 .. MaxRows :
               Answers(s, [x EXCEPT !.state = "STREAMING", !.rows = n, !.row = 0],
                       <<Success(FALSE)>>)
         \/ Answers(s, x, <<Error>>)
         \/ TimedOut(s, <<>>)
         \/ Swallowed(s, <<>>)
  BY DEF HandleRun
<1>2. x \in ServerSession /\ x.row <= x.rows /\ x.phase = "open"
  BY <1>1, AtSession, ReadsFacts
<1>3. s = page.current => session[s].state = "WAITING_RUN"
  BY <1>1, CurrentServed
<1>4. CASE \E n \in 0 .. MaxRows :
             Answers(s, [x EXCEPT !.state = "STREAMING", !.rows = n, !.row = 0],
                     <<Success(FALSE)>>)
  <2>1. PICK n \in 0 .. MaxRows :
          Answers(s, [x EXCEPT !.state = "STREAMING", !.rows = n, !.row = 0],
                  <<Success(FALSE)>>)
    BY <1>4
  <2> DEFINE z == [x EXCEPT !.state = "STREAMING", !.rows = n, !.row = 0]
             m == Success(FALSE)
  <2>2. n \in Nat
    BY ConstantsAssumption
  <2>3. z \in ServerSession /\ z.row <= z.rows /\ z.phase = "open" /\ z.row = 0
    <3> HIDE DEF x
    <3>1. z \in ServerSession
      BY <1>2, <2>2 DEF ServerSession
    <3>2. z.row = 0 /\ z.rows = n /\ z.phase = "open"
      BY <1>2 DEF ServerSession
    <3> QED BY <2>2, <3>1, <3>2
  <2>4. m \in Messages /\ Ends(m)
    BY MessagesInclude DEF Success, Ends
  <2>5. Answers(s, z, <<m>>)
    BY <2>1
  <2> HIDE DEF z, m
  <2> QED BY <1>1, <1>3, <2>3, <2>4, <2>5, OneAnswer
<1>5. CASE Answers(s, x, <<Error>>)
  <2>1. Error \in Messages /\ Ends(Error) /\ Error.type # "SUCCESS"
    BY MessagesInclude DEF Error, Ends
  <2> QED BY <1>1, <1>2, <1>5, <2>1, OneAnswer
<1> QED BY <1>1, <1>4, <1>5, NoRecords, TimedOutStep, SwallowedStep

LEMMA HandleCatalogStep ==
  ASSUME IInv, NEW s \in Sessions, HandleCatalog(s)
  PROVE  IInv' /\ Local(s)
<1>1. Reads(s) /\ Handled(s) = "CATALOG" /\ Answers(s, server[s], <<Success(FALSE)>>)
  BY DEF HandleCatalog
<1>2. server[s] \in ServerSession /\ server[s].row <= server[s].rows /\ server[s].phase = "open"
  BY <1>1, AtSession, ReadsFacts
<1>3. Success(FALSE) \in Messages /\ Ends(Success(FALSE))
  BY MessagesInclude DEF Success, Ends
<1>4. s # page.current
  BY <1>1, CurrentServed
<1> QED BY <1>1, <1>2, <1>3, <1>4, OneAnswer

LEMMA HandleDiscardStep ==
  ASSUME IInv, NEW s \in Sessions, HandleDiscard(s)
  PROVE  IInv' /\ Local(s)
<1> DEFINE x == server[s]
           z == [x EXCEPT !.state = "READY"]
           y == [x EXCEPT !.kept = "none"]
<1>1. /\ Reads(s) /\ Handled(s) = "DISCARD"
      /\ Answers(s, z, <<Success(FALSE)>>) \/ Answers(s, x, <<>>)
  BY DEF HandleDiscard
<1>2. /\ x \in ServerSession /\ x.row <= x.rows /\ x.phase = "open"
      /\ session[s].open => Handled(s) = Request(session[s])
      /\ session[s] \in Session /\ toBrowser[s] \in Seq(Messages)
  BY <1>1, AtSession, ReadsFacts
<1>3. Success(FALSE) \in Messages /\ Ends(Success(FALSE))
  BY MessagesInclude DEF Success, Ends
<1>4. ~session[s].open /\ s # page.current
  <2>1. Request(session[s]) # "DISCARD"
    BY DEF Request
  <2> QED BY <1>1, <1>2, <2>1, CurrentServed
<1>5. z \in ServerSession /\ z.row <= z.rows /\ z.phase = "open"
  BY <1>2 DEF ServerSession
<1>6. CASE Answers(s, z, <<Success(FALSE)>>)
  <2> HIDE DEF z
  <2> QED BY <1>1, <1>3, <1>4, <1>5, <1>6, OneAnswer
<1>7. CASE Answers(s, x, <<>>)
  <2>1. server' = [server EXCEPT ![s] = y] /\ toBrowser' = [toBrowser EXCEPT ![s] = @ \o <<>>]
    BY <1>7 DEF Answers
  <2>2. Sane(y, <<>>)
    BY <1>2, EmptySeq DEF Sane, ServerSession
  <2> HIDE DEF y
  <2> QED BY <1>1, <1>4, <2>1, <2>2, ServeStep
<1> QED BY <1>1, <1>6, <1>7

\* A pull takes no more rows than are left, and says that there are more unless it took all.
LEMMA PullSizeFacts ==
  ASSUME IInv, NEW s \in Sessions
  PROVE  LET x == server[s]
         IN  /\ PullSize(s) \in Nat /\ x.row \in Nat /\ x.rows \in Nat
             /\ x.row + PullSize(s) <= x.rows
             /\ HasNext(s) \in BOOLEAN
             /\ ~HasNext(s) => x.rows = x.row + PullSize(s)
<1> DEFINE a == server[s].row
           b == server[s].rows
<1>1. a \in Nat /\ b \in Nat /\ a <= b
  BY AtSession DEF ServerSession
<1>2. PullSize(s) = IF b - a < FetchSize THEN b - a ELSE FetchSize
  BY DEF PullSize
<1>3. (HasNext(s) <=> a + PullSize(s) < b) /\ HasNext(s) \in BOOLEAN
  BY DEF HasNext
<1> HIDE DEF a, b
<1>4. PullSize(s) \in Nat /\ a + PullSize(s) <= b
  BY <1>1, <1>2, ConstantsAssumption
<1>5. ~(a + PullSize(s) < b) => b = a + PullSize(s)
  BY <1>1, <1>4
<1>6. ~HasNext(s) => b = a + PullSize(s)
  BY <1>3, <1>5, Zenon
<1> QED BY <1>1, <1>3, <1>4, <1>6 DEF a, b

LEMMA PullAnswered ==
  ASSUME IInv, NEW s \in Sessions, Reads(s), Handled(s) = "PULL",
         Answers(s, [server[s] EXCEPT !.row = @ + PullSize(s),
                                      !.state = IF HasNext(s) THEN @ ELSE "READY"],
                 Append(Pulled(s, PullSize(s)), Success(HasNext(s))))
  PROVE  IInv' /\ Local(s)
<1> DEFINE x == server[s]
           n == PullSize(s)
           p == Pulled(s, n)
           m == Success(HasNext(s))
           r == Append(p, m)
           i == x.row + n
           t == IF HasNext(s) THEN x.state ELSE "READY"
           y == [[x EXCEPT !.row = i, !.state = t] EXCEPT !.kept = "none"]
<1>1. /\ x \in ServerSession /\ x.phase = "open"
      /\ session[s].open => Handled(s) = Request(session[s])
  BY ReadsFacts, AtSession
<1>2. /\ n \in Nat /\ x.row \in Nat /\ x.rows \in Nat /\ i <= x.rows
      /\ ~HasNext(s) => x.rows = i
      /\ HasNext(s) \in BOOLEAN
  BY PullSizeFacts
<1>3. /\ p \in Seq(Messages) /\ Len(p) = n
      /\ \A k \in 1 .. n : p[k].type = "RECORD" /\ p[k].row = <<s, x.row + k>>
  BY <1>2, PulledFacts
<1>4. m \in Messages /\ m.type = "SUCCESS" /\ (m.hasNext = TRUE \/ x.rows = i)
  <2>1. m \in Messages
    BY <1>2, MessagesInclude
  <2>2. m.type = "SUCCESS" /\ m.hasNext = HasNext(s)
    BY DEF Success
  <2> QED BY <1>2, <2>1, <2>2
<1>5. t \in {"READY", "STREAMING"} /\ i \in Nat
  BY <1>1, <1>2 DEF ServerSession
<1>6. server' = [server EXCEPT ![s] = y] /\ toBrowser' = [toBrowser EXCEPT ![s] = @ \o r]
  BY DEF Answers
<1> HIDE DEF p, m, n, i, t
<1>7. /\ y \in ServerSession /\ y.row = i /\ y.rows = x.rows /\ y.phase = "open"
      /\ y.kept = "none"
  <2> DEFINE a == [x EXCEPT !.row = i]
             b == [a EXCEPT !.state = t]
  <2>1. a \in ServerSession /\ a.row = i /\ a.rows = x.rows /\ a.phase = "open"
    BY <1>1, <1>5 DEF ServerSession
  <2>2. y = [b EXCEPT !.kept = "none"]
    OBVIOUS
  <2> HIDE DEF a, y
  <2>3. b \in ServerSession /\ b.row = i /\ b.rows = x.rows /\ b.phase = "open"
    BY <1>5, <2>1 DEF ServerSession
  <2> HIDE DEF b
  <2> QED BY <2>2, <2>3 DEF ServerSession
<1>8. /\ r \in Seq(Messages) /\ Len(r) = n + 1 /\ r[n + 1] = m
      /\ \A k \in 1 .. n : r[k] = p[k]
  BY <1>3, <1>4, AppendProperties
<1> HIDE DEF r, y
<1>9. \A k \in 1 .. Len(r) :
        \/ k \in 1 .. n /\ r[k].type = "RECORD" /\ r[k].row = <<s, x.row + k>>
        \/ k = n + 1 /\ r[k] = m
  <2> TAKE k \in 1 .. Len(r)
  <2>1. k \in 1 .. n \/ k = n + 1
    BY <1>2, <1>8
  <2> QED BY <1>3, <1>8, <2>1
<1>10. Sane(y, r)
  <2>1. \A k \in 1 .. Len(r) : ~IsClosed(r[k])
    BY <1>4, <1>9 DEF IsClosed
  <2> QED BY <1>2, <1>7, <1>8, <2>1 DEF Sane
<1>11. ASSUME session[s].open PROVE Reply(session[s], y, r)
  <2>1. session[s].state # "WAITING_RUN"
    BY <1>1, <1>11 DEF Request
  <2>2. r # <<>> /\ Ends(r[Len(r)])
    <3>1. Len(r) # 0 /\ Ends(m)
      BY <1>2, <1>4, <1>8 DEF Ends
    <3> QED BY <1>8, <3>1, EmptyLen
  <2>3. \A k \in 1 .. Len(r) : Ends(r[k]) => k = Len(r)
    BY <1>8, <1>9 DEF Ends
  <2> QED BY <1>7, <2>1, <2>2, <2>3 DEF Reply
<1>12. ASSUME s = page.current
       PROVE  ShownInv(s, session'[s], y, r, Shown(page))
  <2>1. /\ session'[s].toServer = <<>> /\ session'[s].state = "WAITING_PULL"
        /\ Shown(page) \in Nat /\ x.row = Shown(page)
    BY <1>12, CurrentServed
  <2>2. \A k \in 1 .. Len(r) : r[k].type = "RECORD" => r[k].row = <<s, Shown(page) + k>>
    BY <1>4, <1>9, <2>1
  <2>3. i = Shown(page) + n
    BY <2>1 DEF i
  <2>4. \A k \in 1 .. Len(r) : r[k].type = "SUCCESS" =>
          i = Shown(page) + k - 1 /\ (r[k].hasNext = TRUE \/ x.rows = i)
    BY <1>2, <1>4, <1>9, <2>1, <2>3
  <2> QED BY <1>7, <2>1, <2>2, <2>4 DEF ShownInv
<1> QED BY <1>6, <1>10, <1>11, <1>12, ServeStep

LEMMA HandlePullStep ==
  ASSUME IInv, NEW s \in Sessions, HandlePull(s)
  PROVE  IInv' /\ Local(s)
<1>1. /\ Reads(s) /\ Handled(s) = "PULL"
      /\ \/ Answers(s, [server[s] EXCEPT !.row = @ + PullSize(s),
                                         !.state = IF HasNext(s) THEN @ ELSE "READY"],
                    Append(Pulled(s, PullSize(s)), Success(HasNext(s))))
         \/ \E n \in 0 .. PullSize(s) : TimedOut(s, Pulled(s, n)) \/ Swallowed(s, Pulled(s, n))
         \/ Swallowed(s, <<>>)
  BY DEF HandlePull
<1>2. \A n \in 0 .. PullSize(s) : OnlyRecords(s, Pulled(s, n))
  <2> TAKE n \in 0 .. PullSize(s)
  <2>1. n \in Nat
    BY PullSizeFacts
  <2> QED BY <1>1, <2>1, PulledFacts DEF OnlyRecords
<1> QED BY <1>1, <1>2, PullAnswered, NoRecords, TimedOutStep, SwallowedStep

LEMMA EndSessionStep ==
  ASSUME IInv, NEW s \in Sessions, EndSession(s)
  PROVE  IInv' /\ Local(s)
<1> DEFINE d == session[s]
           x == server[s]
           q == toBrowser[s]
           y == Ended(x)
           t == Append(q, Closed(TRUE))
<1>1. /\ d \in Session /\ x \in ServerSession /\ q \in Seq(Messages)
      /\ SessionInv(d, x, q) /\ Connected(d, x, q)
  BY AtSession DEF SessionInv
<1>2. /\ x.phase = "open" /\ d.toServer # <<>> /\ Head(d.toServer) = "CLOSE"
      /\ server' = [server EXCEPT ![s] = y] /\ toBrowser' = [toBrowser EXCEPT ![s] = t]
      /\ session' = session /\ page' = page
  BY DEF EndSession
<1>3. /\ y \in ServerSession /\ y.phase = "closed" /\ y.kept = "none"
      /\ y.rows = x.rows /\ y.row <= y.rows
  BY <1>1, EndedFields
<1> HIDE DEF y, t
<1>4. /\ session' = [session EXCEPT ![s] = session'[s]] /\ session'[s] = d
      /\ server' = [server EXCEPT ![s] = server'[s]] /\ server'[s] = y
      /\ toBrowser' = [toBrowser EXCEPT ![s] = toBrowser'[s]] /\ toBrowser'[s] = t
  BY <1>2 DEF IInv, TypeOK
<1>5. ~d.open /\ d # Fresh /\ d.readyState # "CONNECTING"
  <2>1. d.readyState # "CONNECTING" /\ d # Fresh
    BY <1>1, <1>2 DEF Connected
  <2>2. ASSUME d.open PROVE FALSE
    <3>1. Asked(d, x, q) \/ Kept(d, x, q) \/ Answered(d, x, q) \/ Expired(d, x, q) \/ Lost(q)
      BY <1>1, <2>1, <2>2, OpenFacts DEF Connecting
    <3>2. ~Lost(q)
      <4>1. ASSUME Lost(q) PROVE FALSE
        <5>1. Len(q) \in 1 .. Len(q) /\ IsClosed(q[Len(q)])
          BY <1>1, <4>1, EmptyLen DEF Lost, IsClosed, Closed
        <5> QED BY <1>1, <1>2, <5>1 DEF Connected
      <4> QED BY <4>1
    <3>3. d.toServer = <<Request(d)>>
      BY <1>2, <3>1, <3>2 DEF Asked, Kept, Answered, Expired
    <3>4. Request(d) # "CLOSE"
      BY DEF Request
    <3> QED BY <1>2, <3>3, <3>4
  <2> QED BY <2>1, <2>2
<1>6. t \in Seq(Messages) /\ Connected(d, y, t)
  <2>1. Closed(TRUE) \in Messages
    BY MessagesInclude
  <2>2. /\ t \in Seq(Messages) /\ Len(t) = Len(q) + 1 /\ Len(q) \in Nat
        /\ \A k \in 1 .. Len(q) : t[k] = q[k]
    <3> DEFINE m == Closed(TRUE)
    <3>1. m \in Messages /\ t = Append(q, m)
      BY <2>1 DEF t
    <3> HIDE DEF m, q
    <3> QED BY <1>1, <3>1, AppendProperties, EmptyLen
  <2>3. \A k \in 1 .. Len(t) : IsClosed(t[k]) => k = Len(t)
    <3> TAKE k \in 1 .. Len(t)
    <3>1. k \in 1 .. Len(q) \/ k = Len(t)
      BY <2>2
    <3>2. k \in 1 .. Len(q) => ~IsClosed(q[k])
      BY <1>1, <1>2 DEF Connected
    <3> QED BY <2>2, <3>1, <3>2
  <2> QED BY <1>1, <1>2, <1>3, <1>5, <2>2, <2>3 DEF Connected
<1>7. SessionInv(d, y, t)
  BY <1>1, <1>5, <1>6, ClosedFacts, ClosedInv
<1>8. SuccessInv(d, x, Shown(page)) => SuccessInv(d, y, Shown(page))
  BY <1>3 DEF SuccessInv
<1> QED BY <1>1, <1>2, <1>3, <1>4, <1>5, <1>6, <1>7, <1>8, ClosedStep

\* The connection of an open session is lost, and with it the last messages.
LEMMA ConnectionLostStep ==
  ASSUME IInv, NEW s \in Sessions, ConnectionLost(s)
  PROVE  IInv' /\ Local(s)
<1> DEFINE d == session[s]
           x == server[s]
           q == toBrowser[s]
           y == Ended(x)
<1>1. /\ d \in Session /\ x \in ServerSession /\ q \in Seq(Messages)
      /\ SessionInv(d, x, q) /\ Connected(d, x, q)
      /\ s = page.current => ShownInv(s, d, x, q, Shown(page))
  BY AtSession DEF SessionInv
<1>2. /\ x.phase = "open" /\ d.open /\ server' = [server EXCEPT ![s] = y]
      /\ session' = session /\ page' = page
  BY DEF ConnectionLost
<1>3. PICK n \in 0 .. Len(q) : toBrowser' = [toBrowser EXCEPT ![s] = Append(SubSeq(@, 1, n), Closed(FALSE))]
  BY DEF ConnectionLost
<1> DEFINE m == Closed(FALSE)
           t == Append(SubSeq(q, 1, n), m)
<1>4. /\ y \in ServerSession /\ y.phase = "closed" /\ y.kept = "none"
      /\ y.rows = x.rows /\ y.row <= y.rows
  BY <1>1, EndedFields
<1>5. m \in Messages /\ m.type = "CLOSED"
  BY MessagesInclude DEF Closed
<1>6. toBrowser' = [toBrowser EXCEPT ![s] = t]
  BY <1>3
<1> HIDE DEF y, m
<1>7. /\ t \in Seq(Messages) /\ Len(t) = n + 1 /\ t[n + 1] = m /\ n \in Nat /\ n <= Len(q)
      /\ \A k \in 1 .. n : t[k] = q[k]
  <2> DEFINE u == SubSeq(q, 1, n)
  <2>1. Len(q) \in Nat /\ n \in Nat /\ n <= Len(q)
    BY <1>1, EmptyLen
  <2>2. u \in Seq(Messages) /\ Len(u) = n /\ \A k \in 1 .. n : u[k] = q[k]
    BY <1>1, <2>1, SubSeqProperties
  <2> HIDE DEF u
  <2>3. /\ Append(u, m) \in Seq(Messages) /\ Len(Append(u, m)) = n + 1
        /\ Append(u, m)[n + 1] = m /\ \A k \in 1 .. n : Append(u, m)[k] = u[k]
    BY <1>5, <2>2, AppendProperties
  <2> QED BY <2>1, <2>2, <2>3 DEF u
<1> HIDE DEF t
<1>8. /\ session' = [session EXCEPT ![s] = session'[s]] /\ session'[s] = d
      /\ server' = [server EXCEPT ![s] = server'[s]] /\ server'[s] = y
      /\ toBrowser' = [toBrowser EXCEPT ![s] = toBrowser'[s]] /\ toBrowser'[s] = t
  BY <1>2, <1>6 DEF IInv, TypeOK
<1>9. /\ Opening(d) /\ InOrder(d, q) /\ d # Fresh /\ d.readyState = "OPEN"
  <2>1. d.readyState # "CONNECTING"
    BY <1>1, <1>2 DEF Connected
  <2> QED BY <1>1, <1>2, <2>1, OpenFacts DEF Connecting
<1>10. \A k \in 1 .. Len(t) : \/ t[k] = m /\ k = n + 1
                              \/ t[k] = q[k] /\ k \in 1 .. n /\ k \in 1 .. Len(q)
  <2> TAKE k \in 1 .. Len(t)
  <2>1. k \in 1 .. n \/ k = n + 1
    BY <1>7
  <2>2. k \in 1 .. n => k \in 1 .. Len(q)
    BY <1>1, <1>7, EmptyLen
  <2> QED BY <1>7, <2>1, <2>2
<1>11. Connected(d, y, t)
  <2>1. \A k \in 1 .. Len(t) : IsClosed(t[k]) => k = Len(t)
    <3> TAKE k \in 1 .. Len(t)
    <3>1. k \in 1 .. Len(q) => ~IsClosed(q[k])
      BY <1>1, <1>2 DEF Connected
    <3> QED BY <1>7, <1>10, <3>1
  <2> QED BY <1>1, <1>4, <1>9, <2>1 DEF Connected
<1>12. InOrder(d, t)
  <2>1. ASSUME NEW k \in 1 .. Len(t), Ends(t[k])
        PROVE  d.toServer = <<>> /\ (k = Len(t) \/ IsClosed(t[k + 1]))
    <3>1. k \in 1 .. n /\ t[k] = q[k] /\ k \in 1 .. Len(q)
      BY <1>5, <1>10, <2>1 DEF Ends
    <3>2. d.toServer = <<>> /\ (k = Len(q) \/ IsClosed(q[k + 1]))
      BY <1>9, <2>1, <3>1 DEF InOrder
    <3>3. CASE k = n
      <4>1. IsClosed(t[k + 1])
        BY <1>5, <1>7, <3>3 DEF IsClosed
      <4> QED BY <3>2, <4>1
    <3>4. CASE k # n
      <4>1. k + 1 \in 1 .. n /\ k # Len(q)
        BY <1>7, <3>1, <3>4
      <4>2. t[k + 1] = q[k + 1]
        BY <1>7, <4>1
      <4> QED BY <3>2, <4>1, <4>2
    <3> QED BY <3>3, <3>4
  <2>2. ASSUME d.state = "WAITING_RUN" PROVE \A k \in 1 .. Len(t) : t[k].type # "RECORD"
    <3>1. \A k \in 1 .. Len(q) : q[k].type # "RECORD"
      BY <1>9, <2>2 DEF InOrder
    <3> QED BY <1>5, <1>10, <3>1
  <2> QED BY <2>1, <2>2 DEF InOrder
<1>13. SessionInv(d, y, t)
  <2>1. Lost(t)
    <3>1. t # <<>> /\ t[Len(t)] = m
      BY <1>7, EmptyLen
    <3> QED BY <3>1 DEF Lost, m
  <2> QED BY <1>9, <1>11, <1>12, <2>1 DEF SessionInv, Used, Talking
<1>14. ASSUME s = page.current
       PROVE  ShownInv(s, d, y, t, Shown(page))
  <2>1. ShownInv(s, d, x, q, Shown(page))
    BY <1>1, <1>14
  <2>2. ASSUME NEW k \in 1 .. Len(t)
        PROVE  /\ t[k].type = "RECORD" => t[k].row = <<s, Shown(page) + k>>
               /\ t[k].type = "SUCCESS" /\ d.state = "WAITING_PULL" /\ ~t[k].hasNext
                    => x.rows = Shown(page) + k - 1
    BY <1>5, <1>10, <2>1, <2>2 DEF ShownInv
  <2> QED BY <1>4, <2>1, <2>2 DEF ShownInv
<1> QED BY <1>1, <1>2, <1>4, <1>7, <1>8, <1>13, <1>14, OpenStep

-----------------------------------------------------------------------------
(***************************************************************************)
(* The user.                                                               *)
(***************************************************************************)
\* A session that begins: its request waits for the socket, its observer is queued.
LEMMA BeginFields ==
  ASSUME NEW kind \in Kinds
  PROVE  LET r == IF kind = "catalog" THEN "CATALOG" ELSE "RUN"
             e == Send([Fresh EXCEPT !.kind = kind, !.readyState = "CONNECTING", !.open = TRUE,
                                     !.subscribed = TRUE], r)
         IN  /\ e \in Session /\ Opening(e) /\ Connecting(e) /\ e.kind = kind /\ e # Fresh
             /\ e.wsOpen = FALSE /\ e.toServer = <<>>
<1> DEFINE r == IF kind = "catalog" THEN "CATALOG" ELSE "RUN"
           a == [Fresh EXCEPT !.kind = kind, !.readyState = "CONNECTING", !.open = TRUE,
                              !.subscribed = TRUE]
           b == [a EXCEPT !.observers = 1]
           l == Append(<<>>, r)
           e == [b EXCEPT !.pendingRequests = l]
<1>1. Fresh \in Session
  BY EmptySeq DEF Fresh, Session, Kinds, ReadyStates, ObserverStates
<1>2. /\ a \in Session /\ a.kind = kind /\ a.readyState = "CONNECTING" /\ a.wsOpen = FALSE
      /\ a.connOpen = TRUE /\ a.pendingRequests = <<>> /\ a.timer = FALSE /\ a.open = TRUE
      /\ a.observers = 0 /\ a.state = "WAITING_RUN" /\ a.subscribed = TRUE /\ a.toServer = <<>>
  <2>1. /\ Fresh.wsOpen = FALSE /\ Fresh.connOpen = TRUE /\ Fresh.pendingRequests = <<>>
        /\ Fresh.timer = FALSE /\ Fresh.observers = 0 /\ Fresh.state = "WAITING_RUN"
        /\ Fresh.toServer = <<>>
    BY DEF Fresh
  <2> QED BY <1>1, <2>1 DEF Session, Kinds, ReadyStates
<1> HIDE DEF a
<1>3. /\ AddObserver(a) = b /\ b \in Session /\ b.kind = kind /\ b.readyState = "CONNECTING"
      /\ b.wsOpen = FALSE /\ b.connOpen = TRUE /\ b.pendingRequests = <<>> /\ b.timer = FALSE
      /\ b.open = TRUE /\ b.observers = 1 /\ b.state = "WAITING_RUN" /\ b.subscribed = TRUE
      /\ b.toServer = <<>>
  BY <1>2 DEF AddObserver, Session
<1> HIDE DEF b
<1>4. Send(a, r) = e
  BY <1>3 DEF Send, Write
<1>5. l = <<r>> /\ l \in Seq(Requests)
  BY DEF Requests
<1> HIDE DEF l, r
<1>6. /\ e \in Session /\ e.kind = kind /\ e.readyState = "CONNECTING" /\ e.wsOpen = FALSE
      /\ e.connOpen = TRUE /\ e.pendingRequests = <<r>> /\ e.timer = FALSE /\ e.open = TRUE
      /\ e.observers = 1 /\ e.state = "WAITING_RUN" /\ e.subscribed = TRUE /\ e.toServer = <<>>
  BY <1>3, <1>5 DEF Session
<1> HIDE DEF e
<1>7. Request(e) = r
  BY <1>6 DEF Request, r
<1>8. Opening(e) /\ Connecting(e) /\ e # Fresh
  BY <1>6, <1>7 DEF Opening, Connecting, Fresh
<1> QED BY <1>4, <1>6, <1>8 DEF a, r

\* What Begin does to the one session.
LEMMA BeginFacts ==
  ASSUME IInv, NEW s \in Sessions, NEW kind \in Kinds, Begin(s, kind)
  PROVE  /\ session[s] = Fresh
         /\ session' = [session EXCEPT ![s] = session'[s]] /\ session'[s] \in Session
         /\ server' = [server EXCEPT ![s] = server'[s]] /\ server'[s] \in ServerSession
         /\ server'[s].row <= server'[s].rows
         /\ toBrowser' = [toBrowser EXCEPT ![s] = toBrowser'[s]] /\ toBrowser'[s] = <<>>
         /\ toBrowser'[s] \in Seq(Messages)
         /\ SessionInv(session'[s], server'[s], toBrowser'[s])
         /\ session'[s].open /\ session'[s].kind = kind
         /\ session'[s].state = "WAITING_RUN" /\ session'[s].toServer = <<>>
<1> DEFINE r == IF kind = "catalog" THEN "CATALOG" ELSE "RUN"
           e == Send([Fresh EXCEPT !.kind = kind, !.readyState = "CONNECTING", !.open = TRUE,
                                   !.subscribed = TRUE], r)
<1>1. session[s] = Fresh /\ session' = [session EXCEPT ![s] = e]
      /\ server' = server /\ toBrowser' = toBrowser
  BY DEF Begin
<1>2. /\ e \in Session /\ Opening(e) /\ Connecting(e) /\ e.kind = kind /\ e # Fresh
      /\ e.wsOpen = FALSE /\ e.toServer = <<>>
  BY BeginFields
<1> HIDE DEF e
<1>3. Connected(Fresh, server[s], toBrowser[s])
  BY <1>1, AtSession DEF SessionInv
<1>4. server[s] = NoServer /\ toBrowser[s] = <<>> /\ server[s].phase = "none"
  BY <1>3 DEF Connected
<1>5. /\ session' = [session EXCEPT ![s] = session'[s]] /\ session'[s] = e
      /\ server' = [server EXCEPT ![s] = server'[s]] /\ server'[s] = server[s]
      /\ toBrowser' = [toBrowser EXCEPT ![s] = toBrowser'[s]] /\ toBrowser'[s] = toBrowser[s]
  BY <1>1 DEF IInv, TypeOK
<1>6. Connected(e, server[s], <<>>)
  BY <1>2, <1>4 DEF Connected, Connecting, NoServer
<1>7. SessionInv(e, server[s], <<>>)
  BY <1>2, <1>6 DEF SessionInv, Used, Talking, InOrder
<1> QED BY <1>1, <1>2, <1>4, <1>5, <1>7, AtSession DEF Opening, Connecting

LEMMA RunStep ==
  ASSUME IInv, NEW s \in Sessions, Run(s)
  PROVE  IInv' /\ Local(s)
<1> DEFINE p == [page EXCEPT !.running = TRUE, !.current = s, !.query = s,
                             !.rows = <<>>, !.outcome = "none"]
<1>1. ~page.running /\ Begin(s, "query") /\ page' = p
  BY DEF Run
<1>2. page \in Page /\ PageInv(page)
  BY AtSession
<1>3. /\ p \in Page /\ p.running = TRUE /\ p.current = s /\ p.query = s /\ p.rows = <<>>
      /\ p.outcome = "none" /\ p.pending = page.pending
  BY <1>2, EmptySeq DEF Page
<1> HIDE DEF p
<1>4. page.current = NoSession
  BY <1>1, <1>2 DEF PageInv, Page
<1>9. \A u \in Sessions : NoRows(u, page) => NoRows(u, p)
  BY <1>2, <1>3, Emptied
<1>10. Shown(p) = 0 /\ TableInv(p)
  <2>1. NoRows(s, page)
    BY <1>1, AtSession DEF Begin
  <2> QED BY <1>3, <1>9, <2>1, NoneShown
<1>5. PageInv(p)
  BY <1>3, <1>10 DEF PageInv
<1>6. "query" \in Kinds
  BY DEF Kinds
<1>7. /\ session[s] = Fresh
      /\ session' = [session EXCEPT ![s] = session'[s]] /\ session'[s] \in Session
      /\ server' = [server EXCEPT ![s] = server'[s]] /\ server'[s] \in ServerSession
      /\ server'[s].row <= server'[s].rows
      /\ toBrowser' = [toBrowser EXCEPT ![s] = toBrowser'[s]] /\ toBrowser'[s] = <<>>
      /\ toBrowser'[s] \in Seq(Messages)
      /\ SessionInv(session'[s], server'[s], toBrowser'[s])
      /\ session'[s].open /\ session'[s].kind = "query"
      /\ session'[s].state = "WAITING_RUN" /\ session'[s].toServer = <<>>
  BY <1>1, <1>6, BeginFacts
<1>8. ShowsInv(s, session'[s], server'[s], toBrowser'[s], p)
  <2>1. ShownInv(s, session'[s], server'[s], toBrowser'[s], Shown(p))
    BY <1>7, <1>10 DEF ShownInv
  <2>2. session'[s] # Fresh
    BY <1>7 DEF Fresh
  <2> QED BY <1>3, <1>7, <2>1, <2>2 DEF ShowsInv, CurrentInv
<1> QED BY <1>1, <1>3, <1>4, <1>5, <1>7, <1>8, <1>9, StepInv

LEMMA LoadStep ==
  ASSUME IInv, NEW s \in Sessions, Load(s)
  PROVE  IInv' /\ Local(s)
<1>1. PICK kind \in {"records", "catalog"} : Begin(s, kind)
  BY DEF Load
<1>2. page' = page /\ kind \in Kinds /\ kind # "query"
  BY DEF Load, Kinds
<1>3. /\ session[s] = Fresh
      /\ session' = [session EXCEPT ![s] = session'[s]] /\ session'[s] \in Session
      /\ server' = [server EXCEPT ![s] = server'[s]] /\ server'[s] \in ServerSession
      /\ server'[s].row <= server'[s].rows
      /\ toBrowser' = [toBrowser EXCEPT ![s] = toBrowser'[s]] /\ toBrowser'[s] \in Seq(Messages)
      /\ SessionInv(session'[s], server'[s], toBrowser'[s])
      /\ session'[s].kind = kind
  BY <1>1, <1>2, BeginFacts
<1>4. /\ page \in Page /\ PageInv(page) /\ s # page.current
      /\ ~(s = page.query /\ page.outcome = "success")
  BY <1>3, AtSession DEF CurrentInv, SuccessInv, Fresh
<1>5. ShowsInv(s, session'[s], server'[s], toBrowser'[s], page')
  <2>1. session[s] = Fresh => NoRows(s, page)
    BY AtSession
  <2> QED BY <1>2, <1>3, <1>4, <2>1 DEF ShowsInv, CurrentInv
<1> QED BY <1>2, <1>3, <1>4, <1>5, StepInv

LEMMA StopQueryStep ==
  ASSUME IInv, StopQuery
  PROVE  \E s \in Sessions : IInv' /\ Local(s)
<1>1. /\ page.running /\ Becomes(StopRunning(Now, "stopped"))
      /\ server' = server /\ toBrowser' = toBrowser
  BY DEF StopQuery
<1>2. PICK s \in Sessions : s = page.current
  BY <1>1 DEF IInv, PageInv
<1> DEFINE d == session[s]
           x == server[s]
           q == toBrowser[s]
           e == Close(d)
<1>3. /\ d \in Session /\ q \in Seq(Messages) /\ SessionInv(d, x, q) /\ CurrentInv(s, d, page)
      /\ Now \in Pairs /\ Now.session = session /\ Now.page = page
  BY AtSession
<1>4. d.open /\ d.kind = "query" /\ Opening(d)
  BY <1>2, <1>3, OpenFacts DEF CurrentInv
<1>5. Over(d, e) /\ Gone(e)
  BY <1>3, <1>4, CloseOpen DEF Opening, Gone
<1> HIDE DEF e
<1>6. session' = [session EXCEPT ![s] = e] /\ page' = Stopped(page, "stopped")
  <2>1. Close(Now.session[s]) \in Session /\ Now.page.current = s /\ "stopped" \in Outcomes
    BY <1>2, <1>3, <1>5 DEF Over, e, Outcomes
  <2>2. LET v == StopRunning(Now, "stopped")
        IN  /\ v.session = [Now.session EXCEPT ![s] = Close(Now.session[s])]
            /\ v.page = Stopped(Now.page, "stopped")
    BY <1>3, <2>1, StopRunningFields, Zenon
  <2> QED BY <1>1, <1>3, <2>2 DEF Becomes, e
<1>7. /\ session' = [session EXCEPT ![s] = session'[s]] /\ session'[s] = e
      /\ toBrowser' = [toBrowser EXCEPT ![s] = toBrowser'[s]] /\ toBrowser'[s] = q
  BY <1>1, <1>6 DEF IInv, TypeOK
<1>8. SessionInv(e, x, q) /\ e \in Session /\ ~e.open
  BY <1>3, <1>4, <1>5, OverInv DEF Over
<1>9. "stopped" \in Outcomes
  BY DEF Outcomes
<1>10. IInv' /\ Local(s)
  <2>1. page' = IF d.kind = "query" THEN Stopped(page, "stopped") ELSE page
    BY <1>4, <1>6
  <2>2. /\ d.open /\ session'[s] \in Session /\ ~session'[s].open /\ toBrowser'[s] \in Seq(Messages)
        /\ SessionInv(session'[s], server[s], toBrowser'[s])
    BY <1>3, <1>4, <1>7, <1>8
  <2>3. session'[s] # Fresh
    BY <1>5, <1>7, ClosedIsNotFresh DEF Over
  <2> QED BY <1>1, <1>7, <1>9, <2>1, <2>2, <2>3, EndStep
<1> QED BY <1>10

\* It is the same for a session whether its rows are in the table or queued.
LEMMA OtherPage ==
  ASSUME NEW s \in Sessions, NEW d, NEW x, NEW q, NEW p, NEW r, ShowsInv(s, d, x, q, p),
         r.current = p.current, r.query = p.query, r.outcome = p.outcome,
         Shown(r) = Shown(p), NoRows(s, p) => NoRows(s, r)
  PROVE  ShowsInv(s, d, x, q, r)
BY DEF ShowsInv, CurrentInv

LEMMA ExecuteBatchStep ==
  ASSUME IInv, ExecuteBatch
  PROVE  IInv' /\ OfThePage
<1>1. /\ page' = [page EXCEPT !.rows = @ \o page.pending, !.pending = <<>>]
      /\ session' = session /\ server' = server /\ toBrowser' = toBrowser
  BY DEF ExecuteBatch
<1>2. page \in Page /\ PageInv(page)
  BY DEF IInv, TypeOK
<1>3. page.rows \in Seq(Sessions \X Nat) /\ page.pending \in Seq(Sessions \X Nat)
  BY <1>2 DEF Page
<1>4. page.rows \o page.pending \in Seq(Sessions \X Nat)
  BY <1>3, ConcatProperties
<1>5. /\ page' \in Page /\ page'.running = page.running /\ page'.current = page.current
      /\ page'.query = page.query /\ page'.outcome = page.outcome
      /\ page'.rows = page.rows \o page.pending /\ page'.pending = <<>>
  BY <1>1, <1>2, <1>4, EmptySeq DEF Page
<1>6. Table(page') = Table(page)
  BY <1>4, <1>5, ConcatEmptySeq DEF Table
<1>7. /\ Shown(page') = Shown(page) /\ (TableInv(page) => TableInv(page'))
      /\ \A s \in Sessions : NoRows(s, page) => NoRows(s, page')
  BY <1>5, <1>6, SameTable
<1>8. PageInv(page')
  BY <1>2, <1>5, <1>7 DEF PageInv
<1>9. ASSUME NEW s \in Sessions
      PROVE  /\ SessionInv(session'[s], server'[s], toBrowser'[s])
             /\ ShowsInv(s, session'[s], server'[s], toBrowser'[s], page')
  BY <1>1, <1>5, <1>7, OtherPage DEF IInv
<1>10. TypeOK'
  BY <1>1, <1>5 DEF IInv, TypeOK
<1> QED BY <1>1, <1>8, <1>9, <1>10 DEF IInv, OfThePage

\* Leaving the page closes its query, as Stop does; the new page has nothing to show.
LEMMA LeavePageStep ==
  ASSUME IInv, LeavePage
  PROVE  IInv' /\ (OfThePage \/ \E s \in Sessions : Local(s))
<1> DEFINE v == StopRunning(Now, "none")
<1>1. /\ session' = v.session /\ page' = NewPage /\ server' = server /\ toBrowser' = toBrowser
  BY DEF LeavePage, Becomes
<1>2. /\ session \in [Sessions -> Session] /\ server \in [Sessions -> ServerSession]
      /\ toBrowser \in [Sessions -> Seq(Messages)] /\ page \in Page /\ PageInv(page)
      /\ \A s \in Sessions : server[s].row <= server[s].rows
  BY DEF IInv, TypeOK
<1>3. /\ Now.session = session /\ Now.page = page
  BY DEF Now
<1>4. v.session = [s \in Sessions |-> IF s = page.current THEN Close(session[s]) ELSE session[s]]
  BY <1>3 DEF StopRunning
<1>5. ASSUME NEW s \in Sessions
      PROVE  /\ session'[s] \in Session
             /\ SessionInv(session'[s], server[s], toBrowser[s])
             /\ ~(session'[s].open /\ session'[s].kind = "query")
  <2>1. /\ session[s] \in Session /\ SessionInv(session[s], server[s], toBrowser[s])
        /\ CurrentInv(s, session[s], page)
    BY AtSession
  <2>2. CASE s = page.current
    <3>1. session[s].open /\ session[s].kind = "query" /\ Opening(session[s])
      BY <2>1, <2>2, OpenFacts DEF CurrentInv
    <3>2. Over(session[s], Close(session[s])) /\ Gone(Close(session[s]))
      BY <2>1, <3>1, CloseOpen DEF Opening, Gone
    <3>3. session'[s] = Close(session[s])
      BY <1>1, <1>4, <2>2
    <3>4. SessionInv(session'[s], server[s], toBrowser[s])
      BY <2>1, <3>1, <3>2, <3>3, OverInv
    <3> QED BY <3>2, <3>3, <3>4 DEF Over
  <2>3. CASE s # page.current
    <3>1. session'[s] = session[s]
      BY <1>1, <1>4, <2>3
    <3> QED BY <2>1, <2>3, <3>1 DEF CurrentInv
  <2> QED BY <2>2, <2>3
<1>6. ASSUME NEW s \in Sessions
      PROVE  ShowsInv(s, session'[s], server[s], toBrowser[s], NewPage)
  <2>1. s # NoSession /\ NoRows(s, NewPage)
    BY ConstantsAssumption, NewPageInv
  <2> QED BY <1>5, <2>1, NewPageInv DEF ShowsInv, CurrentInv
<1>7. session' \in [Sessions -> Session]
  BY <1>1, <1>4, <1>5
<1>8. TypeOK'
  BY <1>1, <1>2, <1>7, NewPageInv DEF TypeOK
<1>9. IInv'
  BY <1>1, <1>5, <1>6, <1>8, NewPageInv DEF IInv
<1>10. CASE page.current \in Sessions
  <2>1. PICK s \in Sessions : s = page.current
    BY <1>10
  <2>2. session' = [session EXCEPT ![s] = session'[s]]
    BY <1>1, <1>2, <1>4, <1>7, <2>1
  <2>3. toBrowser' = [toBrowser EXCEPT ![s] = toBrowser'[s]]
    BY <1>1, <1>2
  <2> QED BY <1>9, <2>1, <2>2, <2>3 DEF Local
<1>11. CASE page.current \notin Sessions
  <2>1. session' = session
    BY <1>1, <1>2, <1>4, <1>11
  <2> QED BY <1>1, <1>9, <2>1 DEF OfThePage
<1> QED BY <1>10, <1>11

-----------------------------------------------------------------------------
(***************************************************************************)
(* The theorems.                                                           *)
(***************************************************************************)
\* Every step touches one session, or none.
LEMMA NextStep ==
  ASSUME IInv, Next
  PROVE  IInv' /\ (OfThePage \/ \E s \in Sessions : Local(s))
<1>1. ASSUME NEW s \in Sessions, Socket(s)
      PROVE  IInv' /\ Local(s)
  BY <1>1, OpenedStep, RefusedStep, MessageStep, DisconnectedStep, TimerStep DEF Socket
<1>2. ASSUME NEW s \in Sessions, Serve(s)
      PROVE  IInv' /\ Local(s)
  BY <1>2, HandleRunStep, HandlePullStep, HandleDiscardStep, HandleCatalogStep, EndSessionStep
  DEF Serve
<1>3. ASSUME NEW s \in Sessions, User(s)
      PROVE  IInv' /\ (OfThePage \/ \E t \in Sessions : Local(t))
  BY <1>3, RunStep, LoadStep, StopQueryStep, LeavePageStep DEF User
<1>4. ASSUME NEW s \in Sessions, ConnectionLost(s)
      PROVE  IInv' /\ Local(s)
  BY <1>4, ConnectionLostStep
<1> QED BY <1>1, <1>2, <1>3, <1>4, ExecuteBatchStep DEF Next, System

LEMMA StutterStep ==
  ASSUME IInv, UNCHANGED vars
  PROVE  IInv'
<1>1. session' = session /\ page' = page /\ server' = server /\ toBrowser' = toBrowser
  BY DEF vars
<1>2. TypeOK'
  BY <1>1 DEF IInv, TypeOK
<1> QED BY <1>1, <1>2 DEF IInv

THEOREM Invariance == Spec => []IInv
<1>1. IInv /\ [Next]_vars => IInv'
  BY NextStep, StutterStep
<1> QED BY <1>1, InitInv, PTL DEF Spec

\* The objects of the page, of the driver and of the server keep their types; the server
\* does not read past the end of a result.
THEOREM TypeCorrect == Spec => []TypeOK
<1>1. IInv => TypeOK
  BY DEF IInv
<1> QED BY <1>1, Invariance, PTL

\* The table, with the rows that are queued for it, ends with the first rows of the
\* query that was run last and, when the page says that it has succeeded, with all of
\* them; rows of other queries are only in front of them.  For any number of rows, and
\* any fetch size.
THEOREM TableCorrect == Spec => []TableEndsWithTheResult
<1>1. ASSUME IInv PROVE TableEndsWithTheResult
  <2>1. PageInv(page)
    BY <1>1 DEF IInv
  <2>2. ASSUME page.outcome = "success"
        PROVE  Shown(page) = server[page.query].rows
    <3>1. page.query \in Sessions
      BY <2>1, <2>2 DEF PageInv
    <3>2. SuccessInv(session[page.query], server[page.query], Shown(page))
      BY <1>1, <2>2, <3>1, AtSession
    <3> QED BY <3>2 DEF SuccessInv
  <2> DEFINE table == Table(page)
             n == Len(table) - Shown(page)
  <2>3. page \in Page
    BY <1>1 DEF IInv, TypeOK
  <2>4. Len(table) \in Nat /\ Shown(page) \in Nat /\ Shown(page) <= Len(table)
    BY <2>1, <2>3, ShownNat, TableType
  <2>5. n \in 0 .. Len(table) /\ Len(table) - n = Shown(page)
    BY <2>4
  <2>6. \A k \in 1 .. Len(table) : IF k <= n THEN table[k][1] # page.query
                                   ELSE table[k] = <<page.query, k - n>>
    BY <2>1 DEF PageInv, TableInv
  <2> HIDE DEF n
  <2> QED BY <2>2, <2>5, <2>6 DEF TableEndsWithTheResult
<1> QED BY <1>1, Invariance, PTL

\* In an open session of which nothing is lost there is one request, or its answer.
LEMMA OneUnderWay ==
  ASSUME NEW d \in Session, NEW x, NEW q \in Seq(Messages), SessionInv(d, x, q), d.open,
         x.kept = "none", ~Lost(q)
  PROVE  Len(d.pendingRequests) + Len(d.toServer)
           + Cardinality({i \in 1 .. Len(q) : Ends(q[i])}) = 1
<1> DEFINE A == {i \in 1 .. Len(q) : Ends(q[i])}
<1>1. /\ Opening(d) /\ Connected(d, x, q) /\ InOrder(d, q) /\ d # Fresh
      /\ \/ Connecting(d)
         \/ /\ d.readyState = "OPEN"
            /\ Asked(d, x, q) \/ Kept(d, x, q) \/ Answered(d, x, q) \/ Expired(d, x, q) \/ Lost(q)
  BY OpenFacts
<1>2. Len(q) \in Nat
  BY EmptyLen
<1>3. CASE Connecting(d)
  <2>1. d.pendingRequests = <<Request(d)>> /\ d.toServer = <<>> /\ q = <<>>
    BY <1>1, <1>3 DEF Connecting, Connected
  <2>2. A = {}
    BY <2>1
  <2> HIDE DEF A
  <2>3. Len(d.pendingRequests) = 1 /\ Len(d.toServer) = 0 /\ Cardinality(A) = 0
    BY <2>1, <2>2, FS_EmptySet
  <2> QED BY <2>3 DEF A
<1>4. CASE d.readyState = "OPEN" /\ Asked(d, x, q)
  <2>1. d.pendingRequests = <<>> /\ d.toServer = <<Request(d)>> /\ q = <<>>
    BY <1>1, <1>4 DEF Asked, Connected
  <2>2. A = {}
    BY <2>1
  <2> HIDE DEF A
  <2>3. Len(d.pendingRequests) = 0 /\ Len(d.toServer) = 1 /\ Cardinality(A) = 0
    BY <2>1, <2>2, FS_EmptySet
  <2> QED BY <2>3 DEF A
<1>5. CASE d.readyState = "OPEN" /\ (Answered(d, x, q) \/ Expired(d, x, q))
  <2>1. d.pendingRequests = <<>> /\ d.toServer = <<>>
    BY <1>1, <1>5 DEF Answered, Expired, Connected
  <2>2. \E k \in 1 .. Len(q) : A = {k}
    <3>1. CASE Answered(d, x, q)
      <4>1. Len(q) \in 1 .. Len(q) /\ Ends(q[Len(q)]) /\ x.phase = "open"
        BY <1>2, <3>1, EmptyLen DEF Answered
      <4>2. \A k \in 1 .. Len(q) : ~IsClosed(q[k])
        BY <1>1, <4>1 DEF Connected
      <4>3. \A k \in 1 .. Len(q) : Ends(q[k]) => k = Len(q)
        <5> TAKE k \in 1 .. Len(q)
        <5>1. k # Len(q) => k + 1 \in 1 .. Len(q)
          BY <1>2
        <5> QED BY <1>1, <4>2, <5>1 DEF InOrder
      <4>4. A = {Len(q)}
        BY <4>1, <4>3
      <4> QED BY <4>1, <4>4
    <3>2. CASE Expired(d, x, q)
      <4>1. /\ Len(q) - 1 \in 1 .. Len(q) /\ Len(q) \in 1 .. Len(q)
            /\ q[Len(q) - 1] = Error /\ q[Len(q)] = Closed(TRUE)
        BY <1>2, <3>2 DEF Expired
      <4>2. Ends(q[Len(q) - 1]) /\ ~Ends(q[Len(q)])
        BY <4>1 DEF Ends, Error, Closed
      <4>3. \A k \in 1 .. Len(q) : Ends(q[k]) => k = Len(q) - 1
        <5> TAKE k \in 1 .. Len(q)
        <5>1. Ends(q[k]) => k # Len(q)
          BY <4>2
        <5>2. k # Len(q) => k + 1 \in 1 .. Len(q)
          BY <1>2
        <5>3. Ends(q[k]) => IsClosed(q[k + 1]) /\ k + 1 \in 1 .. Len(q)
          BY <1>1, <5>1, <5>2 DEF InOrder
        <5>4. Ends(q[k]) => k + 1 = Len(q)
          BY <1>1, <5>3 DEF Connected
        <5> QED BY <1>2, <5>4
      <4>4. A = {Len(q) - 1}
        BY <4>1, <4>2, <4>3
      <4> QED BY <4>1, <4>4
    <3> QED BY <1>5, <3>1, <3>2
  <2> HIDE DEF A
  <2>3. Len(d.pendingRequests) = 0 /\ Len(d.toServer) = 0 /\ Cardinality(A) = 1
    BY <2>1, <2>2, FS_Singleton
  <2> QED BY <2>3 DEF A
<1> QED BY <1>1, <1>3, <1>4, <1>5 DEF Kept

\* Every request of an open session has one observer and gets one answer, and somebody
\* waits for it as long as the page is running.
THEOREM ObserversCorrect == Spec => []ObserversMatchRequests
<1>1. ASSUME IInv PROVE ObserversMatchRequests
  <2>1. RunningIsObserved
    <3> SUFFICES ASSUME page.running
                 PROVE  LET d == session[page.current]
                        IN  d.open /\ d.connOpen /\ d.subscribed /\ d.observers > 0
                            /\ d.state # "FINISHED"
      BY DEF RunningIsObserved
    <3>1. PICK s \in Sessions : s = page.current
      BY <1>1 DEF IInv, PageInv
    <3>2. session[s].open /\ SessionInv(session[s], server[s], toBrowser[s])
      BY <1>1, <3>1, AtSession DEF CurrentInv
    <3>3. Opening(session[s])
      BY <3>2, OpenFacts
    <3> QED BY <3>1, <3>3 DEF Opening
  <2>2. ASSUME NEW s \in Sessions, session[s].open, server[s].kept = "none",
               ~\E i \in 1 .. Len(toBrowser[s]) : toBrowser[s][i] = Closed(FALSE)
        PROVE  session[s].observers
                 = Len(session[s].pendingRequests) + Len(session[s].toServer)
                   + Cardinality({i \in 1 .. Len(toBrowser[s]) : Ends(toBrowser[s][i])})
    <3>1. /\ session[s] \in Session /\ toBrowser[s] \in Seq(Messages)
          /\ SessionInv(session[s], server[s], toBrowser[s])
      BY <1>1, AtSession
    <3>2. ~Lost(toBrowser[s])
      <4>1. toBrowser[s] # <<>> => Len(toBrowser[s]) \in 1 .. Len(toBrowser[s])
        BY <3>1, EmptyLen
      <4> QED BY <2>2, <4>1 DEF Lost
    <3>3. session[s].observers = 1
      BY <2>2, <3>1, OpenFacts DEF Opening
    <3>4. Len(session[s].pendingRequests) + Len(session[s].toServer)
            + Cardinality({i \in 1 .. Len(toBrowser[s]) : Ends(toBrowser[s][i])}) = 1
      BY <2>2, <3>1, <3>2, OneUnderWay
    <3> QED BY <3>3, <3>4
  <2> QED BY <2>1, <2>2 DEF ObserversMatchRequests
<1> QED BY <1>1, Invariance, PTL

\* A session that was stopped or replaced does not write into the table, nor end the
\* query that runs now.
THEOREM OthersLeaveThePage == Spec => OtherSessionsLeaveThePage
<1> DEFINE A == \A s \in Sessions :
                  /\ session[s] # Fresh /\ s # page.current
                  /\ \/ session'[s].readyState # session[s].readyState
                     \/ Len(toBrowser'[s]) < Len(toBrowser[s])
                  => page' = page
<1>1. ASSUME IInv, Next PROVE A
  <2>1. OfThePage \/ \E t \in Sessions : Local(t)
    BY <1>1, NextStep
  <2> SUFFICES ASSUME NEW s \in Sessions, session[s] # Fresh, s # page.current,
                      \/ session'[s].readyState # session[s].readyState
                      \/ Len(toBrowser'[s]) < Len(toBrowser[s])
               PROVE  page' = page
    OBVIOUS
  <2>2. Len(toBrowser[s]) \in Nat
    BY <1>1, AtSession, EmptyLen
  <2>3. CASE OfThePage
    BY <2>2, <2>3 DEF OfThePage
  <2>4. CASE \E t \in Sessions : Local(t)
    <3>1. PICK t \in Sessions : Local(t)
      BY <2>4
    <3>2. CASE s = t
      BY <3>1, <3>2 DEF Local
    <3>3. CASE s # t
      <4>1. session'[s] = session[s] /\ toBrowser'[s] = toBrowser[s]
        BY <1>1, <3>1, <3>3 DEF Local, IInv, TypeOK
      <4> QED BY <2>2, <4>1
    <3> QED BY <3>2, <3>3
  <2> QED BY <2>1, <2>3, <2>4
<1>2. IInv /\ [Next]_vars => [A]_vars
  BY <1>1
<1>3. Spec => [][A]_vars
  BY <1>2, Invariance, PTL DEF Spec
<1> QED BY <1>3 DEF OtherSessionsLeaveThePage

=============================================================================
