----------------------------- MODULE QueryServer -----------------------------
(***************************************************************************)
(* The server that executes queries: network/server/server.cc, its         *)
(* listener and dispatcher, the WebSocket sessions of session/streaming    *)
(* and the one-request HTTP sessions of session/http.                      *)
(*                                                                         *)
(* Every session runs on one thread of a pool and blocks that thread from  *)
(* its first request to its last.  A thread has one QueryContext, used by  *)
(* all the sessions that it executes one after the other; the main thread  *)
(* looks at the timeout of every context once in a while and asks the      *)
(* query found there to stop, by a flag that the query polls.  Nothing     *)
(* else ends a query that computes forever.                                *)
(*                                                                         *)
(* Queries are abstract: one computes for as long as it likes and then     *)
(* answers, is refused, fails, or notices the flag.  A response that is    *)
(* written to a client that hung up is lost or is an error.                *)
(***************************************************************************)
EXTENDS Integers, Sequences

CONSTANTS
  Workers,      \* threads of the pool (option --threads)
  WebSockets,   \* clients that open a streaming session
  Https,        \* clients that send one HTTP request
  QueryTimeout, \* option --timeout, in ticks of the clock
  LastTick,     \* bound: the clock stops here unless a query waits for it
  MaxRequests,  \* bound: requests of a streaming client
  MaxInFlight   \* bound: requests it sends ahead of the server

Clients == WebSockets \cup Https

CONSTANTS NoWorker, NoClient

ASSUME ConstantsAssumption ==
  /\ WebSockets \cap Https = {}
  /\ NoWorker \notin Workers /\ NoClient \notin Clients
  /\ QueryTimeout \in Nat \ {0}
  /\ LastTick \in Nat
  /\ MaxRequests \in Nat /\ MaxInFlight \in Nat

VARIABLES
  now,                    \* system_clock
  clock,                  \* execute_timeouts: the time it read, 0 after use
  main,                   \* what the main thread does
  to_flag,                \* contexts the shutdown has not flagged yet
  shutdown_server,
  stopped,                \* io_context.stop() was called
  interruption_requested, \* Workers -> flag of thread_info
  timeout,                \* Workers -> timeout of thread_info
  context,                \* Workers -> the client whose query it was reset for
  phase,                  \* Clients -> where the session is
  worker,                 \* Clients -> the thread it runs on
  state,                  \* Clients -> READY or STREAMING
  request_buffer,         \* Clients -> requests read and not consumed
  query_start,            \* Clients -> when its last query began
  plan,                   \* Clients -> current_physical_plan: none, of the last
                          \* query begun, or of an older one
  open,                   \* Clients -> FALSE once a streaming client hung up
  sent,                   \* Clients -> requests on their way
  asked                   \* Clients -> number of requests sent

timeVars    == <<now, clock>>
mainVars    == <<main, to_flag, shutdown_server, stopped>>
contextVars == <<interruption_requested, timeout, context>>
queryVars   == <<query_start, plan>>
sessionVars == <<phase, worker, state, request_buffer>>
clientVars  == <<open, sent, asked>>
vars == <<timeVars, mainVars, contextVars, queryVars, sessionVars, clientVars>>

-----------------------------------------------------------------------------
Requests == {"RUN", "PULL", "DISCARD", "CATALOG"}

\* queued: until a thread takes the connection, reading: in the read that
\* blocks, starting: handle_run before it has written thread_info, planning
\* and pulling: the query computes, timedout: ended by the flag.
Phases == {"queued", "reading", "starting", "planning", "pulling",
           "timedout", "ended"}

Computes(c) == phase[c] \in {"planning", "pulling"}
Active(c)   == phase[c] \in {"reading", "starting", "planning", "pulling"}
Deadline(c) == query_start[c] + QueryTimeout
Idle(w)     == \A c \in Clients : Active(c) => worker[c] # w

Init ==
  /\ now = 0 /\ clock = 0
  /\ main = "check" /\ to_flag = Workers
  /\ shutdown_server = FALSE /\ stopped = FALSE
  /\ interruption_requested = [w \in Workers |-> FALSE]
  /\ timeout = [w \in Workers |-> 0]
  /\ context = [w \in Workers |-> NoClient]
  /\ phase = [c \in Clients |-> "queued"]
  /\ worker = [c \in Clients |-> NoWorker]
  /\ state = [c \in Clients |-> "READY"]
  /\ request_buffer = [c \in Clients |-> <<>>]
  /\ query_start = [c \in Clients |-> 0]
  /\ plan = [c \in Clients |-> "none"]
  /\ open = [c \in Clients |-> TRUE]
  /\ sent = [c \in Clients |-> <<>>]
  /\ asked = [c \in Clients |-> 0]

-----------------------------------------------------------------------------
(***************************************************************************)
(* Clients, the clock and the signal.                                      *)
(***************************************************************************)
Send(c, r) ==
  /\ c \in WebSockets
  /\ open[c]
  /\ phase[c] = "queued" \/ Active(c)
  /\ asked[c] < MaxRequests /\ Len(sent[c]) < MaxInFlight
  /\ sent' = [sent EXCEPT ![c] = Append(@, r)]
  /\ asked' = [asked EXCEPT ![c] = @ + 1]
  /\ UNCHANGED <<timeVars, mainVars, contextVars, queryVars, sessionVars, open>>

HangUp(c) ==
  /\ c \in WebSockets
  /\ open[c]
  /\ open' = [open EXCEPT ![c] = FALSE]
  /\ UNCHANGED <<timeVars, mainVars, contextVars, queryVars, sessionVars, sent, asked>>

\* Bound: past LastTick time only passes for a query that is within its limit.
Tick ==
  /\ \/ now < LastTick
     \/ \E c \in Clients : Computes(c) /\ now < Deadline(c)
  /\ now' = now + 1
  /\ UNCHANGED <<clock, mainVars, contextVars, queryVars, sessionVars, clientVars>>

\* SIGTERM or SIGINT.
Signal ==
  /\ ~shutdown_server
  /\ main \notin {"done", "terminated"}
  /\ shutdown_server' = TRUE
  /\ UNCHANGED <<timeVars, main, to_flag, stopped, contextVars, queryVars,
                 sessionVars, clientVars>>

-----------------------------------------------------------------------------
(***************************************************************************)
(* The main thread: execute_timeouts, then the shutdown.                   *)
(***************************************************************************)
\* The time is read once, before the loop.
MutReadClock ==
  /\ main = "check"
  /\ main' = IF shutdown_server THEN "flag" ELSE "sweep"
  /\ UNCHANGED <<timeVars, to_flag, shutdown_server, stopped, contextVars,
                 queryVars, sessionVars, clientVars>>

ReadClock ==
  /\ main = "check"
  /\ \/ /\ ~shutdown_server
        /\ clock' = now
        /\ main' = "sweep"
     \/ /\ shutdown_server
        /\ main' = "flag"
        /\ UNCHANGED clock
  /\ UNCHANGED <<now, to_flag, shutdown_server, stopped, contextVars, queryVars,
                 sessionVars, clientVars>>

Expired(w) == timeout[w] <= clock

\* Under thread_info_vec_mutex, which handle_run takes as well.
Sweep ==
  /\ main = "sweep"
  /\ interruption_requested' =
       [w \in Workers |-> interruption_requested[w] \/ Expired(w)]
  /\ main' = "sleep"
  /\ clock' = 0
  /\ UNCHANGED <<now, to_flag, shutdown_server, stopped, timeout, context,
                 queryVars, sessionVars, clientVars>>

Wake ==
  /\ main = "sleep"
  /\ main' = "check"
  /\ UNCHANGED <<timeVars, to_flag, shutdown_server, stopped, contextVars,
                 queryVars, sessionVars, clientVars>>

\* One context after the other, without the mutex.
FlagOne(w) ==
  /\ main = "flag"
  /\ w \in to_flag
  /\ interruption_requested' = [interruption_requested EXCEPT ![w] = TRUE]
  /\ to_flag' = to_flag \ {w}
  /\ UNCHANGED <<timeVars, main, shutdown_server, stopped, timeout, context,
                 queryVars, sessionVars, clientVars>>

Stop ==
  /\ main = "flag"
  /\ to_flag = {}
  /\ stopped' = TRUE
  /\ main' = "join"
  /\ UNCHANGED <<timeVars, to_flag, shutdown_server, contextVars, queryVars,
                 sessionVars, clientVars>>

Join ==
  /\ main = "join"
  /\ \A w \in Workers : Idle(w)
  /\ main' = "done"
  /\ UNCHANGED <<timeVars, to_flag, shutdown_server, stopped, contextVars,
                 queryVars, sessionVars, clientVars>>

-----------------------------------------------------------------------------
(***************************************************************************)
(* Sessions.  A free thread takes a connection: the listener accepts it,   *)
(* the dispatcher reads its first request and starts the session.          *)
(***************************************************************************)
\* The thread does not set its query context.
MutStartSession(w, c) ==
  /\ c \in WebSockets
  /\ phase[c] = "queued" /\ ~stopped /\ Idle(w)
  /\ phase' = [phase EXCEPT ![c] = "reading"]
  /\ UNCHANGED <<timeVars, mainVars, contextVars, queryVars, worker, state,
                 request_buffer, clientVars>>

StartSession(w, c) ==
  /\ c \in WebSockets
  /\ phase[c] = "queued" /\ ~stopped /\ Idle(w)
  /\ phase' = [phase EXCEPT ![c] = "reading"]
  /\ worker' = [worker EXCEPT ![c] = w]
  /\ UNCHANGED <<timeVars, mainVars, contextVars, queryVars, state,
                 request_buffer, clientVars>>

\* tmp_manager.reset(), get_query_ctx().reset() and the time of the start.
BeginQuery(w, c) ==
  /\ context' = [context EXCEPT ![w] = c]
  /\ plan' = [plan EXCEPT ![c] = IF @ = "none" THEN "none" ELSE "older"]
  /\ query_start' = [query_start EXCEPT ![c] = now]
  /\ phase' = [phase EXCEPT ![c] = "starting"]

\* The request of an HTTP session came with the connection.
HttpRequest(w, c) ==
  /\ c \in Https
  /\ phase[c] = "queued" /\ ~stopped /\ Idle(w)
  /\ worker' = [worker EXCEPT ![c] = w]
  /\ BeginQuery(w, c)
  /\ UNCHANGED <<timeVars, mainVars, interruption_requested, timeout,
                 state, request_buffer, clientVars>>

\* An unknown target, or an update, which is not executed.
HttpRefused(w, c) ==
  /\ c \in Https
  /\ phase[c] = "queued" /\ ~stopped /\ Idle(w)
  /\ phase' = [phase EXCEPT ![c] = "ended"]
  /\ UNCHANGED <<timeVars, mainVars, contextVars, queryVars, worker, state,
                 request_buffer, clientVars>>

\* The flag of the previous query is not reset.
MutSetThreadInfo(c) ==
  /\ phase[c] = "starting"
  /\ timeout' = [timeout EXCEPT ![worker[c]] = Deadline(c)]
  /\ phase' = [phase EXCEPT ![c] = "planning"]
  /\ UNCHANGED <<timeVars, mainVars, interruption_requested, context, queryVars,
                 worker, state, request_buffer, clientVars>>

\* The same lines in handle_run and in create_*_logical_plan.
SetThreadInfo(c) ==
  LET w == worker[c] IN
  /\ phase[c] = "starting"
  /\ interruption_requested' = [interruption_requested EXCEPT ![w] = FALSE]
  /\ timeout' = [timeout EXCEPT ![w] = Deadline(c)]
  /\ phase' = [phase EXCEPT ![c] = "planning"]
  /\ UNCHANGED <<timeVars, mainVars, context, queryVars, worker, state,
                 request_buffer, clientVars>>

-----------------------------------------------------------------------------
(***************************************************************************)
(* One turn of start_session: read a message behind what request_buffer    *)
(* still holds, and handle the request that the buffer begins with.        *)
(***************************************************************************)
Buffered(c)  == Append(request_buffer[c], Head(sent[c]))
Handles(c, r) ==
  /\ c \in WebSockets
  /\ phase[c] = "reading"
  /\ sent[c] # <<>>
  /\ sent' = [sent EXCEPT ![c] = Tail(@)]
  /\ Head(Buffered(c)) = r
  /\ UNCHANGED <<timeVars, mainVars, worker, open, asked>>

Consumed(c) == request_buffer' = [request_buffer EXCEPT ![c] = <<>>]
Kept(c)     == request_buffer' = [request_buffer EXCEPT ![c] = Buffered(c)]

\* session.write: an error closes the stream, which ends the session.
Answer(c, next) ==
  \/ phase' = [phase EXCEPT ![c] = next]
  \/ ~open[c] /\ phase' = [phase EXCEPT ![c] = "ended"]

\* RUN is accepted in any state.
MutMayRun(c) == TRUE

MayRun(c)  == state[c] = "READY"
MayPull(c) == state[c] = "STREAMING"

HandleRun(c) ==
  /\ Handles(c, "RUN") /\ MayRun(c)
  /\ BeginQuery(worker[c], c)
  /\ Kept(c)
  /\ UNCHANGED <<interruption_requested, timeout, state>>

HandlePull(c) ==
  /\ Handles(c, "PULL") /\ MayPull(c)
  /\ phase' = [phase EXCEPT ![c] = "pulling"]
  /\ Kept(c)
  /\ UNCHANGED <<contextVars, queryVars, state>>

HandleDiscard(c) ==
  /\ Handles(c, "DISCARD") /\ MayPull(c)
  /\ interruption_requested' = [interruption_requested EXCEPT ![worker[c]] = TRUE]
  /\ state' = [state EXCEPT ![c] = "READY"]
  /\ Answer(c, "reading")
  /\ Consumed(c)
  /\ UNCHANGED <<timeout, context, queryVars>>

IgnoreDiscard(c) ==
  /\ Handles(c, "DISCARD") /\ ~MayPull(c)
  /\ Consumed(c)
  /\ UNCHANGED <<contextVars, queryVars, phase, state>>

HandleCatalog(c) ==
  /\ Handles(c, "CATALOG")
  /\ Answer(c, "reading")
  /\ Consumed(c)
  /\ UNCHANGED <<contextVars, queryVars, state>>

\* ProtocolException: it is logged, and the request stays in the buffer.
RefuseRequest(c) ==
  /\ \/ Handles(c, "RUN") /\ ~MayRun(c)
     \/ Handles(c, "PULL") /\ ~MayPull(c)
  /\ Kept(c)
  /\ UNCHANGED <<contextVars, queryVars, phase, state>>

\* stream.read fails.
EndSession(c) ==
  /\ phase[c] = "reading"
  /\ ~open[c] /\ sent[c] = <<>>
  /\ phase' = [phase EXCEPT ![c] = "ended"]
  /\ UNCHANGED <<timeVars, mainVars, contextVars, queryVars, worker, state,
                 request_buffer, clientVars>>

-----------------------------------------------------------------------------
(***************************************************************************)
(* How the computation of a streaming session returns.                     *)
(***************************************************************************)
Returns(c, p) ==
  /\ c \in WebSockets
  /\ phase[c] = p
  /\ UNCHANGED <<timeVars, mainVars, contextVars, query_start, worker, clientVars>>

\* The plan and its first result: the executor computes it when it is built.
\* The answer is written before the state changes.
PlanReady(c) ==
  /\ Returns(c, "planning")
  /\ plan' = [plan EXCEPT ![c] = "last"]
  /\ Answer(c, "reading")
  /\ state' = [state EXCEPT ![c] = IF phase'[c] = "ended" THEN @ ELSE "STREAMING"]
  /\ Consumed(c)

\* Not a read-only query, QueryException or LogicException.
QueryRefused(c) ==
  /\ Returns(c, "planning")
  /\ Answer(c, "reading")
  /\ Consumed(c)
  /\ UNCHANGED <<plan, state>>

PullMore(c) ==
  /\ Returns(c, "pulling")
  /\ Answer(c, "reading")
  /\ Consumed(c)
  /\ UNCHANGED <<plan, state>>

PullFinal(c) ==
  /\ Returns(c, "pulling")
  /\ state' = [state EXCEPT ![c] = "READY"]
  /\ Answer(c, "reading")
  /\ Consumed(c)
  /\ UNCHANGED plan

\* Any other exception of the query: logged, and the request stays in the
\* buffer.
QueryThrows(c) ==
  /\ \E p \in {"planning", "pulling"} : Returns(c, p)
  /\ phase' = [phase EXCEPT ![c] = "reading"]
  /\ UNCHANGED <<plan, state, request_buffer>>

\* The end of an HTTP session, with or without results or with an error that its
\* handlers answer. Two ends are left out, in which the process terminates: a
\* client that hangs up before the destructor of HttpResponseBuffer flushes (HTTP
\* clients of this model stay), and an exception of planning that has no handler.
HttpEnds(c) ==
  /\ c \in Https
  /\ phase[c] = "planning"
  /\ phase' = [phase EXCEPT ![c] = "ended"]
  /\ UNCHANGED <<timeVars, mainVars, contextVars, queryVars, worker, state,
                 request_buffer, clientVars>>

\* The flag is looked at only while the client listens.
MutInterrupted(c) ==
  /\ open[c]
  /\ Computes(c)
  /\ interruption_requested[worker[c]]
  /\ phase' = [phase EXCEPT ![c] = "timedout"]
  /\ UNCHANGED <<timeVars, mainVars, contextVars, queryVars, worker, state,
                 request_buffer, clientVars>>

\* InterruptedException: a streaming session answers an error and is closed.
Interrupted(c) ==
  /\ Computes(c)
  /\ interruption_requested[worker[c]]
  /\ phase' = [phase EXCEPT ![c] = "timedout"]
  /\ UNCHANGED <<timeVars, mainVars, contextVars, queryVars, worker, state,
                 request_buffer, clientVars>>

\* The error is written inside the handler of the exception: when that write
\* fails the new exception may leave the thread, and the process terminates. The
\* ostream keeps to itself what a write or flush of its own throws, so it takes a
\* seal that finds the buffer full (StreamingResponseWriter::seal). How full the
\* buffer is is not in this model: it may terminate whenever the write fails.
Terminates(c) ==
  /\ c \in WebSockets
  /\ Computes(c)
  /\ interruption_requested[worker[c]]
  /\ ~open[c]
  /\ main' = "terminated"
  /\ phase' = [d \in Clients |-> "ended"]
  /\ UNCHANGED <<timeVars, to_flag, shutdown_server, stopped, contextVars,
                 queryVars, worker, state, request_buffer, clientVars>>

MainThread == ReadClock \/ Sweep \/ Wake \/ Stop \/ Join \/ \E w \in Workers : FlagOne(w)

Request(c) == \/ HandleRun(c) \/ HandlePull(c) \/ HandleDiscard(c)
              \/ IgnoreDiscard(c) \/ HandleCatalog(c) \/ RefuseRequest(c)

Next ==
  \/ Tick \/ Signal \/ MainThread
  \/ \E c \in Clients :
       \/ HangUp(c) \/ \E r \in Requests : Send(c, r)
       \/ \E w \in Workers : StartSession(w, c) \/ HttpRequest(w, c) \/ HttpRefused(w, c)
       \/ SetThreadInfo(c) \/ Request(c) \/ EndSession(c)
       \/ PlanReady(c) \/ QueryRefused(c) \/ PullMore(c) \/ PullFinal(c)
       \/ QueryThrows(c) \/ HttpEnds(c) \/ Interrupted(c) \/ Terminates(c)

Spec == Init /\ [][Next]_vars

(***************************************************************************)
(* Time passes, the threads are scheduled, and a query looks at the flag   *)
(* again and again.  Nobody promises that a query ends or a client speaks. *)
(***************************************************************************)
Fairness ==
  /\ WF_vars(Tick)
  /\ WF_vars(MainThread)
  /\ \A c \in Clients :
       /\ WF_vars(SetThreadInfo(c))
       /\ WF_vars(Request(c))
       /\ WF_vars(EndSession(c))
       /\ WF_vars(Interrupted(c))

LiveSpec == Spec /\ Fairness

-----------------------------------------------------------------------------
(***************************************************************************)
(* Properties.                                                             *)
(***************************************************************************)
\* The values that the variables can have.
TypeOK ==
  /\ now \in Nat /\ clock \in Nat
  /\ main \in {"check", "sweep", "sleep", "flag", "join", "done", "terminated"}
  /\ to_flag \in SUBSET Workers
  /\ shutdown_server \in BOOLEAN /\ stopped \in BOOLEAN
  /\ interruption_requested \in [Workers -> BOOLEAN]
  /\ timeout \in [Workers -> Nat]
  /\ context \in [Workers -> Clients \cup {NoClient}]
  /\ phase \in [Clients -> Phases]
  /\ worker \in [Clients -> Workers \cup {NoWorker}]
  /\ \A c \in Clients : Active(c) => worker[c] \in Workers
  /\ state \in [Clients -> {"READY", "STREAMING"}]
  /\ request_buffer \in [Clients -> Seq(Requests)]
  /\ query_start \in [Clients -> Nat]
  /\ plan \in [Clients -> {"none", "last", "older"}]
  /\ open \in [Clients -> BOOLEAN]
  /\ sent \in [Clients -> Seq(Requests)]
  /\ asked \in [Clients -> Nat]

\* A query is interrupted only when its own time is over or the server is
\* shutting down: never because of the timeout that an earlier query left in
\* the context of the thread, of a discarded query, or of a clock that the
\* main thread read before the query began.
InterruptedForCause ==
  [][\A c \in Clients :
       (phase[c] # "timedout" /\ phase'[c] = "timedout")
         => Deadline(c) <= now \/ shutdown_server]_vars

\* Results are pulled from the plan of the query that filled the context of
\* the thread (its variables and temporary strings), not from an older plan
\* that the session still keeps.
PullsUseTheirContext ==
  \A c \in Clients :
    phase[c] = "pulling" => plan[c] = "last" /\ context[worker[c]] = c

\* While the server is up a query that computes past its time limit ends.
ExpiredQueriesEnd ==
  \A c \in Clients :
    (Computes(c) /\ Deadline(c) <= now) ~> (~Computes(c) \/ shutdown_server)

\* While the server is up a thread is given back after its client hung up,
\* whatever the client had asked for.
HungUpSessionsEnd ==
  \A c \in Clients : (Active(c) /\ ~open[c]) ~> (~Active(c) \/ shutdown_server)

=============================================================================
