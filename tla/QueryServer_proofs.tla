------------------------- MODULE QueryServer_proofs -------------------------
(***************************************************************************)
(* What holds of QueryServer for every number of threads, of clients, of   *)
(* requests and every time limit: the types, that a query is interrupted   *)
(* only for cause, and that results are pulled from the plan that the      *)
(* context of the thread belongs to.                                       *)
(***************************************************************************)
EXTENDS QueryServer, TLAPS

\* A thread executes one session at a time.
OneSession ==
  \A c, d \in Clients : Active(c) /\ Active(d) /\ worker[c] = worker[d] => c = d

\* A query exists: it computes, or the session waits for the next request
\* about it.
InQuery(c) == Computes(c) \/ (phase[c] = "reading" /\ state[c] = "STREAMING")

\* The main thread is never ahead of the clock, and flags every context only
\* after the signal.
MainInv == clock <= now /\ (main = "flag" => shutdown_server)

\* The timeout of the thread is the one of the query that exists on it ...
TimeoutInv == \A c \in Clients : InQuery(c) => timeout[worker[c]] = Deadline(c)

\* ... and so is the reason for its flag.
FlagInv ==
  \A c \in Clients :
    InQuery(c) /\ interruption_requested[worker[c]]
      => Deadline(c) <= now \/ shutdown_server

\* A session and a query begin in state READY, so that refusing the query
\* leaves nothing to pull.
ReadyInv ==
  \A c \in Clients :
    phase[c] \in {"queued", "starting", "planning"} => state[c] = "READY"

\* From its begin on the context of the thread belongs to the session.
ContextInv ==
  \A c \in Clients :
    InQuery(c) \/ phase[c] = "starting" => context[worker[c]] = c

\* What can be pulled is the plan of the last query begun.
PlanInv ==
  \A c \in Clients : InQuery(c) /\ phase[c] # "planning" => plan[c] = "last"

IInv == /\ TypeOK /\ OneSession /\ MainInv /\ TimeoutInv /\ FlagInv
        /\ ReadyInv /\ ContextInv /\ PlanInv

-----------------------------------------------------------------------------
\* The inductive invariant holds initially: no session is active.
LEMMA InitInv == Init => IInv
<1> SUFFICES ASSUME Init PROVE IInv
  OBVIOUS
<1>1. TypeOK
  <2>1. <<>> \in Seq(Requests)
    OBVIOUS
  <2>2. /\ request_buffer \in [Clients -> Seq(Requests)]
        /\ sent \in [Clients -> Seq(Requests)]
    BY <2>1, Zenon DEF Init
  <2>3. /\ interruption_requested \in [Workers -> BOOLEAN]
        /\ open \in [Clients -> BOOLEAN]
        /\ shutdown_server \in BOOLEAN /\ stopped \in BOOLEAN
    BY Zenon DEF Init
  <2> QED
    BY <2>2, <2>3 DEF Init, TypeOK, Active, Phases
<1>2. OneSession
  BY DEF Init, OneSession, Active
<1>3. MainInv
  BY DEF Init, MainInv
<1>4. TimeoutInv /\ FlagInv /\ ReadyInv /\ ContextInv /\ PlanInv
  BY DEF Init, TimeoutInv, FlagInv, ReadyInv, ContextInv, PlanInv, InQuery, Computes
<1> QED
  BY <1>1, <1>2, <1>3, <1>4 DEF IInv

\* A step keeps the types.  First what the shared parts of the handlers do.
LEMMA HandlesType ==
  ASSUME TypeOK, NEW c \in Clients, NEW r \in Requests, Handles(c, r)
  PROVE  sent' \in [Clients -> Seq(Requests)]
<1>1. sent[c] \in Seq(Requests) /\ sent[c] # <<>>
  BY DEF TypeOK, Handles
<1>2. Tail(sent[c]) \in Seq(Requests)
  BY <1>1
<1> QED
  BY <1>2 DEF TypeOK, Handles

LEMMA ConsumedType ==
  ASSUME TypeOK, NEW c \in Clients, Consumed(c)
  PROVE  request_buffer' \in [Clients -> Seq(Requests)]
<1>1. <<>> \in Seq(Requests)
  OBVIOUS
<1> QED
  BY <1>1, Zenon DEF TypeOK, Consumed

LEMMA KeptType ==
  ASSUME TypeOK, NEW c \in Clients, NEW r \in Requests, Handles(c, r), Kept(c)
  PROVE  request_buffer' \in [Clients -> Seq(Requests)]
<1>1. sent[c] \in Seq(Requests) /\ sent[c] # <<>> /\ request_buffer[c] \in Seq(Requests)
  BY DEF TypeOK, Handles
<1>2. Buffered(c) \in Seq(Requests)
  BY <1>1 DEF Buffered
<1> QED
  BY <1>2 DEF TypeOK, Kept

\* A write leaves the session on its thread or ends it.
LEMMA AnswerType ==
  ASSUME TypeOK, NEW c \in Clients, Active(c), Answer(c, "reading")
  PROVE  /\ phase' \in [Clients -> Phases]
         /\ phase'[c] \in {"reading", "ended"}
         /\ \A d \in Clients : d # c => phase'[d] = phase[d]
         /\ \A d \in Clients : Active(d)' => Active(d)
<1>1. /\ phase' \in [Clients -> Phases]
      /\ phase'[c] \in {"reading", "ended"}
      /\ \A d \in Clients : d # c => phase'[d] = phase[d]
  BY DEF TypeOK, Answer, Phases
<1>2. ASSUME NEW d \in Clients, Active(d)' PROVE Active(d)
  BY <1>1, <1>2 DEF Active
<1> QED
  BY <1>1, <1>2

\* The state of a session is READY or STREAMING.
LEMMA StateType ==
  ASSUME TypeOK, NEW c \in Clients, NEW x \in {"READY", "STREAMING"}
  PROVE  [state EXCEPT ![c] = x] \in [Clients -> {"READY", "STREAMING"}]
  BY DEF TypeOK

LEMMA TypeStep == TypeOK /\ [Next]_vars => TypeOK'
<1> SUFFICES ASSUME TypeOK, [Next]_vars PROVE TypeOK'
  OBVIOUS
<1> USE DEF timeVars, mainVars, contextVars, queryVars, sessionVars, clientVars
<1>1. ASSUME Tick PROVE TypeOK'
  BY <1>1 DEF Tick, TypeOK, Active, Phases
<1>2. ASSUME Signal PROVE TypeOK'
  BY <1>2 DEF Signal, TypeOK, Active, Phases
<1>3. ASSUME ReadClock PROVE TypeOK'
  BY <1>3 DEF ReadClock, TypeOK, Active, Phases
<1>4. ASSUME Sweep PROVE TypeOK'
  BY <1>4 DEF Sweep, TypeOK, Active, Phases
<1>5. ASSUME Wake PROVE TypeOK'
  BY <1>5 DEF Wake, TypeOK, Active, Phases
<1>6. ASSUME NEW w \in Workers, FlagOne(w) PROVE TypeOK'
  BY <1>6 DEF FlagOne, TypeOK, Active, Phases
<1>7. ASSUME Stop PROVE TypeOK'
  BY <1>7 DEF Stop, TypeOK, Active, Phases
<1>8. ASSUME Join PROVE TypeOK'
  BY <1>8 DEF Join, TypeOK, Active, Phases
<1>9. ASSUME NEW c \in Clients, HangUp(c) PROVE TypeOK'
  BY <1>9 DEF HangUp, TypeOK, Active, Phases
<1>10. ASSUME NEW c \in Clients, NEW r \in Requests, Send(c, r) PROVE TypeOK'
  BY <1>10 DEF Send, TypeOK, Active, Phases
<1>11. ASSUME NEW w \in Workers, NEW c \in Clients, StartSession(w, c) PROVE TypeOK'
  BY <1>11 DEF StartSession, TypeOK, Active, Phases
<1>12. ASSUME NEW w \in Workers, NEW c \in Clients, HttpRequest(w, c) PROVE TypeOK'
  BY <1>12 DEF HttpRequest, BeginQuery, TypeOK, Active, Phases
<1>13. ASSUME NEW w \in Workers, NEW c \in Clients, HttpRefused(w, c) PROVE TypeOK'
  BY <1>13 DEF HttpRefused, TypeOK, Active, Phases
<1>14. ASSUME NEW c \in Clients, SetThreadInfo(c) PROVE TypeOK'
  BY <1>14, ConstantsAssumption DEF SetThreadInfo, Deadline, TypeOK, Active, Phases
<1>15. ASSUME NEW c \in Clients, HandleRun(c) PROVE TypeOK'
  <2>1. /\ sent' \in [Clients -> Seq(Requests)]
        /\ request_buffer' \in [Clients -> Seq(Requests)]
    BY <1>15, HandlesType, KeptType, Zenon DEF HandleRun, Requests
  <2>2. worker[c] \in Workers
    BY <1>15 DEF HandleRun, Handles, TypeOK, Active
  <2> QED
    BY <1>15, <2>1, <2>2 DEF HandleRun, Handles, BeginQuery, TypeOK, Active, Phases
<1>16. ASSUME NEW c \in Clients, HandlePull(c) PROVE TypeOK'
  <2>1. /\ sent' \in [Clients -> Seq(Requests)]
        /\ request_buffer' \in [Clients -> Seq(Requests)]
    BY <1>16, HandlesType, KeptType, Zenon DEF HandlePull, Requests
  <2> QED
    BY <1>16, <2>1 DEF HandlePull, Handles, TypeOK, Active, Phases
<1>17. ASSUME NEW c \in Clients, HandleDiscard(c) PROVE TypeOK'
  <2>1. Active(c) /\ c \in WebSockets
    BY <1>17 DEF HandleDiscard, Handles, Active
  <2>2. /\ phase' \in [Clients -> Phases]
        /\ \A d \in Clients : Active(d)' => Active(d)
    BY <1>17, <2>1, AnswerType, Zenon DEF HandleDiscard
  <2>3. request_buffer' \in [Clients -> Seq(Requests)]
    BY <1>17, ConsumedType, Zenon DEF HandleDiscard
  <2>4. sent' \in [Clients -> Seq(Requests)]
    BY <1>17, HandlesType, Zenon DEF HandleDiscard, Requests
  <2>5. state' \in [Clients -> {"READY", "STREAMING"}]
    BY <1>17, StateType DEF HandleDiscard, TypeOK
  <2>6. interruption_requested' \in [Workers -> BOOLEAN]
    BY <1>17, <2>1 DEF HandleDiscard, TypeOK
  <2> QED
    BY <1>17, <2>2, <2>3, <2>4, <2>5, <2>6
    DEF HandleDiscard, Handles, TypeOK
<1>18. ASSUME NEW c \in Clients, IgnoreDiscard(c) PROVE TypeOK'
  <2>1. /\ sent' \in [Clients -> Seq(Requests)]
        /\ request_buffer' \in [Clients -> Seq(Requests)]
    BY <1>18, HandlesType, ConsumedType, Zenon DEF IgnoreDiscard, Requests
  <2> QED
    BY <1>18, <2>1 DEF IgnoreDiscard, Handles, TypeOK, Active
<1>19. ASSUME NEW c \in Clients, HandleCatalog(c) PROVE TypeOK'
  <2>1. Active(c) /\ c \in WebSockets
    BY <1>19 DEF HandleCatalog, Handles, Active
  <2>2. /\ phase' \in [Clients -> Phases]
        /\ \A d \in Clients : Active(d)' => Active(d)
    BY <1>19, <2>1, AnswerType, Zenon DEF HandleCatalog
  <2>3. request_buffer' \in [Clients -> Seq(Requests)]
    BY <1>19, ConsumedType, Zenon DEF HandleCatalog
  <2>4. sent' \in [Clients -> Seq(Requests)]
    BY <1>19, HandlesType, Zenon DEF HandleCatalog, Requests
  <2>5. state' \in [Clients -> {"READY", "STREAMING"}]
    BY <1>19 DEF HandleCatalog, TypeOK
  <2>6. interruption_requested' \in [Workers -> BOOLEAN]
    BY <1>19 DEF HandleCatalog, Handles, TypeOK, contextVars
  <2> QED
    BY <1>19, <2>2, <2>3, <2>4, <2>5, <2>6
    DEF HandleCatalog, Handles, TypeOK
<1>20. ASSUME NEW c \in Clients, RefuseRequest(c) PROVE TypeOK'
  <2>1. PICK r \in Requests : Handles(c, r)
    BY <1>20 DEF RefuseRequest, Requests
  <2>2. /\ sent' \in [Clients -> Seq(Requests)]
        /\ request_buffer' \in [Clients -> Seq(Requests)]
    BY <1>20, <2>1, HandlesType, KeptType, Zenon DEF RefuseRequest
  <2> QED
    BY <1>20, <2>1, <2>2 DEF RefuseRequest, Handles, TypeOK, Active
<1>21. ASSUME NEW c \in Clients, EndSession(c) PROVE TypeOK'
  BY <1>21 DEF EndSession, TypeOK, Active, Phases
<1>22. ASSUME NEW c \in Clients, PlanReady(c) PROVE TypeOK'
  <2>1. Active(c) /\ c \in WebSockets
    BY <1>22 DEF PlanReady, Returns, Active
  <2>2. /\ phase' \in [Clients -> Phases]
        /\ \A d \in Clients : Active(d)' => Active(d)
    BY <1>22, <2>1, AnswerType, Zenon DEF PlanReady
  <2>3. request_buffer' \in [Clients -> Seq(Requests)]
    BY <1>22, ConsumedType, Zenon DEF PlanReady
  <2>4. sent' \in [Clients -> Seq(Requests)]
    BY <1>22 DEF PlanReady, Returns, TypeOK, clientVars
  <2>5. state' \in [Clients -> {"READY", "STREAMING"}]
    BY <1>22, StateType DEF PlanReady, TypeOK
  <2>6. interruption_requested' \in [Workers -> BOOLEAN]
    BY <1>22 DEF PlanReady, Returns, TypeOK, contextVars
  <2> QED
    BY <1>22, <2>2, <2>3, <2>4, <2>5, <2>6
    DEF PlanReady, Returns, TypeOK
<1>23. ASSUME NEW c \in Clients, QueryRefused(c) PROVE TypeOK'
  <2>1. Active(c) /\ c \in WebSockets
    BY <1>23 DEF QueryRefused, Returns, Active
  <2>2. /\ phase' \in [Clients -> Phases]
        /\ \A d \in Clients : Active(d)' => Active(d)
    BY <1>23, <2>1, AnswerType, Zenon DEF QueryRefused
  <2>3. request_buffer' \in [Clients -> Seq(Requests)]
    BY <1>23, ConsumedType, Zenon DEF QueryRefused
  <2>4. sent' \in [Clients -> Seq(Requests)]
    BY <1>23 DEF QueryRefused, Returns, TypeOK, clientVars
  <2>5. state' \in [Clients -> {"READY", "STREAMING"}]
    BY <1>23 DEF QueryRefused, TypeOK
  <2>6. interruption_requested' \in [Workers -> BOOLEAN]
    BY <1>23 DEF QueryRefused, Returns, TypeOK, contextVars
  <2> QED
    BY <1>23, <2>2, <2>3, <2>4, <2>5, <2>6
    DEF QueryRefused, Returns, TypeOK
<1>24. ASSUME NEW c \in Clients, PullMore(c) PROVE TypeOK'
  <2>1. Active(c) /\ c \in WebSockets
    BY <1>24 DEF PullMore, Returns, Active
  <2>2. /\ phase' \in [Clients -> Phases]
        /\ \A d \in Clients : Active(d)' => Active(d)
    BY <1>24, <2>1, AnswerType, Zenon DEF PullMore
  <2>3. request_buffer' \in [Clients -> Seq(Requests)]
    BY <1>24, ConsumedType, Zenon DEF PullMore
  <2>4. sent' \in [Clients -> Seq(Requests)]
    BY <1>24 DEF PullMore, Returns, TypeOK, clientVars
  <2>5. state' \in [Clients -> {"READY", "STREAMING"}]
    BY <1>24 DEF PullMore, TypeOK
  <2>6. interruption_requested' \in [Workers -> BOOLEAN]
    BY <1>24 DEF PullMore, Returns, TypeOK, contextVars
  <2> QED
    BY <1>24, <2>2, <2>3, <2>4, <2>5, <2>6
    DEF PullMore, Returns, TypeOK
<1>25. ASSUME NEW c \in Clients, PullFinal(c) PROVE TypeOK'
  <2>1. Active(c) /\ c \in WebSockets
    BY <1>25 DEF PullFinal, Returns, Active
  <2>2. /\ phase' \in [Clients -> Phases]
        /\ \A d \in Clients : Active(d)' => Active(d)
    BY <1>25, <2>1, AnswerType, Zenon DEF PullFinal
  <2>3. request_buffer' \in [Clients -> Seq(Requests)]
    BY <1>25, ConsumedType, Zenon DEF PullFinal
  <2>4. sent' \in [Clients -> Seq(Requests)]
    BY <1>25 DEF PullFinal, Returns, TypeOK, clientVars
  <2>5. state' \in [Clients -> {"READY", "STREAMING"}]
    BY <1>25, StateType DEF PullFinal, TypeOK
  <2>6. interruption_requested' \in [Workers -> BOOLEAN]
    BY <1>25 DEF PullFinal, Returns, TypeOK, contextVars
  <2> QED
    BY <1>25, <2>2, <2>3, <2>4, <2>5, <2>6
    DEF PullFinal, Returns, TypeOK
<1>26. ASSUME NEW c \in Clients, QueryThrows(c) PROVE TypeOK'
  BY <1>26 DEF QueryThrows, Returns, TypeOK, Active, Phases
<1>27. ASSUME NEW c \in Clients, HttpEnds(c) PROVE TypeOK'
  BY <1>27 DEF HttpEnds, TypeOK, Active, Phases
<1>28. ASSUME NEW c \in Clients, Interrupted(c) PROVE TypeOK'
  BY <1>28 DEF Interrupted, Computes, TypeOK, Active, Phases
<1>29. ASSUME NEW c \in Clients, Terminates(c) PROVE TypeOK'
  BY <1>29 DEF Terminates, Computes, TypeOK, Active, Phases
<1>30. ASSUME UNCHANGED vars PROVE TypeOK'
  BY <1>30 DEF vars, TypeOK, Active, Phases
<1> QED
  BY <1>1, <1>2, <1>3, <1>4, <1>5, <1>6, <1>7, <1>8, <1>9, <1>10, <1>11, <1>12, <1>13,
      <1>14, <1>15, <1>16, <1>17, <1>18, <1>19, <1>20, <1>21, <1>22, <1>23, <1>24,
      <1>25, <1>26, <1>27, <1>28, <1>29, <1>30 DEF Next, MainThread, Request

\* Sessions that end or go on where they are share no thread.
LEMMA SameThreads ==
  ASSUME IInv, worker' = worker, \A d \in Clients : Active(d)' => Active(d)
  PROVE  OneSession'
  BY DEF IInv, OneSession

\* A thread takes a session only when it has none.
LEMMA OneSessionStep == IInv /\ [Next]_vars => OneSession'
<1> SUFFICES ASSUME IInv, [Next]_vars PROVE OneSession'
  OBVIOUS
<1> USE DEF IInv, timeVars, mainVars, contextVars, queryVars, sessionVars, clientVars
<1>1. ASSUME Tick \/ Signal \/ ReadClock \/ Wake \/ Stop \/ Join PROVE OneSession'
  BY <1>1 DEF Tick, Signal, ReadClock, Wake, Stop, Join, OneSession, Idle, TypeOK,
      Active
<1>2. ASSUME NEW c \in Clients, HangUp(c) \/ IgnoreDiscard(c) \/ RefuseRequest(c)
    PROVE OneSession'
  BY <1>2 DEF HangUp, IgnoreDiscard, RefuseRequest, Handles, Consumed, Kept, Buffered,
      OneSession, Idle, TypeOK, Active
<1>3. ASSUME NEW c \in Clients, EndSession(c) \/ HttpEnds(c) \/ Interrupted(c)
    PROVE OneSession'
  <2>1. \A d \in Clients : Active(d)' => Active(d)
    BY <1>3 DEF EndSession, HttpEnds, Interrupted, Active, TypeOK
  <2> QED
    BY <1>3, <2>1, SameThreads DEF EndSession, HttpEnds, Interrupted
<1>4. ASSUME Sweep PROVE OneSession'
  BY <1>4 DEF Sweep, OneSession, Idle, TypeOK, Active
<1>5. ASSUME NEW w \in Workers, FlagOne(w) PROVE OneSession'
  BY <1>5 DEF FlagOne, OneSession, Idle, TypeOK, Active
<1>6. ASSUME NEW c \in Clients, NEW r \in Requests, Send(c, r) PROVE OneSession'
  BY <1>6 DEF Send, OneSession, Idle, TypeOK, Active
<1>7. ASSUME NEW w \in Workers, NEW c \in Clients, StartSession(w, c) PROVE OneSession'
  BY <1>7 DEF StartSession, OneSession, Idle, TypeOK, Active
<1>8. ASSUME NEW w \in Workers, NEW c \in Clients, HttpRequest(w, c) PROVE OneSession'
  BY <1>8 DEF HttpRequest, BeginQuery, OneSession, Idle, TypeOK, Active
<1>9. ASSUME NEW w \in Workers, NEW c \in Clients, HttpRefused(w, c) PROVE OneSession'
  BY <1>9 DEF HttpRefused, OneSession, Idle, TypeOK, Active
<1>10. ASSUME NEW c \in Clients, SetThreadInfo(c) PROVE OneSession'
  BY <1>10 DEF SetThreadInfo, Deadline, OneSession, Idle, TypeOK, Active
<1>11. ASSUME NEW c \in Clients, HandleRun(c) PROVE OneSession'
  BY <1>11 DEF HandleRun, Handles, BeginQuery, Kept, Buffered, MayRun, OneSession,
      Idle, TypeOK, Active
<1>12. ASSUME NEW c \in Clients, HandlePull(c) PROVE OneSession'
  BY <1>12 DEF HandlePull, Handles, Kept, Buffered, MayPull, OneSession, Idle, TypeOK,
      Active
<1>13. ASSUME NEW c \in Clients, HandleDiscard(c) PROVE OneSession'
  <2>1. worker' = worker
    BY <1>13 DEF HandleDiscard, Handles, Returns, sessionVars
  <2>2. Active(c) /\ Answer(c, "reading")
    BY <1>13 DEF HandleDiscard, Handles, Returns, Active
  <2> QED
    BY <2>1, <2>2, AnswerType, SameThreads
<1>14. ASSUME NEW c \in Clients, QueryThrows(c) PROVE OneSession'
  BY <1>14 DEF QueryThrows, Returns, OneSession, Idle, TypeOK, Active
<1>15. ASSUME NEW c \in Clients, Terminates(c) PROVE OneSession'
  BY <1>15 DEF Terminates, Computes, OneSession, Idle, TypeOK, Active
<1>16. ASSUME NEW c \in Clients, HandleCatalog(c) \/ QueryRefused(c)
    \/ PullMore(c) PROVE OneSession'
  <2>1. worker' = worker
    BY <1>16 DEF HandleCatalog, QueryRefused, PullMore, Handles, Returns, sessionVars
  <2>2. Active(c) /\ Answer(c, "reading")
    BY <1>16 DEF HandleCatalog, QueryRefused, PullMore, Handles, Returns, Active
  <2> QED
    BY <2>1, <2>2, AnswerType, SameThreads
<1>17. ASSUME NEW c \in Clients, PlanReady(c) \/ PullFinal(c) PROVE OneSession'
  <2>1. worker' = worker
    BY <1>17 DEF PlanReady, PullFinal, Handles, Returns, sessionVars
  <2>2. Active(c) /\ Answer(c, "reading")
    BY <1>17 DEF PlanReady, PullFinal, Handles, Returns, Active
  <2> QED
    BY <2>1, <2>2, AnswerType, SameThreads
<1>18. ASSUME UNCHANGED vars PROVE OneSession'
  BY <1>18 DEF vars, OneSession, Idle, TypeOK, Active
<1> QED
  BY <1>1, <1>2, <1>3, <1>4, <1>5, <1>6, <1>7, <1>8, <1>9, <1>10, <1>11, <1>12, <1>13,
      <1>14, <1>15, <1>16, <1>17, <1>18 DEF Next, MainThread, Request

\* The time that the main thread read is in the past.
LEMMA MainInvStep == IInv /\ [Next]_vars => MainInv'
<1> SUFFICES ASSUME IInv, [Next]_vars PROVE MainInv'
  OBVIOUS
<1> USE DEF IInv, timeVars, mainVars, contextVars, queryVars, sessionVars, clientVars
<1>1. ASSUME Tick \/ Signal \/ ReadClock \/ Wake \/ Stop \/ Join PROVE MainInv'
  BY <1>1 DEF Tick, Signal, ReadClock, Wake, Stop, Join, MainInv, TypeOK, Active
<1>2. ASSUME NEW c \in Clients, HangUp(c) \/ IgnoreDiscard(c) \/ RefuseRequest(c)
    PROVE MainInv'
  BY <1>2 DEF HangUp, IgnoreDiscard, RefuseRequest, Handles, Consumed, Kept, Buffered,
      MainInv, TypeOK, Active
<1>3. ASSUME NEW c \in Clients, EndSession(c) \/ HttpEnds(c) \/ Interrupted(c)
    PROVE MainInv'
  BY <1>3 DEF EndSession, HttpEnds, Interrupted, Computes, MainInv, TypeOK, Active
<1>4. ASSUME Sweep PROVE MainInv'
  BY <1>4 DEF Sweep, MainInv, TypeOK, Active
<1>5. ASSUME NEW w \in Workers, FlagOne(w) PROVE MainInv'
  BY <1>5 DEF FlagOne, MainInv, TypeOK, Active
<1>6. ASSUME NEW c \in Clients, NEW r \in Requests, Send(c, r) PROVE MainInv'
  BY <1>6 DEF Send, MainInv, TypeOK, Active
<1>7. ASSUME NEW w \in Workers, NEW c \in Clients, StartSession(w, c) PROVE MainInv'
  BY <1>7 DEF StartSession, MainInv, TypeOK, Active
<1>8. ASSUME NEW w \in Workers, NEW c \in Clients, HttpRequest(w, c) PROVE MainInv'
  BY <1>8 DEF HttpRequest, BeginQuery, MainInv, TypeOK, Active
<1>9. ASSUME NEW w \in Workers, NEW c \in Clients, HttpRefused(w, c) PROVE MainInv'
  BY <1>9 DEF HttpRefused, MainInv, TypeOK, Active
<1>10. ASSUME NEW c \in Clients, SetThreadInfo(c) PROVE MainInv'
  BY <1>10 DEF SetThreadInfo, Deadline, MainInv, TypeOK, Active
<1>11. ASSUME NEW c \in Clients, HandleRun(c) PROVE MainInv'
  BY <1>11 DEF HandleRun, Handles, BeginQuery, Kept, Buffered, MayRun, MainInv, TypeOK,
      Active
<1>12. ASSUME NEW c \in Clients, HandlePull(c) PROVE MainInv'
  BY <1>12 DEF HandlePull, Handles, Kept, Buffered, MayPull, MainInv, TypeOK, Active
<1>13. ASSUME NEW c \in Clients, HandleDiscard(c) PROVE MainInv'
  <2>1. Active(c) /\ Answer(c, "reading")
    BY <1>13 DEF HandleDiscard, Handles, Returns, Active
  <2>2. /\ phase'[c] \in {"reading", "ended"}
        /\ \A d \in Clients : d # c => phase'[d] = phase[d]
    BY <2>1, AnswerType, Zenon
  <2> QED
    BY <1>13, <2>1, <2>2
    DEF HandleDiscard, Handles, Returns, MayPull, MainInv, TypeOK, Active
<1>14. ASSUME NEW c \in Clients, QueryThrows(c) PROVE MainInv'
  BY <1>14 DEF QueryThrows, Returns, MainInv, TypeOK, Active
<1>15. ASSUME NEW c \in Clients, Terminates(c) PROVE MainInv'
  BY <1>15 DEF Terminates, Computes, MainInv, TypeOK, Active
<1>16. ASSUME NEW c \in Clients, HandleCatalog(c) \/ QueryRefused(c)
    \/ PullMore(c) PROVE MainInv'
  <2>1. Active(c) /\ Answer(c, "reading")
    BY <1>16 DEF HandleCatalog, QueryRefused, PullMore, Handles, Returns, Active
  <2>2. /\ phase'[c] \in {"reading", "ended"}
        /\ \A d \in Clients : d # c => phase'[d] = phase[d]
    BY <2>1, AnswerType, Zenon
  <2> QED
    BY <1>16, <2>1, <2>2
    DEF HandleCatalog, QueryRefused, PullMore, Handles, Returns, MayPull, MainInv,
        TypeOK, Active
<1>17. ASSUME NEW c \in Clients, PlanReady(c) \/ PullFinal(c) PROVE MainInv'
  <2>1. Active(c) /\ Answer(c, "reading")
    BY <1>17 DEF PlanReady, PullFinal, Handles, Returns, Active
  <2>2. /\ phase'[c] \in {"reading", "ended"}
        /\ \A d \in Clients : d # c => phase'[d] = phase[d]
    BY <2>1, AnswerType, Zenon
  <2> QED
    BY <1>17, <2>1, <2>2
    DEF PlanReady, PullFinal, Handles, Returns, MayPull, MainInv, TypeOK, Active
<1>18. ASSUME UNCHANGED vars PROVE MainInv'
  BY <1>18 DEF vars, MainInv, TypeOK, Active
<1> QED
  BY <1>1, <1>2, <1>3, <1>4, <1>5, <1>6, <1>7, <1>8, <1>9, <1>10, <1>11, <1>12, <1>13,
      <1>14, <1>15, <1>16, <1>17, <1>18 DEF Next, MainThread, Request

\* A session and a query begins in state READY, and its refusal leaves that state.
LEMMA ReadyInvStep == IInv /\ [Next]_vars => ReadyInv'
<1> SUFFICES ASSUME IInv, [Next]_vars PROVE ReadyInv'
  OBVIOUS
<1> USE DEF IInv, timeVars, mainVars, contextVars, queryVars, sessionVars, clientVars
<1>1. ASSUME Tick \/ Signal \/ ReadClock \/ Wake \/ Stop \/ Join PROVE ReadyInv'
  BY <1>1 DEF Tick, Signal, ReadClock, Wake, Stop, Join, ReadyInv, TypeOK, Active
<1>2. ASSUME NEW c \in Clients, HangUp(c) \/ IgnoreDiscard(c) \/ RefuseRequest(c)
    PROVE ReadyInv'
  BY <1>2 DEF HangUp, IgnoreDiscard, RefuseRequest, Handles, Consumed, Kept, Buffered,
      ReadyInv, TypeOK, Active
<1>3. ASSUME NEW c \in Clients, EndSession(c) \/ HttpEnds(c) \/ Interrupted(c)
    PROVE ReadyInv'
  BY <1>3 DEF EndSession, HttpEnds, Interrupted, Computes, ReadyInv, TypeOK, Active
<1>4. ASSUME Sweep PROVE ReadyInv'
  BY <1>4 DEF Sweep, ReadyInv, TypeOK, Active
<1>5. ASSUME NEW w \in Workers, FlagOne(w) PROVE ReadyInv'
  BY <1>5 DEF FlagOne, ReadyInv, TypeOK, Active
<1>6. ASSUME NEW c \in Clients, NEW r \in Requests, Send(c, r) PROVE ReadyInv'
  BY <1>6 DEF Send, ReadyInv, TypeOK, Active
<1>7. ASSUME NEW w \in Workers, NEW c \in Clients, StartSession(w, c) PROVE ReadyInv'
  BY <1>7 DEF StartSession, ReadyInv, TypeOK, Active
<1>8. ASSUME NEW w \in Workers, NEW c \in Clients, HttpRequest(w, c) PROVE ReadyInv'
  BY <1>8 DEF HttpRequest, BeginQuery, ReadyInv, TypeOK, Active
<1>9. ASSUME NEW w \in Workers, NEW c \in Clients, HttpRefused(w, c) PROVE ReadyInv'
  BY <1>9 DEF HttpRefused, ReadyInv, TypeOK, Active
<1>10. ASSUME NEW c \in Clients, SetThreadInfo(c) PROVE ReadyInv'
  BY <1>10 DEF SetThreadInfo, Deadline, ReadyInv, TypeOK, Active
<1>11. ASSUME NEW c \in Clients, HandleRun(c) PROVE ReadyInv'
  BY <1>11 DEF HandleRun, Handles, BeginQuery, Kept, Buffered, MayRun, ReadyInv,
      TypeOK, Active
<1>12. ASSUME NEW c \in Clients, HandlePull(c) PROVE ReadyInv'
  BY <1>12 DEF HandlePull, Handles, Kept, Buffered, MayPull, ReadyInv, TypeOK, Active
<1>13. ASSUME NEW c \in Clients, HandleDiscard(c) PROVE ReadyInv'
  <2>1. Active(c) /\ Answer(c, "reading")
    BY <1>13 DEF HandleDiscard, Handles, Returns, Active
  <2>2. /\ phase'[c] \in {"reading", "ended"}
        /\ \A d \in Clients : d # c => phase'[d] = phase[d]
    BY <2>1, AnswerType, Zenon
  <2> QED
    BY <1>13, <2>1, <2>2
    DEF HandleDiscard, Handles, Returns, MayPull, ReadyInv, TypeOK, Active
<1>14. ASSUME NEW c \in Clients, QueryThrows(c) PROVE ReadyInv'
  BY <1>14 DEF QueryThrows, Returns, ReadyInv, TypeOK, Active
<1>15. ASSUME NEW c \in Clients, Terminates(c) PROVE ReadyInv'
  BY <1>15 DEF Terminates, Computes, ReadyInv, TypeOK, Active
<1>16. ASSUME NEW c \in Clients, HandleCatalog(c) \/ QueryRefused(c)
    \/ PullMore(c) PROVE ReadyInv'
  <2>1. Active(c) /\ Answer(c, "reading")
    BY <1>16 DEF HandleCatalog, QueryRefused, PullMore, Handles, Returns, Active
  <2>2. /\ phase'[c] \in {"reading", "ended"}
        /\ \A d \in Clients : d # c => phase'[d] = phase[d]
    BY <2>1, AnswerType, Zenon
  <2> QED
    BY <1>16, <2>1, <2>2
    DEF HandleCatalog, QueryRefused, PullMore, Handles, Returns, MayPull, ReadyInv,
        TypeOK, Active
<1>17. ASSUME NEW c \in Clients, PlanReady(c) \/ PullFinal(c) PROVE ReadyInv'
  <2>1. Active(c) /\ Answer(c, "reading")
    BY <1>17 DEF PlanReady, PullFinal, Handles, Returns, Active
  <2>2. /\ phase'[c] \in {"reading", "ended"}
        /\ \A d \in Clients : d # c => phase'[d] = phase[d]
    BY <2>1, AnswerType, Zenon
  <2> QED
    BY <1>17, <2>1, <2>2
    DEF PlanReady, PullFinal, Handles, Returns, MayPull, ReadyInv, TypeOK, Active
<1>18. ASSUME UNCHANGED vars PROVE ReadyInv'
  BY <1>18 DEF vars, ReadyInv, TypeOK, Active
<1> QED
  BY <1>1, <1>2, <1>3, <1>4, <1>5, <1>6, <1>7, <1>8, <1>9, <1>10, <1>11, <1>12, <1>13,
      <1>14, <1>15, <1>16, <1>17, <1>18 DEF Next, MainThread, Request

\* Nobody but the query on it sets the timeout of a thread.
LEMMA TimeoutInvStep == IInv /\ [Next]_vars => TimeoutInv'
<1> SUFFICES ASSUME IInv, [Next]_vars PROVE TimeoutInv'
  OBVIOUS
<1> USE DEF IInv, timeVars, mainVars, contextVars, queryVars, sessionVars, clientVars
<1>1. ASSUME Tick \/ Signal \/ ReadClock \/ Wake \/ Stop \/ Join PROVE TimeoutInv'
  BY <1>1 DEF Tick, Signal, ReadClock, Wake, Stop, Join, OneSession, ReadyInv,
      TimeoutInv, Deadline, InQuery, Computes, TypeOK, Active
<1>2. ASSUME NEW c \in Clients, HangUp(c) \/ IgnoreDiscard(c) \/ RefuseRequest(c)
    PROVE TimeoutInv'
  BY <1>2 DEF HangUp, IgnoreDiscard, RefuseRequest, Handles, Consumed, Kept, Buffered,
      OneSession, ReadyInv, TimeoutInv, Deadline, InQuery, Computes, TypeOK, Active
<1>3. ASSUME NEW c \in Clients, EndSession(c) \/ HttpEnds(c) \/ Interrupted(c)
    PROVE TimeoutInv'
  BY <1>3 DEF EndSession, HttpEnds, Interrupted, Computes, OneSession, ReadyInv,
      TimeoutInv, Deadline, InQuery, Computes, TypeOK, Active
<1>4. ASSUME Sweep PROVE TimeoutInv'
  BY <1>4 DEF Sweep, OneSession, ReadyInv, TimeoutInv, Deadline, InQuery, Computes,
      TypeOK, Active
<1>5. ASSUME NEW w \in Workers, FlagOne(w) PROVE TimeoutInv'
  BY <1>5 DEF FlagOne, OneSession, ReadyInv, TimeoutInv, Deadline, InQuery, Computes,
      TypeOK, Active
<1>6. ASSUME NEW c \in Clients, NEW r \in Requests, Send(c, r) PROVE TimeoutInv'
  BY <1>6 DEF Send, OneSession, ReadyInv, TimeoutInv, Deadline, InQuery, Computes,
      TypeOK, Active
<1>7. ASSUME NEW w \in Workers, NEW c \in Clients, StartSession(w, c) PROVE TimeoutInv'
  BY <1>7 DEF StartSession, OneSession, ReadyInv, TimeoutInv, Deadline, InQuery,
      Computes, TypeOK, Active
<1>8. ASSUME NEW w \in Workers, NEW c \in Clients, HttpRequest(w, c) PROVE TimeoutInv'
  BY <1>8 DEF HttpRequest, BeginQuery, OneSession, ReadyInv, TimeoutInv, Deadline,
      InQuery, Computes, TypeOK, Active
<1>9. ASSUME NEW w \in Workers, NEW c \in Clients, HttpRefused(w, c) PROVE TimeoutInv'
  BY <1>9 DEF HttpRefused, OneSession, ReadyInv, TimeoutInv, Deadline, InQuery,
      Computes, TypeOK, Active
<1>10. ASSUME NEW c \in Clients, SetThreadInfo(c) PROVE TimeoutInv'
  BY <1>10 DEF SetThreadInfo, Deadline, OneSession, ReadyInv, TimeoutInv, Deadline,
      InQuery, Computes, TypeOK, Active
<1>11. ASSUME NEW c \in Clients, HandleRun(c) PROVE TimeoutInv'
  BY <1>11 DEF HandleRun, Handles, BeginQuery, Kept, Buffered, MayRun, OneSession,
      ReadyInv, TimeoutInv, Deadline, InQuery, Computes, TypeOK, Active
<1>12. ASSUME NEW c \in Clients, HandlePull(c) PROVE TimeoutInv'
  BY <1>12 DEF HandlePull, Handles, Kept, Buffered, MayPull, OneSession, ReadyInv,
      TimeoutInv, Deadline, InQuery, Computes, TypeOK, Active
<1>13. ASSUME NEW c \in Clients, HandleDiscard(c) PROVE TimeoutInv'
  <2>1. Active(c) /\ Answer(c, "reading")
    BY <1>13 DEF HandleDiscard, Handles, Returns, Active
  <2>2. /\ phase'[c] \in {"reading", "ended"}
        /\ \A d \in Clients : d # c => phase'[d] = phase[d]
    BY <2>1, AnswerType, Zenon
  <2> QED
    BY <1>13, <2>1, <2>2
    DEF HandleDiscard, Handles, Returns, MayPull, OneSession, ReadyInv, TimeoutInv,
        Deadline, InQuery, Computes, TypeOK, Active
<1>14. ASSUME NEW c \in Clients, QueryThrows(c) PROVE TimeoutInv'
  BY <1>14 DEF QueryThrows, Returns, OneSession, ReadyInv, TimeoutInv, Deadline,
      InQuery, Computes, TypeOK, Active
<1>15. ASSUME NEW c \in Clients, Terminates(c) PROVE TimeoutInv'
  BY <1>15 DEF Terminates, Computes, OneSession, ReadyInv, TimeoutInv, Deadline,
      InQuery, Computes, TypeOK, Active
<1>16. ASSUME NEW c \in Clients, HandleCatalog(c) \/ QueryRefused(c)
    \/ PullMore(c) PROVE TimeoutInv'
  <2>1. Active(c) /\ Answer(c, "reading")
    BY <1>16 DEF HandleCatalog, QueryRefused, PullMore, Handles, Returns, Active
  <2>2. /\ phase'[c] \in {"reading", "ended"}
        /\ \A d \in Clients : d # c => phase'[d] = phase[d]
    BY <2>1, AnswerType, Zenon
  <2> QED
    BY <1>16, <2>1, <2>2
    DEF HandleCatalog, QueryRefused, PullMore, Handles, Returns, MayPull, OneSession,
        ReadyInv, TimeoutInv, Deadline, InQuery, Computes, TypeOK, Active
<1>17. ASSUME NEW c \in Clients, PlanReady(c) \/ PullFinal(c) PROVE TimeoutInv'
  <2>1. Active(c) /\ Answer(c, "reading")
    BY <1>17 DEF PlanReady, PullFinal, Returns, Active
  <2>2. \A d \in Clients : d # c => phase'[d] = phase[d]
    BY <2>1, AnswerType, Zenon
  <2>3. \A d \in Clients : d # c => state'[d] = state[d]
    BY <1>17 DEF PlanReady, PullFinal, TypeOK
  <2>4. InQuery(c) /\ worker' = worker /\ timeout' = timeout /\ query_start' = query_start
    BY <1>17 DEF PlanReady, PullFinal, Returns, InQuery, Computes, contextVars
  <2> QED
    BY <2>2, <2>3, <2>4 DEF TimeoutInv, InQuery, Computes, Deadline
<1>18. ASSUME UNCHANGED vars PROVE TimeoutInv'
  BY <1>18 DEF vars, OneSession, ReadyInv, TimeoutInv, Deadline, InQuery, Computes,
      TypeOK, Active
<1> QED
  BY <1>1, <1>2, <1>3, <1>4, <1>5, <1>6, <1>7, <1>8, <1>9, <1>10, <1>11, <1>12, <1>13,
      <1>14, <1>15, <1>16, <1>17, <1>18 DEF Next, MainThread, Request

\* A flag that is set while a query exists has its cause.
LEMMA FlagInvStep == IInv /\ [Next]_vars => FlagInv'
<1> SUFFICES ASSUME IInv, [Next]_vars PROVE FlagInv'
  OBVIOUS
<1> USE DEF IInv, timeVars, mainVars, contextVars, queryVars, sessionVars, clientVars
<1>1. ASSUME Tick \/ Signal \/ ReadClock \/ Wake \/ Stop \/ Join PROVE FlagInv'
  BY <1>1 DEF Tick, Signal, ReadClock, Wake, Stop, Join, OneSession, MainInv, ReadyInv,
      TimeoutInv, FlagInv, Expired, Deadline, InQuery, Computes, TypeOK, Active
<1>2. ASSUME NEW c \in Clients, HangUp(c) \/ IgnoreDiscard(c) \/ RefuseRequest(c)
    PROVE FlagInv'
  BY <1>2 DEF HangUp, IgnoreDiscard, RefuseRequest, Handles, Consumed, Kept, Buffered,
      OneSession, MainInv, ReadyInv, TimeoutInv, FlagInv, Expired, Deadline, InQuery,
      Computes, TypeOK, Active
<1>3. ASSUME NEW c \in Clients, EndSession(c) \/ HttpEnds(c) \/ Interrupted(c)
    PROVE FlagInv'
  BY <1>3 DEF EndSession, HttpEnds, Interrupted, Computes, OneSession, MainInv,
      ReadyInv, TimeoutInv, FlagInv, Expired, Deadline, InQuery, Computes, TypeOK,
      Active
<1>4. ASSUME Sweep PROVE FlagInv'
  BY <1>4 DEF Sweep, OneSession, MainInv, ReadyInv, TimeoutInv, FlagInv, Expired,
      Deadline, InQuery, Computes, TypeOK, Active
<1>5. ASSUME NEW w \in Workers, FlagOne(w) PROVE FlagInv'
  BY <1>5 DEF FlagOne, OneSession, MainInv, ReadyInv, TimeoutInv, FlagInv, Expired,
      Deadline, InQuery, Computes, TypeOK, Active
<1>6. ASSUME NEW c \in Clients, NEW r \in Requests, Send(c, r) PROVE FlagInv'
  BY <1>6 DEF Send, OneSession, MainInv, ReadyInv, TimeoutInv, FlagInv, Expired,
      Deadline, InQuery, Computes, TypeOK, Active
<1>7. ASSUME NEW w \in Workers, NEW c \in Clients, StartSession(w, c) PROVE FlagInv'
  BY <1>7 DEF StartSession, OneSession, MainInv, ReadyInv, TimeoutInv, FlagInv,
      Expired, Deadline, InQuery, Computes, TypeOK, Active
<1>8. ASSUME NEW w \in Workers, NEW c \in Clients, HttpRequest(w, c) PROVE FlagInv'
  BY <1>8 DEF HttpRequest, BeginQuery, OneSession, MainInv, ReadyInv, TimeoutInv,
      FlagInv, Expired, Deadline, InQuery, Computes, TypeOK, Active
<1>9. ASSUME NEW w \in Workers, NEW c \in Clients, HttpRefused(w, c) PROVE FlagInv'
  BY <1>9 DEF HttpRefused, OneSession, MainInv, ReadyInv, TimeoutInv, FlagInv, Expired,
      Deadline, InQuery, Computes, TypeOK, Active
<1>10. ASSUME NEW c \in Clients, SetThreadInfo(c) PROVE FlagInv'
  BY <1>10 DEF SetThreadInfo, Deadline, OneSession, MainInv, ReadyInv, TimeoutInv,
      FlagInv, Expired, Deadline, InQuery, Computes, TypeOK, Active
<1>11. ASSUME NEW c \in Clients, HandleRun(c) PROVE FlagInv'
  BY <1>11 DEF HandleRun, Handles, BeginQuery, Kept, Buffered, MayRun, OneSession,
      MainInv, ReadyInv, TimeoutInv, FlagInv, Expired, Deadline, InQuery, Computes,
      TypeOK, Active
<1>12. ASSUME NEW c \in Clients, HandlePull(c) PROVE FlagInv'
  BY <1>12 DEF HandlePull, Handles, Kept, Buffered, MayPull, OneSession, MainInv,
      ReadyInv, TimeoutInv, FlagInv, Expired, Deadline, InQuery, Computes, TypeOK,
      Active
<1>13. ASSUME NEW c \in Clients, HandleDiscard(c) PROVE FlagInv'
  <2>1. Active(c) /\ Answer(c, "reading")
    BY <1>13 DEF HandleDiscard, Handles, Returns, Active
  <2>2. /\ phase'[c] \in {"reading", "ended"}
        /\ \A d \in Clients : d # c => phase'[d] = phase[d]
    BY <2>1, AnswerType, Zenon
  <2> QED
    BY <1>13, <2>1, <2>2
    DEF HandleDiscard, Handles, Returns, MayPull, OneSession, MainInv, ReadyInv,
        TimeoutInv, FlagInv, Expired, Deadline, InQuery, Computes, TypeOK, Active
<1>14. ASSUME NEW c \in Clients, QueryThrows(c) PROVE FlagInv'
  BY <1>14 DEF QueryThrows, Returns, OneSession, MainInv, ReadyInv, TimeoutInv,
      FlagInv, Expired, Deadline, InQuery, Computes, TypeOK, Active
<1>15. ASSUME NEW c \in Clients, Terminates(c) PROVE FlagInv'
  BY <1>15 DEF Terminates, Computes, OneSession, MainInv, ReadyInv, TimeoutInv,
      FlagInv, Expired, Deadline, InQuery, Computes, TypeOK, Active
<1>16. ASSUME NEW c \in Clients, HandleCatalog(c) \/ QueryRefused(c)
    \/ PullMore(c) PROVE FlagInv'
  <2>1. Active(c) /\ Answer(c, "reading")
    BY <1>16 DEF HandleCatalog, QueryRefused, PullMore, Handles, Returns, Active
  <2>2. /\ phase'[c] \in {"reading", "ended"}
        /\ \A d \in Clients : d # c => phase'[d] = phase[d]
    BY <2>1, AnswerType, Zenon
  <2> QED
    BY <1>16, <2>1, <2>2
    DEF HandleCatalog, QueryRefused, PullMore, Handles, Returns, MayPull, OneSession,
        MainInv, ReadyInv, TimeoutInv, FlagInv, Expired, Deadline, InQuery, Computes,
        TypeOK, Active
<1>17. ASSUME NEW c \in Clients, PlanReady(c) \/ PullFinal(c) PROVE FlagInv'
  <2>1. Active(c) /\ Answer(c, "reading")
    BY <1>17 DEF PlanReady, PullFinal, Handles, Returns, Active
  <2>2. /\ phase'[c] \in {"reading", "ended"}
        /\ \A d \in Clients : d # c => phase'[d] = phase[d]
    BY <2>1, AnswerType, Zenon
  <2> QED
    BY <1>17, <2>1, <2>2
    DEF PlanReady, PullFinal, Handles, Returns, MayPull, OneSession, MainInv, ReadyInv,
        TimeoutInv, FlagInv, Expired, Deadline, InQuery, Computes, TypeOK, Active
<1>18. ASSUME UNCHANGED vars PROVE FlagInv'
  BY <1>18 DEF vars, OneSession, MainInv, ReadyInv, TimeoutInv, FlagInv, Expired,
      Deadline, InQuery, Computes, TypeOK, Active
<1> QED
  BY <1>1, <1>2, <1>3, <1>4, <1>5, <1>6, <1>7, <1>8, <1>9, <1>10, <1>11, <1>12, <1>13,
      <1>14, <1>15, <1>16, <1>17, <1>18 DEF Next, MainThread, Request

\* Nobody but the session on it resets the context of a thread.
LEMMA ContextInvStep == IInv /\ [Next]_vars => ContextInv'
<1> SUFFICES ASSUME IInv, [Next]_vars PROVE ContextInv'
  OBVIOUS
<1> USE DEF IInv, timeVars, mainVars, contextVars, queryVars, sessionVars, clientVars
<1>1. ASSUME Tick \/ Signal \/ ReadClock \/ Wake \/ Stop \/ Join PROVE ContextInv'
  BY <1>1 DEF Tick, Signal, ReadClock, Wake, Stop, Join, OneSession, Idle, ReadyInv,
      ContextInv, InQuery, Computes, TypeOK, Active
<1>2. ASSUME NEW c \in Clients, HangUp(c) \/ IgnoreDiscard(c) \/ RefuseRequest(c)
    PROVE ContextInv'
  BY <1>2 DEF HangUp, IgnoreDiscard, RefuseRequest, Handles, Consumed, Kept, Buffered,
      OneSession, Idle, ReadyInv, ContextInv, InQuery, Computes, TypeOK, Active
<1>3. ASSUME NEW c \in Clients, EndSession(c) \/ HttpEnds(c) \/ Interrupted(c)
    PROVE ContextInv'
  BY <1>3 DEF EndSession, HttpEnds, Interrupted, Computes, OneSession, Idle, ReadyInv,
      ContextInv, InQuery, Computes, TypeOK, Active
<1>4. ASSUME Sweep PROVE ContextInv'
  BY <1>4 DEF Sweep, OneSession, Idle, ReadyInv, ContextInv, InQuery, Computes, TypeOK,
      Active
<1>5. ASSUME NEW w \in Workers, FlagOne(w) PROVE ContextInv'
  BY <1>5 DEF FlagOne, OneSession, Idle, ReadyInv, ContextInv, InQuery, Computes,
      TypeOK, Active
<1>6. ASSUME NEW c \in Clients, NEW r \in Requests, Send(c, r) PROVE ContextInv'
  BY <1>6 DEF Send, OneSession, Idle, ReadyInv, ContextInv, InQuery, Computes, TypeOK,
      Active
<1>7. ASSUME NEW w \in Workers, NEW c \in Clients, StartSession(w, c) PROVE ContextInv'
  BY <1>7 DEF StartSession, OneSession, Idle, ReadyInv, ContextInv, InQuery, Computes,
      TypeOK, Active
<1>8. ASSUME NEW w \in Workers, NEW c \in Clients, HttpRequest(w, c) PROVE ContextInv'
  BY <1>8 DEF HttpRequest, BeginQuery, OneSession, Idle, ReadyInv, ContextInv, InQuery,
      Computes, TypeOK, Active
<1>9. ASSUME NEW w \in Workers, NEW c \in Clients, HttpRefused(w, c) PROVE ContextInv'
  BY <1>9 DEF HttpRefused, OneSession, Idle, ReadyInv, ContextInv, InQuery, Computes,
      TypeOK, Active
<1>10. ASSUME NEW c \in Clients, SetThreadInfo(c) PROVE ContextInv'
  BY <1>10 DEF SetThreadInfo, Deadline, OneSession, Idle, ReadyInv, ContextInv,
      InQuery, Computes, TypeOK, Active
<1>11. ASSUME NEW c \in Clients, HandleRun(c) PROVE ContextInv'
  BY <1>11 DEF HandleRun, Handles, BeginQuery, Kept, Buffered, MayRun, OneSession,
      Idle, ReadyInv, ContextInv, InQuery, Computes, TypeOK, Active
<1>12. ASSUME NEW c \in Clients, HandlePull(c) PROVE ContextInv'
  BY <1>12 DEF HandlePull, Handles, Kept, Buffered, MayPull, OneSession, Idle,
      ReadyInv, ContextInv, InQuery, Computes, TypeOK, Active
<1>13. ASSUME NEW c \in Clients, HandleDiscard(c) PROVE ContextInv'
  <2>1. Active(c) /\ Answer(c, "reading")
    BY <1>13 DEF HandleDiscard, Handles, Returns, Active
  <2>2. /\ phase'[c] \in {"reading", "ended"}
        /\ \A d \in Clients : d # c => phase'[d] = phase[d]
    BY <2>1, AnswerType, Zenon
  <2> QED
    BY <1>13, <2>1, <2>2
    DEF HandleDiscard, Handles, Returns, MayPull, OneSession, Idle, ReadyInv,
        ContextInv, InQuery, Computes, TypeOK, Active
<1>14. ASSUME NEW c \in Clients, QueryThrows(c) PROVE ContextInv'
  BY <1>14 DEF QueryThrows, Returns, OneSession, Idle, ReadyInv, ContextInv, InQuery,
      Computes, TypeOK, Active
<1>15. ASSUME NEW c \in Clients, Terminates(c) PROVE ContextInv'
  BY <1>15 DEF Terminates, Computes, OneSession, Idle, ReadyInv, ContextInv, InQuery,
      Computes, TypeOK, Active
<1>16. ASSUME NEW c \in Clients, HandleCatalog(c) \/ QueryRefused(c)
    \/ PullMore(c) PROVE ContextInv'
  <2>1. Active(c) /\ Answer(c, "reading")
    BY <1>16 DEF HandleCatalog, QueryRefused, PullMore, Handles, Returns, Active
  <2>2. /\ phase'[c] \in {"reading", "ended"}
        /\ \A d \in Clients : d # c => phase'[d] = phase[d]
    BY <2>1, AnswerType, Zenon
  <2> QED
    BY <1>16, <2>1, <2>2
    DEF HandleCatalog, QueryRefused, PullMore, Handles, Returns, MayPull, OneSession,
        Idle, ReadyInv, ContextInv, InQuery, Computes, TypeOK, Active
<1>17. ASSUME NEW c \in Clients, PlanReady(c) \/ PullFinal(c) PROVE ContextInv'
  <2>1. Active(c) /\ Answer(c, "reading")
    BY <1>17 DEF PlanReady, PullFinal, Handles, Returns, Active
  <2>2. /\ phase'[c] \in {"reading", "ended"}
        /\ \A d \in Clients : d # c => phase'[d] = phase[d]
    BY <2>1, AnswerType, Zenon
  <2> QED
    BY <1>17, <2>1, <2>2
    DEF PlanReady, PullFinal, Handles, Returns, MayPull, OneSession, Idle, ReadyInv,
        ContextInv, InQuery, Computes, TypeOK, Active
<1>18. ASSUME UNCHANGED vars PROVE ContextInv'
  BY <1>18 DEF vars, OneSession, Idle, ReadyInv, ContextInv, InQuery, Computes, TypeOK,
      Active
<1> QED
  BY <1>1, <1>2, <1>3, <1>4, <1>5, <1>6, <1>7, <1>8, <1>9, <1>10, <1>11, <1>12, <1>13,
      <1>14, <1>15, <1>16, <1>17, <1>18 DEF Next, MainThread, Request

\* A session that can pull has the plan of its last query.
LEMMA PlanInvStep == IInv /\ [Next]_vars => PlanInv'
<1> SUFFICES ASSUME IInv, [Next]_vars PROVE PlanInv'
  OBVIOUS
<1> USE DEF IInv, timeVars, mainVars, contextVars, queryVars, sessionVars, clientVars
<1>1. ASSUME Tick \/ Signal \/ ReadClock \/ Wake \/ Stop \/ Join PROVE PlanInv'
  BY <1>1 DEF Tick, Signal, ReadClock, Wake, Stop, Join, ReadyInv, PlanInv, InQuery,
      Computes, TypeOK, Active
<1>2. ASSUME NEW c \in Clients, HangUp(c) \/ IgnoreDiscard(c) \/ RefuseRequest(c)
    PROVE PlanInv'
  BY <1>2 DEF HangUp, IgnoreDiscard, RefuseRequest, Handles, Consumed, Kept, Buffered,
      ReadyInv, PlanInv, InQuery, Computes, TypeOK, Active
<1>3. ASSUME NEW c \in Clients, EndSession(c) \/ HttpEnds(c) \/ Interrupted(c)
    PROVE PlanInv'
  BY <1>3 DEF EndSession, HttpEnds, Interrupted, Computes, ReadyInv, PlanInv, InQuery,
      Computes, TypeOK, Active
<1>4. ASSUME Sweep PROVE PlanInv'
  BY <1>4 DEF Sweep, ReadyInv, PlanInv, InQuery, Computes, TypeOK, Active
<1>5. ASSUME NEW w \in Workers, FlagOne(w) PROVE PlanInv'
  BY <1>5 DEF FlagOne, ReadyInv, PlanInv, InQuery, Computes, TypeOK, Active
<1>6. ASSUME NEW c \in Clients, NEW r \in Requests, Send(c, r) PROVE PlanInv'
  BY <1>6 DEF Send, ReadyInv, PlanInv, InQuery, Computes, TypeOK, Active
<1>7. ASSUME NEW w \in Workers, NEW c \in Clients, StartSession(w, c) PROVE PlanInv'
  BY <1>7 DEF StartSession, ReadyInv, PlanInv, InQuery, Computes, TypeOK, Active
<1>8. ASSUME NEW w \in Workers, NEW c \in Clients, HttpRequest(w, c) PROVE PlanInv'
  BY <1>8 DEF HttpRequest, BeginQuery, ReadyInv, PlanInv, InQuery, Computes, TypeOK,
      Active
<1>9. ASSUME NEW w \in Workers, NEW c \in Clients, HttpRefused(w, c) PROVE PlanInv'
  BY <1>9 DEF HttpRefused, ReadyInv, PlanInv, InQuery, Computes, TypeOK, Active
<1>10. ASSUME NEW c \in Clients, SetThreadInfo(c) PROVE PlanInv'
  BY <1>10 DEF SetThreadInfo, Deadline, ReadyInv, PlanInv, InQuery, Computes, TypeOK,
      Active
<1>11. ASSUME NEW c \in Clients, HandleRun(c) PROVE PlanInv'
  BY <1>11 DEF HandleRun, Handles, BeginQuery, Kept, Buffered, MayRun, ReadyInv,
      PlanInv, InQuery, Computes, TypeOK, Active
<1>12. ASSUME NEW c \in Clients, HandlePull(c) PROVE PlanInv'
  BY <1>12 DEF HandlePull, Handles, Kept, Buffered, MayPull, ReadyInv, PlanInv,
      InQuery, Computes, TypeOK, Active
<1>13. ASSUME NEW c \in Clients, HandleDiscard(c) PROVE PlanInv'
  <2>1. Active(c) /\ Answer(c, "reading")
    BY <1>13 DEF HandleDiscard, Handles, Returns, Active
  <2>2. /\ phase'[c] \in {"reading", "ended"}
        /\ \A d \in Clients : d # c => phase'[d] = phase[d]
    BY <2>1, AnswerType, Zenon
  <2> QED
    BY <1>13, <2>1, <2>2
    DEF HandleDiscard, Handles, Returns, MayPull, ReadyInv, PlanInv, InQuery, Computes,
        TypeOK, Active
<1>14. ASSUME NEW c \in Clients, QueryThrows(c) PROVE PlanInv'
  BY <1>14 DEF QueryThrows, Returns, ReadyInv, PlanInv, InQuery, Computes, TypeOK,
      Active
<1>15. ASSUME NEW c \in Clients, Terminates(c) PROVE PlanInv'
  BY <1>15 DEF Terminates, Computes, ReadyInv, PlanInv, InQuery, Computes, TypeOK,
      Active
<1>16. ASSUME NEW c \in Clients, HandleCatalog(c) \/ QueryRefused(c)
    \/ PullMore(c) PROVE PlanInv'
  <2>1. Active(c) /\ Answer(c, "reading")
    BY <1>16 DEF HandleCatalog, QueryRefused, PullMore, Handles, Returns, Active
  <2>2. /\ phase'[c] \in {"reading", "ended"}
        /\ \A d \in Clients : d # c => phase'[d] = phase[d]
    BY <2>1, AnswerType, Zenon
  <2> QED
    BY <1>16, <2>1, <2>2
    DEF HandleCatalog, QueryRefused, PullMore, Handles, Returns, MayPull, ReadyInv,
        PlanInv, InQuery, Computes, TypeOK, Active
<1>17. ASSUME NEW c \in Clients, PlanReady(c) \/ PullFinal(c) PROVE PlanInv'
  <2>1. Active(c) /\ Answer(c, "reading")
    BY <1>17 DEF PlanReady, PullFinal, Handles, Returns, Active
  <2>2. /\ phase'[c] \in {"reading", "ended"}
        /\ \A d \in Clients : d # c => phase'[d] = phase[d]
    BY <2>1, AnswerType, Zenon
  <2> QED
    BY <1>17, <2>1, <2>2
    DEF PlanReady, PullFinal, Handles, Returns, MayPull, ReadyInv, PlanInv, InQuery,
        Computes, TypeOK, Active
<1>18. ASSUME UNCHANGED vars PROVE PlanInv'
  BY <1>18 DEF vars, ReadyInv, PlanInv, InQuery, Computes, TypeOK, Active
<1> QED
  BY <1>1, <1>2, <1>3, <1>4, <1>5, <1>6, <1>7, <1>8, <1>9, <1>10, <1>11, <1>12, <1>13,
      <1>14, <1>15, <1>16, <1>17, <1>18 DEF Next, MainThread, Request

-----------------------------------------------------------------------------
\* All of it is an invariant of the specification.
THEOREM Invariance == Spec => []IInv
<1>1. IInv /\ [Next]_vars => IInv'
  BY TypeStep, OneSessionStep, MainInvStep, ReadyInvStep, TimeoutInvStep, FlagInvStep,
     ContextInvStep, PlanInvStep DEF IInv
<1> QED
  BY <1>1, InitInv, PTL DEF Spec

\* The variables of the server always have their types (TypeOK).
THEOREM TypeCorrect == Spec => []TypeOK
<1>1. IInv => TypeOK
  BY DEF IInv
<1> QED
  BY <1>1, Invariance, PTL

\* The flag of thread_info ends a query only after the time limit of that
\* query or after the signal, for any number of sessions that follow each
\* other on any number of threads.
THEOREM InterruptionHasCause == Spec => InterruptedForCause
<1> DEFINE A == \A c \in Clients :
                  (phase[c] # "timedout" /\ phase'[c] = "timedout")
                    => Deadline(c) <= now \/ shutdown_server
<1>1. ASSUME IInv, Next, NEW c \in Clients, phase[c] # "timedout",
    phase'[c] = "timedout"
      PROVE  Computes(c) /\ interruption_requested[worker[c]]
  <2>1. ASSUME Tick \/ Signal \/ MainThread PROVE phase'[c] # "timedout"
    BY <1>1, <2>1 DEF Tick, Signal, MainThread, ReadClock, Sweep, Wake, Stop, Join,
        FlagOne, sessionVars, IInv
  <2>2. ASSUME NEW d \in Clients, HangUp(d) \/ (\E r \in Requests : Send(d, r))
      PROVE phase'[c] # "timedout"
    BY <1>1, <2>2 DEF HangUp, Send, sessionVars, IInv
  <2>3. ASSUME NEW d \in Clients, NEW w \in Workers, StartSession(w, d)
      \/ HttpRequest(w, d) \/ HttpRefused(w, d) PROVE phase'[c] # "timedout"
    BY <1>1, <2>3 DEF StartSession, HttpRequest, HttpRefused, BeginQuery, TypeOK, IInv
  <2>4. ASSUME NEW d \in Clients, SetThreadInfo(d) \/ HandleRun(d) \/ HandlePull(d)
      \/ IgnoreDiscard(d) \/ RefuseRequest(d) PROVE phase'[c] # "timedout"
    BY <1>1, <2>4 DEF SetThreadInfo, HandleRun, HandlePull, IgnoreDiscard,
        RefuseRequest, BeginQuery, TypeOK, IInv
  <2>5. ASSUME NEW d \in Clients, HandleDiscard(d) \/ HandleCatalog(d)
      \/ PlanReady(d) \/ QueryRefused(d) \/ PullMore(d) \/ PullFinal(d)
      PROVE phase'[c] # "timedout"
    BY <1>1, <2>5 DEF HandleDiscard, HandleCatalog, PlanReady, QueryRefused, PullMore,
        PullFinal, Answer, TypeOK, IInv
  <2>6. ASSUME NEW d \in Clients, EndSession(d) \/ QueryThrows(d) \/ HttpEnds(d)
      \/ Terminates(d) PROVE phase'[c] # "timedout"
    BY <1>1, <2>6 DEF EndSession, QueryThrows, HttpEnds, Terminates, TypeOK, IInv
  <2>7. ASSUME NEW d \in Clients, Interrupted(d)
      PROVE Computes(c) /\ interruption_requested[worker[c]]
    BY <1>1, <2>7 DEF Interrupted, IInv, TypeOK
  <2> QED
    BY <1>1, <2>1, <2>2, <2>3, <2>4, <2>5, <2>6, <2>7 DEF Next, Request
<1>2. ASSUME IInv, [Next]_vars PROVE [A]_vars
  <2>1. CASE UNCHANGED vars
    BY <2>1
  <2>2. CASE Next
    <3> SUFFICES ASSUME NEW c \in Clients, phase[c] # "timedout", phase'[c] = "timedout"
                 PROVE  Deadline(c) <= now \/ shutdown_server
      OBVIOUS
    <3>1. Computes(c) /\ interruption_requested[worker[c]]
      BY <1>1, <1>2, <2>2
    <3> QED
      BY <1>2, <3>1 DEF IInv, FlagInv, InQuery
  <2> QED
    BY <1>2, <2>1, <2>2
<1> QED
  BY <1>2, Invariance, PTL DEF Spec, InterruptedForCause

\* A pull reads results from the plan of the query that the context of its
\* thread was reset and filled for.
THEOREM PullsAreOfTheirContext == Spec => []PullsUseTheirContext
<1>1. IInv => PullsUseTheirContext
  BY DEF IInv, PullsUseTheirContext, ContextInv, PlanInv, InQuery, Computes
<1> QED
  BY <1>1, Invariance, PTL

=============================================================================
