----------------------------- MODULE ProwServer -----------------------------
(***************************************************************************)
(* prow's hook server (prow/hook/server.go, prow/hook/events.go) with the  *)
(* handler lookups of prow/plugins/plugins.go and the interrupt handler of *)
(* prow/cmd/hook/main.go.                                                  *)
(*                                                                         *)
(* It differs from the gitee dispatcher in what an event goroutine does:   *)
(* it starts the handlers of the event, and, when the event carries text,  *)
(* turns it into a generic comment event and starts the handlers of that.  *)
(* Each of the two lookups reads the configuration of its own moment, and  *)
(* each handler's goroutine reads it a third time for the agent that the   *)
(* handler works with.                                                     *)
(*                                                                         *)
(* The configurations that are loaded, one after the other, are those of   *)
(* History (a bound); version is the one in force.  The fields that name   *)
(* the repository of a GitHub payload agree with each other.               *)
(***************************************************************************)
EXTENDS Integers, Sequences, FiniteSets

CONSTANTS Request,     \* webhook deliveries
          Payload,     \* what a delivery may carry, see PayloadOK
          Plugin,      \* names of plugins linked into the binary
          External,    \* entries of external_plugins, with their set of events
          History,     \* the configurations in the order in which they are loaded
          Registered,  \* event type -> plugins with a handler for it
          Commenting,  \* plugins with a handler for generic comment events
          None         \* no payload yet

TextType == {"issues", "issue_comment", "pull_request", "pull_request_review",
             "pull_request_review_comment"}

EventType == TextType \union {"push", "status"}

PayloadOK(p) == {"valid", "parses", "type", "action", "org", "repo"} \subseteq DOMAIN p

\* Keys of the two maps are <<org>> or <<org, repo>>; <<>> is the empty string.
ConfigOK(c) == /\ \A k \in DOMAIN c.plugins : c.plugins[k] \subseteq Plugin
               /\ \A k \in DOMAIN c.external : c.external[k] \subseteq External

ASSUME ConstantsOK == /\ \A p \in Payload : PayloadOK(p)
                      /\ Len(History) \in Nat \ {0}
                      /\ DOMAIN History = 1 .. Len(History)
                      /\ \A v \in DOMAIN History : ConfigOK(History[v])
                      /\ Registered \in [EventType -> SUBSET Plugin]
                      /\ Commenting \in SUBSET Plugin

VARIABLES version,     \* the configuration in force is History[version]
          req,         \* how far ServeHTTP got with each request
          payload,     \* the payload of each request that was received
          since,       \* the version in force when the request was accepted
          event,       \* the event goroutine of each request
          todo,        \* handlers its present loop has still to start
          run,         \* the goroutine of each handler
          agent,       \* the version its agent was made with, 0 before that
          extTodo,     \* entries that demuxExternal has still to post
          posting,     \* posts that run, as <<request, entry>>
          counter,     \* the wait group's counter
          shutdown,    \* how far the interrupt handler got
          listening,   \* the HTTP server accepts connections
          owed,        \* requests that had an event goroutine at the interrupt
          process      \* "up", "exited" or "panicked"

serveVars == <<req, payload, since>>
eventVars == <<event, todo>>
pluginVars == <<run, agent>>
extVars == <<extTodo, posting>>
stopVars == <<listening, owed, process>>
vars == <<version, serveVars, eventVars, pluginVars, extVars, counter, shutdown, stopVars>>

\* A handler's goroutine: the request, the event or its comment, the plugin.
Goroutine == Request \X {"event", "comment"} \X Plugin

Entry == (UNION {DOMAIN History[v].external : v \in DOMAIN History}) \X External

TypeOK ==
    /\ version \in DOMAIN History
    /\ req \in [Request -> {"idle", "rejected", "accepted", "demuxed", "unparsed", "served"}]
    /\ payload \in [Request -> Payload \union {None}]
    /\ since \in [Request -> 0 .. version]
    /\ event \in [Request -> {"none", "started", "event", "comment", "returned"}]
    /\ todo \in [Request -> SUBSET Plugin]
    /\ run \in [Goroutine -> {"none", "started", "acting", "ended"}]
    /\ agent \in [Goroutine -> 0 .. version]
    /\ extTodo \in [Request -> SUBSET Entry]
    /\ posting \in SUBSET (Request \X Entry)
    /\ counter \in Nat
    /\ shutdown \in {"idle", "interrupted", "waiting", "woken", "drained", "cleaned"}
    /\ listening \in BOOLEAN
    /\ owed \in SUBSET Request
    /\ process \in {"up", "exited", "panicked"}

Init ==
    /\ version = 1
    /\ req = [r \in Request |-> "idle"]
    /\ payload = [r \in Request |-> None]
    /\ since = [r \in Request |-> 0]
    /\ event = [r \in Request |-> "none"]
    /\ todo = [r \in Request |-> {}]
    /\ run = [g \in Goroutine |-> "none"]
    /\ agent = [g \in Goroutine |-> 0]
    /\ extTodo = [r \in Request |-> {}]
    /\ posting = {}
    /\ counter = 0
    /\ shutdown = "idle"
    /\ listening = TRUE
    /\ owed = {}
    /\ process = "up"

-----------------------------------------------------------------------------
(* Which plugins see an event.                                             *)

\* getPlugins: the plugins of the organisation and those of the repository.
getPlugins(c, p) ==
    UNION {c.plugins[k] : k \in DOMAIN c.plugins \cap {<<p.org>>, <<p.org, p.repo>>}}

\* The seven *Handlers methods, and GenericCommentHandlers.
eventHandlers(c, p) == Registered[p.type] \cap getPlugins(c, p)
commentHandlers(c, p) == Commenting \cap getPlugins(c, p)

\* genericCommentAction; "" stands for an action that is unrelated to the text.
genericCommentAction(action) ==
    CASE action \in {"created", "opened", "submitted"} -> "created"
      [] action = "edited" -> "edited"
      [] action \in {"deleted", "dismissed"} -> "deleted"
      [] OTHER -> ""

\* The event is turned into a generic comment event.
HasComment(p) == p.type \in TextType /\ genericCommentAction(p.action) # ""

\* An event of another type has an empty source repository and organisation.
sourceKeys(p) ==
    IF p.type \in EventType THEN {<<p.org>>, <<p.org, p.repo>>} ELSE {<<>>}

needDemux(c, p) ==
    {e \in (DOMAIN c.external \cap sourceKeys(p)) \X External :
        /\ e[2] \in c.external[e[1]]
        /\ e[2].events = {} \/ p.type \in e[2].events}

-----------------------------------------------------------------------------
(* The sync.WaitGroup.  The Done that brings the counter to zero releases  *)
(* a blocked Wait, which runs again later.                                 *)

wgAdd == /\ counter' = counter + 1
         /\ UNCHANGED shutdown

wgDone == /\ counter' = counter - 1
          /\ shutdown' = IF counter = 1 /\ shutdown = "waiting"
                         THEN "woken" ELSE shutdown

-----------------------------------------------------------------------------
(* ServeHTTP, demuxEvent and demuxExternal.                                *)

ServeHTTP(r) ==
    /\ listening
    /\ req[r] = "idle"
    /\ \E p \in Payload :
          /\ payload' = [payload EXCEPT ![r] = p]
          /\ req' = [req EXCEPT ![r] = IF p.valid THEN "accepted" ELSE "rejected"]
    /\ since' = [since EXCEPT ![r] = version]
    /\ UNCHANGED <<version, eventVars, pluginVars, extVars, counter, shutdown, stopVars>>

\* The switch of demuxEvent: count and start the event goroutine, ignore a type
\* it does not know, give up when the payload does not parse.
demuxEvent(r) ==
    /\ req[r] = "accepted"
    /\ LET p == payload[r] IN
          \/ /\ p.type \in EventType
             /\ p.parses
             /\ wgAdd
             /\ event' = [event EXCEPT ![r] = "started"]
             /\ req' = [req EXCEPT ![r] = "demuxed"]
          \/ /\ p.type \in EventType
             /\ ~p.parses
             /\ req' = [req EXCEPT ![r] = "unparsed"]
             /\ UNCHANGED <<event, counter, shutdown>>
          \/ /\ p.type \notin EventType
             /\ req' = [req EXCEPT ![r] = "demuxed"]
             /\ UNCHANGED <<event, counter, shutdown>>
    /\ UNCHANGED <<version, payload, since, todo, pluginVars, extVars, stopVars>>

\* The end of demuxEvent, whose goroutine the wait group does not count.
ToExternal(r) ==
    /\ req[r] = "demuxed"
    /\ extTodo' = [extTodo EXCEPT ![r] = needDemux(History[version], payload[r])]
    /\ req' = [req EXCEPT ![r] = "served"]
    /\ UNCHANGED <<version, payload, since, eventVars, pluginVars, posting, counter,
                   shutdown, stopVars>>

\* Mutant: what is not posted when the listener closes is dropped without a word.
SpawnPostListening(r, x) ==
    /\ listening
    /\ x \in extTodo[r]
    /\ wgAdd
    /\ extTodo' = [extTodo EXCEPT ![r] = @ \ {x}]
    /\ posting' = posting \union {<<r, x>>}
    /\ UNCHANGED <<version, serveVars, eventVars, pluginVars, stopVars>>

SpawnPost(r, x) ==
    /\ x \in extTodo[r]
    /\ wgAdd
    /\ extTodo' = [extTodo EXCEPT ![r] = @ \ {x}]
    /\ posting' = posting \union {<<r, x>>}
    /\ UNCHANGED <<version, serveVars, eventVars, pluginVars, stopVars>>

\* The post was answered, or do() gave up (see ExternalPost).
PostReturns(r, x) ==
    /\ <<r, x>> \in posting
    /\ wgDone
    /\ posting' = posting \ {<<r, x>>}
    /\ UNCHANGED <<version, serveVars, eventVars, pluginVars, extTodo, stopVars>>

-----------------------------------------------------------------------------
(* The event goroutine: handleIssueEvent and its six siblings.             *)

\* The handlers of the event, in the configuration of this moment.
StartEvent(r) ==
    /\ event[r] = "started"
    /\ event' = [event EXCEPT ![r] = "event"]
    /\ todo' = [todo EXCEPT ![r] = eventHandlers(History[version], payload[r])]
    /\ UNCHANGED <<version, serveVars, pluginVars, extVars, counter, shutdown, stopVars>>

\* One turn of the loop, of the event's or of handleGenericComment's.
Spawn(r, p) ==
    /\ p \in todo[r]
    /\ wgAdd
    /\ todo' = [todo EXCEPT ![r] = @ \ {p}]
    /\ run' = [run EXCEPT ![<<r, event[r], p>>] = "started"]
    /\ UNCHANGED <<version, serveVars, event, agent, extVars, stopVars>>

\* Mutant: Done is called before the generic comment and again at the end.
StartCommentDone(r) ==
    /\ event[r] = "event"
    /\ todo[r] = {}
    /\ HasComment(payload[r])
    /\ wgDone
    /\ event' = [event EXCEPT ![r] = "comment"]
    /\ todo' = [todo EXCEPT ![r] = commentHandlers(History[version], payload[r])]
    /\ UNCHANGED <<version, serveVars, pluginVars, extVars, stopVars>>

\* handleGenericComment: a second lookup, in the configuration of this moment.
StartComment(r) ==
    /\ event[r] = "event"
    /\ todo[r] = {}
    /\ HasComment(payload[r])
    /\ event' = [event EXCEPT ![r] = "comment"]
    /\ todo' = [todo EXCEPT ![r] = commentHandlers(History[version], payload[r])]
    /\ UNCHANGED <<version, serveVars, pluginVars, extVars, counter, shutdown, stopVars>>

EndEvent(r) ==
    /\ event[r] = "comment" \/ (event[r] = "event" /\ ~HasComment(payload[r]))
    /\ todo[r] = {}
    /\ wgDone
    /\ event' = [event EXCEPT ![r] = "returned"]
    /\ UNCHANGED <<version, serveVars, todo, pluginVars, extVars, stopVars>>

-----------------------------------------------------------------------------
(* The goroutine of one handler.                                           *)

\* Mutant: the agent has the configuration of the start of the process.
NewAgentOld(g) ==
    /\ run[g] = "started"
    /\ run' = [run EXCEPT ![g] = "acting"]
    /\ agent' = [agent EXCEPT ![g] = 1]
    /\ UNCHANGED <<version, serveVars, eventVars, extVars, counter, shutdown, stopVars>>

\* NewAgent reads the configuration again; the handler is called with it.
NewAgent(g) ==
    /\ run[g] = "started"
    /\ run' = [run EXCEPT ![g] = "acting"]
    /\ agent' = [agent EXCEPT ![g] = version]
    /\ UNCHANGED <<version, serveVars, eventVars, extVars, counter, shutdown, stopVars>>

\* The handler returns; an error is only logged and counted.
HandlerReturns(g) ==
    /\ run[g] = "acting"
    /\ wgDone
    /\ run' = [run EXCEPT ![g] = "ended"]
    /\ UNCHANGED <<version, serveVars, eventVars, agent, extVars, stopVars>>

-----------------------------------------------------------------------------
(* Configuration changes, interrupt and exit.                              *)

Reload ==
    /\ version < Len(History)
    /\ version' = version + 1
    /\ UNCHANGED <<serveVars, eventVars, pluginVars, extVars, counter, shutdown, stopVars>>

Interrupt ==
    /\ shutdown = "idle"
    /\ shutdown' = "interrupted"
    /\ owed' = {r \in Request : event[r] # "none"}
    /\ UNCHANGED <<version, serveVars, eventVars, pluginVars, extVars, counter,
                   listening, process>>

\* The http.Server stops accepting; nothing orders this with Wait.
CloseListener ==
    /\ shutdown # "idle"
    /\ listening
    /\ listening' = FALSE
    /\ UNCHANGED <<version, serveVars, eventVars, pluginVars, extVars, counter,
                   shutdown, owed, process>>

\* Mutant: the cache is cleaned without waiting.
WaitNot ==
    /\ shutdown = "interrupted"
    /\ shutdown' = "drained"
    /\ UNCHANGED <<version, serveVars, eventVars, pluginVars, extVars, counter, stopVars>>

Wait ==
    /\ shutdown = "interrupted"
    /\ shutdown' = IF counter = 0 THEN "drained" ELSE "waiting"
    /\ UNCHANGED <<version, serveVars, eventVars, pluginVars, extVars, counter, stopVars>>

\* A released Wait that finds the counter in use again panics.
Wake ==
    /\ shutdown = "woken"
    /\ \/ counter = 0 /\ shutdown' = "drained" /\ UNCHANGED process
       \/ counter # 0 /\ process' = "panicked" /\ UNCHANGED shutdown
    /\ UNCHANGED <<version, serveVars, eventVars, pluginVars, extVars, counter,
                   listening, owed>>

\* gitClient.Clean removes the clones that handlers work in.
Clean ==
    /\ shutdown = "drained"
    /\ shutdown' = "cleaned"
    /\ UNCHANGED <<version, serveVars, eventVars, pluginVars, extVars, counter, stopVars>>

\* The process exits once the interrupt handler is done and the http.Server has
\* no request left in ServeHTTP.
Exit ==
    /\ shutdown = "cleaned"
    /\ ~listening
    /\ \A r \in Request : req[r] \notin {"accepted", "demuxed"}
    /\ process' = "exited"
    /\ UNCHANGED <<version, serveVars, eventVars, pluginVars, extVars, counter,
                   shutdown, listening, owed>>

\* ... or when the grace period is over, whatever still runs.
GraceExpired ==
    /\ shutdown # "idle"
    /\ process' = "exited"
    /\ UNCHANGED <<version, serveVars, eventVars, pluginVars, extVars, counter,
                   shutdown, listening, owed>>

-----------------------------------------------------------------------------
Serving == \E r \in Request :
    \/ ServeHTTP(r) \/ demuxEvent(r) \/ ToExternal(r)
    \/ \E x \in Entry : SpawnPost(r, x) \/ PostReturns(r, x)

Handling == \E r \in Request :
    \/ StartEvent(r) \/ StartComment(r) \/ EndEvent(r)
    \/ \E p \in Plugin : Spawn(r, p)

Acting == \E g \in Goroutine : NewAgent(g) \/ HandlerReturns(g)

Stopping == Interrupt \/ CloseListener \/ Wait \/ Wake \/ Clean \/ Exit \/ GraceExpired

Step == /\ process = "up"
        /\ Serving \/ Handling \/ Acting \/ Reload \/ Stopping

Terminated == process # "up" /\ UNCHANGED vars

Next == Step \/ Terminated

Spec == Init /\ [][Next]_vars

\* Goroutines that can run are scheduled, and handlers and posts return.
Up(A) == process = "up" /\ A

Fairness ==
    /\ \A r \in Request :
          /\ WF_vars(Up(demuxEvent(r)))
          /\ WF_vars(Up(ToExternal(r)))
          /\ WF_vars(Up(\E x \in Entry : SpawnPost(r, x)))
          /\ \A x \in Entry : WF_vars(Up(PostReturns(r, x)))
          /\ WF_vars(Up(StartEvent(r)))
          /\ WF_vars(Up(StartComment(r)))
          /\ WF_vars(Up(EndEvent(r)))
          /\ WF_vars(Up(\E p \in Plugin : Spawn(r, p)))
    /\ \A g \in Goroutine :
          /\ WF_vars(Up(NewAgent(g)))
          /\ WF_vars(Up(HandlerReturns(g)))

FairSpec == Spec /\ Fairness

-----------------------------------------------------------------------------
(* Properties.                                                             *)

\* The goroutines that the wait group is meant to count.
Live == {<<"event", r>> : r \in {s \in Request : event[s] \in {"started", "event", "comment"}}}
            \union {<<"plugin", g>> : g \in {h \in Goroutine : run[h] \in {"started", "acting"}}}
            \union {<<"post", g>> : g \in posting}

\* The counter is exactly the number of live counted goroutines, over both fan-outs
\* of an event: every Add is made before its goroutine can end, and every goroutine
\* calls Done once.
CounterExact == counter = Cardinality(Live)

Handled(r) == /\ event[r] = "returned"
              /\ \A g \in Goroutine : g[1] = r => run[g] \in {"none", "ended"}

\* The git cache is removed only when every request that was counted at the
\* interrupt has had all its handlers return, those of its generic comment too,
\* which are started long after the request was answered.
CleanAfterHandlers == shutdown \in {"drained", "cleaned"} => \A r \in owed : Handled(r)

Ran(r, kind) == {p \in Plugin : run[<<r, kind, p>>] # "none"}

AgentsSince(r, kind, v) ==
    \A p \in Plugin : run[<<r, kind, p>>] \in {"acting", "ended"} => agent[<<r, kind, p>>] >= v

\* An event's handlers are those of one configuration, its generic comment's
\* handlers those of one that is no older, and no handler works with an agent that
\* is older than the configuration that enabled it; none is older than the request.
SnapshotsInOrder ==
    \A r \in Request : event[r] = "returned" =>
        \E v \in since[r] .. version : \E w \in v .. version :
            /\ Ran(r, "event") = eventHandlers(History[v], payload[r])
            /\ Ran(r, "comment") = IF HasComment(payload[r])
                                   THEN commentHandlers(History[w], payload[r]) ELSE {}
            /\ AgentsSince(r, "event", v)
            /\ AgentsSince(r, "comment", w)

\* Every request that was given to an event goroutine has all its handlers return
\* and all its posts made, unless the process ends first.
RequestCompletes ==
    \A r \in Request : (event[r] # "none") ~>
        \/ process # "up"
        \/ Handled(r) /\ extTodo[r] = {} /\ \A x \in Entry : <<r, x>> \notin posting

\* The server is a graceful service for the requests given to event goroutines.
Graceful == INSTANCE GracefulService WITH
    Job <- Request,
    job <- [r \in Request |-> IF event[r] = "none" THEN "new"
                              ELSE IF Handled(r) THEN "done" ELSE "accepted"],
    phase <- IF shutdown = "idle" THEN "up"
             ELSE IF shutdown = "cleaned" THEN "stopped" ELSE "draining"

ImplementsGraceful == Graceful!Spec
=============================================================================
