----------------------------- MODULE Dispatcher -----------------------------
(***************************************************************************)
(* The gitee hook server: ServeHTTP (gitee/hook/server.go), the dispatcher *)
(* behind it (gitee/plugins/dispatcher.go) and the interrupt handler of    *)
(* gitee/cmd/hook/main.go.                                                 *)
(*                                                                         *)
(* A request is validated, counted in the wait group and given to an event *)
(* goroutine; then ServeHTTP looks up the external plugins and gives them  *)
(* to a dispatchExternal goroutine, which the wait group does not count    *)
(* and which counts its posts one by one.  The event goroutine reads the   *)
(* configuration and starts one counted goroutine per enabled plugin.      *)
(* After the interrupt, the listener is closed and the wait group awaited  *)
(* concurrently; then the git cache is removed and the process exits.      *)
(*                                                                         *)
(* The configuration in force is any member of Configs and is replaced at  *)
(* any time (ConfigAgent says when).  Payloads carry the fields that the   *)
(* handlers dereference.                                                   *)
(***************************************************************************)
EXTENDS Integers, FiniteSets

CONSTANTS Request,     \* webhook deliveries
          Payload,     \* what a delivery may carry, see PayloadOK
          Plugin,      \* names of plugins linked into the binary
          External,    \* entries of external_plugins, see ConfigOK
          Configs,     \* the configurations that are ever loaded
          Registered,  \* event type -> plugins with a handler for it
          None         \* no payload yet

HookType == {"Note Hook", "Issue Hook", "Merge Request Hook", "Push Hook"}

\* A payload is valid (ValidateWebhook accepts the request), parses as its
\* event type, and names the repository three ways: the namespace and the
\* path, and, for pushes, the name of the owner.
PayloadOK(p) == {"valid", "parses", "type", "namespace", "owner", "path"}
                    \subseteq DOMAIN p

\* Keys of the two maps are <<org>> or <<org, repo>>; <<>> is the empty string.
ConfigOK(c) == /\ \A k \in DOMAIN c.plugins : c.plugins[k] \subseteq Plugin
               /\ \A k \in DOMAIN c.external : c.external[k] \subseteq External

ASSUME ConstantsOK == /\ \A p \in Payload : PayloadOK(p)
                      /\ \A c \in Configs : ConfigOK(c)
                      /\ Registered \in [HookType -> SUBSET Plugin]

VARIABLES config,      \* the ConfigAgent's current configuration
          req,         \* how far ServeHTTP got with each request
          payload,     \* the payload of each request that was received
          handler,     \* the event goroutine of each request
          todo,        \* plugins its loop has still to start
          running,     \* plugin goroutines that run, as <<request, plugin>>
          finished,    \* plugin goroutines that returned
          extTodo,     \* entries that dispatchExternal has still to post
          posting,     \* posts that run, as <<request, entry>>
          counter,     \* the wait group's counter
          shutdown,    \* how far the interrupt handler got
          listening,   \* the HTTP server accepts connections
          owed,        \* requests that had an event goroutine at the interrupt
          answered,    \* requests that ServeHTTP was done with at the interrupt
          process      \* "up", "exited" or "panicked"

serveVars == <<req, payload>>
eventVars == <<handler, todo, running, finished>>
extVars   == <<extTodo, posting>>
stopVars  == <<listening, owed, answered, process>>
vars == <<config, serveVars, eventVars, extVars, counter, shutdown, stopVars>>

ReqState == {"idle", "rejected", "accepted", "demuxed", "unparsed", "served"}

Entry == {<<>>} \union UNION {DOMAIN c.external : c \in Configs}

TypeOK ==
    /\ config \in Configs
    /\ req \in [Request -> ReqState]
    /\ payload \in [Request -> Payload \union {None}]
    /\ handler \in [Request -> {"none", "started", "looping", "returned"}]
    /\ todo \in [Request -> SUBSET Plugin]
    /\ running \in SUBSET (Request \X Plugin)
    /\ finished \in SUBSET (Request \X Plugin)
    /\ extTodo \in [Request -> SUBSET (Entry \X External)]
    /\ posting \in SUBSET (Request \X (Entry \X External))
    /\ counter \in Nat
    /\ shutdown \in {"idle", "interrupted", "waiting", "woken", "drained",
                     "cleaned"}
    /\ listening \in BOOLEAN
    /\ owed \in SUBSET Request
    /\ answered \in SUBSET Request
    /\ process \in {"up", "exited", "panicked"}

Init ==
    /\ config \in Configs
    /\ req = [r \in Request |-> "idle"]
    /\ payload = [r \in Request |-> None]
    /\ handler = [r \in Request |-> "none"]
    /\ todo = [r \in Request |-> {}]
    /\ running = {}
    /\ finished = {}
    /\ extTodo = [r \in Request |-> {}]
    /\ posting = {}
    /\ counter = 0
    /\ shutdown = "idle"
    /\ listening = TRUE
    /\ owed = {}
    /\ answered = {}
    /\ process = "up"

-----------------------------------------------------------------------------
(* Which plugins see an event.                                             *)

\* getPlugins: the plugins of the organisation and those of the repository.
getPlugins(c, owner, repo) ==
    UNION {c.plugins[k] : k \in DOMAIN c.plugins \cap {<<owner>>, <<owner, repo>>}}

\* The four *Handlers methods.  A push is looked up under the owner's name,
\* every other event under the namespace.
handlersFor(c, p) ==
    Registered[p.type] \cap
        getPlugins(c, IF p.type = "Push Hook" THEN p.owner ELSE p.namespace, p.path)

\* The source repository and organisation of an event that the switch of
\* Dispatch does not know are both the empty string.
sourceKeys(p) ==
    IF p.type \in HookType THEN {<<p.namespace>>, <<p.namespace, p.path>>} ELSE {<<>>}

\* An entry under the organisation and the same one under the repository both
\* match, and are posted to separately.
needDispatchExternalPlugins(c, p) ==
    {e \in (DOMAIN c.external \cap sourceKeys(p)) \X External :
        /\ e[2] \in c.external[e[1]]
        /\ e[2].events = {} \/ p.type \in e[2].events}

-----------------------------------------------------------------------------
(* The sync.WaitGroup.  The Done that brings the counter to zero releases  *)
(* a blocked Wait, which runs again later.                                 *)

wgAdd == /\ counter' = counter + 1
         /\ UNCHANGED shutdown

wgDone == /\ counter' = counter - 1
          /\ shutdown' = IF counter = 1 /\ shutdown = "waiting"
                         THEN "woken" ELSE shutdown

-----------------------------------------------------------------------------
(* ServeHTTP and Dispatch.                                                 *)

\* The request arrives and ValidateWebhook decides; an invalid one is answered
\* there and goes no further.
ServeHTTP(r) ==
    /\ listening
    /\ req[r] = "idle"
    /\ \E p \in Payload :
          /\ payload' = [payload EXCEPT ![r] = p]
          /\ req' = [req EXCEPT ![r] = IF p.valid THEN "accepted" ELSE "rejected"]
    /\ UNCHANGED <<config, eventVars, extVars, counter, shutdown, stopVars>>

\* The switch of Dispatch: count and start the event goroutine, ignore a type
\* it does not know, give up when the payload does not parse.
Dispatch(r) ==
    /\ req[r] = "accepted"
    /\ LET p == payload[r] IN
          \/ /\ p.type \in HookType
             /\ p.parses
             /\ wgAdd
             /\ handler' = [handler EXCEPT ![r] = "started"]
             /\ req' = [req EXCEPT ![r] = "demuxed"]
          \/ /\ p.type \in HookType
             /\ ~p.parses
             /\ req' = [req EXCEPT ![r] = "unparsed"]
             /\ UNCHANGED <<handler, counter, shutdown>>
          \/ /\ p.type \notin HookType
             /\ req' = [req EXCEPT ![r] = "demuxed"]
             /\ UNCHANGED <<handler, counter, shutdown>>
    /\ UNCHANGED <<config, payload, todo, running, finished, extVars, stopVars>>

\* The end of Dispatch: the entries are looked up in the configuration of this
\* moment and handed to a goroutine the wait group does not count.
DispatchToExternal(r) ==
    /\ req[r] = "demuxed"
    /\ extTodo' = [extTodo EXCEPT ![r] =
                      needDispatchExternalPlugins(config, payload[r])]
    /\ req' = [req EXCEPT ![r] = "served"]
    /\ UNCHANGED <<config, payload, eventVars, posting, counter,
                   shutdown, stopVars>>

-----------------------------------------------------------------------------
(* The event goroutine (handlePullRequestEvent and its three siblings) and *)
(* the plugin goroutines it starts.                                        *)

\* Mutant: the event goroutine does not begin once the process is stopping.
StartLoopUnlessStopping(r) ==
    /\ shutdown = "idle"
    /\ handler[r] = "started"
    /\ handler' = [handler EXCEPT ![r] = "looping"]
    /\ todo' = [todo EXCEPT ![r] = handlersFor(config, payload[r])]
    /\ UNCHANGED <<config, serveVars, running, finished, extVars, counter,
                   shutdown, stopVars>>

\* It reads the configuration once, for the whole loop.
StartLoop(r) ==
    /\ handler[r] = "started"
    /\ handler' = [handler EXCEPT ![r] = "looping"]
    /\ todo' = [todo EXCEPT ![r] = handlersFor(config, payload[r])]
    /\ UNCHANGED <<config, serveVars, running, finished, extVars, counter,
                   shutdown, stopVars>>

\* Mutants: the plugin goroutine is not counted, the configuration is read again
\* in the loop.
SpawnPluginUncounted(r, p) ==
    /\ handler[r] = "looping"
    /\ p \in todo[r]
    /\ todo' = [todo EXCEPT ![r] = @ \ {p}]
    /\ running' = running \union {<<r, p>>}
    /\ UNCHANGED <<config, serveVars, handler, finished, extVars, counter,
                   shutdown, stopVars>>

SpawnPluginReread(r, p) ==
    /\ handler[r] = "looping"
    /\ p \in todo[r]
    /\ wgAdd
    /\ running' = running \union {<<r, p>>}
    /\ todo' = [todo EXCEPT ![r] = {q \in handlersFor(config, payload[r]) :
                                       <<r, q>> \notin running' \union finished}]
    /\ UNCHANGED <<config, serveVars, handler, finished, extVars, stopVars>>

SpawnPlugin(r, p) ==
    /\ handler[r] = "looping"
    /\ p \in todo[r]
    /\ wgAdd
    /\ todo' = [todo EXCEPT ![r] = @ \ {p}]
    /\ running' = running \union {<<r, p>>}
    /\ UNCHANGED <<config, serveVars, handler, finished, extVars, stopVars>>

EndLoop(r) ==
    /\ handler[r] = "looping"
    /\ todo[r] = {}
    /\ wgDone
    /\ handler' = [handler EXCEPT ![r] = "returned"]
    /\ UNCHANGED <<config, serveVars, todo, running, finished, extVars, stopVars>>

\* The plugin's handler returns; an error is only logged.
PluginReturns(r, p) ==
    /\ <<r, p>> \in running
    /\ wgDone
    /\ running' = running \ {<<r, p>>}
    /\ finished' = finished \union {<<r, p>>}
    /\ UNCHANGED <<config, serveVars, handler, todo, extVars, stopVars>>

-----------------------------------------------------------------------------
(* dispatchExternal and its posts.                                         *)

SpawnPost(r, x) ==
    /\ x \in extTodo[r]
    /\ wgAdd
    /\ extTodo' = [extTodo EXCEPT ![r] = @ \ {x}]
    /\ posting' = posting \union {<<r, x>>}
    /\ UNCHANGED <<config, serveVars, eventVars, stopVars>>

\* The post was answered, or do() gave up (see ExternalPost).
PostReturns(r, x) ==
    /\ <<r, x>> \in posting
    /\ wgDone
    /\ posting' = posting \ {<<r, x>>}
    /\ UNCHANGED <<config, serveVars, eventVars, extTodo, stopVars>>

-----------------------------------------------------------------------------
(* Configuration changes, interrupt and exit.                              *)

Reload ==
    /\ \E c \in Configs \ {config} : config' = c
    /\ UNCHANGED <<serveVars, eventVars, extVars, counter, shutdown, stopVars>>

Interrupt ==
    /\ shutdown = "idle"
    /\ shutdown' = "interrupted"
    /\ owed' = {r \in Request : handler[r] # "none"}
    /\ answered' = {r \in Request : req[r] = "served"}
    /\ UNCHANGED <<config, serveVars, eventVars, extVars, counter, listening,
                   process>>

\* The http.Server stops accepting; nothing orders this with Wait.
CloseListener ==
    /\ shutdown # "idle"
    /\ listening
    /\ listening' = FALSE
    /\ UNCHANGED <<config, serveVars, eventVars, extVars, counter, shutdown,
                   owed, answered, process>>

\* Mutant: the cache is cleaned without waiting.
WaitNot ==
    /\ shutdown = "interrupted"
    /\ shutdown' = "drained"
    /\ UNCHANGED <<config, serveVars, eventVars, extVars, counter, stopVars>>

\* GracefulShutdown calls wg.Wait, which blocks unless the counter is zero.
Wait ==
    /\ shutdown = "interrupted"
    /\ shutdown' = IF counter = 0 THEN "drained" ELSE "waiting"
    /\ UNCHANGED <<config, serveVars, eventVars, extVars, counter, stopVars>>

\* A released Wait that finds the counter in use again panics ("WaitGroup is
\* reused before previous Wait has returned"), and nothing recovers.
Wake ==
    /\ shutdown = "woken"
    /\ \/ /\ counter = 0
          /\ shutdown' = "drained"
          /\ UNCHANGED process
       \/ /\ counter # 0
          /\ process' = "panicked"
          /\ UNCHANGED shutdown
    /\ UNCHANGED <<config, serveVars, eventVars, extVars, counter, listening,
                   owed, answered>>

\* giteeGitClient.Clean removes the clones that plugins work in.
Clean ==
    /\ shutdown = "drained"
    /\ shutdown' = "cleaned"
    /\ UNCHANGED <<config, serveVars, eventVars, extVars, counter, stopVars>>

\* The process exits once the interrupt handler is done and the http.Server
\* has no request left in ServeHTTP.
Exit ==
    /\ shutdown = "cleaned"
    /\ ~listening
    /\ \A r \in Request : req[r] \notin {"accepted", "demuxed"}
    /\ process' = "exited"
    /\ UNCHANGED <<config, serveVars, eventVars, extVars, counter, shutdown,
                   listening, owed, answered>>

\* ... or when the grace period is over, whatever still runs.
GraceExpired ==
    /\ shutdown # "idle"
    /\ process' = "exited"
    /\ UNCHANGED <<config, serveVars, eventVars, extVars, counter, shutdown,
                   listening, owed, answered>>

-----------------------------------------------------------------------------
Serving == \E r \in Request : ServeHTTP(r) \/ Dispatch(r) \/ DispatchToExternal(r)

Handling == \E r \in Request : \/ StartLoop(r)
                               \/ EndLoop(r)
                               \/ \E p \in Plugin : SpawnPlugin(r, p) \/ PluginReturns(r, p)

Posting == \E r \in Request : \E x \in Entry \X External :
               SpawnPost(r, x) \/ PostReturns(r, x)

Stopping == Interrupt \/ CloseListener \/ Wait \/ Wake \/ Clean \/ Exit \/ GraceExpired

Step == /\ process = "up"
        /\ Serving \/ Handling \/ Posting \/ Reload \/ Stopping

\* A process that is gone does nothing more.
Terminated == process # "up" /\ UNCHANGED vars

Next == Step \/ Terminated

Spec == Init /\ [][Next]_vars

(***************************************************************************)
(* Fairness.  Every goroutine that can run is scheduled, so each of its    *)
(* steps is weakly fair.  That plugin handlers and posts return is an      *)
(* assumption on them (the http.Client of the dispatcher has no timeout).  *)
(* Nothing makes requests, reloads, the interrupt or the end of the grace  *)
(* period happen.                                                          *)
(***************************************************************************)
Up(A) == process = "up" /\ A

Fairness ==
    /\ \A r \in Request :
          /\ WF_vars(Up(Dispatch(r)))
          /\ WF_vars(Up(DispatchToExternal(r)))
          /\ WF_vars(Up(StartLoop(r)))
          /\ WF_vars(Up(EndLoop(r)))
          /\ WF_vars(Up(\E p \in Plugin : SpawnPlugin(r, p)))
          /\ \A p \in Plugin : WF_vars(Up(PluginReturns(r, p)))
          /\ WF_vars(Up(\E x \in Entry \X External : SpawnPost(r, x)))
          /\ \A x \in Entry \X External : WF_vars(Up(PostReturns(r, x)))
    /\ WF_vars(Up(CloseListener))
    /\ WF_vars(Up(Wait))
    /\ WF_vars(Up(Wake))
    /\ WF_vars(Up(Clean))
    /\ WF_vars(Up(Exit))

FairSpec == Spec /\ Fairness

-----------------------------------------------------------------------------
(* Properties.                                                             *)

\* The goroutines that the wait group is meant to count.
Live == {<<"event", r>> : r \in {s \in Request : handler[s] \in {"started", "looping"}}}
            \union {<<"plugin", g>> : g \in running}
            \union {<<"post", g>> : g \in posting}

\* The counter is exactly the number of live counted goroutines: every Add is
\* made before its goroutine can end, every goroutine calls Done once, whatever
\* the order in which event goroutines, plugins and posts start and end.
CounterExact == counter = Cardinality(Live)

Handled(r) == /\ handler[r] = "returned"
              /\ \A p \in Plugin : <<r, p>> \notin running

\* The git cache is removed only when every request that had been counted by the
\* interrupt has had all its plugin handlers return: Clean never pulls a clone
\* from under a handler of such a request.
CleanAfterHandlers == shutdown \in {"drained", "cleaned"} => \A r \in owed : Handled(r)

\* The plugins that ran for a request are those of one single configuration, even
\* when the configuration is replaced while the event goroutine is looping.
OneConfiguration ==
    \A r \in Request : handler[r] = "returned" =>
        \E c \in Configs :
            {p \in Plugin : <<r, p>> \in running \union finished}
                = handlersFor(c, payload[r])

\* With handlers and posts that return, an interrupted process ends by itself,
\* without the grace period: Wait always gets its wake-up.
InterruptEnds == (shutdown # "idle") ~> (process # "up")

\* Every request that was given to an event goroutine is handled completely, by
\* the plugins and by the external plugins it was queued for, unless the process
\* ends first.
RequestCompletes ==
    \A r \in Request : (handler[r] # "none") ~>
        \/ process # "up"
        \/ /\ Handled(r)
           /\ req[r] = "served"
           /\ extTodo[r] = {}
           /\ \A x \in Entry \X External : <<r, x>> \notin posting

\* GracefulShutdown "handles all requests sent before receiving the shutdown
\* signal": by the time the wait is over, each request that ServeHTTP was done
\* with at the interrupt has been posted to all its external plugins.
ExternalsHandledBeforeStop ==
    shutdown \in {"drained", "cleaned"} =>
        \A r \in answered :
            /\ extTodo[r] = {}
            /\ \A x \in Entry \X External : <<r, x>> \notin posting

\* The dispatcher, seen through its event and plugin goroutines, is a graceful
\* service: jobs are the requests given to an event goroutine.
Graceful == INSTANCE GracefulService WITH
    Job <- Request,
    job <- [r \in Request |-> IF handler[r] = "none" THEN "new"
                              ELSE IF Handled(r) THEN "done" ELSE "accepted"],
    phase <- IF shutdown = "idle" THEN "up"
             ELSE IF shutdown = "cleaned" THEN "stopped" ELSE "draining"

ImplementsGraceful == Graceful!Spec
=============================================================================
