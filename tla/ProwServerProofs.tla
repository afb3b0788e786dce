-------------------------- MODULE ProwServerProofs --------------------------
(***************************************************************************)
(* Proofs about ProwServer, for any number of requests, plugins, external  *)
(* plugins and configurations.                                             *)
(*                                                                         *)
(* The argument for the wait group is that of DispatcherProofs, with the   *)
(* second fan-out of an event in Origins: no handler of a generic comment  *)
(* exists before the event's loop is over.                                 *)
(***************************************************************************)
EXTENDS ProwServer, FiniteSetTheorems, TLAPS

USE DEF Goroutine

Counting == /\ IsFiniteSet(Live)
            /\ CounterExact

\* No handler runs before its loop got there, and what is still to be started does
\* not run yet.
Origins ==
    \A r \in Request :
        /\ req[r] # "idle" => payload[r] \in Payload /\ since[r] # 0
        /\ event[r] # "none" => req[r] \in {"demuxed", "served"}
        /\ event[r] \notin {"event", "comment"} => todo[r] = {}
        /\ event[r] = "comment" => HasComment(payload[r])
        /\ \A p \in Plugin : run[<<r, "event", p>>] # "none" =>
                /\ event[r] \in {"event", "comment", "returned"}
                /\ event[r] = "event" => p \notin todo[r]
        /\ \A p \in Plugin : run[<<r, "comment", p>>] # "none" =>
                /\ event[r] \in {"comment", "returned"}
                /\ p \notin todo[r]
        /\ req[r] # "served" => extTodo[r] = {}
        /\ \A x \in Entry : <<r, x>> \in posting => req[r] = "served" /\ x \notin extTodo[r]

Owing ==
    /\ \A r \in owed : event[r] # "none"
    /\ CleanAfterHandlers

IInv == TypeOK /\ Counting /\ Origins /\ Owing

-----------------------------------------------------------------------------
\* The plugins and the entries that an event is given to are plugins and entries.
LEMMA HandlersType ==
    ASSUME NEW v \in DOMAIN History, NEW p \in Payload
    PROVE  /\ eventHandlers(History[v], p) \subseteq Plugin
           /\ commentHandlers(History[v], p) \subseteq Plugin
           /\ needDemux(History[v], p) \subseteq Entry
<1> DEFINE c == History[v]
<1>1. \A k \in DOMAIN c.plugins : c.plugins[k] \subseteq Plugin
  BY ConstantsOK DEF ConfigOK
<1>2. getPlugins(c, p) \subseteq Plugin
  BY <1>1 DEF getPlugins
<1>3. eventHandlers(c, p) \subseteq Plugin /\ commentHandlers(c, p) \subseteq Plugin
  BY <1>2 DEF eventHandlers, commentHandlers
<1>4. DOMAIN c.external \subseteq UNION {DOMAIN History[u].external : u \in DOMAIN History}
  OBVIOUS
<1>5. needDemux(c, p) \subseteq Entry
  BY <1>4 DEF needDemux, Entry
<1> QED BY <1>3, <1>5

\* Every step changes Live the way it changes the counter.
LEMMA CountUp ==
    ASSUME Counting, counter \in Nat, NEW g, g \notin Live,
           Live' = Live \union {g}, counter' = counter + 1
    PROVE  Counting' /\ counter' \in Nat
BY FS_AddElement, FS_CardinalityType DEF Counting, CounterExact

LEMMA CountDown ==
    ASSUME Counting, counter \in Nat, NEW g, g \in Live,
           Live' = Live \ {g}, counter' = counter - 1
    PROVE  Counting' /\ counter' \in Nat
<1>1. /\ IsFiniteSet(Live')
      /\ Cardinality(Live') = Cardinality(Live) - 1
  BY FS_RemoveElement DEF Counting
<1>2. Cardinality(Live') \in Nat
  BY <1>1, FS_CardinalityType
<1> QED BY <1>1, <1>2 DEF Counting, CounterExact

LEMMA CountSame ==
    ASSUME Counting, counter \in Nat, Live' = Live, counter' = counter
    PROVE  Counting' /\ counter' \in Nat
BY DEF Counting, CounterExact

-----------------------------------------------------------------------------
\* The counter follows the goroutines in every step.
LEMMA CountStep ==
    ASSUME IInv, [Next]_vars
    PROVE  Counting' /\ counter' \in Nat
<1> USE DEF IInv, TypeOK
<1> counter \in Nat /\ Counting
  OBVIOUS
<1>1. ASSUME UNCHANGED <<event, run, posting, counter>> PROVE Counting' /\ counter' \in Nat
  BY <1>1, CountSame DEF Live
<1>2. ASSUME NEW r \in Request, ServeHTTP(r) \/ ToExternal(r) PROVE Counting' /\ counter' \in Nat
  <2>1. UNCHANGED <<event, run, posting, counter>>
    BY <1>2 DEF ServeHTTP, ToExternal, eventVars, pluginVars, extVars
  <2> QED BY <1>1, <2>1
<1>3. ASSUME NEW r \in Request, demuxEvent(r) PROVE Counting' /\ counter' \in Nat
  <2>1. UNCHANGED <<run, posting>>
    BY <1>3 DEF demuxEvent, extVars, pluginVars
  <2>2. CASE UNCHANGED <<event, counter>>
    BY <2>1, <2>2, <1>1
  <2>3. CASE event' = [event EXCEPT ![r] = "started"] /\ wgAdd
    <3>1. <<"event", r>> \notin Live
      BY <1>3 DEF demuxEvent, Live, Origins
    <3>2. Live' = Live \union {<<"event", r>>}
      BY <2>1, <2>3 DEF Live
    <3> QED BY <2>3, <3>1, <3>2, CountUp DEF wgAdd
  <2> QED BY <1>3, <2>2, <2>3 DEF demuxEvent
<1>4. ASSUME NEW r \in Request, StartEvent(r) \/ StartComment(r)
      PROVE  Counting' /\ counter' \in Nat
  <2>1. Live' = Live
    BY <1>4 DEF StartEvent, StartComment, Live, pluginVars, extVars
  <2> QED BY <1>4, <2>1, CountSame DEF StartEvent, StartComment
<1>5. ASSUME NEW r \in Request, EndEvent(r) PROVE Counting' /\ counter' \in Nat
  <2>1. <<"event", r>> \in Live
    BY <1>5 DEF EndEvent, Live
  <2>2. Live' = Live \ {<<"event", r>>}
    BY <1>5 DEF EndEvent, Live, pluginVars, extVars
  <2> QED BY <1>5, <2>1, <2>2, CountDown DEF EndEvent, wgDone
<1>6. ASSUME NEW r \in Request, NEW p \in Plugin, Spawn(r, p)
      PROVE  Counting' /\ counter' \in Nat
  <2> DEFINE g == <<r, event[r], p>>
  <2>1. event[r] \in {"event", "comment"} /\ g \in Goroutine
    BY <1>6 DEF Spawn, Origins
  <2>2. run[g] = "none"
    BY <1>6, <2>1 DEF Spawn, Origins
  <2>3. <<"plugin", g>> \notin Live
    BY <2>2 DEF Live
  <2>4. /\ run' = [run EXCEPT ![g] = "started"]
        /\ UNCHANGED <<event, posting>>
    BY <1>6 DEF Spawn, extVars
  <2>5. {h \in Goroutine : run'[h] \in {"started", "acting"}}
            = {h \in Goroutine : run[h] \in {"started", "acting"}} \union {g}
    BY <2>1, <2>4
  <2>6. Live' = Live \union {<<"plugin", g>>}
    BY <2>4, <2>5 DEF Live
  <2> QED BY <1>6, <2>3, <2>6, CountUp DEF Spawn, wgAdd
<1>7. ASSUME NEW g \in Goroutine, NewAgent(g) PROVE Counting' /\ counter' \in Nat
  <2>1. {h \in Goroutine : run'[h] \in {"started", "acting"}}
            = {h \in Goroutine : run[h] \in {"started", "acting"}}
    BY <1>7 DEF NewAgent
  <2>2. Live' = Live
    BY <1>7, <2>1 DEF NewAgent, Live, eventVars, extVars
  <2> QED BY <1>7, <2>2, CountSame DEF NewAgent
<1>8. ASSUME NEW g \in Goroutine, HandlerReturns(g) PROVE Counting' /\ counter' \in Nat
  <2>1. <<"plugin", g>> \in Live
    BY <1>8 DEF HandlerReturns, Live
  <2>2. {h \in Goroutine : run'[h] \in {"started", "acting"}}
            = {h \in Goroutine : run[h] \in {"started", "acting"}} \ {g}
    BY <1>8 DEF HandlerReturns
  <2>3. Live' = Live \ {<<"plugin", g>>}
    BY <1>8, <2>2 DEF HandlerReturns, Live, eventVars, extVars
  <2> QED BY <1>8, <2>1, <2>3, CountDown DEF HandlerReturns, wgDone
<1>9. ASSUME NEW r \in Request, NEW x \in Entry, SpawnPost(r, x)
      PROVE  Counting' /\ counter' \in Nat
  <2>1. <<"post", <<r, x>>>> \notin Live
    BY <1>9 DEF SpawnPost, Live, Origins
  <2>2. Live' = Live \union {<<"post", <<r, x>>>>}
    BY <1>9 DEF SpawnPost, Live, eventVars, pluginVars
  <2> QED BY <1>9, <2>1, <2>2, CountUp DEF SpawnPost, wgAdd
<1>10. ASSUME NEW r \in Request, NEW x \in Entry, PostReturns(r, x)
       PROVE  Counting' /\ counter' \in Nat
  <2>1. <<"post", <<r, x>>>> \in Live
    BY <1>10 DEF PostReturns, Live
  <2>2. Live' = Live \ {<<"post", <<r, x>>>>}
    BY <1>10 DEF PostReturns, Live, eventVars, pluginVars
  <2> QED BY <1>10, <2>1, <2>2, CountDown DEF PostReturns, wgDone
<1>11. ASSUME Reload \/ Stopping \/ UNCHANGED vars PROVE Counting' /\ counter' \in Nat
  <2>1. UNCHANGED <<event, run, posting, counter>>
    BY <1>11 DEF Reload, Stopping, Interrupt, CloseListener, Wait, Wake, Clean, Exit,
                 GraceExpired, vars, eventVars, pluginVars, extVars
  <2> QED BY <2>1, <1>1
<1> QED
  BY <1>2, <1>3, <1>4, <1>5, <1>6, <1>7, <1>8, <1>9, <1>10, <1>11
  DEF Next, Step, Terminated, Serving, Handling, Acting

\* Every step keeps the types.
LEMMA TypeStep ==
    ASSUME IInv, [Next]_vars
    PROVE  TypeOK'
<1> USE DEF IInv, TypeOK
<1> version \in Nat /\ Len(History) \in Nat /\ DOMAIN History = 1 .. Len(History)
  BY ConstantsOK
<1>1. ASSUME NEW r \in Request, ServeHTTP(r) PROVE TypeOK'
  BY <1>1 DEF ServeHTTP, eventVars, pluginVars, extVars, stopVars
<1>2. ASSUME NEW r \in Request, demuxEvent(r) PROVE TypeOK'
  BY <1>2, CountStep DEF demuxEvent, wgAdd, pluginVars, extVars, stopVars
<1>3. ASSUME NEW r \in Request, ToExternal(r) PROVE TypeOK'
  <2>1. needDemux(History[version], payload[r]) \subseteq Entry
    BY <1>3, HandlersType DEF ToExternal, Origins
  <2> QED BY <1>3, <2>1 DEF ToExternal, eventVars, pluginVars, stopVars
<1>4. ASSUME NEW r \in Request, StartEvent(r) PROVE TypeOK'
  <2>1. eventHandlers(History[version], payload[r]) \subseteq Plugin
    BY <1>4, HandlersType DEF StartEvent, Origins
  <2> QED BY <1>4, <2>1 DEF StartEvent, serveVars, pluginVars, extVars, stopVars
<1>5. ASSUME NEW r \in Request, StartComment(r) PROVE TypeOK'
  <2>1. commentHandlers(History[version], payload[r]) \subseteq Plugin
    BY <1>5, HandlersType DEF StartComment, Origins
  <2> QED BY <1>5, <2>1 DEF StartComment, serveVars, pluginVars, extVars, stopVars
<1>6. ASSUME NEW r \in Request, EndEvent(r) PROVE TypeOK'
  BY <1>6, CountStep DEF EndEvent, wgDone, serveVars, pluginVars, extVars, stopVars
<1>7. ASSUME NEW r \in Request, NEW p \in Plugin, Spawn(r, p) PROVE TypeOK'
  BY <1>7, CountStep DEF Spawn, wgAdd, serveVars, extVars, stopVars
<1>8. ASSUME NEW g \in Goroutine, NewAgent(g) PROVE TypeOK'
  BY <1>8 DEF NewAgent, serveVars, eventVars, extVars, stopVars
<1>9. ASSUME NEW g \in Goroutine, HandlerReturns(g) PROVE TypeOK'
  BY <1>9, CountStep DEF HandlerReturns, wgDone, serveVars, eventVars, extVars, stopVars
<1>10. ASSUME NEW r \in Request, NEW x \in Entry, SpawnPost(r, x) PROVE TypeOK'
  BY <1>10, CountStep DEF SpawnPost, wgAdd, serveVars, eventVars, pluginVars, stopVars
<1>11. ASSUME NEW r \in Request, NEW x \in Entry, PostReturns(r, x) PROVE TypeOK'
  BY <1>11, CountStep DEF PostReturns, wgDone, serveVars, eventVars, pluginVars, stopVars
<1>12. CASE Reload
  <2>1. version' \in DOMAIN History /\ 0 .. version \subseteq 0 .. version'
    BY <1>12 DEF Reload
  <2> QED
    BY <1>12, <2>1 DEF Reload, serveVars, eventVars, pluginVars, extVars, stopVars
<1>13. ASSUME Stopping \/ UNCHANGED vars PROVE TypeOK'
  BY <1>13 DEF Stopping, Interrupt, CloseListener, Wait, Wake, Clean, Exit, GraceExpired,
               vars, serveVars, eventVars, pluginVars, extVars, stopVars
<1> QED
  BY <1>1, <1>2, <1>3, <1>4, <1>5, <1>6, <1>7, <1>8, <1>9, <1>10, <1>11, <1>12, <1>13
  DEF Next, Step, Terminated, Serving, Handling, Acting

\* Every step keeps the order of a request's goroutines.
LEMMA OriginsStep ==
    ASSUME IInv, [Next]_vars
    PROVE  Origins'
<1> USE DEF IInv, TypeOK, Origins
<1>1. ASSUME NEW r \in Request, ServeHTTP(r) PROVE Origins'
  <2>1. version # 0
    BY ConstantsOK
  <2> QED BY <1>1, <2>1 DEF ServeHTTP, eventVars, pluginVars, extVars, stopVars
<1>2. ASSUME NEW r \in Request, demuxEvent(r) PROVE Origins'
  BY <1>2 DEF demuxEvent, wgAdd, pluginVars, extVars, stopVars
<1>3. ASSUME NEW r \in Request, ToExternal(r) PROVE Origins'
  BY <1>3 DEF ToExternal, eventVars, pluginVars, stopVars
<1>4. ASSUME NEW r \in Request, StartEvent(r) PROVE Origins'
  BY <1>4 DEF StartEvent, serveVars, pluginVars, extVars, stopVars
<1>5. ASSUME NEW r \in Request, StartComment(r) PROVE Origins'
  BY <1>5 DEF StartComment, serveVars, pluginVars, extVars, stopVars
<1>6. ASSUME NEW r \in Request, EndEvent(r) PROVE Origins'
  BY <1>6 DEF EndEvent, wgDone, serveVars, pluginVars, extVars, stopVars
<1>7. ASSUME NEW r \in Request, NEW p \in Plugin, Spawn(r, p) PROVE Origins'
  BY <1>7 DEF Spawn, wgAdd, serveVars, extVars, stopVars
<1>8. ASSUME NEW g \in Goroutine, NewAgent(g) PROVE Origins'
  BY <1>8 DEF NewAgent, serveVars, eventVars, extVars, stopVars
<1>9. ASSUME NEW g \in Goroutine, HandlerReturns(g) PROVE Origins'
  BY <1>9 DEF HandlerReturns, wgDone, serveVars, eventVars, extVars, stopVars
<1>10. ASSUME NEW r \in Request, NEW x \in Entry, SpawnPost(r, x) PROVE Origins'
  BY <1>10 DEF SpawnPost, wgAdd, serveVars, eventVars, pluginVars, stopVars
<1>11. ASSUME NEW r \in Request, NEW x \in Entry, PostReturns(r, x) PROVE Origins'
  BY <1>11 DEF PostReturns, wgDone, serveVars, eventVars, pluginVars, stopVars
<1>12. ASSUME Reload \/ Stopping \/ UNCHANGED vars PROVE Origins'
  BY <1>12 DEF Reload, Stopping, Interrupt, CloseListener, Wait, Wake, Clean, Exit, GraceExpired,
               vars, serveVars, eventVars, pluginVars, extVars, stopVars
<1> QED
  BY <1>1, <1>2, <1>3, <1>4, <1>5, <1>6, <1>7, <1>8, <1>9, <1>10, <1>11, <1>12
  DEF Next, Step, Terminated, Serving, Handling, Acting

\* When the counter is zero no event goroutine and no handler runs.
LEMMA ZeroMeansQuiet ==
    ASSUME IInv, counter = 0
    PROVE  \A r \in owed : Handled(r)
<1>1. Live = {}
  BY FS_EmptySet DEF IInv, Counting, CounterExact
<1>2. ASSUME NEW r \in owed PROVE event[r] = "returned"
  <2>1. event[r] \in {"started", "event", "comment"} => <<"event", r>> \in Live
    BY DEF Live, IInv, TypeOK
  <2> QED BY <1>1, <2>1 DEF IInv, TypeOK, Owing
<1>3. \A g \in Goroutine : run[g] \notin {"started", "acting"}
  BY <1>1 DEF Live
<1> QED BY <1>2, <1>3 DEF Handled, IInv, TypeOK

\* The wait is over only when the owed requests are handled, and they stay so.
LEMMA OwingStep ==
    ASSUME IInv, [Next]_vars
    PROVE  Owing'
<1> USE DEF IInv, TypeOK, Owing, CleanAfterHandlers, Handled
<1>1. ASSUME UNCHANGED <<event, run, owed, shutdown>> PROVE Owing'
  BY <1>1
<1>2. ASSUME NEW r \in Request, ServeHTTP(r) \/ ToExternal(r) PROVE Owing'
  BY <1>2, <1>1 DEF ServeHTTP, ToExternal, eventVars, pluginVars, extVars, stopVars
<1>3. ASSUME NEW r \in Request, demuxEvent(r) PROVE Owing'
  <2>1. event[r] = "none" /\ r \notin owed
    BY <1>3 DEF demuxEvent, Origins
  <2>2. /\ \A s \in Request \ {r} : event'[s] = event[s]
        /\ UNCHANGED <<owed, run, shutdown>>
    BY <1>3 DEF demuxEvent, wgAdd, pluginVars, extVars, stopVars
  <2> QED BY <2>1, <2>2
<1>4. ASSUME NEW r \in Request, StartEvent(r) \/ StartComment(r) PROVE Owing'
  BY <1>4 DEF StartEvent, StartComment, serveVars, pluginVars, extVars, stopVars
<1>5. ASSUME NEW r \in Request, EndEvent(r) PROVE Owing'
  BY <1>5 DEF EndEvent, wgDone, serveVars, pluginVars, extVars, stopVars
<1>6. ASSUME NEW r \in Request, NEW p \in Plugin, Spawn(r, p) PROVE Owing'
  <2>1. event[r] \in {"event", "comment"}
    BY <1>6 DEF Spawn, Origins
  <2> QED BY <1>6, <2>1 DEF Spawn, wgAdd, serveVars, extVars, stopVars
<1>7. ASSUME NEW g \in Goroutine, NewAgent(g) PROVE Owing'
  BY <1>7 DEF NewAgent, serveVars, eventVars, extVars, stopVars
<1>8. ASSUME NEW g \in Goroutine, HandlerReturns(g) PROVE Owing'
  BY <1>8 DEF HandlerReturns, wgDone, serveVars, eventVars, extVars, stopVars
<1>9. ASSUME NEW r \in Request, NEW x \in Entry, SpawnPost(r, x) \/ PostReturns(r, x)
      PROVE  Owing'
  BY <1>9 DEF SpawnPost, PostReturns, wgAdd, wgDone, serveVars, eventVars, pluginVars, stopVars
<1>10. ASSUME Reload \/ Stopping \/ UNCHANGED vars PROVE Owing'
  <2>1. CASE Interrupt
    BY <2>1 DEF Interrupt, eventVars, pluginVars
  <2>2. CASE Wait
    BY <2>2, ZeroMeansQuiet DEF Wait, eventVars, pluginVars, stopVars
  <2>3. CASE Wake
    BY <2>3, ZeroMeansQuiet DEF Wake, eventVars, pluginVars
  <2>4. CASE Clean
    BY <2>4 DEF Clean, eventVars, pluginVars, stopVars
  <2>5. CASE Reload \/ CloseListener \/ Exit \/ GraceExpired \/ UNCHANGED vars
    BY <2>5, <1>1 DEF Reload, CloseListener, Exit, GraceExpired, vars, eventVars, pluginVars,
                      stopVars
  <2> QED BY <1>10, <2>1, <2>2, <2>3, <2>4, <2>5 DEF Stopping
<1> QED
  BY <1>2, <1>3, <1>4, <1>5, <1>6, <1>7, <1>8, <1>9, <1>10
  DEF Next, Step, Terminated, Serving, Handling, Acting

-----------------------------------------------------------------------------
\* The initial states satisfy the invariant.
LEMMA InitIInv == Init => IInv
<1> SUFFICES ASSUME Init PROVE IInv
  OBVIOUS
<1>1. TypeOK
  BY ConstantsOK DEF Init, TypeOK
<1>2. Live = {}
  BY DEF Init, Live
<1>3. Counting
  BY <1>2, FS_EmptySet DEF Init, Counting, CounterExact
<1>4. Origins /\ Owing
  BY DEF Init, Origins, Owing, CleanAfterHandlers
<1> QED BY <1>1, <1>3, <1>4 DEF IInv

\* IInv is an invariant of the server.
THEOREM Invariance == Spec => []IInv
<1>1. IInv /\ [Next]_vars => IInv'
  BY CountStep, TypeStep, OriginsStep, OwingStep DEF IInv
<1> QED BY InitIInv, <1>1, PTL DEF Spec

\* The wait group's counter is never negative, no agent has a configuration that was
\* not loaded yet, and every variable keeps its type.
THEOREM TypeCorrect == Spec => []TypeOK
<1>1. IInv => TypeOK
  BY DEF IInv
<1> QED BY Invariance, <1>1, PTL

\* The counter is the number of goroutines that the wait group is to await, over the
\* handlers of events and of their comments, and the posts, of any number of requests.
THEOREM CounterCorrect == Spec => []CounterExact
<1>1. IInv => CounterExact
  BY DEF IInv, Counting
<1> QED BY Invariance, <1>1, PTL

\* The git cache is not removed before the handlers of every request counted by
\* the interrupt have returned.
THEOREM CleanIsSafe == Spec => []CleanAfterHandlers
<1>1. IInv => CleanAfterHandlers
  BY DEF IInv, Owing
<1> QED BY Invariance, <1>1, PTL

-----------------------------------------------------------------------------
(* What a panic of the shutdown leaves.                                    *)

\* When a post that adds itself to the released wait group makes the process panic, no
\* handler that the interrupt waited for is cut off (Wake).
PanicCutsNoneOff == process = "panicked" => \A r \in owed : Handled(r)

\* The wait is released when the owed requests are handled.
Released ==
    /\ shutdown = "woken" => \A r \in owed : Handled(r)
    /\ process = "panicked" => shutdown = "woken"

\* ZeroMeansQuiet for the state after a step.
LEMMA QuietLater == (IInv /\ counter = 0 => \A r \in owed : Handled(r))'
<1>1. IInv /\ counter = 0 => \A r \in owed : Handled(r)
  BY ZeroMeansQuiet
<1> QED BY <1>1, PTL

\* Only the last Done releases it.
LEMMA ReleasedAtZero ==
    ASSUME IInv, [Next]_vars, shutdown # "woken", shutdown' = "woken"
    PROVE  counter' = 0
<1>1. CASE wgDone
  BY <1>1 DEF wgDone, IInv, TypeOK
<1>2. CASE UNCHANGED shutdown
  BY <1>2
<1>3. \/ wgDone \/ UNCHANGED shutdown \/ shutdown' \in {"interrupted", "drained", "waiting", "cleaned"}
  BY DEF Next, Step, Terminated, Serving, Handling, Acting, Stopping, ServeHTTP, demuxEvent,
         ToExternal, StartEvent, StartComment, EndEvent, Spawn, NewAgent, HandlerReturns,
         SpawnPost, PostReturns, Reload, Interrupt, CloseListener, Wait, Wake, Clean, Exit,
         GraceExpired, vars, stopVars, wgAdd
<1> QED BY <1>1, <1>2, <1>3

\* What was handled stays handled.
LEMMA HandledStays ==
    ASSUME IInv, [Next]_vars, shutdown = "woken", NEW r \in owed, Handled(r)
    PROVE  Handled(r)' /\ owed' = owed
<1> USE DEF Handled
<1>1. event[r] = "returned" /\ r \in Request /\ todo[r] = {}
  BY DEF IInv, TypeOK, Origins
<1>2. CASE Serving
  <2>1. ASSUME NEW s \in Request, \/ ServeHTTP(s) \/ ToExternal(s)
                                  \/ \E x \in Entry : SpawnPost(s, x) \/ PostReturns(s, x)
        PROVE  Handled(r)' /\ owed' = owed
    BY <2>1 DEF ServeHTTP, ToExternal, SpawnPost, PostReturns, eventVars, pluginVars, extVars,
                stopVars
  <2>2. ASSUME NEW s \in Request, demuxEvent(s) PROVE Handled(r)' /\ owed' = owed
    <3>1. event[s] = "none" /\ s # r
      BY <1>1, <2>2 DEF demuxEvent, IInv, Origins
    <3> QED BY <2>2, <3>1 DEF demuxEvent, wgAdd, pluginVars, extVars, stopVars, IInv, TypeOK
  <2> QED BY <1>2, <2>1, <2>2 DEF Serving
<1>3. CASE Handling
  <2>1. ASSUME NEW s \in Request, StartEvent(s) \/ StartComment(s) \/ EndEvent(s)
        PROVE  Handled(r)' /\ owed' = owed
    BY <1>1, <2>1 DEF StartEvent, StartComment, EndEvent, serveVars, pluginVars, extVars,
                      stopVars, IInv, TypeOK
  <2>2. ASSUME NEW s \in Request, NEW p \in Plugin, Spawn(s, p)
        PROVE  Handled(r)' /\ owed' = owed
    <3>1. s # r
      BY <1>1, <2>2 DEF Spawn
    <3> QED BY <1>1, <2>2, <3>1 DEF Spawn, serveVars, extVars, stopVars, IInv, TypeOK, Goroutine
  <2> QED BY <1>3, <2>1, <2>2 DEF Handling
<1>4. CASE Acting
  BY <1>1, <1>4 DEF Acting, NewAgent, HandlerReturns, serveVars, eventVars, extVars, stopVars,
                    IInv, TypeOK, Goroutine
<1>5. CASE Reload \/ Stopping \/ UNCHANGED vars
  BY <1>5 DEF Reload, Stopping, Interrupt, CloseListener, Wait, Wake, Clean, Exit, GraceExpired,
         vars, serveVars, eventVars, pluginVars, extVars, stopVars
<1> QED BY <1>2, <1>3, <1>4, <1>5 DEF Next, Step, Terminated

\* After a panic nothing happens, and it comes from a released wait.
LEMMA PanicStays ==
    ASSUME IInv, [Next]_vars, process = "panicked" => shutdown = "woken", process' = "panicked"
    PROVE  shutdown' = "woken"
<1>1. CASE process = "panicked"
  BY <1>1 DEF Next, Step, Terminated, vars, stopVars
<1>2. CASE process # "panicked"
  BY <1>2 DEF Next, Step, Terminated, Serving, Handling, Acting, Stopping, ServeHTTP, demuxEvent,
         ToExternal, StartEvent, StartComment, EndEvent, Spawn, NewAgent, HandlerReturns,
         SpawnPost, PostReturns, Reload, Interrupt, CloseListener, Wait, Wake, Clean, Exit,
         GraceExpired, vars, stopVars
<1> QED BY <1>1, <1>2

\* A panic of the shutdown cuts off only what came after the interrupt, and posts.
THEOREM PanicIsLate == Spec => []PanicCutsNoneOff
<1>1. Init => Released
  BY DEF Init, Released
<1>2. IInv /\ IInv' /\ Released /\ [Next]_vars => Released'
  <2> SUFFICES ASSUME IInv, IInv', Released, [Next]_vars PROVE Released'
    OBVIOUS
  <2>1. CASE shutdown' = "woken" /\ shutdown # "woken"
    BY <2>1, ReleasedAtZero, QuietLater, PanicStays DEF Released
  <2>2. CASE shutdown' = "woken" /\ shutdown = "woken"
    <3>1. \A r \in owed : Handled(r)' /\ owed' = owed
      BY <2>2, HandledStays DEF Released
    <3>2. owed' = owed
      BY <2>2 DEF Next, Step, Terminated, Serving, Handling, Acting, Stopping, ServeHTTP,
             demuxEvent, ToExternal, StartEvent, StartComment, EndEvent, Spawn, NewAgent,
             HandlerReturns, SpawnPost, PostReturns, Reload, Interrupt, CloseListener, Wait,
             Wake, Clean, Exit, GraceExpired, vars, stopVars
    <3> QED BY <3>1, <3>2, <2>2, PanicStays DEF Released
  <2>3. CASE shutdown' # "woken"
    BY <2>3, PanicStays DEF Released
  <2> QED BY <2>1, <2>2, <2>3
<1>3. Released => PanicCutsNoneOff
  BY DEF Released, PanicCutsNoneOff
<1> QED BY Invariance, <1>1, <1>2, <1>3, PTL DEF Spec

-----------------------------------------------------------------------------
(* The configurations of a request.                                        *)

\* What the event's loop started and has still to start are the handlers of version v,
\* and no agent is older; the same for the comment's loop and version w.
EventFrom(r, v) ==
    /\ v \in since[r] .. version
    /\ Ran(r, "event") \union (IF event[r] = "event" THEN todo[r] ELSE {})
           = eventHandlers(History[v], payload[r])
    /\ AgentsSince(r, "event", v)

CommentFrom(r, v, w) ==
    /\ w \in v .. version
    /\ Ran(r, "comment") \union todo[r]
           = IF HasComment(payload[r]) THEN commentHandlers(History[w], payload[r]) ELSE {}
    /\ AgentsSince(r, "comment", w)

SnapshotOf(r) ==
    /\ event[r] = "event" => \E v \in DOMAIN History : EventFrom(r, v)
    /\ event[r] \in {"comment", "returned"} =>
          \E v, w \in DOMAIN History : EventFrom(r, v) /\ CommentFrom(r, v, w)

Snapshot == \A r \in Request : SnapshotOf(r)

\* A version between a request's and the one in force is one that was loaded.
LEMMA Versions ==
    ASSUME IInv
    PROVE  /\ version \in DOMAIN History /\ version \in Nat /\ DOMAIN History \subseteq Nat
           /\ \A r \in Request : since[r] \in Nat /\ since[r] <= version
BY ConstantsOK DEF IInv, TypeOK

\* The version in force only grows.
LEMMA VersionStep ==
    ASSUME IInv, [Next]_vars
    PROVE  version' \in Nat /\ version' >= version
<1>1. version' = version \/ Reload
  BY DEF Next, Step, Terminated, Serving, Handling, Acting, Stopping, ServeHTTP, demuxEvent,
         ToExternal, SpawnPost, PostReturns, StartEvent, StartComment, EndEvent, Spawn, NewAgent,
         HandlerReturns, Interrupt, CloseListener, Wait, Wake, Clean, Exit, GraceExpired, vars
<1> QED BY <1>1, Versions DEF Reload

\* An agent is made with the version in force, and no other step changes one.
LEMMA AgentsStep ==
    ASSUME IInv, [Next]_vars, NEW r \in Request, NEW k \in {"event", "comment"},
           NEW v \in Nat, v <= version, AgentsSince(r, k, v)
    PROVE  AgentsSince(r, k, v)'
<1> USE DEF AgentsSince, IInv, TypeOK
<1>1. ASSUME NEW q \in Request, NEW p \in Plugin, Spawn(q, p) PROVE AgentsSince(r, k, v)'
  BY <1>1 DEF Spawn
<1>2. ASSUME NEW g \in Goroutine, NewAgent(g) PROVE AgentsSince(r, k, v)'
  BY <1>2 DEF NewAgent
<1>3. ASSUME NEW g \in Goroutine, HandlerReturns(g) PROVE AgentsSince(r, k, v)'
  BY <1>3 DEF HandlerReturns
<1>4. CASE UNCHANGED pluginVars
  BY <1>4 DEF pluginVars
<1> QED
  BY <1>1, <1>2, <1>3, <1>4
  DEF Next, Step, Terminated, Serving, Handling, Acting, Stopping, ServeHTTP, demuxEvent,
      ToExternal, SpawnPost, PostReturns, StartEvent, StartComment, EndEvent, Reload,
      Interrupt, CloseListener, Wait, Wake, Clean, Exit, GraceExpired, vars

\* A loop keeps its version when what it started and has to start stays together.
LEMMA EventKept ==
    ASSUME IInv, [Next]_vars, NEW r \in Request, NEW v \in DOMAIN History, EventFrom(r, v),
           since'[r] = since[r], payload'[r] = payload[r],
           Ran(r, "event")' \union (IF event'[r] = "event" THEN todo'[r] ELSE {})
               = Ran(r, "event") \union (IF event[r] = "event" THEN todo[r] ELSE {})
    PROVE  EventFrom(r, v)'
<1>1. AgentsSince(r, "event", v)'
  BY AgentsStep, Versions DEF EventFrom
<1>2. v \in since'[r] .. version'
  BY Versions, VersionStep DEF EventFrom
<1> QED BY <1>1, <1>2 DEF EventFrom

LEMMA CommentKept ==
    ASSUME IInv, [Next]_vars, NEW r \in Request, NEW v \in DOMAIN History,
           NEW w \in DOMAIN History, CommentFrom(r, v, w), payload'[r] = payload[r],
           Ran(r, "comment")' \union todo'[r] = Ran(r, "comment") \union todo[r]
    PROVE  CommentFrom(r, v, w)'
<1>1. AgentsSince(r, "comment", w)'
  BY AgentsStep, Versions DEF CommentFrom
<1>2. w \in v .. version'
  BY Versions, VersionStep DEF CommentFrom
<1> QED BY <1>1, <1>2 DEF CommentFrom

\* A request whose loops a step leaves where they are keeps its snapshot.
LEMMA SnapshotKept ==
    ASSUME IInv, [Next]_vars, NEW r \in Request, SnapshotOf(r),
           event'[r] = event[r], since'[r] = since[r], payload'[r] = payload[r],
           event[r] = "event" =>
               Ran(r, "event")' \union todo'[r] = Ran(r, "event") \union todo[r],
           event[r] # "event" =>
               /\ Ran(r, "event")' = Ran(r, "event")
               /\ Ran(r, "comment")' \union todo'[r] = Ran(r, "comment") \union todo[r]
    PROVE  SnapshotOf(r)'
<1>1. ASSUME event[r] = "event" PROVE \E v \in DOMAIN History : EventFrom(r, v)'
  BY <1>1, EventKept DEF SnapshotOf
<1>2. ASSUME event[r] \in {"comment", "returned"}
      PROVE  \E v, w \in DOMAIN History : EventFrom(r, v)' /\ CommentFrom(r, v, w)'
  <2>1. PICK v, w \in DOMAIN History : EventFrom(r, v) /\ CommentFrom(r, v, w)
    BY <1>2 DEF SnapshotOf
  <2>2. EventFrom(r, v)'
    BY <1>2, <2>1, EventKept
  <2>3. CommentFrom(r, v, w)'
    BY <1>2, <2>1, CommentKept
  <2> QED BY <2>2, <2>3
<1> QED BY <1>1, <1>2 DEF SnapshotOf

\* Every step keeps the snapshots.
LEMMA SnapshotStep ==
    ASSUME IInv, Snapshot, [Next]_vars
    PROVE  Snapshot'
<1> SUFFICES ASSUME NEW r \in Request PROVE SnapshotOf(r)'
  BY DEF Snapshot
<1> USE DEF IInv, TypeOK
<1> SnapshotOf(r)
  BY DEF Snapshot
<1>1. ASSUME UNCHANGED <<event, todo, run, since, payload>> PROVE SnapshotOf(r)'
  BY <1>1, SnapshotKept DEF Ran
<1>2. ASSUME NEW q \in Request, ServeHTTP(q) PROVE SnapshotOf(r)'
  <2>1. event[q] = "none" /\ event' = event
    BY <1>2 DEF ServeHTTP, Origins, eventVars
  <2>2. CASE q = r
    BY <2>1, <2>2 DEF SnapshotOf
  <2>3. CASE q # r
    BY <1>2, <2>3, SnapshotKept DEF ServeHTTP, eventVars, pluginVars, Ran
  <2> QED BY <2>2, <2>3
<1>3. ASSUME NEW q \in Request, demuxEvent(q) PROVE SnapshotOf(r)'
  <2>1. event[q] = "none" /\ event'[q] \in {"none", "started"}
    BY <1>3 DEF demuxEvent, Origins
  <2>2. CASE q = r
    BY <2>1, <2>2 DEF SnapshotOf
  <2>3. CASE q # r
    <3>1. event'[r] = event[r]
      BY <1>3, <2>3 DEF demuxEvent
    <3> QED BY <1>3, <3>1, SnapshotKept DEF demuxEvent, pluginVars, Ran
  <2> QED BY <2>2, <2>3
<1>4. ASSUME NEW q \in Request, StartEvent(q) PROVE SnapshotOf(r)'
  <2>1. CASE q = r
    <3>1. /\ event'[r] = "event"
          /\ todo'[r] = eventHandlers(History[version], payload[r])
          /\ UNCHANGED <<version, payload, since, run>>
      BY <1>4, <2>1 DEF StartEvent, serveVars, pluginVars
    <3>2. \A p \in Plugin : run[<<r, "event", p>>] = "none"
      BY <1>4, <2>1 DEF StartEvent, Origins
    <3>3. EventFrom(r, version)'
      BY <3>1, <3>2, Versions DEF EventFrom, Ran, AgentsSince
    <3> QED BY <3>1, <3>3, Versions DEF SnapshotOf
  <2>2. CASE q # r
    BY <1>4, <2>2, SnapshotKept DEF StartEvent, serveVars, pluginVars, Ran
  <2> QED BY <2>1, <2>2
<1>5. ASSUME NEW q \in Request, StartComment(q) PROVE SnapshotOf(r)'
  <2>1. CASE q = r
    <3>1. /\ event[r] = "event" /\ event'[r] = "comment" /\ todo[r] = {}
          /\ HasComment(payload[r])
          /\ todo'[r] = commentHandlers(History[version], payload[r])
          /\ UNCHANGED <<version, payload, since, run>>
      BY <1>5, <2>1 DEF StartComment, serveVars, pluginVars
    <3>2. \A p \in Plugin : run[<<r, "comment", p>>] = "none"
      BY <3>1 DEF Origins
    <3>3. PICK v \in DOMAIN History : EventFrom(r, v)
      BY <3>1 DEF SnapshotOf
    <3>4. EventFrom(r, v)'
      BY <3>1, <3>3, EventKept DEF Ran
    <3>5. CommentFrom(r, v, version)'
      BY <3>1, <3>2, <3>3, Versions DEF CommentFrom, EventFrom, Ran, AgentsSince
    <3> QED BY <3>1, <3>4, <3>5, Versions DEF SnapshotOf
  <2>2. CASE q # r
    BY <1>5, <2>2, SnapshotKept DEF StartComment, serveVars, pluginVars, Ran
  <2> QED BY <2>1, <2>2
<1>6. ASSUME NEW q \in Request, EndEvent(q) PROVE SnapshotOf(r)'
  <2>1. UNCHANGED <<version, payload, since, run, todo>> /\ todo[q] = {}
    BY <1>6 DEF EndEvent, serveVars, pluginVars
  <2>2. CASE q = r /\ event[r] = "comment"
    <3>1. PICK v, w \in DOMAIN History : EventFrom(r, v) /\ CommentFrom(r, v, w)
      BY <2>2 DEF SnapshotOf
    <3>2. event'[r] = "returned"
      BY <1>6, <2>2 DEF EndEvent
    <3>3. EventFrom(r, v)'
      BY <2>1, <2>2, <3>1, <3>2, EventKept DEF Ran
    <3>4. CommentFrom(r, v, w)'
      BY <2>1, <3>1, CommentKept DEF Ran
    <3> QED BY <3>2, <3>3, <3>4 DEF SnapshotOf
  <2>3. CASE q = r /\ event[r] = "event" /\ ~HasComment(payload[r])
    <3>1. PICK v \in DOMAIN History : EventFrom(r, v)
      BY <2>3 DEF SnapshotOf
    <3>2. event'[r] = "returned"
      BY <1>6, <2>3 DEF EndEvent
    <3>3. EventFrom(r, v)'
      BY <2>1, <2>3, <3>1, <3>2, EventKept DEF Ran
    <3>4. \A p \in Plugin : run[<<r, "comment", p>>] = "none"
      BY <2>3 DEF Origins
    <3>5. CommentFrom(r, v, version)'
      BY <2>1, <2>3, <3>1, <3>4, Versions DEF CommentFrom, EventFrom, Ran, AgentsSince
    <3> QED BY <2>1, <3>2, <3>3, <3>5, Versions DEF SnapshotOf
  <2>4. CASE q # r
    BY <1>6, <2>1, <2>4, SnapshotKept DEF EndEvent, Ran
  <2> QED BY <1>6, <2>2, <2>3, <2>4 DEF EndEvent
<1>7. ASSUME NEW q \in Request, NEW p \in Plugin, Spawn(q, p) PROVE SnapshotOf(r)'
  <2>1. /\ event[q] \in {"event", "comment"}
        /\ p \in todo[q]
        /\ todo' = [todo EXCEPT ![q] = @ \ {p}]
        /\ run' = [run EXCEPT ![<<q, event[q], p>>] = "started"]
        /\ UNCHANGED <<version, payload, since, event>>
    BY <1>7 DEF Spawn, serveVars, Origins
  <2>2. CASE q # r
    BY <2>1, <2>2, SnapshotKept DEF Ran
  <2>3. CASE q = r
    <3>1. Ran(r, event[r])' = Ran(r, event[r]) \union {p}
      BY <2>1, <2>3 DEF Ran
    <3>2. event[r] # "event" => Ran(r, "event")' = Ran(r, "event")
      BY <2>1, <2>3 DEF Ran
    <3>3. Ran(r, event[r])' \union todo'[r] = Ran(r, event[r]) \union todo[r]
      BY <2>1, <2>3, <3>1
    <3> QED BY <2>1, <2>3, <3>2, <3>3, SnapshotKept
  <2> QED BY <2>2, <2>3
<1>8. ASSUME NEW g \in Goroutine, NewAgent(g) \/ HandlerReturns(g) PROVE SnapshotOf(r)'
  <2>1. UNCHANGED <<event, todo, since, payload>>
    BY <1>8 DEF NewAgent, HandlerReturns, serveVars, eventVars
  <2>2. \A h \in Goroutine : run'[h] = "none" <=> run[h] = "none"
    BY <1>8 DEF NewAgent, HandlerReturns
  <2>3. \A k \in {"event", "comment"} : Ran(r, k)' = Ran(r, k)
    BY <2>2 DEF Ran
  <2> QED BY <2>1, <2>3, SnapshotKept
<1>9. ASSUME NEW q \in Request, \/ ToExternal(q)
                                \/ \E x \in Entry : SpawnPost(q, x) \/ PostReturns(q, x)
      PROVE  SnapshotOf(r)'
  BY <1>1, <1>9 DEF ToExternal, SpawnPost, PostReturns, serveVars, eventVars, pluginVars
<1>10. ASSUME Reload \/ Stopping \/ UNCHANGED vars PROVE SnapshotOf(r)'
  BY <1>1, <1>10 DEF Reload, Stopping, Interrupt, CloseListener, Wait, Wake, Clean, Exit,
                     GraceExpired, vars, serveVars, eventVars, pluginVars
<1> QED
  BY <1>2, <1>3, <1>4, <1>5, <1>6, <1>7, <1>8, <1>9, <1>10
  DEF Next, Step, Terminated, Serving, Handling, Acting

\* Whatever is reloaded while an event is handled, its handlers, its comment's handlers
\* and their agents come from configurations in the order of the code's steps.
THEOREM SnapshotsAreOrdered == Spec => []SnapshotsInOrder
<1>1. Init => Snapshot
  BY DEF Init, Snapshot, SnapshotOf
<1>2. IInv /\ Snapshot => SnapshotsInOrder
  <2> SUFFICES ASSUME IInv, Snapshot, NEW r \in Request, event[r] = "returned"
               PROVE  \E v \in since[r] .. version : \E w \in v .. version :
                          /\ Ran(r, "event") = eventHandlers(History[v], payload[r])
                          /\ Ran(r, "comment") = IF HasComment(payload[r])
                                 THEN commentHandlers(History[w], payload[r]) ELSE {}
                          /\ AgentsSince(r, "event", v)
                          /\ AgentsSince(r, "comment", w)
    BY DEF SnapshotsInOrder
  <2>1. todo[r] = {}
    BY DEF IInv, Origins
  <2>2. PICK v, w \in DOMAIN History : EventFrom(r, v) /\ CommentFrom(r, v, w)
    BY DEF Snapshot, SnapshotOf
  <2> QED BY <2>1, <2>2 DEF EventFrom, CommentFrom
<1> QED BY <1>1, <1>2, SnapshotStep, Invariance, PTL DEF Spec

-----------------------------------------------------------------------------
(* The server implements a graceful service.                               *)

JobOf == [r \in Request |-> IF event[r] = "none" THEN "new"
                            ELSE IF Handled(r) THEN "done" ELSE "accepted"]

PhaseOf == IF shutdown = "idle" THEN "up"
           ELSE IF shutdown = "cleaned" THEN "stopped" ELSE "draining"

\* A step that leaves jobs and phase alone is a stuttering step of the service.
LEMMA GracefulStutter ==
    ASSUME JobOf' = JobOf, PhaseOf' = PhaseOf, owed' = owed
    PROVE  [Graceful!Next]_(Graceful!vars)
BY DEF Graceful!vars, JobOf, PhaseOf

\* A step that moves one job is one of its two actions.
LEMMA GracefulMove ==
    ASSUME NEW r \in Request, PhaseOf' = PhaseOf, owed' = owed,
           \A s \in Request \ {r} : JobOf'[s] = JobOf[s],
           \/ JobOf'[r] = JobOf[r]
           \/ JobOf[r] = "new" /\ JobOf'[r] = "accepted"
           \/ JobOf[r] = "accepted" /\ JobOf'[r] = "done"
    PROVE  [Graceful!Next]_(Graceful!vars)
<1>1. JobOf' = [JobOf EXCEPT ![r] = JobOf'[r]]
  BY DEF JobOf
<1>2. CASE JobOf'[r] = JobOf[r]
  <2>1. JobOf' = JobOf
    BY <1>2 DEF JobOf
  <2> QED BY <2>1, GracefulStutter
<1>3. CASE JobOf[r] = "new" /\ JobOf'[r] = "accepted"
  <2>1. Graceful!Accept(r)
    BY <1>1, <1>3 DEF Graceful!Accept, JobOf, PhaseOf
  <2> QED BY <2>1 DEF Graceful!Next
<1>4. CASE JobOf[r] = "accepted" /\ JobOf'[r] = "done"
  <2>1. Graceful!Finish(r)
    BY <1>1, <1>4 DEF Graceful!Finish, JobOf, PhaseOf
  <2> QED BY <2>1 DEF Graceful!Next
<1> QED BY <1>2, <1>3, <1>4

\* Only steps of event goroutines and handlers, the interrupt and Clean move the
\* service.
LEMMA GracefulStep ==
    ASSUME IInv, [Next]_vars
    PROVE  [Graceful!Next]_(Graceful!vars)
<1> USE DEF IInv, TypeOK
<1>1. ASSUME wgDone PROVE PhaseOf' = PhaseOf
  BY <1>1 DEF wgDone, PhaseOf
<1>2. ASSUME UNCHANGED <<event, run, owed>>, PhaseOf' = PhaseOf
      PROVE  [Graceful!Next]_(Graceful!vars)
  BY <1>2, GracefulStutter DEF JobOf, Handled
<1>3. ASSUME NEW r \in Request, demuxEvent(r) PROVE [Graceful!Next]_(Graceful!vars)
  <2>1. /\ event[r] = "none"
        /\ event'[r] \in {"none", "started"}
        /\ \A s \in Request \ {r} : event'[s] = event[s]
        /\ UNCHANGED <<run, shutdown, owed>>
    BY <1>3 DEF demuxEvent, wgAdd, pluginVars, stopVars, Origins
  <2> QED BY <2>1, GracefulMove DEF JobOf, PhaseOf, Handled
<1>4. ASSUME NEW r \in Request, StartEvent(r) \/ StartComment(r)
      PROVE  [Graceful!Next]_(Graceful!vars)
  <2>1. JobOf' = JobOf
    BY <1>4 DEF StartEvent, StartComment, JobOf, Handled, pluginVars
  <2> QED BY <1>4, <2>1, GracefulStutter DEF StartEvent, StartComment, PhaseOf, stopVars
<1>5. ASSUME NEW r \in Request, EndEvent(r) PROVE [Graceful!Next]_(Graceful!vars)
  <2>1. /\ event[r] \in {"event", "comment"}
        /\ event' = [event EXCEPT ![r] = "returned"]
        /\ UNCHANGED <<run, owed>>
        /\ PhaseOf' = PhaseOf
    BY <1>5, <1>1 DEF EndEvent, pluginVars, stopVars
  <2> QED BY <2>1, GracefulMove DEF JobOf, Handled
<1>6. ASSUME NEW r \in Request, NEW p \in Plugin, Spawn(r, p)
      PROVE  [Graceful!Next]_(Graceful!vars)
  <2>1. event[r] \in {"event", "comment"} /\ UNCHANGED event
    BY <1>6 DEF Spawn, Origins
  <2>2. \A g \in Goroutine : g[1] # r => run'[g] = run[g]
    BY <1>6 DEF Spawn
  <2>3. JobOf' = JobOf
    BY <2>1, <2>2 DEF JobOf, Handled
  <2> QED BY <1>6, <2>3, GracefulStutter DEF Spawn, wgAdd, PhaseOf, stopVars
<1>7. ASSUME NEW g \in Goroutine, NewAgent(g) PROVE [Graceful!Next]_(Graceful!vars)
  <2>1. \A h \in Goroutine : run'[h] \in {"none", "ended"} <=> run[h] \in {"none", "ended"}
    BY <1>7 DEF NewAgent
  <2>2. JobOf' = JobOf
    BY <1>7, <2>1 DEF NewAgent, eventVars, JobOf, Handled
  <2> QED BY <1>7, <2>2, GracefulStutter DEF NewAgent, PhaseOf, stopVars
<1>8. ASSUME NEW g \in Goroutine, HandlerReturns(g) PROVE [Graceful!Next]_(Graceful!vars)
  <2>1. PICK r \in Request, k \in {"event", "comment"}, p \in Plugin : g = <<r, k, p>>
    OBVIOUS
  <2>2. /\ event[r] \in {"event", "comment", "returned"}
        /\ run[g] = "acting"
        /\ run' = [run EXCEPT ![g] = "ended"]
        /\ UNCHANGED <<event, owed>>
        /\ PhaseOf' = PhaseOf
    BY <1>8, <1>1, <2>1 DEF HandlerReturns, eventVars, stopVars, Origins
  <2>3. \A s \in Request \ {r} : JobOf'[s] = JobOf[s]
    BY <2>1, <2>2 DEF JobOf, Handled
  <2>4. JobOf[r] = "accepted" /\ JobOf'[r] \in {"accepted", "done"}
    BY <2>1, <2>2 DEF JobOf, Handled
  <2> QED BY <2>2, <2>3, <2>4, GracefulMove
<1>9. ASSUME Interrupt PROVE [Graceful!Next]_(Graceful!vars)
  <2>1. Graceful!Interrupt
    BY <1>9 DEF Interrupt, Graceful!Interrupt, eventVars, pluginVars, Handled
  <2> QED BY <2>1 DEF Graceful!Next
<1>10. ASSUME Clean PROVE [Graceful!Next]_(Graceful!vars)
  <2>1. \A r \in owed : Handled(r)
    BY <1>10 DEF Clean, Owing, CleanAfterHandlers
  <2>2. Graceful!Stop
    BY <1>10, <2>1 DEF Clean, Graceful!Stop, eventVars, pluginVars, stopVars, Handled
  <2> QED BY <2>2 DEF Graceful!Next
<1>11. ASSUME NEW r \in Request, \/ ServeHTTP(r) \/ ToExternal(r)
                                 \/ \E x \in Entry : SpawnPost(r, x) \/ PostReturns(r, x)
       PROVE  [Graceful!Next]_(Graceful!vars)
  <2>1. UNCHANGED <<event, run, owed>> /\ PhaseOf' = PhaseOf
    BY <1>11, <1>1 DEF ServeHTTP, ToExternal, SpawnPost, PostReturns, wgAdd, eventVars,
                       pluginVars, stopVars, PhaseOf
  <2> QED BY <2>1, <1>2
<1>12. ASSUME Reload \/ CloseListener \/ Wait \/ Wake \/ Exit \/ GraceExpired \/ UNCHANGED vars
       PROVE  [Graceful!Next]_(Graceful!vars)
  <2>1. UNCHANGED <<event, run, owed>> /\ PhaseOf' = PhaseOf
    BY <1>12 DEF Reload, CloseListener, Wait, Wake, Exit, GraceExpired, vars, eventVars,
                 pluginVars, stopVars, PhaseOf
  <2> QED BY <2>1, <1>2
<1> QED
  BY <1>3, <1>4, <1>5, <1>6, <1>7, <1>8, <1>9, <1>10, <1>11, <1>12
  DEF Next, Step, Terminated, Serving, Handling, Acting, Stopping

\* Whatever its instance, the server stops only after the requests it had accepted when
\* the interrupt arrived are handled, their generic comments included.
THEOREM ServerIsGraceful == Spec => ImplementsGraceful
<1>1. Init => Graceful!Init
  BY DEF Init, Graceful!Init, Handled
<1> QED BY <1>1, GracefulStep, Invariance, PTL DEF Spec, ImplementsGraceful, Graceful!Spec
=============================================================================
