-------------------------- MODULE DispatcherProofs --------------------------
(***************************************************************************)
(* Proofs about Dispatcher, for any number of requests, plugins, external  *)
(* plugins and configurations.                                             *)
(*                                                                         *)
(* CleanAfterHandlers is not inductive: that the counter is zero says that *)
(* nothing runs only because the counter is exact, and the counter stays   *)
(* exact only because a goroutine that is started did not already run.     *)
(* IInv adds those facts.                                                  *)
(***************************************************************************)
EXTENDS Dispatcher, FiniteSetTheorems, TLAPS

USE DEF HookType

Counting == /\ IsFiniteSet(Live)
            /\ CounterExact

\* Nothing runs for a request before its goroutine of origin got there, and what
\* is still to be started does not run yet.
Origins ==
    \A r \in Request :
        /\ req[r] # "idle" => payload[r] \in Payload
        /\ handler[r] # "none" => req[r] \in {"demuxed", "served"}
        /\ handler[r] # "looping" => todo[r] = {}
        /\ \A p \in Plugin : <<r, p>> \in running =>
                /\ handler[r] \in {"looping", "returned"}
                /\ p \notin todo[r]
        /\ req[r] # "served" => extTodo[r] = {}
        /\ \A x \in Entry \X External : <<r, x>> \in posting =>
                /\ req[r] = "served"
                /\ x \notin extTodo[r]

Owing ==
    /\ \A r \in owed : handler[r] # "none"
    /\ CleanAfterHandlers

IInv == TypeOK /\ Counting /\ Origins /\ Owing

-----------------------------------------------------------------------------
\* The plugins and the entries that an event is given to are plugins and entries.
LEMMA HandlersType ==
    ASSUME NEW c \in Configs, NEW p \in Payload
    PROVE  /\ handlersFor(c, p) \subseteq Plugin
           /\ needDispatchExternalPlugins(c, p) \subseteq Entry \X External
<1>1. \A k \in DOMAIN c.plugins : c.plugins[k] \subseteq Plugin
  BY ConstantsOK DEF ConfigOK
<1>2. \A owner, repo : getPlugins(c, owner, repo) \subseteq Plugin
  BY <1>1 DEF getPlugins
<1>3. handlersFor(c, p) \subseteq Plugin
  BY <1>2 DEF handlersFor
<1>4. DOMAIN c.external \subseteq Entry
  BY DEF Entry
<1>5. needDispatchExternalPlugins(c, p) \subseteq Entry \X External
  BY <1>4 DEF needDispatchExternalPlugins
<1> QED BY <1>3, <1>5

\* Every step changes Live the way it changes the counter.
LEMMA CountUp ==
    ASSUME Counting, counter \in Nat, NEW g, g \notin Live,
           Live' = Live \union {g}, counter' = counter + 1
    PROVE  Counting' /\ counter' \in Nat
BY FS_AddElement, FS_CardinalityType DEF Counting, CounterExact

LEMMA CountDown ==
    ASSUME Counting, counter \in Nat, NEW g, g \in Live,
           Live' = Live \ {g}, counter' = counter - 1
    PROVE  Counting' /\ counter' \in Nat
<1>1. /\ IsFiniteSet(Live')
      /\ Cardinality(Live') = Cardinality(Live) - 1
  BY FS_RemoveElement DEF Counting
<1>2. Cardinality(Live') \in Nat
  BY <1>1, FS_CardinalityType
<1> QED BY <1>1, <1>2 DEF Counting, CounterExact

LEMMA CountSame ==
    ASSUME Counting, counter \in Nat, UNCHANGED <<handler, running, posting, counter>>
    PROVE  Counting' /\ counter' \in Nat
BY DEF Counting, CounterExact, Live

-----------------------------------------------------------------------------
\* The counter follows the goroutines in every step.
LEMMA CountStep ==
    ASSUME IInv, [Next]_vars
    PROVE  Counting' /\ counter' \in Nat
<1> USE DEF IInv, TypeOK
<1> counter \in Nat /\ Counting
  OBVIOUS
<1>1. ASSUME NEW r \in Request, ServeHTTP(r) PROVE Counting' /\ counter' \in Nat
  BY <1>1, CountSame DEF ServeHTTP, eventVars, extVars
<1>2. ASSUME NEW r \in Request, Dispatch(r) PROVE Counting' /\ counter' \in Nat
  <2>1. UNCHANGED <<running, posting>>
    BY <1>2 DEF Dispatch, extVars
  <2>2. CASE UNCHANGED <<handler, counter>>
    BY <2>1, <2>2, CountSame
  <2>3. CASE handler' = [handler EXCEPT ![r] = "started"] /\ wgAdd
    <3>1. <<"event", r>> \notin Live
      BY <1>2 DEF Dispatch, Live, Origins
    <3>2. Live' = Live \union {<<"event", r>>}
      BY <2>1, <2>3 DEF Live
    <3> QED BY <2>3, <3>1, <3>2, CountUp DEF wgAdd
  <2> QED BY <1>2, <2>2, <2>3 DEF Dispatch
<1>3. ASSUME NEW r \in Request, DispatchToExternal(r) PROVE Counting' /\ counter' \in Nat
  BY <1>3, CountSame DEF DispatchToExternal, eventVars
<1>4. ASSUME NEW r \in Request, StartLoop(r) PROVE Counting' /\ counter' \in Nat
  <2>1. Live' = Live
    BY <1>4 DEF StartLoop, Live, extVars
  <2>2. counter' = counter
    BY <1>4 DEF StartLoop
  <2> QED BY <2>1, <2>2 DEF Counting, CounterExact
<1>5. ASSUME NEW r \in Request, EndLoop(r) PROVE Counting' /\ counter' \in Nat
  <2>1. <<"event", r>> \in Live
    BY <1>5 DEF EndLoop, Live
  <2>2. Live' = Live \ {<<"event", r>>}
    BY <1>5 DEF EndLoop, Live, extVars
  <2> QED BY <1>5, <2>1, <2>2, CountDown DEF EndLoop, wgDone
<1>6. ASSUME NEW r \in Request, NEW p \in Plugin, SpawnPlugin(r, p)
      PROVE  Counting' /\ counter' \in Nat
  <2>1. <<"plugin", <<r, p>>>> \notin Live
    BY <1>6 DEF SpawnPlugin, Live, Origins
  <2>2. Live' = Live \union {<<"plugin", <<r, p>>>>}
    BY <1>6 DEF SpawnPlugin, Live, extVars
  <2> QED BY <1>6, <2>1, <2>2, CountUp DEF SpawnPlugin, wgAdd
<1>7. ASSUME NEW r \in Request, NEW p \in Plugin, PluginReturns(r, p)
      PROVE  Counting' /\ counter' \in Nat
  <2>1. <<"plugin", <<r, p>>>> \in Live
    BY <1>7 DEF PluginReturns, Live
  <2>2. Live' = Live \ {<<"plugin", <<r, p>>>>}
    BY <1>7 DEF PluginReturns, Live, extVars
  <2> QED BY <1>7, <2>1, <2>2, CountDown DEF PluginReturns, wgDone
<1>8. ASSUME NEW r \in Request, NEW x \in Entry \X External, SpawnPost(r, x)
      PROVE  Counting' /\ counter' \in Nat
  <2>1. <<"post", <<r, x>>>> \notin Live
    BY <1>8 DEF SpawnPost, Live, Origins
  <2>2. Live' = Live \union {<<"post", <<r, x>>>>}
    BY <1>8 DEF SpawnPost, Live, eventVars
  <2> QED BY <1>8, <2>1, <2>2, CountUp DEF SpawnPost, wgAdd
<1>9. ASSUME NEW r \in Request, NEW x \in Entry \X External, PostReturns(r, x)
      PROVE  Counting' /\ counter' \in Nat
  <2>1. <<"post", <<r, x>>>> \in Live
    BY <1>9 DEF PostReturns, Live
  <2>2. Live' = Live \ {<<"post", <<r, x>>>>}
    BY <1>9 DEF PostReturns, Live, eventVars
  <2> QED BY <1>9, <2>1, <2>2, CountDown DEF PostReturns, wgDone
<1>10. ASSUME Reload \/ Stopping \/ UNCHANGED vars PROVE Counting' /\ counter' \in Nat
  <2>1. UNCHANGED <<handler, running, posting, counter>>
    BY <1>10 DEF Reload, Stopping, Interrupt, CloseListener, Wait, Wake, Clean, Exit,
                 GraceExpired, vars, eventVars, extVars
  <2> QED BY <2>1, CountSame
<1> QED
  BY <1>1, <1>2, <1>3, <1>4, <1>5, <1>6, <1>7, <1>8, <1>9, <1>10
  DEF Next, Step, Terminated, Serving, Handling, Posting

\* Every step keeps the types.
LEMMA TypeStep ==
    ASSUME IInv, [Next]_vars
    PROVE  TypeOK'
<1> USE DEF IInv, TypeOK
<1>1. ASSUME NEW r \in Request, ServeHTTP(r) PROVE TypeOK'
  BY <1>1, CountStep DEF ServeHTTP, eventVars, extVars, stopVars, ReqState
<1>2. ASSUME NEW r \in Request, Dispatch(r) PROVE TypeOK'
  BY <1>2, CountStep DEF Dispatch, wgAdd, extVars, stopVars, ReqState
<1>3. ASSUME NEW r \in Request, DispatchToExternal(r) PROVE TypeOK'
  <2>1. payload[r] \in Payload
    BY <1>3 DEF DispatchToExternal, Origins
  <2>2. needDispatchExternalPlugins(config, payload[r]) \subseteq Entry \X External
    BY <2>1, HandlersType
  <2> QED BY <1>3, <2>2, CountStep DEF DispatchToExternal, eventVars, stopVars, ReqState
<1>4. ASSUME NEW r \in Request, StartLoop(r) PROVE TypeOK'
  <2>1. payload[r] \in Payload
    BY <1>4 DEF StartLoop, Origins
  <2>2. handlersFor(config, payload[r]) \subseteq Plugin
    BY <2>1, HandlersType
  <2> QED BY <1>4, <2>2, CountStep DEF StartLoop, serveVars, extVars, stopVars
<1>5. ASSUME NEW r \in Request, EndLoop(r) PROVE TypeOK'
  BY <1>5, CountStep DEF EndLoop, wgDone, serveVars, extVars, stopVars
<1>6. ASSUME NEW r \in Request, NEW p \in Plugin, SpawnPlugin(r, p) PROVE TypeOK'
  BY <1>6, CountStep DEF SpawnPlugin, wgAdd, serveVars, extVars, stopVars
<1>7. ASSUME NEW r \in Request, NEW p \in Plugin, PluginReturns(r, p) PROVE TypeOK'
  BY <1>7, CountStep DEF PluginReturns, wgDone, serveVars, extVars, stopVars
<1>8. ASSUME NEW r \in Request, NEW x \in Entry \X External, SpawnPost(r, x) PROVE TypeOK'
  BY <1>8, CountStep DEF SpawnPost, wgAdd, serveVars, eventVars, stopVars
<1>9. ASSUME NEW r \in Request, NEW x \in Entry \X External, PostReturns(r, x) PROVE TypeOK'
  BY <1>9, CountStep DEF PostReturns, wgDone, serveVars, eventVars, stopVars
<1>10. ASSUME Reload \/ Stopping \/ UNCHANGED vars PROVE TypeOK'
  BY <1>10, CountStep DEF Reload, Stopping, Interrupt, CloseListener, Wait, Wake, Clean, Exit,
         GraceExpired, vars, serveVars, eventVars, extVars, stopVars
<1> QED
  BY <1>1, <1>2, <1>3, <1>4, <1>5, <1>6, <1>7, <1>8, <1>9, <1>10
  DEF Next, Step, Terminated, Serving, Handling, Posting

\* Every step keeps the order of a request's goroutines.
LEMMA OriginsStep ==
    ASSUME IInv, [Next]_vars
    PROVE  Origins'
<1> USE DEF IInv, TypeOK, Origins
<1>1. ASSUME NEW r \in Request, ServeHTTP(r) PROVE Origins'
  BY <1>1 DEF ServeHTTP, eventVars, extVars, stopVars, ReqState
<1>2. ASSUME NEW r \in Request, Dispatch(r) PROVE Origins'
  BY <1>2 DEF Dispatch, wgAdd, extVars, stopVars, ReqState
<1>3. ASSUME NEW r \in Request, DispatchToExternal(r) PROVE Origins'
  BY <1>3 DEF DispatchToExternal, eventVars, stopVars, ReqState
<1>4. ASSUME NEW r \in Request, StartLoop(r) PROVE Origins'
  BY <1>4 DEF StartLoop, serveVars, extVars, stopVars
<1>5. ASSUME NEW r \in Request, EndLoop(r) PROVE Origins'
  BY <1>5 DEF EndLoop, wgDone, serveVars, extVars, stopVars
<1>6. ASSUME NEW r \in Request, NEW p \in Plugin, SpawnPlugin(r, p) PROVE Origins'
  BY <1>6 DEF SpawnPlugin, wgAdd, serveVars, extVars, stopVars
<1>7. ASSUME NEW r \in Request, NEW p \in Plugin, PluginReturns(r, p) PROVE Origins'
  BY <1>7 DEF PluginReturns, wgDone, serveVars, extVars, stopVars
<1>8. ASSUME NEW r \in Request, NEW x \in Entry \X External, SpawnPost(r, x) PROVE Origins'
  BY <1>8 DEF SpawnPost, wgAdd, serveVars, eventVars, stopVars
<1>9. ASSUME NEW r \in Request, NEW x \in Entry \X External, PostReturns(r, x) PROVE Origins'
  BY <1>9 DEF PostReturns, wgDone, serveVars, eventVars, stopVars
<1>10. ASSUME Reload \/ Stopping \/ UNCHANGED vars PROVE Origins'
  BY <1>10 DEF Reload, Stopping, Interrupt, CloseListener, Wait, Wake, Clean, Exit,
         GraceExpired, vars, serveVars, eventVars, extVars, stopVars
<1> QED
  BY <1>1, <1>2, <1>3, <1>4, <1>5, <1>6, <1>7, <1>8, <1>9, <1>10
  DEF Next, Step, Terminated, Serving, Handling, Posting

\* When the counter is zero no event goroutine and no plugin runs.
LEMMA ZeroMeansQuiet ==
    ASSUME IInv, counter = 0
    PROVE  \A r \in owed : Handled(r)
<1>1. Live = {}
  BY FS_EmptySet DEF IInv, Counting, CounterExact
<1>2. ASSUME NEW r \in owed PROVE handler[r] = "returned"
  <2>1. handler[r] \in {"started", "looping"} => <<"event", r>> \in Live
    BY DEF Live, IInv, TypeOK
  <2> QED BY <1>1, <2>1 DEF IInv, TypeOK, Owing
<1>3. running = {}
  BY <1>1 DEF Live
<1> QED BY <1>2, <1>3 DEF Handled

\* The wait is over only when the owed requests are handled, and they stay so.
LEMMA OwingStep ==
    ASSUME IInv, [Next]_vars
    PROVE  Owing'
<1> USE DEF IInv, TypeOK, Owing, CleanAfterHandlers, Handled
<1>1. ASSUME NEW r \in Request, ServeHTTP(r) PROVE Owing'
  BY <1>1 DEF ServeHTTP, eventVars, extVars, stopVars, ReqState
<1>2. ASSUME NEW r \in Request, Dispatch(r) PROVE Owing'
  <2>1. handler[r] = "none"
    BY <1>2 DEF Dispatch, Origins
  <2>2. r \notin owed
    BY <2>1
  <2>3. /\ \A s \in Request \ {r} : handler'[s] = handler[s]
        /\ handler'[r] \in {"none", "started"}
        /\ UNCHANGED <<owed, running, shutdown>>
    BY <1>2, <2>1 DEF Dispatch, wgAdd, extVars, stopVars
  <2> QED BY <2>2, <2>3
<1>3. ASSUME NEW r \in Request, DispatchToExternal(r) PROVE Owing'
  BY <1>3 DEF DispatchToExternal, eventVars, stopVars, ReqState
<1>4. ASSUME NEW r \in Request, StartLoop(r) PROVE Owing'
  BY <1>4 DEF StartLoop, serveVars, extVars, stopVars
<1>5. ASSUME NEW r \in Request, EndLoop(r) PROVE Owing'
  BY <1>5 DEF EndLoop, wgDone, serveVars, extVars, stopVars
<1>6. ASSUME NEW r \in Request, NEW p \in Plugin, SpawnPlugin(r, p) PROVE Owing'
  BY <1>6 DEF SpawnPlugin, wgAdd, serveVars, extVars, stopVars
<1>7. ASSUME NEW r \in Request, NEW p \in Plugin, PluginReturns(r, p) PROVE Owing'
  BY <1>7 DEF PluginReturns, wgDone, serveVars, extVars, stopVars
<1>8. ASSUME NEW r \in Request, NEW x \in Entry \X External, SpawnPost(r, x) PROVE Owing'
  BY <1>8 DEF SpawnPost, wgAdd, serveVars, eventVars, stopVars
<1>9. ASSUME NEW r \in Request, NEW x \in Entry \X External, PostReturns(r, x) PROVE Owing'
  BY <1>9 DEF PostReturns, wgDone, serveVars, eventVars, stopVars
<1>10. ASSUME Reload \/ Stopping \/ UNCHANGED vars PROVE Owing'
  <2>1. CASE Interrupt
    BY <2>1 DEF Interrupt, eventVars
  <2>2. CASE Wait
    BY <2>2, ZeroMeansQuiet DEF Wait, eventVars, stopVars
  <2>3. CASE Wake
    BY <2>3, ZeroMeansQuiet DEF Wake, eventVars
  <2>4. CASE Clean
    BY <2>4 DEF Clean, eventVars, stopVars
  <2>5. CASE Reload \/ CloseListener \/ Exit \/ GraceExpired \/ UNCHANGED vars
    BY <2>5 DEF Reload, CloseListener, Exit, GraceExpired, vars, eventVars, stopVars
  <2> QED BY <1>10, <2>1, <2>2, <2>3, <2>4, <2>5 DEF Stopping
<1> QED
  BY <1>1, <1>2, <1>3, <1>4, <1>5, <1>6, <1>7, <1>8, <1>9, <1>10
  DEF Next, Step, Terminated, Serving, Handling, Posting

-----------------------------------------------------------------------------
\* The initial states satisfy the invariant.
LEMMA InitIInv == Init => IInv
<1> SUFFICES ASSUME Init PROVE IInv
  OBVIOUS
<1>1. TypeOK
  BY DEF Init, TypeOK, ReqState
<1>2. Live = {}
  BY DEF Init, Live
<1>3. Counting
  BY <1>2, FS_EmptySet DEF Init, Counting, CounterExact
<1>4. Origins /\ Owing
  BY DEF Init, Origins, Owing, CleanAfterHandlers
<1> QED BY <1>1, <1>3, <1>4 DEF IInv

\* IInv is an invariant of the dispatcher.
THEOREM Invariance == Spec => []IInv
<1>1. IInv /\ [Next]_vars => IInv'
  BY CountStep, TypeStep, OriginsStep, OwingStep DEF IInv
<1> QED BY InitIInv, <1>1, PTL DEF Spec

\* The wait group's counter is never negative, and every variable keeps its type.
THEOREM TypeCorrect == Spec => []TypeOK
<1>1. IInv => TypeOK
  BY DEF IInv
<1> QED BY Invariance, <1>1, PTL

\* The counter is the number of goroutines that the wait group is to await, in
\* whatever order requests, plugins and posts start and end.
THEOREM CounterCorrect == Spec => []CounterExact
<1>1. IInv => CounterExact
  BY DEF IInv, Counting
<1> QED BY Invariance, <1>1, PTL

\* The git cache is not removed before the handlers of every request counted by
\* the interrupt have returned.
THEOREM CleanIsSafe == Spec => []CleanAfterHandlers
<1>1. IInv => CleanAfterHandlers
  BY DEF IInv, Owing
<1> QED BY Invariance, <1>1, PTL

-----------------------------------------------------------------------------
(* What a panic of the shutdown leaves.                                    *)

\* When a post that adds itself to the released wait group makes the process panic, no
\* handler that the interrupt waited for is cut off (Wake).
PanicCutsNoneOff == process = "panicked" => \A r \in owed : Handled(r)

\* The wait is released when the owed requests are handled.
Released ==
    /\ shutdown = "woken" => \A r \in owed : Handled(r)
    /\ process = "panicked" => shutdown = "woken"

\* ZeroMeansQuiet for the state after a step.
LEMMA QuietLater == (IInv /\ counter = 0 => \A r \in owed : Handled(r))'
<1>1. IInv /\ counter = 0 => \A r \in owed : Handled(r)
  BY ZeroMeansQuiet
<1> QED BY <1>1, PTL

\* Only the last Done releases it.
LEMMA ReleasedAtZero ==
    ASSUME IInv, [Next]_vars, shutdown # "woken", shutdown' = "woken"
    PROVE  counter' = 0
<1>1. CASE wgDone
  BY <1>1 DEF wgDone, IInv, TypeOK
<1>2. CASE UNCHANGED shutdown
  BY <1>2
<1>3. \/ wgDone \/ UNCHANGED shutdown \/ shutdown' \in {"interrupted", "drained", "waiting", "cleaned"}
  BY DEF Next, Step, Terminated, Serving, Handling, Posting, Stopping, ServeHTTP, Dispatch,
         DispatchToExternal, StartLoop, EndLoop, SpawnPlugin, PluginReturns, SpawnPost,
         PostReturns, Reload, Interrupt, CloseListener, Wait, Wake, Clean, Exit,
         GraceExpired, vars, stopVars, wgAdd
<1> QED BY <1>1, <1>2, <1>3

\* What was handled stays handled.
LEMMA HandledStays ==
    ASSUME IInv, [Next]_vars, shutdown = "woken", NEW r \in owed, Handled(r)
    PROVE  Handled(r)' /\ owed' = owed
<1> USE DEF Handled
<1>1. handler[r] = "returned" /\ r \in Request
  BY DEF IInv, TypeOK
<1>2. CASE Serving
  <2>1. ASSUME NEW s \in Request, ServeHTTP(s) \/ DispatchToExternal(s)
        PROVE  Handled(r)' /\ owed' = owed
    BY <2>1 DEF ServeHTTP, DispatchToExternal, eventVars, extVars, stopVars
  <2>2. ASSUME NEW s \in Request, Dispatch(s) PROVE Handled(r)' /\ owed' = owed
    <3>1. handler[s] = "none" /\ s # r
      BY <1>1, <2>2 DEF Dispatch, IInv, Origins
    <3> QED BY <2>2, <3>1 DEF Dispatch, wgAdd, extVars, stopVars, IInv, TypeOK
  <2> QED BY <1>2, <2>1, <2>2 DEF Serving
<1>3. CASE Handling
  BY <1>1, <1>3 DEF Handling, StartLoop, EndLoop, SpawnPlugin, PluginReturns, wgAdd, wgDone,
         serveVars, extVars, stopVars, IInv, TypeOK
<1>4. CASE Posting \/ Reload \/ Stopping \/ UNCHANGED vars
  BY <1>4 DEF Posting, SpawnPost, PostReturns, wgAdd, wgDone, Reload, Stopping, Interrupt,
         CloseListener, Wait, Wake, Clean, Exit, GraceExpired, vars, serveVars, eventVars,
         extVars, stopVars
<1> QED BY <1>2, <1>3, <1>4 DEF Next, Step, Terminated

\* After a panic nothing happens, and it comes from a released wait.
LEMMA PanicStays ==
    ASSUME IInv, [Next]_vars, process = "panicked" => shutdown = "woken", process' = "panicked"
    PROVE  shutdown' = "woken"
<1>1. CASE process = "panicked"
  BY <1>1 DEF Next, Step, Terminated, vars, stopVars
<1>2. CASE process # "panicked"
  BY <1>2 DEF Next, Step, Terminated, Serving, Handling, Posting, Stopping, ServeHTTP, Dispatch,
         DispatchToExternal, StartLoop, EndLoop, SpawnPlugin, PluginReturns, SpawnPost,
         PostReturns, Reload, Interrupt, CloseListener, Wait, Wake, Clean, Exit,
         GraceExpired, vars, stopVars
<1> QED BY <1>1, <1>2

\* A panic of the shutdown cuts off only what came after the interrupt, and posts.
THEOREM PanicIsLate == Spec => []PanicCutsNoneOff
<1>1. Init => Released
  BY DEF Init, Released
<1>2. IInv /\ IInv' /\ Released /\ [Next]_vars => Released'
  <2> SUFFICES ASSUME IInv, IInv', Released, [Next]_vars PROVE Released'
    OBVIOUS
  <2>1. CASE shutdown' = "woken" /\ shutdown # "woken"
    BY <2>1, ReleasedAtZero, QuietLater, PanicStays DEF Released
  <2>2. CASE shutdown' = "woken" /\ shutdown = "woken"
    <3>1. \A r \in owed : Handled(r)' /\ owed' = owed
      BY <2>2, HandledStays DEF Released
    <3>2. owed' = owed
      BY <2>2 DEF Next, Step, Terminated, Serving, Handling, Posting, Stopping, ServeHTTP,
             Dispatch, DispatchToExternal, StartLoop, EndLoop, SpawnPlugin, PluginReturns,
             SpawnPost, PostReturns, Reload, Interrupt, CloseListener, Wait, Wake, Clean, Exit,
             GraceExpired, vars, stopVars
    <3> QED BY <3>1, <3>2, <2>2, PanicStays DEF Released
  <2>3. CASE shutdown' # "woken"
    BY <2>3, PanicStays DEF Released
  <2> QED BY <2>1, <2>2, <2>3
<1>3. Released => PanicCutsNoneOff
  BY DEF Released, PanicCutsNoneOff
<1> QED BY Invariance, <1>1, <1>2, <1>3, PTL DEF Spec

-----------------------------------------------------------------------------
(* One configuration per request.                                          *)

Seen(r) == {p \in Plugin : <<r, p>> \in running \union finished}

\* The plugins that an event goroutine starts, has started or will start are those
\* of one configuration from its first step on; before it there are none.
SnapshotOf(r) ==
    /\ handler[r] \in {"none", "started"} => Seen(r) = {}
    /\ handler[r] \in {"looping", "returned"} =>
          \E c \in Configs : todo[r] \union Seen(r) = handlersFor(c, payload[r])

Snapshot == \A r \in Request : SnapshotOf(r)

\* A request that a step leaves alone keeps its snapshot.
LEMMA SnapshotKept ==
    ASSUME NEW r \in Request, SnapshotOf(r),
           handler'[r] = handler[r] \/ {handler[r], handler'[r]} \in
               {{"none", "started"}, {"looping", "returned"}},
           handler[r] = "none" \/ payload'[r] = payload[r],
           Seen(r)' \union todo'[r] = Seen(r) \union todo[r],
           handler[r] \in {"none", "started"} => Seen(r)' = Seen(r)
    PROVE  SnapshotOf(r)'
BY DEF SnapshotOf

\* Every step keeps the snapshots.
LEMMA SnapshotStep ==
    ASSUME IInv, Snapshot, [Next]_vars
    PROVE  Snapshot'
<1> SUFFICES ASSUME NEW r \in Request PROVE SnapshotOf(r)'
  BY DEF Snapshot
<1> USE DEF IInv, TypeOK
<1> SnapshotOf(r)
  BY DEF Snapshot
<1>1. ASSUME NEW q \in Request, ServeHTTP(q) PROVE SnapshotOf(r)'
  <2>1. handler[r] = "none" \/ payload'[r] = payload[r]
    BY <1>1 DEF ServeHTTP, Origins
  <2> QED BY <1>1, <2>1, SnapshotKept DEF ServeHTTP, eventVars, Seen
<1>2. ASSUME NEW q \in Request, Dispatch(q) PROVE SnapshotOf(r)'
  <2>1. handler[q] = "none"
    BY <1>2 DEF Dispatch, Origins
  <2> QED BY <1>2, <2>1, SnapshotKept DEF Dispatch, Seen
<1>3. ASSUME NEW q \in Request, StartLoop(q) PROVE SnapshotOf(r)'
  <2>1. CASE q = r
    <3>1. Seen(r)' = {}
      BY <1>3, <2>1 DEF StartLoop, SnapshotOf, Seen
    <3>2. /\ todo'[r] = handlersFor(config, payload[r])
          /\ handler'[r] = "looping"
          /\ payload'[r] = payload[r]
      BY <1>3, <2>1 DEF StartLoop, serveVars
    <3> QED BY <3>1, <3>2 DEF SnapshotOf
  <2>2. CASE q # r
    BY <1>3, <2>2, SnapshotKept DEF StartLoop, serveVars, Seen
  <2> QED BY <2>1, <2>2
<1>4. ASSUME NEW q \in Request, EndLoop(q) PROVE SnapshotOf(r)'
  BY <1>4, SnapshotKept DEF EndLoop, serveVars, Seen
<1>5. ASSUME NEW q \in Request, NEW p \in Plugin, SpawnPlugin(q, p) PROVE SnapshotOf(r)'
  <2>1. /\ handler[q] = "looping"
        /\ UNCHANGED <<handler, payload>>
    BY <1>5 DEF SpawnPlugin, serveVars
  <2>2. q # r => Seen(r)' = Seen(r) /\ todo'[r] = todo[r]
    BY <1>5 DEF SpawnPlugin, Seen
  <2>3. q = r => Seen(r)' = Seen(r) \union {p} /\ todo'[r] = todo[r] \ {p} /\ p \in todo[r]
    BY <1>5 DEF SpawnPlugin, Seen
  <2> QED BY <2>1, <2>2, <2>3, SnapshotKept
<1>6. ASSUME NEW q \in Request, NEW p \in Plugin, PluginReturns(q, p) PROVE SnapshotOf(r)'
  <2>1. UNCHANGED <<handler, payload, todo>>
    BY <1>6 DEF PluginReturns, serveVars
  <2>2. Seen(r)' = Seen(r)
    BY <1>6 DEF PluginReturns, Seen
  <2> QED BY <2>1, <2>2, SnapshotKept
<1>7. ASSUME UNCHANGED <<payload, eventVars>> PROVE SnapshotOf(r)'
  BY <1>7, SnapshotKept DEF eventVars, Seen
<1>8. ASSUME NEW q \in Request, \/ DispatchToExternal(q)
                                \/ \E x \in Entry \X External : SpawnPost(q, x) \/ PostReturns(q, x)
      PROVE  UNCHANGED <<payload, eventVars>>
  BY <1>8 DEF DispatchToExternal, SpawnPost, PostReturns, serveVars
<1>9. ASSUME Reload \/ Stopping \/ UNCHANGED vars PROVE UNCHANGED <<payload, eventVars>>
  BY <1>9 DEF Reload, Stopping, Interrupt, CloseListener, Wait, Wake, Clean, Exit,
              GraceExpired, vars, serveVars
<1> QED
  BY <1>1, <1>2, <1>3, <1>4, <1>5, <1>6, <1>7, <1>8, <1>9
  DEF Next, Step, Terminated, Serving, Handling, Posting

\* Whatever is reloaded while an event goroutine loops, the plugins that ran for its
\* request are those of one configuration.
THEOREM FanOutIsASnapshot == Spec => []OneConfiguration
<1>1. Init => Snapshot
  BY DEF Init, Snapshot, SnapshotOf, Seen
<1>2. IInv /\ Snapshot => OneConfiguration
  <2> SUFFICES ASSUME IInv, Snapshot, NEW r \in Request, handler[r] = "returned"
               PROVE  \E c \in Configs : Seen(r) = handlersFor(c, payload[r])
    BY DEF OneConfiguration, Seen
  <2>1. todo[r] = {}
    BY DEF IInv, Origins
  <2> QED BY <2>1 DEF Snapshot, SnapshotOf
<1> QED BY <1>1, <1>2, SnapshotStep, Invariance, PTL DEF Spec

-----------------------------------------------------------------------------
(* The dispatcher implements a graceful service.                           *)

\* The progress of a request as a job, and of the interrupt as a phase.
JobOf == [r \in Request |-> IF handler[r] = "none" THEN "new"
                            ELSE IF Handled(r) THEN "done" ELSE "accepted"]

PhaseOf == IF shutdown = "idle" THEN "up"
           ELSE IF shutdown = "cleaned" THEN "stopped" ELSE "draining"

\* A step that leaves jobs and phase alone is a stuttering step of the service.
LEMMA GracefulStutter ==
    ASSUME JobOf' = JobOf, PhaseOf' = PhaseOf, owed' = owed
    PROVE  [Graceful!Next]_(Graceful!vars)
BY DEF Graceful!vars, JobOf, PhaseOf

\* A step that moves one job is one of its two actions.
LEMMA GracefulMove ==
    ASSUME NEW r \in Request, PhaseOf' = PhaseOf, owed' = owed,
           \A s \in Request \ {r} : JobOf'[s] = JobOf[s],
           \/ JobOf'[r] = JobOf[r]
           \/ JobOf[r] = "new" /\ JobOf'[r] = "accepted"
           \/ JobOf[r] = "accepted" /\ JobOf'[r] = "done"
    PROVE  [Graceful!Next]_(Graceful!vars)
<1>1. JobOf' = [JobOf EXCEPT ![r] = JobOf'[r]]
  BY DEF JobOf
<1>2. CASE JobOf'[r] = JobOf[r]
  <2>1. JobOf' = JobOf
    BY <1>2 DEF JobOf
  <2> QED BY <2>1, GracefulStutter
<1>3. CASE JobOf[r] = "new" /\ JobOf'[r] = "accepted"
  <2>1. Graceful!Accept(r)
    BY <1>1, <1>3 DEF Graceful!Accept, JobOf, PhaseOf
  <2> QED BY <2>1 DEF Graceful!Next
<1>4. CASE JobOf[r] = "accepted" /\ JobOf'[r] = "done"
  <2>1. Graceful!Finish(r)
    BY <1>1, <1>4 DEF Graceful!Finish, JobOf, PhaseOf
  <2> QED BY <2>1 DEF Graceful!Next
<1> QED BY <1>2, <1>3, <1>4

\* Only steps of event goroutines and plugins, the interrupt and Clean move the
\* service.
LEMMA GracefulStep ==
    ASSUME IInv, [Next]_vars
    PROVE  [Graceful!Next]_(Graceful!vars)
<1> USE DEF IInv, TypeOK
<1>1. ASSUME NEW r \in Request, Dispatch(r) PROVE [Graceful!Next]_(Graceful!vars)
  <2>1. /\ handler[r] = "none"
        /\ handler'[r] \in {"none", "started"}
        /\ \A s \in Request \ {r} : handler'[s] = handler[s]
        /\ UNCHANGED <<running, shutdown, owed>>
    BY <1>1 DEF Dispatch, wgAdd, stopVars, Origins
  <2> QED BY <2>1, GracefulMove DEF JobOf, PhaseOf, Handled
<1>2. ASSUME NEW r \in Request, StartLoop(r) PROVE [Graceful!Next]_(Graceful!vars)
  <2>1. JobOf' = JobOf
    BY <1>2 DEF StartLoop, JobOf, Handled
  <2> QED BY <1>2, <2>1, GracefulStutter DEF StartLoop, PhaseOf, stopVars
<1>3. ASSUME wgDone PROVE PhaseOf' = PhaseOf
  BY <1>3 DEF wgDone, PhaseOf
<1>4. ASSUME NEW r \in Request, EndLoop(r) PROVE [Graceful!Next]_(Graceful!vars)
  <2>1. /\ handler[r] = "looping"
        /\ handler' = [handler EXCEPT ![r] = "returned"]
        /\ UNCHANGED <<running, owed>>
        /\ PhaseOf' = PhaseOf
    BY <1>4, <1>3 DEF EndLoop, stopVars
  <2> QED BY <2>1, GracefulMove DEF JobOf, Handled
<1>5. ASSUME NEW r \in Request, NEW p \in Plugin, SpawnPlugin(r, p)
      PROVE  [Graceful!Next]_(Graceful!vars)
  <2>1. JobOf' = JobOf
    BY <1>5 DEF SpawnPlugin, JobOf, Handled
  <2> QED BY <1>5, <2>1, GracefulStutter DEF SpawnPlugin, wgAdd, PhaseOf, stopVars
<1>6. ASSUME NEW r \in Request, NEW p \in Plugin, PluginReturns(r, p)
      PROVE  [Graceful!Next]_(Graceful!vars)
  <2>1. /\ handler[r] \in {"looping", "returned"}
        /\ <<r, p>> \in running
        /\ running' = running \ {<<r, p>>}
        /\ UNCHANGED <<handler, owed>>
        /\ PhaseOf' = PhaseOf
    BY <1>6, <1>3 DEF PluginReturns, stopVars, Origins
  <2>2. \A s \in Request \ {r} : JobOf'[s] = JobOf[s]
    BY <2>1 DEF JobOf, Handled
  <2>3. JobOf[r] = "accepted" /\ JobOf'[r] \in {"accepted", "done"}
    BY <2>1 DEF JobOf, Handled
  <2> QED BY <2>1, <2>2, <2>3, GracefulMove
<1>7. ASSUME Interrupt PROVE [Graceful!Next]_(Graceful!vars)
  <2>1. Graceful!Interrupt
    BY <1>7 DEF Interrupt, Graceful!Interrupt, eventVars, Handled
  <2> QED BY <2>1 DEF Graceful!Next
<1>8. ASSUME Clean PROVE [Graceful!Next]_(Graceful!vars)
  <2>1. \A r \in owed : Handled(r)
    BY <1>8 DEF Clean, Owing, CleanAfterHandlers
  <2>2. Graceful!Stop
    BY <1>8, <2>1 DEF Clean, Graceful!Stop, eventVars, stopVars, Handled
  <2> QED BY <2>2 DEF Graceful!Next
<1>9. ASSUME UNCHANGED <<handler, running, owed>>, PhaseOf' = PhaseOf
      PROVE  [Graceful!Next]_(Graceful!vars)
  BY <1>9, GracefulStutter DEF JobOf, Handled
<1>10. ASSUME NEW r \in Request, \/ ServeHTTP(r)
                                 \/ DispatchToExternal(r)
                                 \/ \E x \in Entry \X External : SpawnPost(r, x) \/ PostReturns(r, x)
       PROVE  [Graceful!Next]_(Graceful!vars)
  <2>1. UNCHANGED <<handler, running, owed>> /\ PhaseOf' = PhaseOf
    BY <1>10, <1>3 DEF ServeHTTP, DispatchToExternal, SpawnPost, PostReturns, wgAdd,
                       eventVars, stopVars, PhaseOf
  <2> QED BY <2>1, <1>9
<1>11. ASSUME Reload \/ CloseListener \/ Wait \/ Wake \/ Exit \/ GraceExpired \/ UNCHANGED vars
       PROVE  [Graceful!Next]_(Graceful!vars)
  <2>1. UNCHANGED <<handler, running, owed>> /\ PhaseOf' = PhaseOf
    BY <1>11 DEF Reload, CloseListener, Wait, Wake, Exit, GraceExpired, vars, eventVars,
                 stopVars, PhaseOf
  <2> QED BY <2>1, <1>9
<1> QED
  BY <1>1, <1>2, <1>4, <1>5, <1>6, <1>7, <1>8, <1>10, <1>11
  DEF Next, Step, Terminated, Serving, Handling, Posting, Stopping

\* Whatever its instance, the dispatcher stops only after the requests it had accepted
\* when the interrupt arrived are handled by every plugin enabled for them.
THEOREM DispatcherIsGraceful == Spec => ImplementsGraceful
<1>1. Init => Graceful!Init
  BY DEF Init, Graceful!Init, Handled
<1> QED BY <1>1, GracefulStep, Invariance, PTL DEF Spec, ImplementsGraceful, Graceful!Spec
=============================================================================
