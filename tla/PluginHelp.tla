------------------------------ MODULE PluginHelp ------------------------------
(***************************************************************************)
(* The /plugin-help page of prow's hook (prow/pluginhelp/hook/hook.go):    *)
(* the orgAgent, a cache of the repositories of each organisation behind a *)
(* mutex, and what one request does with it: expand the configuration's    *)
(* organisations, ask every external plugin for its help in a goroutine of *)
(* its own, and collect the answers that arrive within a second.           *)
(*                                                                         *)
(* The cache's hour is Period units of a clock that runs to MaxTime (a     *)
(* bound); a sync takes at most MaxSync of them (an assumption about       *)
(* GitHub).  The second that a page waits for is shorter than a unit and   *)
(* may pass at any moment.  A result that the loop does not come round to  *)
(* in that second counts as sent after it.  Repositories are created and   *)
(* never deleted.                                                          *)
(***************************************************************************)
EXTENDS Integers, Sequences, FiniteSets

CONSTANTS Request,     \* GET requests for the page
          Org, Repo,   \* organisations, and all repositories that may exist
          OrgOf,       \* repository -> the organisation it belongs to
          Plugin,      \* names of normal plugins
          External,    \* entries of external_plugins: [name, endpoint]
          Silent,      \* endpoints that accept a connection and never answer
          History,     \* the configurations in the order in which they are loaded
          Period,      \* newRepoDetectionLimit, in units of the clock
          MaxSync, MaxTime,
          Nobody       \* the mutex is free

\* A configuration maps organisations and repositories to what they enable.
ConfigOK(c) == /\ DOMAIN c.plugins \subseteq Org \union Repo
               /\ DOMAIN c.external \subseteq Org \union Repo
               /\ \A k \in DOMAIN c.plugins : c.plugins[k] \subseteq Plugin
               /\ \A k \in DOMAIN c.external : c.external[k] \subseteq External

ASSUME ConstantsOK == /\ OrgOf \in [Repo -> Org]
                      /\ Org \intersect Repo = {}
                      /\ IsFiniteSet(External)
                      /\ \A e \in External : {"name", "endpoint"} \subseteq DOMAIN e
                      /\ Len(History) \in Nat \ {0}
                      /\ DOMAIN History = 1 .. Len(History)
                      /\ \A v \in DOMAIN History : ConfigOK(History[v])
                      /\ Period \in Nat /\ MaxSync \in Nat /\ MaxTime \in Nat
                      /\ Nobody \notin Request

VARIABLES now,         \* the clock
          version,     \* the configuration in force is History[version]
          born,        \* the repositories that exist on GitHub, with their birth
          nextSync, orgs, orgToRepos,     \* the fields of the orgAgent
          lock,        \* the request that holds its mutex
          todo, found, \* locals of sync: organisations to list, map built so far
          pc,          \* how far each request got
          conf,        \* the version it read
          asked,       \* when it got the mutex
          listing,     \* the map orgToReposMap returned to it
          excused,     \* the organisations whose last listing had failed by then
          asking,      \* its goroutines that wait for an external plugin
          room,        \* the capacity of its externalResultChan
          left,        \* how many results it holds that nobody will take
          page,        \* the repositories it answered with
          calls        \* how often each organisation was listed

worldVars == <<now, version, born>>
agentVars == <<nextSync, orgs, orgToRepos, lock, todo, found, calls>>
mapVars == <<conf, asked, listing, excused>>
helpVars == <<asking, room, left, page>>
vars == <<worldVars, agentVars, pc, mapVars, helpVars>>

Listing == UNION {[os -> SUBSET Repo] : os \in SUBSET Org}

Name == {e.name : e \in External}

TypeOK ==
    /\ now \in 0 .. MaxTime
    /\ version \in DOMAIN History
    /\ DOMAIN born \subseteq Repo /\ \A x \in DOMAIN born : born[x] \in 0 .. now
    /\ nextSync \in -1 .. MaxTime + Period
    /\ orgs \subseteq Org
    /\ orgToRepos \in Listing /\ DOMAIN orgToRepos \subseteq orgs
    /\ lock \in Request \union {Nobody}
    /\ todo \subseteq Org
    /\ found \in Listing
    /\ pc \in [Request -> {"new", "refused", "configured", "syncing", "mapped", "collecting", "done"}]
    /\ \A r \in Request : pc[r] = "syncing" <=> lock = r
    /\ conf \in [Request -> 0 .. version]
    /\ asked \in [Request -> 0 .. now]
    /\ listing \in [Request -> Listing]
    /\ excused \in [Request -> SUBSET Org]
    /\ asking \in [Request -> SUBSET External]
    /\ room \in [Request -> Nat] /\ left \in [Request -> Nat]
    /\ page \in [Request -> SUBSET Repo]
    /\ calls \in [Org -> Nat]

Config(r) == History[conf[r]]

Keys(c) == DOMAIN c.plugins \union DOMAIN c.external

orgsInConfig(c) == Keys(c) \intersect Org

\* What reversePluginMaps tells a normal plugin it is enabled on, as a set.
normalRepos(c, l, p) ==
    UNION {IF k \in Repo THEN {k} ELSE IF k \in DOMAIN l THEN l[k] ELSE {}
           : k \in {k \in DOMAIN c.plugins : p \in c.plugins[k]}}

\* ... and an external plugin: an organisation without a listing stands for itself.
externalRepos(c, l, n) ==
    UNION {IF k \in DOMAIN l THEN l[k] ELSE {k}
           : k \in {k \in DOMAIN c.external : \E e \in c.external[k] : e.name = n}}

allRepos(c, l) ==
    UNION {IF k \in Repo THEN {k} ELSE IF k \in DOMAIN l THEN l[k] ELSE {} : k \in Keys(c)}

\* The map from names to entries: of entries with one name any may be the last.
externals(c) ==
    LET entries == UNION {c.external[k] : k \in DOMAIN c.external} IN
    {es \in SUBSET entries : \A e \in entries : Cardinality({d \in es : d.name = e.name}) = 1}

Init ==
    /\ now = 0
    /\ version = 1
    /\ born = <<>>
    /\ nextSync = -1 /\ orgs = {} /\ orgToRepos = <<>>
    /\ lock = Nobody /\ todo = {} /\ found = <<>>
    /\ pc = [r \in Request |-> "new"]
    /\ conf = [r \in Request |-> 0]
    /\ asked = [r \in Request |-> 0]
    /\ listing = [r \in Request |-> <<>>]
    /\ excused = [r \in Request |-> {}]
    /\ asking = [r \in Request |-> {}]
    /\ room = [r \in Request |-> 0] /\ left = [r \in Request |-> 0]
    /\ page = [r \in Request |-> {}]
    /\ calls = [o \in Org |-> 0]

-----------------------------------------------------------------------------
(* The world: time, new repositories, new configurations.                  *)

Tick ==
    /\ now < MaxTime
    /\ lock # Nobody => now < asked[lock] + MaxSync
    /\ now' = now + 1
    /\ UNCHANGED <<version, born, agentVars, pc, mapVars, helpVars>>

CreateRepo ==
    /\ \E x \in Repo \ DOMAIN born :
           born' = [y \in DOMAIN born \union {x} |-> IF y = x THEN now ELSE born[y]]
    /\ UNCHANGED <<now, version, agentVars, pc, mapVars, helpVars>>

Reload ==
    /\ version < Len(History)
    /\ version' = version + 1
    /\ UNCHANGED <<now, born, agentVars, pc, mapVars, helpVars>>

-----------------------------------------------------------------------------
(* ServeHTTP up to the configuration it works with.                        *)

\* The method is not GET, or the body cannot be read.
Refuse(r) ==
    /\ pc[r] = "new"
    /\ pc' = [pc EXCEPT ![r] = "refused"]
    /\ UNCHANGED <<worldVars, agentVars, mapVars, helpVars>>

ReadConfig(r) ==
    /\ pc[r] = "new"
    /\ pc' = [pc EXCEPT ![r] = "configured"]
    /\ conf' = [conf EXCEPT ![r] = version]
    /\ UNCHANGED <<worldVars, agentVars, asked, listing, excused, helpVars>>

-----------------------------------------------------------------------------
(* orgToReposMap and sync, under the mutex.                                *)

\* Mutant: organisations that are new in the configuration are not noticed.
syncDueByTime(r) == now > nextSync

syncDue(r) == now > nextSync \/ orgsInConfig(Config(r)) \ orgs # {}

UseCache(r) ==
    /\ pc[r] = "configured" /\ lock = Nobody
    /\ ~syncDue(r)
    /\ pc' = [pc EXCEPT ![r] = "mapped"]
    /\ asked' = [asked EXCEPT ![r] = now]
    /\ listing' = [listing EXCEPT ![r] = orgToRepos]
    /\ excused' = [excused EXCEPT ![r] = orgs \ DOMAIN orgToRepos]
    /\ UNCHANGED <<worldVars, agentVars, conf, helpVars>>

BeginSync(r) ==
    /\ pc[r] = "configured" /\ lock = Nobody
    /\ syncDue(r)
    /\ lock' = r
    /\ pc' = [pc EXCEPT ![r] = "syncing"]
    /\ asked' = [asked EXCEPT ![r] = now]
    /\ todo' = orgsInConfig(Config(r))
    /\ found' = <<>>
    /\ UNCHANGED <<worldVars, nextSync, orgs, orgToRepos, calls, conf, listing, excused, helpVars>>

\* One GetRepos.  The order of the calls does not matter.
GetRepos(r) ==
    /\ pc[r] = "syncing"
    /\ \E o \in todo :
         /\ todo' = todo \ {o}
         /\ calls' = [calls EXCEPT ![o] = @ + 1]
         /\ \/ found' = [p \in DOMAIN found \union {o} |->
                            IF p = o THEN {x \in DOMAIN born : OrgOf[x] = o} ELSE found[p]]
            \/ UNCHANGED found
    /\ UNCHANGED <<worldVars, nextSync, orgs, orgToRepos, lock, pc, mapVars, helpVars>>

EndSyncWith(r, known) ==
    /\ pc[r] = "syncing" /\ todo = {}
    /\ orgs' = known
    /\ orgToRepos' = found /\ found' = <<>>
    /\ nextSync' = now + Period
    /\ lock' = Nobody
    /\ pc' = [pc EXCEPT ![r] = "mapped"]
    /\ listing' = [listing EXCEPT ![r] = found]
    /\ excused' = [excused EXCEPT ![r] = known \ DOMAIN found]
    /\ UNCHANGED <<worldVars, todo, calls, conf, asked, helpVars>>

\* Mutant: an organisation whose listing failed is forgotten, to list it again soon.
EndSyncForgets(r) == EndSyncWith(r, DOMAIN found)

EndSync(r) == EndSyncWith(r, orgsInConfig(Config(r)))

-----------------------------------------------------------------------------
(* The help of the external plugins and the answer.                        *)

AskWith(r, Capacity(_)) ==
    /\ pc[r] = "mapped"
    /\ pc' = [pc EXCEPT ![r] = "collecting"]
    /\ \E es \in externals(Config(r)) :
           /\ asking' = [asking EXCEPT ![r] = es]
           /\ room' = [room EXCEPT ![r] = Capacity(es)]
    /\ UNCHANGED <<worldVars, agentVars, mapVars, left, page>>

\* Mutant: the channel has no buffer, a result is handed over or never.
AskUnbuffered(r) == LET none(es) == 0 IN AskWith(r, none)

\* A goroutine for every entry, and a channel with room for their results.
AskExternals(r) == AskWith(r, Cardinality)

\* The goroutine of entry e has help or an error and sends it.  The loop takes it if the
\* second has not passed.  After that it stays in the channel if there is room, or else
\* the goroutine waits.
Answer(r, e) ==
    /\ e \in asking[r] /\ e.endpoint \notin Silent
    /\ \/ pc[r] = "collecting" /\ UNCHANGED left
       \/ pc[r] = "done" /\ left[r] < room[r] /\ left' = [left EXCEPT ![r] = @ + 1]
    /\ asking' = [asking EXCEPT ![r] = @ \ {e}]
    /\ UNCHANGED <<worldVars, agentVars, pc, mapVars, room, page>>

RespondWith(r, l) ==
    /\ pc' = [pc EXCEPT ![r] = "done"]
    /\ page' = [page EXCEPT ![r] = allRepos(Config(r), l)]
    /\ UNCHANGED <<worldVars, agentVars, mapVars, asking, room, left>>

\* Mutant: the repositories of the page come from the cache of the moment.
TimeoutNow(r) == pc[r] = "collecting" /\ RespondWith(r, orgToRepos)

\* Mutant: the page waits for every external plugin.
TimeoutNever(r) ==
    /\ pc[r] = "collecting" /\ asking[r] = {}
    /\ RespondWith(r, listing[r])

\* A second has passed.  The channel is never closed: this is the only way out.
Timeout(r) == pc[r] = "collecting" /\ RespondWith(r, listing[r])

-----------------------------------------------------------------------------

Next ==
    \/ Tick
    \/ CreateRepo
    \/ Reload
    \/ \E r \in Request :
          \/ Refuse(r)
          \/ ReadConfig(r)
          \/ UseCache(r)
          \/ BeginSync(r)
          \/ GetRepos(r)
          \/ EndSync(r)
          \/ AskExternals(r)
          \/ \E e \in External : Answer(r, e)
          \/ Timeout(r)

Spec == Init /\ [][Next]_vars

\* A goroutine that can run does.  GitHub answers or fails every call, and so
\* does an endpoint that is not silent; requests and configurations need not come.
Fairness ==
    \A r \in Request :
        /\ WF_vars(UseCache(r) \/ BeginSync(r))
        /\ WF_vars(GetRepos(r)) /\ WF_vars(EndSync(r))
        /\ WF_vars(AskExternals(r)) /\ WF_vars(Timeout(r))
        /\ \A e \in {e \in External : e.endpoint \notin Silent} : WF_vars(Answer(r, e))

FairSpec == Spec /\ Fairness

-----------------------------------------------------------------------------
(* Properties.                                                             *)

Mapped(r) == pc[r] \in {"mapped", "collecting", "done"}

\* A page knows every repository that its configuration names through the
\* organisation alone and that was created more than the detection limit (and
\* the length of a sync) before the request, even if the organisation was just
\* added; only an organisation whose last listing failed is missing.
\* (orgToReposMap and sync under concurrent requests and reloads)
NewRepoIsListed ==
    \A r \in Request : \A x \in DOMAIN born :
        LET o == OrgOf[x] IN
        /\ Mapped(r)
        /\ o \in orgsInConfig(Config(r)) \ excused[r]
        /\ born[x] + Period + MaxSync < asked[r]
        => o \in DOMAIN listing[r] /\ x \in listing[r][o]

\* However many requests meet an expired cache and however many listings fail,
\* an organisation is listed once in a period for each configuration that was
\* read, if configurations only add organisations.  (the cache exists "to
\* prevent excessive github API token usage")
TokensAreSpared ==
    (\A v, w \in DOMAIN History : v < w => orgsInConfig(History[v]) \subseteq orgsInConfig(History[w]))
        => \A o \in Org : calls[o] <= version * (1 + now \div (Period + 1))

\* Whatever happens to the cache while a page waits for external plugins, every
\* repository that a plugin was asked about is on the page, and what is not a
\* repository is an organisation whose listing failed.  (GeneratePluginHelp)
PageShowsWhatWasAsked ==
    \A r \in Request : pc[r] = "done" =>
        /\ \A p \in Plugin : normalRepos(Config(r), listing[r], p) \subseteq page[r]
        /\ \A n \in Name : externalRepos(Config(r), listing[r], n)
                              \subseteq page[r] \union excused[r]

\* Every request is answered, silent endpoints, failed listings and waiting
\* for the mutex notwithstanding.  (generateExternalPluginHelp's timeout)
PageIsServed == \A r \in Request : pc[r] = "configured" ~> pc[r] = "done"

\* A goroutine whose endpoint answers ends, also when it answers after the page was
\* served and nobody receives its result any more: what the goroutines of one page
\* put into their channel never fills it while one of them has yet to send.
\* (generateExternalPluginHelp)
LateAnswersEnd ==
    \A r \in Request : \A e \in {e \in External : e.endpoint \notin Silent} :
        e \in asking[r] ~> e \notin asking[r]
===============================================================================
