--------------------------- MODULE PluginHelpProofs ---------------------------
(***************************************************************************)
(* Proofs about PluginHelp, for any number of requests, organisations and  *)
(* repositories, any sequence of configurations and any period.            *)
(*                                                                         *)
(* The bound on the age of what is missing from a listing is established   *)
(* while a sync runs (Syncing: a repository that a call did not return was *)
(* created after the sync began), kept in the cache relative to nextSync   *)
(* (Cached), and handed to the requests relative to their own start        *)
(* (Listed): a request that uses the cache does so no later than nextSync. *)
(*                                                                         *)
(* How often an organisation is listed is counted in whole periods: those  *)
(* that have begun, and the configurations read in the current one, allow  *)
(* a budget of calls that the syncs so far have not exceeded (Counted).    *)
(***************************************************************************)
EXTENDS PluginHelp, FiniteSetTheorems, TLAPS

\* The repositories of organisation o that listing l of it does not have.
Missing(l, o) == {x \in DOMAIN born : OrgOf[x] = o /\ x \notin l[o]}

Syncing ==
    lock # Nobody =>
        /\ now <= asked[lock] + MaxSync
        /\ DOMAIN found \union todo \subseteq orgsInConfig(Config(lock))
        /\ \A o \in DOMAIN found : \A x \in Missing(found, o) : born[x] >= asked[lock]

Cached ==
    /\ nextSync <= now + Period
    /\ \A o \in DOMAIN orgToRepos : \A x \in Missing(orgToRepos, o) :
           born[x] + Period + MaxSync >= nextSync

Listed ==
    \A r \in Request :
        /\ pc[r] \notin {"new", "refused"} => conf[r] # 0
        /\ Mapped(r) =>
              /\ orgsInConfig(Config(r)) \subseteq excused[r] \union DOMAIN listing[r]
              /\ \A o \in DOMAIN listing[r] : \A x \in Missing(listing[r], o) :
                     born[x] + Period + MaxSync >= asked[r]
        /\ pc[r] = "done" => page[r] = allRepos(Config(r), listing[r])

IInv == TypeOK /\ Syncing /\ Cached /\ Listed

-----------------------------------------------------------------------------
\* A listing is a function from some organisations to sets of repositories.
LEMMA ListingIsFunction ==
    ASSUME NEW l \in Listing
    PROVE  /\ DOMAIN l \subseteq Org
           /\ l \in [DOMAIN l -> SUBSET Repo]
BY DEF Listing

LEMMA FunctionIsListing ==
    ASSUME NEW os \in SUBSET Org, NEW l \in [os -> SUBSET Repo]
    PROVE  l \in Listing /\ DOMAIN l = os
BY DEF Listing

LEMMA EmptyListing == <<>> \in Listing /\ DOMAIN <<>> = {}
<1>1. <<>> \in [{} -> SUBSET Repo] /\ DOMAIN <<>> = {}
  OBVIOUS
<1> QED BY <1>1 DEF Listing

\* The page's repositories are repositories.
LEMMA AllReposType ==
    ASSUME NEW v \in DOMAIN History, NEW l \in Listing
    PROVE  allRepos(History[v], l) \subseteq Repo
BY ListingIsFunction DEF allRepos, Keys

\* A request beyond the method check has read a configuration.
LEMMA ConfigRead ==
    ASSUME TypeOK, Listed, NEW r \in Request, pc[r] \notin {"new", "refused"}
    PROVE  conf[r] \in DOMAIN History
<1>1. conf[r] \in 0 .. version /\ conf[r] # 0
  BY DEF TypeOK, Listed
<1>2. version \in 1 .. Len(History)
  BY ConstantsOK DEF TypeOK
<1> QED BY <1>1, <1>2, ConstantsOK

LEMMA ExternalsType ==
    ASSUME NEW v \in DOMAIN History, NEW es \in externals(History[v])
    PROVE  es \subseteq External /\ IsFiniteSet(es) /\ Cardinality(es) \in Nat
<1>1. es \subseteq External
  BY ConstantsOK DEF externals, ConfigOK
<1> QED BY <1>1, ConstantsOK, FS_Subset, FS_CardinalityType

\* A new repository is born now, the others keep their birth.
LEMMA BirthIsNow ==
    ASSUME CreateRepo, NEW x \in DOMAIN born'
    PROVE  born'[x] = now \/ (x \in DOMAIN born /\ born'[x] = born[x])
<1>1. PICK y \in Repo \ DOMAIN born :
         born' = [z \in DOMAIN born \union {y} |-> IF z = y THEN now ELSE born[z]]
  BY DEF CreateRepo
<1> QED BY <1>1

-----------------------------------------------------------------------------
LEMMA Start == Init => IInv
<1> SUFFICES ASSUME Init PROVE IInv
  OBVIOUS
<1> USE DEF Init
<1>1. TypeOK
  BY ConstantsOK, EmptyListing DEF TypeOK
<1>2. Syncing /\ Cached
  BY ConstantsOK, EmptyListing DEF Syncing, Cached
<1>3. Listed
  BY DEF Listed, Mapped
<1> QED BY <1>1, <1>2, <1>3 DEF IInv

\* Types, action by action.
LEMMA TypeStep ==
    ASSUME IInv, [Next]_vars
    PROVE  TypeOK'
<1> USE DEF IInv, TypeOK
<1> USE ConstantsOK
<1>1. CASE UNCHANGED vars
  BY <1>1 DEF vars, worldVars, agentVars, mapVars, helpVars
<1>2. CASE Tick
  <2>1. /\ UNCHANGED <<version, born, nextSync, orgs, orgToRepos, lock, todo, found, calls,
                      pc, conf, asked, listing, excused, asking, room, left, page>>
        /\ now' = now + 1 /\ now' \in 0 .. MaxTime
    BY <1>2 DEF Tick, agentVars, mapVars, helpVars
  <2>2. asked' \in [Request -> 0 .. now']
    BY <2>1
  <2> QED BY <2>1, <2>2
<1>3. CASE CreateRepo
  BY <1>3 DEF CreateRepo, agentVars, mapVars, helpVars
<1>4. CASE Reload
  <2>1. conf \in [Request -> 0 .. version']
    BY <1>4 DEF Reload
  <2> QED BY <1>4, <2>1 DEF Reload, agentVars, mapVars, helpVars
<1>5. ASSUME NEW r \in Request, Refuse(r) PROVE TypeOK'
  BY <1>5 DEF Refuse, worldVars, agentVars, mapVars, helpVars
<1>6. ASSUME NEW r \in Request, ReadConfig(r) PROVE TypeOK'
  BY <1>6 DEF ReadConfig, worldVars, agentVars, helpVars
<1>7. ASSUME NEW r \in Request, UseCache(r) PROVE TypeOK'
  BY <1>7 DEF UseCache, worldVars, agentVars, helpVars
<1>8. ASSUME NEW r \in Request, BeginSync(r) PROVE TypeOK'
  <2>1. found' \in Listing /\ todo' \subseteq Org
    BY <1>8, EmptyListing DEF BeginSync, orgsInConfig
  <2> QED BY <1>8, <2>1 DEF BeginSync, worldVars, helpVars
<1>9. ASSUME NEW r \in Request, GetRepos(r) PROVE TypeOK'
  <2>1. PICK o \in todo : GetRepos(r)!2!(o)
    BY <1>9 DEF GetRepos
  <2>2. found' \in Listing
    <3>1. CASE UNCHANGED found
      BY <3>1
    <3>2. CASE found' = [p \in DOMAIN found \union {o} |->
                            IF p = o THEN {x \in DOMAIN born : OrgOf[x] = o} ELSE found[p]]
      <4>1. found' \in [DOMAIN found \union {o} -> SUBSET Repo]
        BY <3>2, ListingIsFunction
      <4>2. DOMAIN found \union {o} \in SUBSET Org
        BY ListingIsFunction
      <4> QED BY <4>1, <4>2, FunctionIsListing
    <3> QED BY <2>1, <3>1, <3>2
  <2>3. todo' \subseteq Org /\ calls' \in [Org -> Nat]
    <3>1. todo' = todo \ {o} /\ calls' = [calls EXCEPT ![o] = @ + 1]
      BY <2>1
    <3> HIDE DEF IInv, TypeOK
    <3>2. todo \subseteq Org /\ calls \in [Org -> Nat]
      BY DEF IInv, TypeOK
    <3> QED BY <3>1, <3>2
  <2> QED BY <1>9, <2>2, <2>3 DEF GetRepos, worldVars, mapVars, helpVars
<1>10. ASSUME NEW r \in Request, EndSync(r) PROVE TypeOK'
  <2>1. orgs' \subseteq Org /\ nextSync' \in -1 .. MaxTime + Period
    BY <1>10 DEF EndSync, EndSyncWith, orgsInConfig
  <2>2. orgToRepos' \in Listing /\ found' \in Listing
    BY <1>10, EmptyListing DEF EndSync, EndSyncWith
  <2>3. DOMAIN orgToRepos' \subseteq orgs'
    BY <1>10 DEF EndSync, EndSyncWith, Syncing
  <2>4. listing' \in [Request -> Listing] /\ excused' \in [Request -> SUBSET Org]
    BY <1>10 DEF EndSync, EndSyncWith, orgsInConfig
  <2> QED BY <1>10, <2>1, <2>2, <2>3, <2>4 DEF EndSync, EndSyncWith, worldVars, helpVars
<1>11. ASSUME NEW r \in Request, AskExternals(r) PROVE TypeOK'
  <2>1. conf[r] \in DOMAIN History
    BY <1>11, ConfigRead DEF AskExternals, AskWith
  <2>2. PICK es \in externals(Config(r)) :
           /\ asking' = [asking EXCEPT ![r] = es]
           /\ room' = [room EXCEPT ![r] = Cardinality(es)]
    BY <1>11 DEF AskExternals, AskWith
  <2>3. es \subseteq External /\ Cardinality(es) \in Nat
    BY <2>1, <2>2, ExternalsType DEF Config
  <2>4. asking' \in [Request -> SUBSET External] /\ room' \in [Request -> Nat]
    BY <2>2, <2>3
  <2> QED BY <1>11, <2>4 DEF AskExternals, AskWith, worldVars, agentVars, mapVars
<1>12. ASSUME NEW r \in Request, NEW e \in External, Answer(r, e) PROVE TypeOK'
  <2>1. left' \in [Request -> Nat]
    <3>1. left' = left \/ left' = [left EXCEPT ![r] = @ + 1]
      BY <1>12 DEF Answer
    <3>2. left \in [Request -> Nat]
      OBVIOUS
    <3> HIDE DEF IInv, TypeOK
    <3> QED BY <3>1, <3>2
  <2>2. asking' \in [Request -> SUBSET External]
    BY <1>12 DEF Answer
  <2> QED BY <1>12, <2>1, <2>2 DEF Answer, worldVars, agentVars, mapVars
<1>13. ASSUME NEW r \in Request, Timeout(r) PROVE TypeOK'
  <2>1. conf[r] \in DOMAIN History
    BY <1>13, ConfigRead DEF Timeout
  <2>2. page' \in [Request -> SUBSET Repo]
    BY <1>13, <2>1, AllReposType DEF Timeout, RespondWith, Config
  <2> QED BY <1>13, <2>2 DEF Timeout, RespondWith, worldVars, agentVars, mapVars
<1> QED BY <1>1, <1>2, <1>3, <1>4, <1>5, <1>6, <1>7, <1>8, <1>9, <1>10, <1>11, <1>12, <1>13
        DEF Next

-----------------------------------------------------------------------------
\* What a running sync has found, action by action.
LEMMA SyncStep ==
    ASSUME IInv, [Next]_vars
    PROVE  Syncing'
<1> USE ConstantsOK
<1> USE DEF IInv, TypeOK
<1> SUFFICES ASSUME lock' # Nobody PROVE Syncing'
  BY DEF Syncing
<1>1. ASSUME UNCHANGED <<now, born, lock, found, todo, asked>>,
             lock # Nobody => conf'[lock] = conf[lock]
      PROVE  Syncing'
  BY <1>1 DEF Syncing, Missing, Config
<1>2. CASE UNCHANGED vars
  BY <1>1, <1>2 DEF vars, worldVars, agentVars, mapVars
<1>3. CASE Tick
  <2>1. UNCHANGED <<born, lock, found, todo, asked, conf>> /\ now' = now + 1
    BY <1>3 DEF Tick, agentVars, mapVars
  <2>2. lock \in Request /\ now < asked[lock] + MaxSync
    BY <1>3, <2>1 DEF Tick
  <2>3. now' <= asked'[lock'] + MaxSync
    BY <2>1, <2>2
  <2> QED BY <2>1, <2>2, <2>3 DEF Syncing, Missing, Config
<1>4. CASE CreateRepo
  <2>1. UNCHANGED <<now, lock, found, todo, asked, conf>>
    BY <1>4 DEF CreateRepo, agentVars, mapVars
  <2>2. lock \in Request /\ asked[lock] \in 0 .. now
    BY <2>1
  <2>3. \A x \in DOMAIN born' : born'[x] >= asked[lock] \/ (x \in DOMAIN born /\ born'[x] = born[x])
    BY <1>4, <2>2, BirthIsNow
  <2>4. \A o \in DOMAIN found' : \A x \in Missing(found, o)' : born'[x] >= asked'[lock']
    BY <2>1, <2>2, <2>3 DEF Syncing, Missing
  <2> QED BY <2>1, <2>2, <2>4 DEF Syncing, Config
<1>5. CASE Reload
  BY <1>1, <1>5 DEF Reload, agentVars, mapVars
<1>6. ASSUME NEW r \in Request,
             \/ Refuse(r) \/ ReadConfig(r) \/ UseCache(r) \/ AskExternals(r)
             \/ (\E e \in External : Answer(r, e)) \/ Timeout(r)
      PROVE  Syncing'
  <2>1. UNCHANGED <<now, born, lock, found, todo>>
    BY <1>6 DEF Refuse, ReadConfig, UseCache, AskExternals, AskWith, Answer, Timeout, RespondWith,
                worldVars, agentVars
  <2>2. lock \in Request /\ pc[lock] = "syncing"
    BY <2>1
  <2>3. UNCHANGED asked
    BY <1>6, <2>1, <2>2 DEF Refuse, ReadConfig, UseCache, AskExternals, AskWith, Answer, Timeout, RespondWith, mapVars
  <2>4. conf'[lock] = conf[lock]
    BY <1>6, <2>2 DEF Refuse, ReadConfig, UseCache, AskExternals, AskWith, Answer, Timeout, RespondWith, mapVars
  <2> QED BY <1>1, <2>1, <2>3, <2>4
<1>7. ASSUME NEW r \in Request, BeginSync(r) PROVE Syncing'
  <2>1. lock' = r /\ UNCHANGED <<now, born, conf>> /\ asked'[r] = now /\ DOMAIN found' = {}
    BY <1>7, EmptyListing DEF BeginSync, worldVars
  <2>2. todo' = orgsInConfig(Config(r))
    BY <1>7 DEF BeginSync
  <2>3. now' <= asked'[lock'] + MaxSync
    BY <2>1
  <2> QED BY <2>1, <2>2, <2>3 DEF Syncing, Config
<1>8. ASSUME NEW r \in Request, GetRepos(r) PROVE Syncing'
  <2>1. PICK o \in todo : GetRepos(r)!2!(o)
    BY <1>8 DEF GetRepos
  <2>2. lock = r /\ UNCHANGED <<now, born, lock, asked, conf>>
    BY <1>8 DEF GetRepos, worldVars, mapVars
  <2>3. DOMAIN found' \union todo' \subseteq DOMAIN found \union todo
    BY <2>1
  <2>4. \A p \in DOMAIN found' : \A x \in Missing(found, p)' : born'[x] >= asked'[lock']
    <3> SUFFICES ASSUME NEW p \in DOMAIN found', NEW x \in Missing(found, p)'
                 PROVE  born[x] >= asked[lock]
      BY <2>2
    <3>1. p \in DOMAIN found /\ found'[p] = found[p]
      BY <2>1, <2>2 DEF Missing
    <3>2. x \in Missing(found, p)
      BY <3>1, <2>2 DEF Missing
    <3> QED BY <3>1, <3>2, <2>2 DEF Syncing
  <2> QED BY <2>2, <2>3, <2>4 DEF Syncing, Config
<1>9. ASSUME NEW r \in Request, EndSync(r) PROVE Syncing'
  BY <1>9 DEF EndSync, EndSyncWith
<1> QED BY <1>2, <1>3, <1>4, <1>5, <1>6, <1>7, <1>8, <1>9 DEF Next

\* The cache: only the end of a sync writes it, only time and new repositories age it.
LEMMA CachedStep ==
    ASSUME IInv, [Next]_vars
    PROVE  Cached'
<1> USE ConstantsOK
<1> USE DEF IInv, TypeOK
<1>1. ASSUME UNCHANGED <<now, born, nextSync, orgToRepos>> PROVE Cached'
  BY <1>1 DEF Cached, Missing
<1>2. CASE UNCHANGED vars \/ Reload
  BY <1>1, <1>2 DEF vars, worldVars, agentVars, Reload
<1>3. CASE Tick
  BY <1>3 DEF Tick, agentVars, Cached, Missing
<1>4. CASE CreateRepo
  <2>1. UNCHANGED <<now, nextSync, orgToRepos>>
    BY <1>4 DEF CreateRepo, agentVars
  <2>2. \A x \in DOMAIN born' : \/ born'[x] = now
                               \/ (x \in DOMAIN born /\ born'[x] = born[x])
    BY <1>4, BirthIsNow
  <2>3. now + Period + MaxSync >= nextSync
    BY DEF Cached
  <2>4. \A o \in DOMAIN orgToRepos : \A x \in Missing(orgToRepos, o)' :
           born'[x] + Period + MaxSync >= nextSync
    BY <2>1, <2>2, <2>3 DEF Cached, Missing
  <2> QED BY <2>1, <2>4 DEF Cached
<1>5. ASSUME NEW r \in Request,
             \/ Refuse(r) \/ ReadConfig(r) \/ UseCache(r) \/ BeginSync(r) \/ GetRepos(r)
             \/ AskExternals(r) \/ (\E e \in External : Answer(r, e)) \/ Timeout(r)
      PROVE  Cached'
  <2>1. UNCHANGED <<now, born, nextSync, orgToRepos>>
    BY <1>5 DEF Refuse, ReadConfig, UseCache, BeginSync, GetRepos, AskExternals, AskWith, Answer,
                Timeout, RespondWith, worldVars, agentVars
  <2> QED BY <1>1, <2>1
<1>6. ASSUME NEW r \in Request, EndSync(r) PROVE Cached'
  <2>1. /\ UNCHANGED <<now, born>> /\ orgToRepos' = found /\ nextSync' = now + Period
        /\ lock = r /\ lock # Nobody
    BY <1>6 DEF EndSync, EndSyncWith, worldVars
  <2>2. now <= asked[r] + MaxSync
    BY <2>1 DEF Syncing
  <2>3. ASSUME NEW o \in DOMAIN found, NEW x \in Missing(found, o)
        PROVE  born[x] + Period + MaxSync >= now + Period
    <3>1. born[x] >= asked[r]
      BY <2>1, <2>3 DEF Syncing
    <3>2. born[x] \in Nat /\ asked[r] \in Nat /\ now \in Nat
      BY <2>3 DEF Missing
    <3> QED BY <2>2, <3>1, <3>2
  <2> QED BY <2>1, <2>3 DEF Cached, Missing
<1> QED BY <1>2, <1>3, <1>4, <1>5, <1>6 DEF Next

-----------------------------------------------------------------------------
\* What the requests know, action by action.
LEMMA ListedStep ==
    ASSUME IInv, [Next]_vars
    PROVE  Listed'
<1> USE ConstantsOK
<1> USE DEF IInv, TypeOK
<1> DEFINE Knows(q) ==
      /\ pc[q] \notin {"new", "refused"} => conf[q] # 0
      /\ Mapped(q) =>
            /\ orgsInConfig(Config(q)) \subseteq excused[q] \union DOMAIN listing[q]
            /\ \A o \in DOMAIN listing[q] : \A x \in Missing(listing[q], o) :
                   born[x] + Period + MaxSync >= asked[q]
      /\ pc[q] = "done" => page[q] = allRepos(Config(q), listing[q])
<1>1. \A q \in Request : Knows(q)
  BY DEF Listed
<1>2. SUFFICES ASSUME NEW q \in Request PROVE Knows(q)'
  BY DEF Listed
<1>3. ASSUME UNCHANGED born, pc'[q] = pc[q], conf'[q] = conf[q], asked'[q] = asked[q],
             listing'[q] = listing[q], excused'[q] = excused[q], page'[q] = page[q]
      PROVE  Knows(q)'
  BY <1>1, <1>3 DEF Mapped, Missing, Config
<1>4. CASE UNCHANGED vars \/ Tick \/ Reload
  BY <1>3, <1>4 DEF vars, worldVars, mapVars, helpVars, Tick, Reload
<1>5. CASE CreateRepo
  <2>1. UNCHANGED <<pc, conf, asked, listing, excused, page>>
    BY <1>5 DEF CreateRepo, mapVars, helpVars
  <2>2. now + Period + MaxSync >= asked[q]
    <3>1. asked[q] \in 0 .. now
      OBVIOUS
    <3> QED BY <3>1
  <2>3. ASSUME Mapped(q)
        PROVE  \A o \in DOMAIN listing[q] : \A x \in Missing(listing[q], o)' :
                  born'[x] + Period + MaxSync >= asked[q]
    <3> SUFFICES ASSUME NEW o \in DOMAIN listing[q], NEW x \in Missing(listing[q], o)'
                 PROVE  born'[x] + Period + MaxSync >= asked[q]
      OBVIOUS
    <3>1. x \in DOMAIN born' /\ OrgOf[x] = o /\ x \notin listing[q][o]
      BY <2>1 DEF Missing
    <3>2. CASE born'[x] = now
      BY <3>2, <2>2
    <3>3. CASE x \in DOMAIN born /\ born'[x] = born[x]
      <4>1. x \in Missing(listing[q], o)
        BY <3>1, <3>3 DEF Missing
      <4> QED BY <4>1, <3>3, <2>3, <1>1
    <3> QED BY <3>1, <3>2, <3>3, <1>5, BirthIsNow
  <2> QED BY <2>1, <2>3, <1>1 DEF Mapped, Config, Missing
<1>6. ASSUME NEW r \in Request, Refuse(r) \/ ReadConfig(r) \/ BeginSync(r) PROVE Knows(q)'
  <2>1. CASE q # r
    BY <1>3, <1>6, <2>1 DEF Refuse, ReadConfig, BeginSync, worldVars, mapVars, helpVars
  <2>2. CASE q = r
    <3>1. ~Mapped(q)' /\ pc'[q] # "done"
      BY <1>6, <2>2 DEF Refuse, ReadConfig, BeginSync, Mapped
    <3>2. pc'[q] \notin {"new", "refused"} => conf'[q] # 0
      BY <1>1, <1>6, <2>2 DEF Refuse, ReadConfig, BeginSync
    <3> QED BY <3>1, <3>2
  <2> QED BY <2>1, <2>2
<1>7. ASSUME NEW r \in Request, UseCache(r) PROVE Knows(q)'
  <2>1. CASE q # r
    BY <1>3, <1>7, <2>1 DEF UseCache, worldVars, helpVars
  <2>2. CASE q = r
    <3>1. /\ UNCHANGED <<born, conf>> /\ pc[q] = "configured" /\ pc'[q] = "mapped"
          /\ asked'[q] = now /\ listing'[q] = orgToRepos
          /\ excused'[q] = orgs \ DOMAIN orgToRepos
      BY <1>7, <2>2 DEF UseCache, worldVars
    <3>2. conf'[q] # 0
      BY <3>1, <1>1
    <3>3. now <= nextSync /\ orgsInConfig(Config(q)) \subseteq orgs
      BY <1>7, <2>2 DEF UseCache, syncDue
    <3>4. ASSUME NEW o \in DOMAIN orgToRepos, NEW x \in Missing(orgToRepos, o)
          PROVE  born[x] + Period + MaxSync >= now
      <4>1. born[x] + Period + MaxSync >= nextSync
        BY <3>4 DEF Cached
      <4>2. born[x] \in Nat /\ now \in Nat /\ nextSync \in Int
        BY <3>4 DEF Missing
      <4> HIDE DEF IInv, TypeOK
      <4> QED BY <4>1, <4>2, <3>3
    <3> QED BY <3>1, <3>2, <3>3, <3>4 DEF Mapped, Config, Missing
  <2> QED BY <2>1, <2>2
<1>8. ASSUME NEW r \in Request, EndSync(r) PROVE Knows(q)'
  <2>1. CASE q # r
    BY <1>3, <1>8, <2>1 DEF EndSync, EndSyncWith, worldVars, helpVars
  <2>2. CASE q = r
    <3>1. /\ UNCHANGED <<born, conf, asked>> /\ lock = q /\ lock # Nobody
          /\ pc[q] = "syncing" /\ pc'[q] = "mapped"
          /\ listing'[q] = found
          /\ excused'[q] = orgsInConfig(Config(q)) \ DOMAIN found
      BY <1>8, <2>2 DEF EndSync, EndSyncWith, worldVars
    <3>2. conf'[q] # 0
      BY <3>1, <1>1
    <3>3. ASSUME NEW o \in DOMAIN found, NEW x \in Missing(found, o)
          PROVE  born[x] + Period + MaxSync >= asked[q]
      <4>1. born[x] >= asked[q]
        BY <3>1, <3>3 DEF Syncing
      <4>2. born[x] \in Nat /\ asked[q] \in Nat
        BY <3>3 DEF Missing
      <4> HIDE DEF IInv, TypeOK
      <4> QED BY <4>1, <4>2
    <3> QED BY <3>1, <3>2, <3>3 DEF Mapped, Config, Missing
  <2> QED BY <2>1, <2>2
<1>9. ASSUME NEW r \in Request,
             GetRepos(r) \/ AskExternals(r) \/ (\E e \in External : Answer(r, e))
      PROVE  Knows(q)'
  <2>1. UNCHANGED <<born, conf, asked, listing, excused, page>>
    BY <1>9 DEF GetRepos, AskExternals, AskWith, Answer, worldVars, mapVars, helpVars
  <2>2. CASE pc'[q] = pc[q]
    BY <1>3, <2>1, <2>2
  <2>3. CASE pc'[q] # pc[q]
    <3>1. pc[q] = "mapped" /\ pc'[q] = "collecting"
      BY <1>9, <2>3 DEF GetRepos, AskExternals, AskWith, Answer
    <3> QED BY <3>1, <2>1, <1>1 DEF Mapped, Config, Missing
  <2> QED BY <2>2, <2>3
<1>10. ASSUME NEW r \in Request, Timeout(r) PROVE Knows(q)'
  <2>1. CASE q # r
    BY <1>3, <1>10, <2>1 DEF Timeout, RespondWith, worldVars, mapVars
  <2>2. CASE q = r
    <3>1. /\ UNCHANGED <<born, conf, asked, listing, excused>>
          /\ pc[q] = "collecting" /\ pc'[q] = "done"
          /\ page'[q] = allRepos(Config(q), listing[q])
      BY <1>10, <2>2 DEF Timeout, RespondWith, worldVars, mapVars
    <3> QED BY <3>1, <1>1 DEF Mapped, Config, Missing
  <2> QED BY <2>1, <2>2
<1> QED BY <1>4, <1>5, <1>6, <1>7, <1>8, <1>9, <1>10 DEF Next

-----------------------------------------------------------------------------
\* The invariant the theorems below follow from.
THEOREM Invariance == Spec => []IInv
<1>1. IInv /\ [Next]_vars => IInv'
  BY TypeStep, SyncStep, CachedStep, ListedStep DEF IInv
<1> QED BY Start, <1>1, PTL DEF Spec

\* Every variable keeps its type, and the mutex is held exactly while a sync runs.
THEOREM TypeCorrect == Spec => []TypeOK
<1>1. IInv => TypeOK
  BY DEF IInv
<1> QED BY Invariance, <1>1, PTL

\* A page misses no repository older than the detection limit and a sync, for any
\* interleaving of requests, syncs, reloads and failing calls (orgToReposMap, sync).
THEOREM NewReposAreFound == Spec => []NewRepoIsListed
<1>1. IInv => NewRepoIsListed
  <2> SUFFICES ASSUME IInv, NEW r \in Request, NEW x \in DOMAIN born, Mapped(r),
                      OrgOf[x] \in orgsInConfig(Config(r)) \ excused[r],
                      born[x] + Period + MaxSync < asked[r]
               PROVE  OrgOf[x] \in DOMAIN listing[r] /\ x \in listing[r][OrgOf[x]]
    BY DEF NewRepoIsListed
  <2>1. OrgOf[x] \in DOMAIN listing[r]
    BY DEF IInv, Listed
  <2>2. ASSUME x \notin listing[r][OrgOf[x]] PROVE FALSE
    <3>1. x \in Missing(listing[r], OrgOf[x])
      BY <2>2 DEF Missing
    <3>2. born[x] + Period + MaxSync >= asked[r]
      BY <2>1, <3>1 DEF IInv, Listed
    <3>3. born[x] \in Nat /\ asked[r] \in Nat
      BY DEF IInv, TypeOK
    <3> QED BY <3>2, <3>3, ConstantsOK
  <2> QED BY <2>1, <2>2
<1> QED BY Invariance, <1>1, PTL

\* Every repository a plugin was asked about is on the page that was answered, and
\* what else an external plugin was asked about is an organisation whose listing
\* failed (GeneratePluginHelp, reversePluginMaps, allRepos).
THEOREM PagesAreConsistent == Spec => []PageShowsWhatWasAsked
<1>1. IInv => PageShowsWhatWasAsked
  <2> SUFFICES ASSUME IInv, NEW r \in Request, pc[r] = "done"
               PROVE  /\ \A p \in Plugin : normalRepos(Config(r), listing[r], p) \subseteq page[r]
                      /\ \A n \in Name : externalRepos(Config(r), listing[r], n)
                                            \subseteq page[r] \union excused[r]
    BY DEF PageShowsWhatWasAsked
  <2> DEFINE c == Config(r)  l == listing[r]
  <2>1. /\ page[r] = allRepos(c, l)
        /\ orgsInConfig(c) \subseteq excused[r] \union DOMAIN l
    BY DEF IInv, Listed, Mapped
  <2>2. l \in Listing /\ DOMAIN l \subseteq Org
    BY ListingIsFunction DEF IInv, TypeOK
  <2>3. DOMAIN c.external \subseteq Org \union Repo
    BY ConfigRead, ConstantsOK DEF IInv, Config, ConfigOK
  <2>4. \A p \in Plugin : normalRepos(c, l, p) \subseteq allRepos(c, l)
    BY DEF normalRepos, allRepos, Keys
  <2>5. ASSUME NEW n \in Name, NEW x \in externalRepos(c, l, n)
        PROVE  x \in allRepos(c, l) \union excused[r]
    <3>1. PICK k \in DOMAIN c.external : x \in IF k \in DOMAIN l THEN l[k] ELSE {k}
      BY <2>5 DEF externalRepos
    <3>2. CASE k \in DOMAIN l
      <4>1. k \notin Repo
        BY <3>2, <2>2, ConstantsOK
      <4> QED BY <3>1, <3>2, <4>1 DEF allRepos, Keys
    <3>3. CASE k \notin DOMAIN l /\ k \in Repo
      BY <3>1, <3>3 DEF allRepos, Keys
    <3>4. CASE k \notin DOMAIN l /\ k \in Org
      BY <3>1, <3>4, <2>1 DEF orgsInConfig, Keys
    <3> QED BY <2>3, <3>2, <3>3, <3>4
  <2> QED BY <2>1, <2>4, <2>5
<1> QED BY Invariance, <1>1, PTL

-----------------------------------------------------------------------------
\* The channel of a request: what is left in it and what may yet be sent fit into it.
Room ==
    \A r \in Request :
        /\ IsFiniteSet(asking[r])
        /\ left[r] + Cardinality(asking[r]) <= room[r]
        /\ pc[r] \notin {"collecting", "done"} => left[r] = 0

LEMMA RoomStep ==
    ASSUME IInv, Room, [Next]_vars
    PROVE  Room'
<1> SUFFICES ASSUME NEW q \in Request
             PROVE  /\ IsFiniteSet(asking'[q])
                    /\ left'[q] + Cardinality(asking'[q]) <= room'[q]
                    /\ pc'[q] \notin {"collecting", "done"} => left'[q] = 0
  BY DEF Room
<1>1. /\ asking \in [Request -> SUBSET External] /\ room \in [Request -> Nat]
      /\ left \in [Request -> Nat] /\ pc \in [Request -> {"new", "refused", "configured", "syncing",
                                                       "mapped", "collecting", "done"}]
  BY DEF IInv, TypeOK
<1>2. /\ IsFiniteSet(asking[q]) /\ left[q] + Cardinality(asking[q]) <= room[q]
      /\ pc[q] \notin {"collecting", "done"} => left[q] = 0
  BY DEF Room
<1>3. ASSUME asking'[q] = asking[q], left'[q] = left[q], room'[q] = room[q],
             pc[q] \in {"collecting", "done"} => pc'[q] \in {"collecting", "done"}
      PROVE  /\ IsFiniteSet(asking'[q]) /\ left'[q] + Cardinality(asking'[q]) <= room'[q]
             /\ pc'[q] \notin {"collecting", "done"} => left'[q] = 0
  BY <1>2, <1>3
<1>4. CASE UNCHANGED vars \/ Tick \/ CreateRepo \/ Reload
  BY <1>3, <1>4 DEF vars, helpVars, Tick, CreateRepo, Reload
<1>5. ASSUME NEW r \in Request, \/ Refuse(r) \/ ReadConfig(r) \/ UseCache(r) \/ BeginSync(r)
                                \/ GetRepos(r) \/ EndSync(r) \/ Timeout(r)
      PROVE  /\ UNCHANGED <<asking, room, left>>
             /\ pc[q] \in {"collecting", "done"} => pc'[q] \in {"collecting", "done"}
  BY <1>1, <1>5 DEF Refuse, ReadConfig, UseCache, BeginSync, GetRepos, EndSync, EndSyncWith,
                    Timeout, RespondWith, helpVars
<1>6. ASSUME NEW r \in Request, AskExternals(r)
      PROVE  /\ IsFiniteSet(asking'[q]) /\ left'[q] + Cardinality(asking'[q]) <= room'[q]
             /\ pc'[q] \notin {"collecting", "done"} => left'[q] = 0
  <2>1. CASE q # r
    BY <1>1, <1>3, <1>6, <2>1 DEF AskExternals, AskWith
  <2>2. CASE q = r
    <3>1. PICK es \in externals(Config(q)) :
             /\ asking' = [asking EXCEPT ![q] = es]
             /\ room' = [room EXCEPT ![q] = Cardinality(es)]
      BY <1>6, <2>2 DEF AskExternals, AskWith
    <3>2. /\ pc[q] = "mapped" /\ pc'[q] = "collecting" /\ left' = left
      BY <1>1, <1>6, <2>2 DEF AskExternals, AskWith
    <3>3. conf[q] \in DOMAIN History
      BY <3>2, ConfigRead DEF IInv
    <3>4. IsFiniteSet(es) /\ Cardinality(es) \in Nat
      BY <3>1, <3>3, ExternalsType DEF Config
    <3>5. asking'[q] = es /\ room'[q] = Cardinality(es) /\ left'[q] = 0
      BY <1>1, <1>2, <3>1, <3>2
    <3> QED BY <3>2, <3>4, <3>5
  <2> QED BY <2>1, <2>2
<1>7. ASSUME NEW r \in Request, NEW e \in External, Answer(r, e)
      PROVE  /\ IsFiniteSet(asking'[q]) /\ left'[q] + Cardinality(asking'[q]) <= room'[q]
             /\ pc'[q] \notin {"collecting", "done"} => left'[q] = 0
  <2>1. CASE q # r
    BY <1>1, <1>3, <1>7, <2>1 DEF Answer
  <2>2. CASE q = r
    <3>1. /\ asking'[q] = asking[q] \ {e} /\ e \in asking[q] /\ UNCHANGED <<pc, room>>
          /\ pc[q] \in {"collecting", "done"}
          /\ left'[q] = left[q] \/ left'[q] = left[q] + 1
      BY <1>1, <1>7, <2>2 DEF Answer
    <3>2. /\ IsFiniteSet(asking'[q]) /\ Cardinality(asking[q]) \in Nat
          /\ Cardinality(asking'[q]) = Cardinality(asking[q]) - 1
      BY <1>2, <3>1, FS_RemoveElement, FS_CardinalityType
    <3>3. left[q] \in Nat /\ room[q] \in Nat
      BY <1>1
    <3> QED BY <1>2, <3>1, <3>2, <3>3
  <2> QED BY <2>1, <2>2
<1> QED BY <1>3, <1>4, <1>5, <1>6, <1>7 DEF Next

\* A goroutine that asks an external plugin never finds the channel full, however many
\* results came after the page was served (generateExternalPluginHelp).
THEOREM ResultsFit ==
    Spec => [](\A r \in Request : asking[r] # {} => left[r] < room[r])
<1>1. Init => Room
  BY FS_EmptySet DEF Init, Room
<1>2. IInv /\ Room /\ [Next]_vars => Room'
  BY RoomStep
<1>3. IInv /\ Room => \A r \in Request : asking[r] # {} => left[r] < room[r]
  <2> SUFFICES ASSUME IInv, Room, NEW r \in Request, asking[r] # {}
               PROVE  left[r] < room[r]
    OBVIOUS
  <2>1. Cardinality(asking[r]) \in Nat /\ Cardinality(asking[r]) # 0
    BY FS_CardinalityType, FS_EmptySet DEF Room
  <2>2. left[r] \in Nat /\ room[r] \in Nat
    BY DEF IInv, TypeOK
  <2> QED BY <2>1, <2>2 DEF Room
<1> QED BY Invariance, <1>1, <1>2, <1>3, PTL DEF Spec

-----------------------------------------------------------------------------
(* How often GitHub is asked.  Time is counted in whole periods: one that  *)
(* begins at PeriodStart(m) ends before a sync that is due by time may     *)
(* follow the one that began it.  Within a period an organisation is       *)
(* listed once for each version that a request may have read, so that m    *)
(* periods and the versions up to v allow Budget(version, m, v) calls.     *)

PeriodStart(m) == m * (Period + 1)
Budget(ver, m, v) == ver * m + v

\* Configurations only add organisations.
OnlyAdds ==
    \A v, w \in DOMAIN History :
        v < w => orgsInConfig(History[v]) \subseteq orgsInConfig(History[w])

Unlisted ==
    /\ lock = Nobody /\ nextSync = -1 /\ orgs = {}
    /\ \A o \in Org : calls[o] = 0

\* The mutex is free: the cache is of version v, and the period in which it was filled
\* lasts until it expires.
CallsCached(m, v) ==
    /\ lock = Nobody
    /\ PeriodStart(m) <= now /\ PeriodStart(m + 1) <= nextSync + 1
    /\ orgs = orgsInConfig(History[v])
    /\ \A o \in Org : calls[o] <= Budget(version, m, v)

\* A sync runs: what it has still to list was not yet listed for this version.
CallsSyncing(m) ==
    /\ lock # Nobody
    /\ PeriodStart(m) <= now
    /\ \A o \in Org : calls[o] <= Budget(version, m, conf[lock])
    /\ \A o \in todo : calls[o] < Budget(version, m, conf[lock])

Counted ==
    \/ Unlisted
    \/ \E m \in Nat, v \in 1 .. version : CallsCached(m, v)
    \/ \E m \in Nat : CallsSyncing(m)

\* Whole periods follow each other.
LEMMA Periods ==
    ASSUME NEW m \in Nat
    PROVE  /\ PeriodStart(m) \in Nat
           /\ PeriodStart(0) = 0
           /\ PeriodStart(m + 1) = PeriodStart(m) + Period + 1
<1> DEFINE d == Period + 1
<1>1. d \in Nat
  BY ConstantsOK
<1>2. m * d \in Nat /\ 0 * d = 0 /\ (m + 1) * d = m * d + d
  BY <1>1
<1> HIDE DEF d
<1>3. PeriodStart(m) = m * d /\ PeriodStart(0) = 0 * d /\ PeriodStart(m + 1) = (m + 1) * d
  BY DEF PeriodStart, d
<1>4. d = Period + 1
  BY DEF d
<1> QED BY <1>2, <1>3, <1>4, ConstantsOK

\* A budget grows with the versions, and by a version for each period.
LEMMA Budgets ==
    ASSUME NEW m \in Nat, NEW ver \in Nat, NEW v \in Nat
    PROVE  /\ Budget(ver, m, v) \in Nat
           /\ Budget(ver, 0, v) = v
           /\ Budget(ver, m, v + 1) = Budget(ver, m, v) + 1
           /\ Budget(ver, m + 1, v) = Budget(ver, m, v) + ver
           /\ Budget(ver, m, v) <= Budget(ver + 1, m, v)
           /\ \A w \in Nat : v < w => Budget(ver, m, v) < Budget(ver, m, w)
<1>1. ver * m \in Nat /\ ver * 0 = 0
  OBVIOUS
<1>2. ver * (m + 1) = ver * m + ver
  OBVIOUS
<1>3. (ver + 1) * m = ver * m + m
  OBVIOUS
<1> DEFINE a == ver * m  b == ver * (m + 1)  e == (ver + 1) * m
<1>4. a \in Nat /\ b = a + ver /\ e = a + m
  BY <1>1, <1>2, <1>3
<1>5. /\ Budget(ver, m, v) = a + v /\ Budget(ver, m, v + 1) = a + (v + 1)
      /\ Budget(ver, m + 1, v) = b + v /\ Budget(ver + 1, m, v) = e + v
      /\ \A w \in Nat : Budget(ver, m, w) = a + w
      /\ Budget(ver, 0, v) = v
  BY <1>1 DEF Budget
<1> HIDE DEF a, b, e
<1> QED BY <1>4, <1>5

\* What is spent by a moment is within the bound for it.
LEMMA WithinBound ==
    ASSUME NEW m \in Nat, NEW n \in Nat, NEW ver \in Nat, NEW v \in 0 .. ver,
           PeriodStart(m) <= n
    PROVE  Budget(ver, m, v) <= ver * (1 + n \div (Period + 1))
<1> DEFINE d == Period + 1  k == n \div d
<1>1. d \in Nat /\ d > 0
  BY ConstantsOK
<1>2. m <= k /\ k \in Nat
  <2>1. m * d <= n
    BY DEF PeriodStart
  <2> HIDE DEF d
  <2>2. k \in Nat /\ n < (k + 1) * d
    BY <1>1
  <2>3. m * d < (k + 1) * d
    <3>1. m * d \in Nat /\ (k + 1) * d \in Nat
      BY <1>1, <2>2
    <3> QED BY <2>1, <2>2, <3>1
  <2>4. m < k + 1
    BY <2>3, <2>2, <1>1
  <2> QED BY <2>2, <2>4
<1> HIDE DEF k
<1>3. ver * m <= ver * k
  BY <1>2
<1>4. ver * (1 + k) = ver + ver * k /\ ver * m \in Nat /\ ver * k \in Nat
  BY <1>2
<1>5. Budget(ver, m, v) = ver * m + v
  BY DEF Budget
<1>6. Budget(ver, m, v) <= ver * (1 + k)
  BY <1>3, <1>4, <1>5
<1> QED BY <1>6 DEF k

\* The counts, action by action.
LEMMA CountedStep ==
    ASSUME IInv, [Next]_vars, OnlyAdds, Counted
    PROVE  Counted'
<1>1. /\ version \in Nat \ {0} /\ now \in Nat /\ nextSync \in Int /\ Period \in Nat
      /\ calls \in [Org -> Nat] /\ todo \subseteq Org /\ conf \in [Request -> Nat]
      /\ lock \in Request \union {Nobody} /\ Nobody \notin Request
      /\ \A r \in Request : pc[r] = "syncing" <=> lock = r
  BY ConstantsOK DEF IInv, TypeOK
<1>2. \A m \in Nat : PeriodStart(m) \in Nat
  BY Periods
<1>3. \A m, v \in Nat : Budget(version, m, v) \in Nat
  BY <1>1, Budgets
<1>4. \A r \in Request : pc[r] \notin {"new", "refused"} =>
         conf[r] \in 1 .. version /\ conf[r] \in DOMAIN History
  <2> SUFFICES ASSUME NEW r \in Request, pc[r] \notin {"new", "refused"}
               PROVE  conf[r] \in 1 .. version /\ conf[r] \in DOMAIN History
    OBVIOUS
  <2>1. conf[r] \in 0 .. version
    BY DEF IInv, TypeOK
  <2>2. conf[r] \in DOMAIN History /\ conf[r] # 0
    BY ConfigRead DEF IInv, Listed
  <2> QED BY <1>1, <2>1, <2>2
<1>5. version \in DOMAIN History /\ DOMAIN History = 1 .. Len(History) /\ Len(History) \in Nat
  BY ConstantsOK DEF IInv, TypeOK
<1>6. ASSUME UNCHANGED <<now, version, nextSync, orgs, lock, todo, calls>>,
             lock # Nobody => conf'[lock] = conf[lock]
      PROVE  Counted'
  BY <1>6 DEF Counted, Unlisted, CallsCached, CallsSyncing
<1>7. CASE UNCHANGED vars \/ CreateRepo
  BY <1>6, <1>7 DEF vars, worldVars, agentVars, mapVars, CreateRepo
<1>8. CASE Tick
  <2>1. UNCHANGED <<version, nextSync, orgs, lock, todo, calls, conf>> /\ now' = now + 1
    BY <1>8 DEF Tick, agentVars, mapVars
  <2>2. \A m \in Nat : PeriodStart(m) <= now => PeriodStart(m) <= now'
    BY <1>1, <1>2, <2>1
  <2>3. \A m \in Nat, v \in 1 .. version : CallsCached(m, v) => CallsCached(m, v)'
    BY <2>1, <2>2 DEF CallsCached
  <2>4. \A m \in Nat : CallsSyncing(m) => CallsSyncing(m)'
    BY <2>1, <2>2 DEF CallsSyncing
  <2> QED BY <2>1, <2>3, <2>4 DEF Counted, Unlisted
<1>9. CASE Reload
  <2>1. UNCHANGED <<now, nextSync, orgs, lock, todo, calls, conf>> /\ version' = version + 1
    BY <1>9 DEF Reload, agentVars, mapVars
  <2>2. \A m, v, n \in Nat :
           /\ n <= Budget(version, m, v) => n <= Budget(version', m, v)
           /\ n < Budget(version, m, v) => n < Budget(version', m, v)
    <3> SUFFICES ASSUME NEW m \in Nat, NEW v \in Nat, NEW n \in Nat
                 PROVE  /\ n <= Budget(version, m, v) => n <= Budget(version', m, v)
                        /\ n < Budget(version, m, v) => n < Budget(version', m, v)
      OBVIOUS
    <3>1. Budget(version, m, v) <= Budget(version + 1, m, v) /\ Budget(version + 1, m, v) \in Nat
      <4>1. version \in Nat /\ version + 1 \in Nat
        BY <1>1
      <4> QED BY <4>1, Budgets
    <3>2. Budget(version', m, v) = Budget(version + 1, m, v)
      BY <2>1
    <3>3. Budget(version, m, v) \in Nat
      BY <1>3
    <3> QED BY <3>1, <3>2, <3>3
  <2>3. \A m \in Nat, v \in 1 .. version : CallsCached(m, v) => CallsCached(m, v)'
    BY <1>1, <2>1, <2>2 DEF CallsCached
  <2>4. \A m \in Nat : CallsSyncing(m) => CallsSyncing(m)'
    <3>1. lock # Nobody => conf[lock] \in Nat
      BY <1>1
    <3> QED BY <1>1, <2>1, <2>2, <3>1 DEF CallsSyncing
  <2> QED BY <1>1, <2>1, <2>3, <2>4 DEF Counted, Unlisted
<1>10. ASSUME NEW r \in Request,
             \/ Refuse(r) \/ ReadConfig(r) \/ UseCache(r) \/ AskExternals(r)
             \/ (\E e \in External : Answer(r, e)) \/ Timeout(r)
      PROVE  Counted'
  <2>1. UNCHANGED <<now, version, nextSync, orgs, lock, todo, calls>>
    BY <1>10 DEF Refuse, ReadConfig, UseCache, AskExternals, AskWith, Answer, Timeout, RespondWith,
                worldVars, agentVars
  <2>2. lock # Nobody => conf'[lock] = conf[lock]
    <3>1. lock # Nobody => pc[lock] = "syncing" /\ lock \in Request
      BY <1>1
    <3> QED BY <1>1, <1>10, <3>1 DEF Refuse, ReadConfig, UseCache, AskExternals, AskWith, Answer, Timeout,
                              RespondWith, mapVars
  <2> QED BY <1>6, <2>1, <2>2
<1>11. ASSUME NEW r \in Request, BeginSync(r) PROVE Counted'
  <2>1. /\ UNCHANGED <<now, version, nextSync, orgs, calls, conf>>
        /\ lock = Nobody /\ lock' = r /\ todo' = orgsInConfig(Config(r)) /\ syncDue(r)
    BY <1>11 DEF BeginSync, worldVars
  <2>2. conf[r] \in DOMAIN History /\ conf[r] \in 1 .. version
    BY <1>4, <1>11 DEF BeginSync
  <2>3. SUFFICES ASSUME NEW m \in Nat, PeriodStart(m) <= now,
                        \A o \in Org : calls[o] < Budget(version, m, conf[r])
                 PROVE  CallsSyncing(m)'
    <3>1. ASSUME NEW m \in Nat, PeriodStart(m) <= now,
                 \A o \in Org : calls[o] < Budget(version, m, conf[r])
          PROVE  Counted'
      BY <2>3, <3>1 DEF Counted
    <3>2. CASE Unlisted
      <4>1. \A o \in Org : calls[o] < Budget(version, 0, conf[r])
        <5>1. Budget(version, 0, conf[r]) = conf[r]
          BY <1>1, Budgets
        <5> QED BY <1>1, <2>2, <3>2, <5>1 DEF Unlisted
      <4>2. PeriodStart(0) <= now
        BY <1>1, Periods
      <4> QED BY <3>1, <4>1, <4>2
    <3>3. ASSUME NEW m \in Nat, NEW v \in 1 .. version, CallsCached(m, v) PROVE Counted'
      <4>1. CASE now > nextSync
        <5>1. PeriodStart(m + 1) <= now
          BY <1>1, <1>2, <3>3, <4>1 DEF CallsCached
        <5>2. Budget(version, m, v) < Budget(version, m + 1, conf[r])
          <6>1. /\ Budget(version, m, v) < Budget(version, m, version + conf[r])
                /\ Budget(version, m, version + conf[r])
                     = Budget(version, m + 1, conf[r])
            <7>1. v < version + conf[r] /\ version + conf[r] \in Nat /\ v \in Nat
              BY <1>1, <2>2
            <7>2. Budget(version, m, version + conf[r]) = Budget(version, m + 1, conf[r])
              <8>1. /\ version * (m + 1) = version * m + version
                    /\ version * m \in Nat /\ version \in Nat /\ conf[r] \in Nat
                BY <1>1, <2>2
              <8> QED BY <8>1 DEF Budget
            <7> QED BY <1>1, <7>1, <7>2, Budgets
          <6> QED BY <6>1
        <5>3. \A o \in Org : calls[o] < Budget(version, m + 1, conf[r])
          <6>1. Budget(version, m, v) \in Nat /\ Budget(version, m + 1, conf[r]) \in Nat
            <7>1. v \in Nat /\ m + 1 \in Nat /\ conf[r] \in Nat
              BY <1>1, <2>2
            <7> QED BY <1>3, <7>1
          <6> QED BY <1>1, <3>3, <5>2, <6>1 DEF CallsCached
        <5> QED BY <3>1, <5>1, <5>3
      <4>2. CASE orgsInConfig(Config(r)) \ orgs # {}
        <5>1. v < conf[r]
          <6>1. ASSUME conf[r] <= v PROVE FALSE
            <7>1. orgsInConfig(History[conf[r]]) \subseteq orgsInConfig(History[v])
              <8>1. v \in DOMAIN History
                BY <1>1, <1>5
              <8>2. conf[r] = v \/ conf[r] < v
                BY <1>1, <6>1
              <8> QED BY <2>2, <8>1, <8>2 DEF OnlyAdds
            <7> QED BY <3>3, <4>2, <7>1 DEF CallsCached, Config
          <6> QED BY <2>2, <6>1
        <5>2. /\ Budget(version, m, v) < Budget(version, m, conf[r])
              /\ Budget(version, m, v) \in Nat /\ Budget(version, m, conf[r]) \in Nat
          <6>1. v \in Nat /\ conf[r] \in Nat
            BY <1>1, <2>2
          <6> QED BY <1>1, <1>3, <5>1, <6>1, Budgets
        <5>3. \A o \in Org : calls[o] < Budget(version, m, conf[r])
          BY <1>1, <3>3, <5>2 DEF CallsCached
        <5> QED BY <3>1, <3>3, <5>3 DEF CallsCached
      <4> QED BY <2>1, <4>1, <4>2 DEF syncDue
    <3> QED BY <2>1, <3>2, <3>3 DEF Counted, CallsSyncing
  <2>4. Budget(version, m, conf[r]) \in Nat
    BY <1>1, <1>3
  <2>5. todo' \subseteq Org
    BY <2>1 DEF orgsInConfig
  <2> QED BY <1>1, <2>1, <2>3, <2>4, <2>5 DEF CallsSyncing
<1>12. ASSUME NEW r \in Request, GetRepos(r) PROVE Counted'
  <2>1. PICK o \in todo : todo' = todo \ {o} /\ calls' = [calls EXCEPT ![o] = @ + 1]
    BY <1>12 DEF GetRepos
  <2>2. UNCHANGED <<now, version, nextSync, orgs, lock, conf>> /\ lock = r /\ lock # Nobody
    BY <1>1, <1>12 DEF GetRepos, worldVars, mapVars
  <2>3. PICK m \in Nat : CallsSyncing(m)
    BY <2>2 DEF Counted, Unlisted, CallsCached
  <2>4. Budget(version, m, conf[lock]) \in Nat
    BY <1>1, <1>3, <2>2
  <2>5. \A p \in Org : calls'[p] <= Budget(version, m, conf[lock])
    BY <1>1, <2>1, <2>3, <2>4 DEF CallsSyncing
  <2>6. \A p \in todo' : calls'[p] < Budget(version, m, conf[lock])
    BY <1>1, <2>1, <2>3, <2>4 DEF CallsSyncing
  <2>7. CallsSyncing(m)'
    BY <2>2, <2>3, <2>5, <2>6 DEF CallsSyncing
  <2> QED BY <2>7 DEF Counted
<1>13. ASSUME NEW r \in Request, EndSync(r) PROVE Counted'
  <2>1. /\ UNCHANGED <<now, version, calls, conf>> /\ lock = r /\ lock # Nobody
        /\ lock' = Nobody /\ orgs' = orgsInConfig(Config(r)) /\ nextSync' = now + Period
    BY <1>1, <1>13 DEF EndSync, EndSyncWith, worldVars
  <2>2. PICK m \in Nat : CallsSyncing(m)
    BY <2>1 DEF Counted, Unlisted, CallsCached
  <2>3. conf[r] \in 1 .. version
    BY <1>4, <1>13 DEF EndSync, EndSyncWith
  <2>4. PeriodStart(m + 1) <= nextSync' + 1
    <3>1. PeriodStart(m + 1) = PeriodStart(m) + Period + 1
      BY Periods
    <3> QED BY <1>1, <1>2, <2>1, <2>2, <3>1 DEF CallsSyncing
  <2>5. CallsCached(m, conf[r])'
    BY <2>1, <2>2, <2>4 DEF CallsCached, CallsSyncing, Config
  <2>6. \E v \in 1 .. version' : CallsCached(m, v)'
    BY <2>1, <2>3, <2>5 DEF CallsCached
  <2> QED BY <2>6 DEF Counted
<1> QED BY <1>7, <1>8, <1>9, <1>10, <1>11, <1>12, <1>13 DEF Next

\* An organisation is listed at most once in a period for each configuration that was
\* read, whatever requests meet an expired cache and whichever listings fail, if
\* configurations only add organisations (orgToReposMap, sync).
THEOREM TokensSpared == Spec => []TokensAreSpared
<1> DEFINE Inv == IInv /\ (OnlyAdds => Counted)
<1>1. Init => Inv
  <2>1. Init => Unlisted
    BY DEF Init, Unlisted
  <2> QED BY <2>1, Start DEF Counted
<1>2. Inv /\ [Next]_vars => Inv'
  <2>1. OnlyAdds' => OnlyAdds
    BY DEF OnlyAdds, orgsInConfig, Keys
  <2> QED BY <2>1, TypeStep, SyncStep, CachedStep, ListedStep, CountedStep DEF IInv
<1>3. Inv => TokensAreSpared
  <2> SUFFICES ASSUME IInv, Counted, NEW o \in Org
               PROVE  calls[o] <= version * (1 + now \div (Period + 1))
    BY DEF TokensAreSpared, OnlyAdds
  <2>1. /\ version \in Nat \ {0} /\ now \in Nat /\ calls[o] \in Nat
    BY ConstantsOK DEF IInv, TypeOK
  <2> DEFINE bound == version * (1 + now \div (Period + 1))
  <2>2. bound \in Int /\ \A m \in Nat, v \in 0 .. version :
           PeriodStart(m) <= now => Budget(version, m, v) <= bound /\ Budget(version, m, v) \in Nat
    <3>1. bound \in Int
      <4>1. now \div (Period + 1) \in Int
        BY <2>1, ConstantsOK
      <4> QED BY <2>1, <4>1
    <3>2. SUFFICES ASSUME NEW m \in Nat, NEW v \in 0 .. version, PeriodStart(m) <= now
                   PROVE  Budget(version, m, v) <= bound /\ Budget(version, m, v) \in Nat
      BY <3>1
    <3>3. Budget(version, m, v) <= bound
      BY <2>1, <3>2, WithinBound
    <3>4. v \in Nat
      BY <2>1
    <3> QED BY <2>1, <3>3, <3>4, Budgets
  <2> HIDE DEF bound
  <2>3. \E m \in Nat, v \in 0 .. version :
           PeriodStart(m) <= now /\ calls[o] <= Budget(version, m, v)
    <3>1. CASE Unlisted
      <4>1. PeriodStart(0) <= now
        BY <2>1, Periods
      <4>2. calls[o] <= Budget(version, 0, 0) /\ 0 \in 0 .. version
        BY <2>1, <3>1, Budgets DEF Unlisted
      <4> QED BY <4>1, <4>2
    <3>2. ASSUME NEW m \in Nat, NEW v \in 1 .. version, CallsCached(m, v) PROVE <2>3
      BY <2>1, <3>2 DEF CallsCached
    <3>3. ASSUME NEW m \in Nat, CallsSyncing(m) PROVE <2>3
      <4>1. conf[lock] \in 0 .. version
        BY <3>3 DEF CallsSyncing, IInv, TypeOK
      <4> QED BY <3>3, <4>1 DEF CallsSyncing
    <3> QED BY <3>1, <3>2, <3>3 DEF Counted
  <2>4. calls[o] <= bound
    BY <2>1, <2>2, <2>3
  <2> QED BY <2>4 DEF bound
<1> QED BY <1>1, <1>2, <1>3, PTL DEF Spec
===============================================================================
