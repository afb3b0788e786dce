---------------------------- MODULE GiteeClient ----------------------------
(***************************************************************************)
(* The client of the Gitee API (gitee/gitee/client.go), which all handlers *)
(* of a process share: the bot's account, fetched once behind a            *)
(* double-checked lock, and the lists that are read page by page while     *)
(* handlers, users and other bots change them.                             *)
(*                                                                         *)
(* Each caller makes one call.  A call that fails may have had its effect. *)
(* What a list contains are numbered items; which fields they have is left *)
(* out, as are the filters of a list.                                      *)
(***************************************************************************)
EXTENDS Naturals, Sequences, SequencesExt

CONSTANTS
    Caller,         \* goroutines that make a call each
    Workload,       \* what they call: functions from Caller to Call
    NewestFirst,    \* the collections that Gitee lists from the newest item
    PageSize,       \* the items Gitee puts on a page
    MaxItems,       \* bound: items of a list when the calls begin
    MaxChanges,     \* bound: changes made by others meanwhile
    PublishesWhole  \* whether the build lets a goroutine that sees a pointer
                    \* without a lock see all that it points to

Reads == [GetPullRequests |-> "pulls", GetPRLabels |-> "labels",
          ListPRComments |-> "comments", ListPrIssues |-> "issues",
          GetRepos |-> "repos"]
Creates == [CreatePullRequest |-> "pulls", AddPRLabel |-> "labels",
            CreatePRComment |-> "comments"]
Deletes == [UpdatePullRequest |-> "pulls", RemovePRLabel |-> "labels",
            DeletePRComment |-> "comments"]

Collection == {"pulls", "labels", "comments", "issues", "repos"}
Call == {"BotName"} \union DOMAIN Reads \union DOMAIN Creates \union DOMAIN Deletes

ASSUME ClientAssumption ==
    /\ Workload \subseteq [Caller -> Call]
    /\ NewestFirst \subseteq Collection
    /\ PageSize \in Nat \ {0}
    /\ MaxItems \in Nat
    /\ MaxChanges \in Nat
    /\ PublishesWhole \in BOOLEAN

Nil == 0          \* no account; accounts are numbered by their renamings
Free == "free"    \* the mutex is not held

ASSUME FreeIsNoCaller == Free \notin Caller

VARIABLES
    call,       \* what each caller calls
    pc,         \* how far its call is
    userData,   \* the cached account
    mut,        \* who holds the mutex
    account,    \* the bot's account on Gitee
    name,       \* what BotName returned
    items,      \* the lists on Gitee
    fresh,      \* the number of the next item
    changes,    \* changes made by others
    offset,     \* items that the pages asked for so far can hold
    got,        \* what it has read so far
    start,      \* history: the list when its first page was read
    during      \* history: what happened to the list while it was read

userVars == <<userData, mut, account, name>>
listVars == <<items, fresh, changes, during>>
readVars == <<offset, got, start>>
vars == <<call, pc, userVars, listVars, readVars>>

TypeOK ==
    /\ call \in [Caller -> Call]
    /\ pc \in [Caller -> {"called", "locking", "locked", "fetching", "using",
                          "reading", "done", "failed"}]
    /\ userData \in Nat
    /\ mut \in Caller \union {Free}
    /\ account \in Nat \ {Nil}
    /\ name \in [Caller -> Nat]
    /\ items \in [Collection -> Seq(Nat)]
    /\ fresh \in Nat
    /\ changes \in Nat
    /\ offset \in [Caller -> Nat]
    /\ got \in [Caller -> Seq(Nat)]
    /\ start \in [Caller -> Seq(Nat)]
    /\ during \in [Caller -> SUBSET {"removed", "shifted"}]

Init ==
    /\ call \in Workload
    /\ pc = [c \in Caller |-> "called"]
    /\ userData = Nil
    /\ mut = Free
    /\ account = 1
    /\ name = [c \in Caller |-> Nil]
    /\ \E n \in 0..MaxItems : items = [x \in Collection |-> [i \in 1..n |-> i]]
    /\ fresh = MaxItems + 1
    /\ changes = 0
    /\ offset = [c \in Caller |-> 0]
    /\ got = [c \in Caller |-> <<>>]
    /\ start = [c \in Caller |-> <<>>]
    /\ during = [c \in Caller |-> {}]

At(c, l) == pc[c] = l
Goto(c, l) == pc' = [pc EXCEPT ![c] = l]

-----------------------------------------------------------------------------
(* BotName, Email and BotUser: getUserData, then a field of the cache.     *)

\* getUserData looks at the cache without the lock.
CheckUser(c) ==
    /\ call[c] = "BotName"
    /\ At(c, "called")
    /\ Goto(c, IF userData = Nil THEN "locking" ELSE "using")
    /\ UNCHANGED <<call, userVars, listVars, readVars>>

Lock(c) ==
    /\ At(c, "locking")
    /\ mut = Free
    /\ mut' = c
    /\ Goto(c, "locked")
    /\ UNCHANGED <<call, userData, account, name, listVars, readVars>>

\* Mutant: the cache is not looked at again under the lock.
RecheckNot(c) ==
    /\ At(c, "locked")
    /\ Goto(c, "fetching")
    /\ UNCHANGED <<call, userVars, listVars, readVars>>

\* Another caller may have filled the cache while this one waited.
Recheck(c) ==
    /\ At(c, "locked")
    /\ \/ /\ userData = Nil
          /\ Goto(c, "fetching")
          /\ UNCHANGED mut
       \/ /\ userData # Nil
          /\ Goto(c, "using")
          /\ mut' = Free
    /\ UNCHANGED <<call, userData, account, name, listVars, readVars>>

\* Mutant: an error returns without the lock being released.
FetchUserLocked(c) ==
    /\ At(c, "fetching")
    /\ \/ /\ userData' = account
          /\ mut' = Free
          /\ Goto(c, "using")
       \/ /\ Goto(c, "failed")
          /\ UNCHANGED <<userData, mut>>
    /\ UNCHANGED <<call, account, name, listVars, readVars>>

\* Gitee answers, or the call fails and leaves the cache to the next caller; the
\* lock is held until then.
FetchUser(c) ==
    /\ At(c, "fetching")
    /\ mut' = Free
    /\ \/ /\ userData' = account
          /\ Goto(c, "using")
       \/ /\ Goto(c, "failed")
          /\ UNCHANGED userData
    /\ UNCHANGED <<call, account, name, listVars, readVars>>

\* The field is read without the lock.  Nothing orders this with the filling of
\* the cache by another caller, so that where pointers are not published whole
\* the field may still be empty.
UseName(c) ==
    /\ At(c, "using")
    /\ \E n \in {userData} \union (IF PublishesWhole THEN {} ELSE {Nil}) :
          name' = [name EXCEPT ![c] = n]
    /\ Goto(c, "done")
    /\ UNCHANGED <<call, userData, mut, account, listVars, readVars>>

\* The account is renamed on Gitee.
Rename ==
    /\ \E c \in Caller : call[c] = "BotName"
    /\ changes < MaxChanges
    /\ account' = account + 1
    /\ changes' = changes + 1
    /\ UNCHANGED <<call, pc, userData, mut, name, items, fresh, during, readVars>>

-----------------------------------------------------------------------------
(* Lists that are read page by page.                                       *)

Reading(c, x) == /\ At(c, "reading")
                 /\ call[c] \in DOMAIN Reads
                 /\ Reads[call[c]] = x

Elements(s) == {s[i] : i \in DOMAIN s}

\* The items of the page that begins after the first o of list s.
Page(s, o) ==
    SubSeq(s, o + 1, IF o + PageSize <= Len(s) THEN o + PageSize ELSE Len(s))

\* Mutant: a page that is not full ends the list, before its items are kept.
ContinuesIfFull(page) == Len(page) = PageSize

\* Only an empty page ends a list.
Continues(page) == page # <<>>

\* Mutant: the pages are counted from the second request on.
NextOffsetLate(c) == IF got[c] = <<>> THEN 0 ELSE offset[c] + PageSize

NextOffset(c) == offset[c] + PageSize

\* One turn of the loop of a paged read.  An error drops what was read.
ReadPage(c, op) ==
    LET list == items[Reads[op]]
        page == Page(list, offset[c])
    IN  /\ call[c] = op
        /\ pc[c] \in {"called", "reading"}
        /\ start' = IF At(c, "called") THEN [start EXCEPT ![c] = list] ELSE start
        /\ \/ /\ Continues(page)
              /\ got' = [got EXCEPT ![c] = @ \o page]
              /\ offset' = [offset EXCEPT ![c] = NextOffset(c)]
              /\ Goto(c, "reading")
           \/ /\ ~Continues(page)
              /\ Goto(c, "done")
              /\ UNCHANGED <<got, offset>>
           \/ /\ got' = [got EXCEPT ![c] = <<>>]
              /\ Goto(c, "failed")
              /\ UNCHANGED offset
        /\ UNCHANGED <<call, userVars, listVars>>

GetPullRequests(c) == ReadPage(c, "GetPullRequests")
GetPRLabels(c) == ReadPage(c, "GetPRLabels")
ListPRComments(c) == ReadPage(c, "ListPRComments")
ListPrIssues(c) == ReadPage(c, "ListPrIssues")
GetRepos(c) == ReadPage(c, "GetRepos")

\* The readers of list x see it change under them.
Disturb(x, how) ==
    during' = [c \in Caller |-> IF Reading(c, x) THEN during[c] \union {how}
                                                ELSE during[c]]

\* A new item of list x comes first or last, as Gitee sorts the list.
AddTo(x) ==
    /\ fresh' = fresh + 1
    /\ \/ /\ x \in NewestFirst
          /\ items' = [items EXCEPT ![x] = <<fresh>> \o @]
          /\ Disturb(x, "shifted")
       \/ /\ x \notin NewestFirst
          /\ items' = [items EXCEPT ![x] = Append(@, fresh)]
          /\ UNCHANGED during

TakeFrom(x) ==
    /\ \E i \in DOMAIN items[x] : items' = [items EXCEPT ![x] = RemoveAt(@, i)]
    /\ Disturb(x, "removed")
    /\ UNCHANGED fresh

\* A call that asks Gitee for one change.  When it fails the caller does not know
\* whether the change was made.
Write(c, op, Change) ==
    /\ call[c] = op
    /\ At(c, "called")
    /\ \/ /\ Change
          /\ \E l \in {"done", "failed"} : Goto(c, l)
       \/ /\ Goto(c, "failed")
          /\ UNCHANGED <<items, fresh, during>>
    /\ UNCHANGED <<call, userVars, changes, readVars>>

CreatePullRequest(c) == Write(c, "CreatePullRequest", AddTo("pulls"))
AddPRLabel(c) == Write(c, "AddPRLabel", AddTo("labels"))
CreatePRComment(c) == Write(c, "CreatePRComment", AddTo("comments"))

\* A pull request that is closed leaves the list of the open ones, one that is only
\* edited keeps its place.
UpdatePullRequest(c) ==
    Write(c, "UpdatePullRequest", TakeFrom("pulls") \/ UNCHANGED <<items, fresh, during>>)
RemovePRLabel(c) == Write(c, "RemovePRLabel", TakeFrom("labels"))
DeletePRComment(c) == Write(c, "DeletePRComment", TakeFrom("comments"))

\* Users and other bots change a list that is being read.
OthersChange ==
    /\ changes < MaxChanges
    /\ changes' = changes + 1
    /\ \E x \in Collection :
          /\ \E c \in Caller : Reading(c, x)
          /\ AddTo(x) \/ TakeFrom(x)
    /\ UNCHANGED <<call, pc, userVars, readVars>>

-----------------------------------------------------------------------------

Step(c) ==
    \/ CheckUser(c) \/ Lock(c) \/ Recheck(c) \/ FetchUser(c) \/ UseName(c)
    \/ GetPullRequests(c) \/ GetPRLabels(c) \/ ListPRComments(c)
    \/ ListPrIssues(c) \/ GetRepos(c)
    \/ CreatePullRequest(c) \/ AddPRLabel(c) \/ CreatePRComment(c)
    \/ UpdatePullRequest(c) \/ RemovePRLabel(c) \/ DeletePRComment(c)

Next == Rename \/ OthersChange \/ \E c \in Caller : Step(c)

Spec == Init /\ [][Next]_vars

\* Go runs every goroutine that can run, and Gitee answers every request or the
\* connection breaks.
FairSpec == Spec /\ \A c \in Caller : WF_vars(Step(c))

-----------------------------------------------------------------------------
(* Properties                                                              *)

Answered(c) == At(c, "done") /\ call[c] = "BotName"
ReadAll(c) == At(c, "done") /\ call[c] \in DOMAIN Reads

\* All handlers of a process take the same account for the bot, whenever they
\* ask and even if it is renamed meanwhile: what the second check under the lock
\* in getUserData is for.
OneIdentity ==
    \A c, d \in Caller :
        Answered(c) /\ Answered(d) => name[c] = name[d] /\ name[c] # Nil

\* A read that no removal overlapped returns every item the list had when it
\* began, however many pages it took and whatever was added.
NothingMissed ==
    \A c \in Caller :
        ReadAll(c) /\ "removed" \notin during[c]
            => Elements(start[c]) \subseteq Elements(got[c])

\* A read returns no item twice unless the list grew at its front meanwhile;
\* removals alone never repeat one.
NothingRepeated ==
    \A c \in Caller :
        ReadAll(c) /\ "shifted" \notin during[c] => IsInjective(got[c])

\* Every call ends: no error path of getUserData keeps the lock that the other
\* callers wait for, and every paged read comes to an empty page.
CallsEnd == \A c \in Caller : <>(pc[c] \in {"done", "failed"})

=============================================================================
