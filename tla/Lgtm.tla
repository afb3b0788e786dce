-------------------------------- MODULE Lgtm --------------------------------
(***************************************************************************)
(* The lgtm plugin on one pull request: prow/plugins/lgtm/lgtm.go.         *)
(*                                                                         *)
(* A comment or a review asks for the label or for its removal; a push     *)
(* takes the label away unless the tree is the one of the last "tree hash" *)
(* comment.  Each delivery is handled in a goroutine of its own, which     *)
(* makes its calls to GitHub one after the other; a call may fail, with or *)
(* without effect.  Every handler works on the configuration of the same   *)
(* repository, which does not change here.  Only the bot writes and edits  *)
(* its comments, and only the plugin changes the label.                    *)
(***************************************************************************)
EXTENDS Naturals, Sequences

CONSTANTS Delivery,       \* handler invocations, numbered in the order of their events
          Tree,           \* contents the head of the pull request may have
          Opened,         \* the one it was opened with
          User,           \* who comments and reviews
          Author,         \* the user whose pull request it is
          Collaborators,  \* users who are collaborators of the repository
          Reviewers,      \* users whom the OWNERS files list for the changed files
          Options         \* configurations of the repository, see OptionsOK

\* skipCollaborators: OWNERS files decide instead of GitHub's collaborators;
\* sticky: the author is in the StickyLgtmTeam.
OptionsOK(o) == {"storeTreeHash", "reviewActsAsLgtm", "skipCollaborators", "sticky"}
                    \subseteq DOMAIN o

ASSUME ConstantsOK == /\ Delivery \subseteq Nat
                      /\ Opened \in Tree
                      /\ Author \in User
                      /\ \A o \in Options : OptionsOK(o)

NoHash  == "no hash"    \* of a commit that could not be read
Deleted == "deleted"    \* a comment that was pruned

ASSUME HashesOK == NoHash \notin Tree /\ Deleted \notin Tree

VARIABLES opts,        \* config.LgtmFor and skipCollaborators of the repository
          head,        \* the tree of the pull request's head
          label,       \* whether it has the lgtm label
          hashes,      \* the trees in the bot's tree-hash comments, oldest first
          want,        \* what each delivery is to do
          user,        \* who caused it
          pc,          \* where its handler is
          note,        \* the tree hash that a handler is about to store
          listed,      \* how many comments the pruner of a handler has listed
          seen,        \* history: the head when the event was sent
          had,         \* history: the label when the event was sent
          labelledAt,  \* history: the head seen by the event that got the label added
          failed,      \* history: deliveries of which a call failed
          raced        \* history: deliveries whose handling overlapped another one

prVars == <<head, label, hashes>>
eventVars == <<want, user, seen, had>>
vars == <<opts, prVars, eventVars, pc, note, listed, labelledAt, failed, raced>>

Ended == {"idle", "done"}

TypeOK ==
    /\ opts \in Options
    /\ head \in Tree
    /\ label \in BOOLEAN
    /\ hashes \in Seq(Tree \union {NoHash, Deleted})
    /\ want \in [Delivery -> {"nothing", "add", "remove", "sync"}]
    /\ user \in [Delivery -> User]
    /\ pc \in [Delivery -> {"queued", "labels", "remove", "list", "delete", "add",
                            "head", "store", "compare"} \union Ended]
    /\ note \in [Delivery -> Tree \union {NoHash}]
    /\ listed \in [Delivery -> Nat]
    /\ seen \in [Delivery -> Tree]
    /\ had \in [Delivery -> BOOLEAN]
    /\ labelledAt \in Tree
    /\ failed \in SUBSET Delivery
    /\ raced \in SUBSET Delivery

Init ==
    /\ opts \in Options
    /\ head = Opened
    /\ label = FALSE
    /\ hashes = <<>>
    /\ want = [d \in Delivery |-> "nothing"]
    /\ user = [d \in Delivery |-> Author]
    /\ pc = [d \in Delivery |-> "idle"]
    /\ note = [d \in Delivery |-> NoHash]
    /\ listed = [d \in Delivery |-> 0]
    /\ seen = [d \in Delivery |-> Opened]
    /\ had = [d \in Delivery |-> FALSE]
    /\ labelledAt = Opened
    /\ failed = {}
    /\ raced = {}

Active == {d \in Delivery : pc[d] \notin Ended}

-----------------------------------------------------------------------------
(* The events, and what the three handlers make of them.                   *)

\* handleGenericComment: "/lgtm" and "/lgtm cancel" in a new comment on an open pull
\* request.
commentWants(body) == CASE body = "/lgtm"        -> "add"
                        [] body = "/lgtm cancel" -> "remove"
                        [] OTHER                 -> "nothing"

\* handlePullRequestReviewEvent: a review that is submitted, if reviews act as LGTM;
\* its body is left to handleGenericComment, which gets it too.
reviewWants(body, state) ==
    IF ~opts.reviewActsAsLgtm \/ commentWants(body) # "nothing" THEN "nothing"
    ELSE CASE state = "APPROVED"          -> "add"
           [] state = "CHANGES_REQUESTED" -> "remove"
           [] OTHER                       -> "nothing"

\* The next delivery.
Send(d, u, w, tree) ==
    /\ pc[d] = "idle"
    /\ \A e \in Delivery : e < d => pc[e] # "idle"
    /\ pc' = [pc EXCEPT ![d] = "queued"]
    /\ want' = [want EXCEPT ![d] = w]
    /\ user' = [user EXCEPT ![d] = u]
    /\ head' = tree
    /\ seen' = [seen EXCEPT ![d] = tree]
    /\ had' = [had EXCEPT ![d] = label]
    /\ raced' = IF Active = {} THEN raced ELSE raced \union Active \union {d}
    /\ UNCHANGED <<opts, label, hashes, note, listed, labelledAt, failed>>

Comment(d, u) == \E body \in {"/lgtm", "/lgtm cancel", "other"} :
                     Send(d, u, commentWants(body), head)

Review(d, u) == \E body \in {"/lgtm", "/lgtm cancel", "other"},
                   state \in {"APPROVED", "CHANGES_REQUESTED", "COMMENTED"} :
                       Send(d, u, reviewWants(body, state), head)

\* The author pushes; the tree may be what it was, as after squashing.
Push(d) == \E tree \in Tree : Send(d, Author, "sync", tree)

-----------------------------------------------------------------------------
Goto(d, l) == pc' = [pc EXCEPT ![d] = l]

Fail(d) == failed' = failed \union {d}

\* The answer of stickyLgtm; an error of ListTeams or ListTeamMembers means "no".
stickyLgtm(d, answer) == \/ answer = opts.sticky /\ UNCHANGED failed
                         \/ answer = FALSE /\ Fail(d)

\* A call that sets the label succeeds and the handler goes on to l, or it fails, with
\* or without effect, and the handler returns the error.
SetLabel(d, value, l) ==
    \/ label' = value /\ Goto(d, l) /\ UNCHANGED failed
    \/ label' \in {label, value} /\ Goto(d, "done") /\ Fail(d)

-----------------------------------------------------------------------------
(* handle.                                                                 *)

\* Who may change the label: the author may only cancel; with collaborators, they may
\* do both, else those in the OWNERS files.
Allowed(d) ==
    IF user[d] = Author THEN want[d] = "remove"
    ELSE user[d] \in (IF opts.skipCollaborators THEN Reviewers ELSE Collaborators)

\* The checks at the top of the handlers up to GetIssueLabels.  They read what never
\* changes here; each of their calls may fail, and then the handler returns.  (That
\* AssignIssue fails is only logged.)
Authorize(d) ==
    /\ pc[d] = "queued"
    /\ want[d] # "sync"
    /\ IF want[d] # "nothing" /\ Allowed(d)
       THEN \/ Goto(d, "labels") /\ UNCHANGED failed
            \/ Goto(d, "done") /\ Fail(d)
       ELSE Goto(d, "done") /\ UNCHANGED failed
    /\ UNCHANGED <<opts, prVars, eventVars, note, listed, labelledAt, raced>>

\* GetIssueLabels; when it fails, the handler goes on as if there were no label.
GetIssueLabels(d) ==
    /\ pc[d] = "labels"
    /\ \E has \in {label, FALSE} :
          /\ IF has = label THEN UNCHANGED failed ELSE Fail(d)
          /\ Goto(d, CASE want[d] = "add" /\ ~has -> "add"
                       [] want[d] = "remove" /\ has -> "remove"
                       [] want[d] = "sync" /\ has /\ opts.storeTreeHash -> "compare"
                       [] want[d] = "sync" /\ has /\ ~opts.storeTreeHash -> "remove"
                       [] OTHER -> "done")
    /\ UNCHANGED <<opts, prVars, eventVars, note, listed, labelledAt, raced>>

\* Mutant: a cancel leaves the tree hashes.
RemoveLabelNoPrune(d) ==
    /\ pc[d] = "remove"
    /\ SetLabel(d, FALSE, "done")
    /\ UNCHANGED <<opts, head, hashes, eventVars, note, listed, labelledAt, raced>>

\* RemoveLabel of handle and of handlePullRequest (whose comment is not of interest).
RemoveLabel(d) ==
    /\ pc[d] = "remove"
    /\ SetLabel(d, FALSE, IF want[d] = "remove" /\ opts.storeTreeHash THEN "list" ELSE "done")
    /\ UNCHANGED <<opts, head, hashes, eventVars, note, listed, labelledAt, raced>>

\* PruneComments lists the comments ...
ListComments(d) ==
    /\ pc[d] = "list"
    /\ \/ /\ Goto(d, "delete")
          /\ listed' = [listed EXCEPT ![d] = Len(hashes)]
          /\ UNCHANGED failed
       \/ Goto(d, "done") /\ UNCHANGED listed /\ Fail(d)
    /\ UNCHANGED <<opts, prVars, eventVars, note, labelledAt, raced>>

\* ... and deletes all tree hashes it has listed.
DeleteComments(d) ==
    /\ pc[d] = "delete"
    /\ \/ /\ hashes' = [i \in DOMAIN hashes |->
                           IF i <= listed[d] THEN Deleted ELSE hashes[i]]
          /\ UNCHANGED failed
       \/ UNCHANGED hashes /\ Fail(d)
    /\ Goto(d, "done")
    /\ listed' = [listed EXCEPT ![d] = 0]
    /\ UNCHANGED <<opts, head, label, eventVars, note, labelledAt, raced>>

\* AddLabel, then the tree hash unless the label is sticky.
AddLabel(d) ==
    /\ pc[d] = "add"
    /\ \/ /\ label' = TRUE
          /\ \E sticky \in BOOLEAN :
                /\ stickyLgtm(d, sticky)
                /\ Goto(d, IF ~sticky /\ opts.storeTreeHash THEN "head" ELSE "done")
       \/ /\ label' \in {label, TRUE}
          /\ Goto(d, "done")
          /\ Fail(d)
    /\ labelledAt' = IF label' THEN seen[d] ELSE labelledAt
    /\ UNCHANGED <<opts, head, hashes, eventVars, note, listed, raced>>

\* GetPullRequest and GetSingleCommit: the head of this moment, not that of the event.
GetHead(d) ==
    /\ pc[d] = "head"
    /\ \/ note' = [note EXCEPT ![d] = head] /\ UNCHANGED failed
       \/ note' = [note EXCEPT ![d] = NoHash] /\ Fail(d)
    /\ Goto(d, "store")
    /\ UNCHANGED <<opts, prVars, eventVars, listed, labelledAt, raced>>

StoreTreeHash(d) ==
    /\ pc[d] = "store"
    /\ \/ hashes' = Append(hashes, note[d]) /\ UNCHANGED failed
       \/ hashes' \in {hashes, Append(hashes, note[d])} /\ Fail(d)
    /\ Goto(d, "done")
    /\ note' = [note EXCEPT ![d] = NoHash]
    /\ UNCHANGED <<opts, head, label, eventVars, listed, labelledAt, raced>>

-----------------------------------------------------------------------------
(* handlePullRequest.                                                      *)

\* A push on an open pull request, if the label is not sticky.
Synchronize(d) ==
    /\ pc[d] = "queued"
    /\ want[d] = "sync"
    /\ \E sticky \in BOOLEAN :
          /\ stickyLgtm(d, sticky)
          /\ Goto(d, IF sticky THEN "done" ELSE "labels")
    /\ UNCHANGED <<opts, prVars, eventVars, note, listed, labelledAt, raced>>

Kept == {i \in DOMAIN hashes : hashes[i] # Deleted}

\* For a mutant: the loop begins with the oldest comment.
FirstHash == IF Kept = {} THEN NoHash
             ELSE hashes[CHOOSE i \in Kept : \A j \in Kept : i <= j]

\* The loop from the newest comment backwards.
LastHash == IF Kept = {} THEN NoHash
            ELSE hashes[CHOOSE i \in Kept : \A j \in Kept : j <= i]

\* Mutant: it is compared with the tree that was approved, not with the pushed one.
CompareTreesBefore(d) ==
    /\ pc[d] = "compare"
    /\ \/ Goto(d, IF LastHash = labelledAt THEN "done" ELSE "remove") /\ UNCHANGED failed
       \/ \E l \in {"remove", "done"} : Goto(d, l) /\ Fail(d)
    /\ UNCHANGED <<opts, prVars, eventVars, note, listed, labelledAt, raced>>

\* Mutant: the first tree hash is compared.
CompareTreesFirst(d) ==
    /\ pc[d] = "compare"
    /\ \/ Goto(d, IF FirstHash = seen[d] THEN "done" ELSE "remove") /\ UNCHANGED failed
       \/ \E l \in {"remove", "done"} : Goto(d, l) /\ Fail(d)
    /\ UNCHANGED <<opts, prVars, eventVars, note, listed, labelledAt, raced>>

\* The last tree hash is compared with the tree of the commit the event names; not to
\* know one of them is to differ.  An error of BotName ends the handler.
CompareTrees(d) ==
    /\ pc[d] = "compare"
    /\ \/ Goto(d, IF LastHash = seen[d] THEN "done" ELSE "remove") /\ UNCHANGED failed
       \/ \E l \in {"remove", "done"} : Goto(d, l) /\ Fail(d)
    /\ UNCHANGED <<opts, prVars, eventVars, note, listed, labelledAt, raced>>

Handle(d) == \/ Authorize(d) \/ GetIssueLabels(d) \/ RemoveLabel(d)
             \/ ListComments(d) \/ DeleteComments(d)
             \/ AddLabel(d) \/ GetHead(d) \/ StoreTreeHash(d)
             \/ Synchronize(d) \/ CompareTrees(d)

Next == \E d \in Delivery : \/ \E u \in User : Comment(d, u) \/ Review(d, u)
                            \/ Push(d)
                            \/ Handle(d)

Spec == Init /\ [][Next]_vars

\* Goroutines run and calls come back.
FairSpec == Spec /\ \A d \in Delivery : WF_vars(Handle(d))

-----------------------------------------------------------------------------
Calm(d) == d \notin failed \union raced

\* As long as no handlers overlap and no call fails, the label is only on a head whose
\* very tree was there when the reviewer asked for it.
CalmLabelVouches ==
    Active = {} /\ (\A d \in Delivery : Calm(d)) /\ label /\ ~opts.sticky
        => head = labelledAt

Finishes(d) == pc[d] # "done" /\ pc'[d] = "done"

\* A push that nothing disturbs leaves the label if and only if it was there and the
\* author is trusted or the last tree hash is that of the pushed tree, whatever comments
\* earlier races and failures have left.
CalmPushSettles ==
    [][\A d \in Delivery : Finishes(d) /\ want[d] = "sync" /\ Calm(d)' =>
          LET same == opts.storeTreeHash /\ LastHash = seen[d]
          IN  label' = (had[d] /\ (opts.sticky \/ same))]_vars

\* A request that nothing disturbs, of somebody who may make it, is fulfilled; a cancel
\* that removed the label has also removed all tree hashes, so that no later label is
\* measured by them.
CalmRequestSettles ==
    [][\A d \in Delivery : Finishes(d) /\ Calm(d)' /\ want[d] \in {"add", "remove"} =>
          /\ label' = IF Allowed(d) THEN want[d] = "add" ELSE had[d]
          /\ Allowed(d) /\ want[d] = "remove" /\ had[d] /\ opts.storeTreeHash
                => Kept' = {}]_vars

\* A push under the label never goes unnoticed: unless a call of its handler fails, the
\* label is gone at some moment, or sticky, or the last tree hash is that of the push,
\* whatever other handlers do.
PushIsNoticed ==
    \A d \in Delivery :
        (pc[d] = "queued" /\ want[d] = "sync" /\ label)
            ~> (~label \/ opts.sticky \/ LastHash = seen[d] \/ d \in failed)

\* "Squashing commits does not remove LGTM": with stored tree hashes and as long as no
\* call fails, the label is never taken away by a push of the tree it was given for.
SquashKeepsLgtm ==
    [][\A d \in Delivery :
          pc[d] = "remove" /\ want[d] = "sync" /\ label /\ ~label' /\ opts.storeTreeHash
             /\ failed' = {}
                => seen[d] # labelledAt]_vars
=============================================================================
