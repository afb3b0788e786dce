--------------------------------- MODULE Cla ---------------------------------
(***************************************************************************)
(* The cla plugin on one pull request: handlePullRequestEvent and          *)
(* handleNoteEvent of gitee/plugins/cla/cla.go.                            *)
(*                                                                         *)
(* Each delivery runs in a goroutine of its own and makes its calls one    *)
(* after the other: the plugin configuration, the CLA server, then Gitee   *)
(* for the labels and the comment.  What a /check-cla delivery knows of    *)
(* the labels is what the event carries, as old as the event.  A call to   *)
(* Gitee may fail, with or without effect; the plugin logs that and goes   *)
(* on.  Meanwhile the author signs, a signature is withdrawn, and people   *)
(* who may change the labels of the pull request do.                       *)
(***************************************************************************)
EXTENDS Naturals, FiniteSets

CONSTANTS
    Delivery,         \* webhook deliveries that concern the pull request
    MaxMeddling       \* bound: how often a signature is withdrawn or a label is
                      \* changed by somebody else

ASSUME BoundOK == MaxMeddling \in Nat

Label == {"yes", "no"}

VARIABLES labels,      \* the CLA labels the pull request has on Gitee
          signed,      \* whether the author's CLA is signed
          withdrawals, \* how often a signature was withdrawn
          byHand,      \* how often somebody else changed one of the labels
          kind,        \* what each delivery is about
          seen,        \* the labels its event carries
          pc,          \* where its handler is
          found,       \* what the CLA server told the handler
          failed,      \* deliveries of which something failed: no configuration,
                       \* no answer of the CLA server, a call that changes labels
          raced        \* deliveries with another one, or a change by people, between
                       \* their event and the end of their handler

people == <<signed, withdrawals, byHand>>
vars == <<labels, people, kind, seen, pc, found, failed, raced>>

Ended == {"idle", "done"}

TypeOK == /\ labels \in SUBSET Label
          /\ signed \in BOOLEAN
          /\ withdrawals \in Nat
          /\ byHand \in Nat
          /\ kind \in [Delivery -> {"none", "opened", "check-cla", "other"}]
          /\ seen \in [Delivery -> SUBSET Label]
          /\ pc \in [Delivery -> {"queued", "isSigned", "remove", "add", "comment"}
                                    \union Ended]
          /\ found \in [Delivery -> BOOLEAN]
          /\ failed \in SUBSET Delivery
          /\ raced \in SUBSET Delivery

Init == /\ labels = {}
        /\ signed \in BOOLEAN
        /\ withdrawals = 0
        /\ byHand = 0
        /\ kind = [d \in Delivery |-> "none"]
        /\ seen = [d \in Delivery |-> {}]
        /\ pc = [d \in Delivery |-> "idle"]
        /\ found = [d \in Delivery |-> FALSE]
        /\ failed = {}
        /\ raced = {}

Active == {d \in Delivery : pc[d] \notin Ended}

-----------------------------------------------------------------------------
(* What happens outside.                                                   *)

\* Gitee sends an event with the labels of this moment; it waits in the queue for
\* as long as it takes.  The pull request is opened once, before any comment.
Event(d, k) ==
    /\ pc[d] = "idle"
    /\ (k = "opened") = (\A e \in Delivery : kind[e] # "opened")
    /\ pc' = [pc EXCEPT ![d] = "queued"]
    /\ kind' = [kind EXCEPT ![d] = k]
    /\ seen' = [seen EXCEPT ![d] = labels]
    /\ raced' = IF Active = {} THEN raced ELSE raced \union Active \union {d}
    /\ UNCHANGED <<labels, people, found, failed>>

\* Who is at work meanwhile is not alone.
Meanwhile ==
    /\ raced' = raced \union Active
    /\ UNCHANGED <<kind, seen, pc, found, failed>>

\* The author signs the CLA,
Sign ==
    /\ ~signed
    /\ signed' = TRUE
    /\ Meanwhile
    /\ UNCHANGED <<labels, withdrawals, byHand>>

\* or what the CLA server takes for a signature is gone again.
Withdraw ==
    /\ signed /\ withdrawals + byHand < MaxMeddling
    /\ signed' = FALSE
    /\ withdrawals' = withdrawals + 1
    /\ Meanwhile
    /\ UNCHANGED <<labels, byHand>>

\* Somebody puts a label on the open pull request or takes it off.
Relabel(l) ==
    /\ \E d \in Delivery : kind[d] = "opened"
    /\ withdrawals + byHand < MaxMeddling
    /\ labels' = IF l \in labels THEN labels \ {l} ELSE labels \union {l}
    /\ byHand' = byHand + 1
    /\ Meanwhile
    /\ UNCHANGED <<signed, withdrawals>>

-----------------------------------------------------------------------------
(* The handlers.                                                           *)

Goto(d, l) == pc' = [pc EXCEPT ![d] = l]

Fail(d) == failed' = failed \union {d}

\* It fails when the repository has no cla configuration.
orgRepoConfig(d) ==
    \/ Goto(d, "isSigned") /\ UNCHANGED failed
    \/ Goto(d, "done") /\ Fail(d)

\* The guards at the top of the two handlers, then the configuration.
Start(d) ==
    /\ pc[d] = "queued"
    /\ IF kind[d] = "other"
       THEN Goto(d, "done") /\ UNCHANGED failed
       ELSE orgRepoConfig(d)
    /\ UNCHANGED <<labels, people, kind, seen, found, raced>>

\* Mutant: an error of the CLA server counts as "not signed".
isSignedNoError(d) ==
    /\ pc[d] = "isSigned"
    /\ Goto(d, IF kind[d] = "opened" THEN "add" ELSE "remove")
    /\ \/ found' = [found EXCEPT ![d] = signed] /\ UNCHANGED failed
       \/ found' = [found EXCEPT ![d] = FALSE] /\ Fail(d)
    /\ UNCHANGED <<labels, people, kind, seen, raced>>

\* Mutant: ... or as "signed".
isSignedByDefault(d) ==
    /\ pc[d] = "isSigned"
    /\ Goto(d, IF kind[d] = "opened" THEN "add" ELSE "remove")
    /\ \/ found' = [found EXCEPT ![d] = signed] /\ UNCHANGED failed
       \/ found' = [found EXCEPT ![d] = TRUE] /\ Fail(d)
    /\ UNCHANGED <<labels, people, kind, seen, raced>>

\* isSigned asks the CLA server; an error ends the handler.
isSigned(d) ==
    /\ pc[d] = "isSigned"
    /\ \/ /\ found' = [found EXCEPT ![d] = signed]
          /\ Goto(d, IF kind[d] = "opened" THEN "add" ELSE "remove")
          /\ UNCHANGED failed
       \/ /\ Goto(d, "done")
          /\ Fail(d)
          /\ UNCHANGED found
    /\ UNCHANGED <<labels, people, kind, seen, raced>>

\* The label of the answer, and the one it excludes.
LabelFor(d)   == IF found[d] THEN "yes" ELSE "no"
OtherLabel(d) == IF found[d] THEN "no" ELSE "yes"

\* A call that changes the labels: it succeeds, or fails with or without effect.
Call(d, result) == \/ labels' = result /\ UNCHANGED failed
                   \/ labels' \in {labels, result} /\ Fail(d)

\* Mutant: the label of the other answer is left where it is.
RemoveLabelNot(d) ==
    /\ pc[d] = "remove"
    /\ Goto(d, "add")
    /\ UNCHANGED <<labels, people, kind, seen, found, failed, raced>>

\* /check-cla takes the other label away if the event carried it.
RemoveLabel(d) ==
    /\ pc[d] = "remove"
    /\ IF OtherLabel(d) \in seen[d]
       THEN Call(d, labels \ {OtherLabel(d)})
       ELSE UNCHANGED <<labels, failed>>
    /\ Goto(d, "add")
    /\ UNCHANGED <<people, kind, seen, found, raced>>

\* Mutant: the label is only added when the event carried the other one.
AddLabelOnSwitch(d) ==
    /\ pc[d] = "add"
    /\ IF OtherLabel(d) \in seen[d]
       THEN Call(d, labels \union {LabelFor(d)})
       ELSE UNCHANGED <<labels, failed>>
    /\ Goto(d, "comment")
    /\ UNCHANGED <<people, kind, seen, found, raced>>

\* It adds the label of the answer unless the event carried it; on opening the
\* label is added in any case, and only an author who has not signed gets a comment.
AddLabel(d) ==
    /\ pc[d] = "add"
    /\ IF kind[d] = "opened" \/ LabelFor(d) \notin seen[d]
       THEN Call(d, labels \union {LabelFor(d)})
       ELSE UNCHANGED <<labels, failed>>
    /\ Goto(d, IF kind[d] = "opened" /\ found[d] THEN "done" ELSE "comment")
    /\ UNCHANGED <<people, kind, seen, found, raced>>

\* The comment says what was found.  It changes nothing that is modelled, and nobody looks
\* at the error of CreateComment: what matters is that the handler still runs.
CreateComment(d) ==
    /\ pc[d] = "comment"
    /\ Goto(d, "done")
    /\ UNCHANGED <<labels, people, kind, seen, found, failed, raced>>

Handle(d) == Start(d) \/ isSigned(d) \/ RemoveLabel(d) \/ AddLabel(d) \/ CreateComment(d)

Outside ==
    \/ Sign \/ Withdraw \/ \E l \in Label : Relabel(l)
    \/ \E d \in Delivery, k \in {"opened", "check-cla", "other"} : Event(d, k)

Next == Outside \/ \E d \in Delivery : Handle(d)

Spec == Init /\ [][Next]_vars

\* Goroutines run and calls come back.  What people do is up to them.
FairSpec == Spec /\ \A d \in Delivery : WF_vars(Handle(d))

-----------------------------------------------------------------------------
\* The plugin gives the yes label only to an author who has signed, whatever fails and
\* however the handlers interleave: where it is, there is a signature, or was one that was
\* withdrawn, or people have changed the labels.
YesMeansSigned == "yes" \in labels => signed \/ withdrawals > 0 \/ byHand > 0

\* It is never taken away without cause, however late a handler is and whatever fails: a
\* handler that does so was told "not signed" of an author who had the label when its
\* event was sent, so that a signature was withdrawn or the label was given by hand.
YesIsTakenWithCause ==
    [][("yes" \in labels) /\ ("yes" \notin labels') => withdrawals > 0 \/ byHand' > 0]_vars

Calm(d) == d \notin failed \union raced

\* As long as nothing fails or races and people leave them alone, the labels exclude each
\* other at every moment, also between the two calls that exchange them after the author
\* has signed or a signature was withdrawn.
CalmIsExclusive == ((\A d \in Delivery : Calm(d)) /\ byHand = 0) => labels # Label

\* A /check-cla that nothing disturbs leaves exactly the label that is right, even
\* on a pull request that an earlier race or failure, a withdrawal or somebody's hand left
\* with both or the wrong one.
CheckRepairs ==
    [][\A d \in Delivery :
          pc[d] # "done" /\ pc'[d] = "done" /\ kind[d] = "check-cla" /\ Calm(d)'
              => labels' = {IF signed THEN "yes" ELSE "no"}]_vars

\* Unless something of it fails, a /check-cla of an author who has signed is answered
\* with the yes label, whatever other deliveries are under way, if nobody withdraws the
\* signature or changes the labels.
SignedGetsYes ==
    \A d \in Delivery :
        (pc[d] = "queued" /\ kind[d] = "check-cla" /\ signed)
            ~> ("yes" \in labels \/ d \in failed \/ withdrawals > 0 \/ byHand > 0)
=============================================================================
