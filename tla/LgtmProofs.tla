------------------------------ MODULE LgtmProofs ------------------------------
(***************************************************************************)
(* Proofs about Lgtm, for any number of deliveries, any trees and users    *)
(* and any options.                                                        *)
(*                                                                         *)
(* That a label which nothing disturbed vouches for its tree needs more    *)
(* than the label: between deliveries the newest tree hash must be that of *)
(* the tree the label was given for, or the next push would be measured by *)
(* another one; and a handler must work on the head it was told of, which  *)
(* it does while it is alone.                                              *)
(***************************************************************************)
EXTENDS Lgtm, SequenceTheorems, TLAPS

Hash == Tree \union {NoHash, Deleted}

-----------------------------------------------------------------------------
\* What a comment or a review may ask for.
LEMMA WantsType ==
    ASSUME NEW body, NEW state
    PROVE  /\ commentWants(body) \in {"nothing", "add", "remove"}
           /\ reviewWants(body, state) \in {"nothing", "add", "remove"}
BY DEF commentWants, reviewWants

\* An event changes the head to a tree and nothing else of the pull request.
LEMMA TypeSend ==
    ASSUME TypeOK, NEW d \in Delivery, NEW u \in User, NEW tree \in Tree,
           NEW w \in {"nothing", "add", "remove", "sync"}, Send(d, u, w, tree)
    PROVE  TypeOK'
<1>1. raced' \in SUBSET Delivery
  BY DEF Send, TypeOK, Active
<1> QED BY <1>1 DEF Send, TypeOK, Ended

\* Pruning keeps the length of the list.
LEMMA TypePrune ==
    ASSUME NEW h \in Seq(Hash), NEW n,
           NEW g, g = [i \in DOMAIN h |-> IF i <= n THEN Deleted ELSE h[i]]
    PROVE  g \in Seq(Hash)
<1>1. DOMAIN h = 1 .. Len(h) /\ Len(h) \in Nat /\ \A i \in DOMAIN h : h[i] \in Hash
  OBVIOUS
<1>2. g \in [1 .. Len(h) -> Hash]
  BY <1>1 DEF Hash
<1> QED BY <1>1, <1>2, SeqDef

LEMMA TypeHandle ==
    ASSUME TypeOK, NEW d \in Delivery, Handle(d)
    PROVE  TypeOK'
<1> USE DEF TypeOK, Goto, Fail, Ended, prVars, eventVars
<1>1. CASE Authorize(d)
  BY <1>1 DEF Authorize
<1>2. CASE GetIssueLabels(d)
  BY <1>2 DEF GetIssueLabels
<1>3. CASE RemoveLabel(d)
  BY <1>3 DEF RemoveLabel, SetLabel
<1>4. CASE ListComments(d)
  <2>1. Len(hashes) \in Nat
    OBVIOUS
  <2> QED BY <1>4, <2>1 DEF ListComments
<1>5. CASE DeleteComments(d)
  <2>1. hashes' \in Seq(Hash)
    BY <1>5, TypePrune DEF DeleteComments, Hash
  <2> QED BY <1>5, <2>1 DEF DeleteComments, Hash
<1>6. CASE AddLabel(d)
  <2>1. /\ label' \in BOOLEAN /\ failed' \in SUBSET Delivery
        /\ pc' \in [Delivery -> {"queued", "labels", "remove", "list", "delete", "add",
                                 "head", "store", "compare"} \union Ended]
    BY <1>6 DEF AddLabel, stickyLgtm
  <2> QED BY <1>6, <2>1 DEF AddLabel
<1>7. CASE GetHead(d)
  BY <1>7 DEF GetHead
<1>8. CASE StoreTreeHash(d)
  <2>1. Append(hashes, note[d]) \in Seq(Hash)
    BY DEF Hash
  <2> QED BY <1>8, <2>1 DEF StoreTreeHash, Hash
<1>9. CASE Synchronize(d)
  BY <1>9 DEF Synchronize, stickyLgtm
<1>10. CASE CompareTrees(d)
  BY <1>10 DEF CompareTrees
<1> QED BY <1>1, <1>2, <1>3, <1>4, <1>5, <1>6, <1>7, <1>8, <1>9, <1>10 DEF Handle

\* Every step is an event, a step of a handler or a stutter.
LEMMA Steps ==
    ASSUME TypeOK, [Next]_vars
    PROVE  \/ \E d \in Delivery, u \in User, tree \in Tree,
                 w \in {"nothing", "add", "remove", "sync"} :
                    (w # "sync" => tree = head) /\ Send(d, u, w, tree)
           \/ \E d \in Delivery : Handle(d)
           \/ UNCHANGED vars
<1>1. ASSUME NEW d \in Delivery, NEW u \in User, Comment(d, u)
      PROVE  \E w \in {"nothing", "add", "remove"} : Send(d, u, w, head)
  BY <1>1, WantsType DEF Comment
<1>2. ASSUME NEW d \in Delivery, NEW u \in User, Review(d, u)
      PROVE  \E w \in {"nothing", "add", "remove"} : Send(d, u, w, head)
  BY <1>2, WantsType DEF Review
<1>3. ASSUME NEW d \in Delivery, Push(d)
      PROVE  \E tree \in Tree : Send(d, Author, "sync", tree)
  BY <1>3 DEF Push
<1>4. head \in Tree /\ Author \in User
  BY ConstantsOK DEF TypeOK
<1> QED BY <1>1, <1>2, <1>3, <1>4 DEF Next

LEMMA TypeInit == Init => TypeOK
<1> SUFFICES ASSUME Init PROVE TypeOK
  OBVIOUS
<1>1. hashes \in Seq(Hash)
  BY DEF Init
<1> QED BY <1>1, ConstantsOK DEF Init, TypeOK, Ended, Hash

LEMMA TypeStep == TypeOK /\ [Next]_vars => TypeOK'
<1>1. TypeOK /\ UNCHANGED vars => TypeOK'
  BY DEF TypeOK, vars, prVars, eventVars
<1> QED BY <1>1, Steps, TypeSend, TypeHandle

\* The types, for any number of deliveries.
THEOREM TypeCorrect == Spec => []TypeOK
BY TypeInit, TypeStep, PTL DEF Spec

-----------------------------------------------------------------------------
(* The label vouches for its tree.                                         *)

AllCalm == failed = {} /\ raced = {}

\* The label is for tree t, and so is the newest hash if hashes are stored.
For(t) == labelledAt = t /\ (opts.storeTreeHash => LastHash = t)

\* A handler that is alone: it knows the head, and the label that it finds is for the head
\* of its event, or for the one before the push that it handles.
CalmHandler(d) ==
    /\ seen[d] = head
    /\ pc[d] \in {"queued", "labels"} /\ label =>
          IF want[d] = "sync" THEN For(labelledAt) ELSE For(head)
    /\ pc[d] = "remove" => want[d] \in {"sync", "remove"}
    /\ pc[d] \in {"list", "delete"} => ~label
    /\ pc[d] = "add" => want[d] = "add"
    /\ pc[d] \in {"head", "store"} => label /\ labelledAt = head /\ want[d] = "add"
    /\ pc[d] = "store" => note[d] = head
    /\ pc[d] = "compare" => want[d] = "sync" /\ label /\ opts.storeTreeHash /\ For(labelledAt)

Calmness ==
    AllCalm /\ ~opts.sticky =>
        /\ \A d, e \in Active : d = e
        /\ \A d \in Active : CalmHandler(d)
        /\ Active = {} /\ label => For(head)

Inv == TypeOK /\ Calmness

\* The newest hash after one more was stored.
LEMMA LastHashAppend ==
    ASSUME TypeOK, NEW h, h # Deleted, hashes' = Append(hashes, h)
    PROVE  LastHash' = h
<1> DEFINE n == Len(hashes)
<1>1. /\ n \in Nat /\ DOMAIN hashes = 1 .. n /\ DOMAIN hashes' = 1 .. (n + 1)
      /\ hashes'[n + 1] = h
  BY DEF TypeOK
<1> HIDE DEF n
<1>2. n + 1 \in Kept' /\ \A i \in Kept' : i \in Nat /\ i <= n + 1
  BY <1>1 DEF Kept
<1>3. \A i \in Kept' : (\A j \in Kept' : j <= i) => i = n + 1
  BY <1>1, <1>2
<1>4. (CHOOSE i \in Kept' : \A j \in Kept' : j <= i) = n + 1
  BY <1>2, <1>3
<1> QED BY <1>1, <1>2, <1>4 DEF LastHash

LEMMA CalmInit == Init => Calmness
BY DEF Init, Calmness, Active, Ended

LEMMA CalmEnds == TypeOK /\ [Next]_vars /\ AllCalm' => AllCalm /\ opts' = opts
<1> SUFFICES ASSUME TypeOK, [Next]_vars
             PROVE  failed \subseteq failed' /\ raced \subseteq raced' /\ opts' = opts
  BY DEF AllCalm
<1>1. ASSUME NEW d \in Delivery, NEW u, NEW w, NEW tree, Send(d, u, w, tree)
      PROVE  failed \subseteq failed' /\ raced \subseteq raced' /\ opts' = opts
  BY <1>1 DEF Send
<1>2. ASSUME NEW d \in Delivery, Handle(d)
      PROVE  failed \subseteq failed' /\ raced \subseteq raced' /\ opts' = opts
  BY <1>2 DEF Handle, Authorize, GetIssueLabels, RemoveLabel, ListComments, DeleteComments,
              AddLabel, GetHead, StoreTreeHash, Synchronize, CompareTrees, SetLabel,
              stickyLgtm, Fail
<1>3. CASE UNCHANGED vars
  BY <1>3 DEF vars
<1> QED BY <1>1, <1>2, <1>3, Steps

\* The event of a delivery that will be alone.
LEMMA CalmSend ==
    ASSUME Inv, NEW d \in Delivery, NEW u \in User, NEW tree \in Tree,
           NEW w \in {"nothing", "add", "remove", "sync"}, w # "sync" => tree = head,
           Send(d, u, w, tree), AllCalm, AllCalm', ~opts.sticky
    PROVE  Calmness'
<1>1. Active = {}
  BY DEF Send, AllCalm
<1>2. /\ pc'[d] = "queued" /\ want'[d] = w /\ seen'[d] = tree /\ head' = tree
      /\ UNCHANGED <<opts, label, hashes, labelledAt>>
      /\ \A e \in Delivery : e # d => pc'[e] = pc[e]
  BY DEF Send, Inv, TypeOK
<1>3. Active' = {d}
  BY <1>1, <1>2 DEF Active, Ended
<1>4. label => For(head)
  BY <1>1 DEF Inv, Calmness
<1>5. LastHash' = LastHash
  BY <1>2 DEF LastHash, Kept
<1>6. CalmHandler(d)'
  BY <1>2, <1>4, <1>5 DEF CalmHandler, For
<1> QED BY <1>3, <1>6 DEF Calmness

\* What a step of the only handler leaves for the next one.
LEMMA CalmHandle ==
    ASSUME Inv, NEW d \in Delivery, Handle(d), AllCalm, AllCalm', ~opts.sticky
    PROVE  Calmness'
<1> DEFINE Done == pc'[d] = "done" /\ (label' => For(head)')
           Goes == pc'[d] \notin Ended /\ CalmHandler(d)'
<1>1. UNCHANGED <<opts, head, eventVars>>
  BY DEF Handle, Authorize, GetIssueLabels, RemoveLabel, ListComments, DeleteComments,
         AddLabel, GetHead, StoreTreeHash, Synchronize, CompareTrees, prVars
<1>2. d \in Active
  BY DEF Handle, Authorize, GetIssueLabels, RemoveLabel, ListComments, DeleteComments,
         AddLabel, GetHead, StoreTreeHash, Synchronize, CompareTrees, Active, Ended
<1>3. (\A e \in Active : e = d) /\ CalmHandler(d)
  BY <1>2 DEF Inv, Calmness
<1>4. /\ \A e \in Delivery : e # d => pc'[e] = pc[e]
      /\ d \in Delivery /\ d \in DOMAIN pc
  BY DEF Inv, TypeOK, Handle, Authorize, GetIssueLabels, RemoveLabel, ListComments,
         DeleteComments, AddLabel, GetHead, StoreTreeHash, Synchronize, CompareTrees,
         SetLabel, Goto
<1>5. hashes' = hashes => LastHash' = LastHash
  BY DEF LastHash, Kept
<1>6. ~\E e \in Delivery : Fail(e)
  BY DEF Fail, AllCalm
<1>7. Done \/ Goes
  <2> USE <1>1, <1>3 DEF Ended, eventVars
  <2>1. CASE Authorize(d)
    <3>1. /\ pc[d] = "queued" /\ want[d] # "sync" /\ UNCHANGED <<label, hashes, labelledAt, note>>
          /\ pc'[d] \in {"labels", "done"}
      BY <2>1, <1>4 DEF Authorize, Goto, prVars
    <3> QED BY <3>1, <1>5 DEF CalmHandler, For
  <2>2. CASE GetIssueLabels(d)
    <3>1. /\ pc[d] = "labels" /\ UNCHANGED <<label, hashes, labelledAt, note>>
          /\ pc'[d] = CASE want[d] = "add" /\ ~label -> "add"
                        [] want[d] = "remove" /\ label -> "remove"
                        [] want[d] = "sync" /\ label /\ opts.storeTreeHash -> "compare"
                        [] want[d] = "sync" /\ label /\ ~opts.storeTreeHash -> "remove"
                        [] OTHER -> "done"
      BY <2>2, <1>4, <1>6 DEF GetIssueLabels, Goto, prVars
    <3>2. want[d] \in {"nothing", "add", "remove", "sync"} /\ label \in BOOLEAN
      BY DEF Inv, TypeOK
    <3> QED BY <3>1, <3>2, <1>5 DEF CalmHandler, For
  <2>3. CASE RemoveLabel(d)
    <3>1. pc[d] = "remove" /\ label' = FALSE /\ pc'[d] \in {"list", "done"}
      BY <2>3, <1>4, <1>6 DEF RemoveLabel, SetLabel, Goto
    <3> QED BY <3>1 DEF CalmHandler
  <2>4. CASE ListComments(d)
    <3>1. pc[d] = "list" /\ label' = label /\ pc'[d] = "delete"
      BY <2>4, <1>4, <1>6 DEF ListComments, Goto, prVars
    <3> QED BY <3>1 DEF CalmHandler
  <2>5. CASE DeleteComments(d)
    <3>1. pc[d] = "delete" /\ label' = label /\ pc'[d] = "done"
      BY <2>5, <1>4 DEF DeleteComments, Goto
    <3> QED BY <3>1 DEF CalmHandler
  <2>6. CASE AddLabel(d)
    <3>1. /\ pc[d] = "add" /\ label' = TRUE /\ labelledAt' = seen[d] /\ hashes' = hashes
          /\ pc'[d] = IF opts.storeTreeHash THEN "head" ELSE "done"
      BY <2>6, <1>4, <1>6 DEF AddLabel, stickyLgtm, Goto
    <3> QED BY <3>1 DEF CalmHandler, For
  <2>7. CASE GetHead(d)
    <3>1. /\ pc[d] = "head" /\ note'[d] = head /\ pc'[d] = "store"
          /\ UNCHANGED <<label, hashes, labelledAt>>
      BY <2>7, <1>4, <1>6 DEF GetHead, Goto, Inv, TypeOK, prVars
    <3> QED BY <3>1 DEF CalmHandler
  <2>8. CASE StoreTreeHash(d)
    <3>1. /\ pc[d] = "store" /\ hashes' = Append(hashes, note[d]) /\ pc'[d] = "done"
          /\ UNCHANGED <<label, labelledAt>>
      BY <2>8, <1>4, <1>6 DEF StoreTreeHash, Goto
    <3>2. note[d] = head /\ head # Deleted /\ labelledAt = head
      BY <3>1, HashesOK DEF CalmHandler, Inv, TypeOK
    <3>3. LastHash' = head
      BY <3>1, <3>2, LastHashAppend DEF Inv
    <3> QED BY <3>1, <3>2, <3>3 DEF For
  <2>9. CASE Synchronize(d)
    <3>1. /\ pc[d] = "queued" /\ want[d] = "sync" /\ UNCHANGED <<label, hashes, labelledAt, note>>
          /\ pc'[d] = "labels"
      BY <2>9, <1>4, <1>6 DEF Synchronize, stickyLgtm, Goto, prVars
    <3> QED BY <3>1, <1>5 DEF CalmHandler, For
  <2>10. CASE CompareTrees(d)
    <3>1. /\ pc[d] = "compare" /\ UNCHANGED <<label, hashes, labelledAt, note>>
          /\ pc'[d] = IF LastHash = seen[d] THEN "done" ELSE "remove"
      BY <2>10, <1>4, <1>6 DEF CompareTrees, Goto, prVars
    <3>2. want[d] = "sync"
      BY <3>1 DEF CalmHandler
    <3> QED BY <3>1, <3>2, <1>5 DEF CalmHandler, For
  <2> QED BY <2>1, <2>2, <2>3, <2>4, <2>5, <2>6, <2>7, <2>8, <2>9, <2>10 DEF Handle
<1>8. \A e \in Active' : e = d
  BY <1>3, <1>4 DEF Active
<1>9. pc'[d] \notin Ended => d \in Active'
  BY DEF Active
<1>10. CASE Done
  <2>1. Active' = {}
    BY <1>8, <1>10 DEF Active, Ended
  <2> QED BY <1>10, <2>1 DEF Calmness
<1>11. CASE Goes
  BY <1>8, <1>9, <1>11 DEF Calmness
<1> QED BY <1>7, <1>10, <1>11

LEMMA CalmStep == Inv /\ [Next]_vars => Inv'
<1> SUFFICES ASSUME Inv, [Next]_vars, AllCalm', ~opts'.sticky PROVE Calmness'
  BY TypeStep DEF Inv, Calmness
<1>1. TypeOK /\ AllCalm /\ ~opts.sticky
  BY CalmEnds DEF Inv
<1>2. CASE UNCHANGED vars
  BY <1>1, <1>2 DEF vars, prVars, eventVars, Inv, Calmness, CalmHandler, For, LastHash, Kept,
                    Active, Ended
<1> QED BY <1>1, <1>2, Steps, CalmSend, CalmHandle

\* As long as no handlers overlap and no call fails, the label is only on a head whose very
\* tree was there when the reviewer asked for it, however many events there are.
THEOREM CalmVouches == Spec => []CalmLabelVouches
<1>1. Inv => CalmLabelVouches
  BY DEF Inv, Calmness, CalmLabelVouches, Calm, AllCalm, For, TypeOK
<1>2. Init => Inv
  BY TypeInit, CalmInit DEF Inv
<1> QED BY <1>1, <1>2, CalmStep, PTL DEF Spec

-----------------------------------------------------------------------------
(* What a delivery that nothing disturbs settles.  Unlike above, others    *)
(* before it may have overlapped and failed: nothing is known of the label *)
(* and the hashes but what its own handler has read since its event.       *)

Same(d) == opts.storeTreeHash /\ LastHash = seen[d]

\* How far a push has come.
PushHandler(d) ==
    /\ pc[d] \in {"queued", "labels", "compare", "remove"}
    /\ label = had[d]
    /\ pc[d] # "queued" => ~opts.sticky
    /\ pc[d] \in {"compare", "remove"} => label
    /\ pc[d] = "compare" => opts.storeTreeHash
    /\ pc[d] = "remove" => ~Same(d)

\* How far a request has come.
RequestHandler(d) ==
    /\ pc[d] \notin {"compare"} \union Ended
    /\ pc[d] \in {"queued", "labels", "remove"} => label = had[d]
    /\ pc[d] # "queued" => Allowed(d)
    /\ pc[d] = "remove" => want[d] = "remove" /\ had[d]
    /\ pc[d] \in {"list", "delete"} => want[d] = "remove" /\ had[d] /\ ~label
    /\ pc[d] = "delete" => listed[d] = Len(hashes)
    /\ pc[d] = "add" => want[d] = "add"
    /\ pc[d] \in {"head", "store"} => want[d] = "add" /\ label

Undisturbed(d) ==
    /\ \A e \in Active : e = d
    /\ want[d] = "sync" => PushHandler(d)
    /\ want[d] \in {"add", "remove"} => RequestHandler(d)

AloneInv == TypeOK /\ \A d \in Active : Calm(d) => Undisturbed(d)

PushSettled(d) == want[d] = "sync" => label' = (had[d] /\ (opts.sticky \/ Same(d)))

RequestSettled(d) ==
    want[d] \in {"add", "remove"} =>
        /\ label' = IF Allowed(d) THEN want[d] = "add" ELSE had[d]
        /\ Allowed(d) /\ want[d] = "remove" /\ had[d] /\ opts.storeTreeHash => Kept' = {}

\* A step of a handler that is alone and does not fail goes on as it should, or ends with
\* what it was to settle.
LEMMA AloneHandle ==
    ASSUME TypeOK, NEW d \in Delivery, Handle(d), d \notin failed', Undisturbed(d)
    PROVE  /\ pc'[d] = "done" => PushSettled(d) /\ RequestSettled(d)
           /\ pc'[d] # "done" => Undisturbed(d)'
<1>1. UNCHANGED <<opts, head, want, user, seen, had>>
  BY DEF Handle, Authorize, GetIssueLabels, RemoveLabel, ListComments, DeleteComments,
         AddLabel, GetHead, StoreTreeHash, Synchronize, CompareTrees, prVars, eventVars
<1>2. /\ \A e \in Delivery : e # d => pc'[e] = pc[e]
      /\ d \in DOMAIN pc
  BY DEF TypeOK, Handle, Authorize, GetIssueLabels, RemoveLabel, ListComments,
         DeleteComments, AddLabel, GetHead, StoreTreeHash, Synchronize, CompareTrees,
         SetLabel, Goto
<1>3. \A e \in Active' : e = d
  BY <1>2 DEF Active, Undisturbed
<1>4. hashes' = hashes => Same(d)' = Same(d)
  BY <1>1 DEF LastHash, Kept, Same
<1>5. Allowed(d)' = Allowed(d)
  BY <1>1 DEF Allowed
<1>6. ~Fail(d)
  BY DEF Fail
<1>7. /\ want[d] \in {"nothing", "add", "remove", "sync"} /\ label \in BOOLEAN
      /\ had[d] \in BOOLEAN
  BY DEF TypeOK
<1> DEFINE PushGoal == PushHandler(d)' \/ (pc'[d] = "done" /\ PushSettled(d))
           RequestGoal == RequestHandler(d)' \/ (pc'[d] = "done" /\ RequestSettled(d))
<1>8. CASE want[d] = "sync"
  <2> USE <1>1, <1>8
  <2>0. PushHandler(d)
    BY DEF Undisturbed
  <2> SUFFICES PushGoal
    BY <1>3 DEF PushHandler, Undisturbed, RequestSettled, Ended
  <2>1. CASE GetIssueLabels(d)
    <3>1. /\ pc[d] = "labels" /\ label' = label /\ hashes' = hashes
          /\ pc'[d] = IF ~label THEN "done"
                      ELSE IF opts.storeTreeHash THEN "compare" ELSE "remove"
      BY <2>1, <1>2, <1>6, <1>7 DEF GetIssueLabels, Goto, prVars
    <3> QED BY <3>1, <2>0, <1>4, <1>7 DEF PushHandler, PushSettled, Same
  <2>2. CASE RemoveLabel(d)
    <3>1. pc[d] = "remove" /\ label' = FALSE /\ pc'[d] = "done"
      BY <2>2, <1>2, <1>6 DEF RemoveLabel, SetLabel, Goto
    <3> QED BY <3>1, <2>0 DEF PushHandler, PushSettled
  <2>3. CASE Synchronize(d)
    <3>1. /\ pc[d] = "queued" /\ label' = label
          /\ pc'[d] = IF opts.sticky THEN "done" ELSE "labels"
      BY <2>3, <1>2, <1>6 DEF Synchronize, stickyLgtm, Goto, prVars
    <3> QED BY <3>1, <2>0, <1>7 DEF PushHandler, PushSettled
  <2>4. CASE CompareTrees(d)
    <3>1. /\ pc[d] = "compare" /\ label' = label /\ hashes' = hashes
          /\ pc'[d] = IF LastHash = seen[d] THEN "done" ELSE "remove"
      BY <2>4, <1>2, <1>6 DEF CompareTrees, Goto, prVars
    <3> QED BY <3>1, <2>0, <1>4, <1>7 DEF PushHandler, PushSettled, Same
  <2> QED BY <2>0, <2>1, <2>2, <2>3, <2>4
          DEF Handle, Authorize, ListComments, DeleteComments, AddLabel, GetHead,
              StoreTreeHash, PushHandler
<1>9. CASE want[d] \in {"add", "remove"}
  <2> USE <1>1, <1>9
  <2>0. RequestHandler(d)
    BY DEF Undisturbed
  <2> SUFFICES RequestGoal
    BY <1>3 DEF RequestHandler, Undisturbed, PushSettled, Ended
  <2>1. CASE Authorize(d)
    <3>1. /\ pc[d] = "queued" /\ label' = label
          /\ pc'[d] = IF Allowed(d) THEN "labels" ELSE "done"
      BY <2>1, <1>2, <1>6 DEF Authorize, Goto, prVars
    <3> QED BY <3>1, <2>0, <1>5 DEF RequestHandler, RequestSettled, Ended
  <2>2. CASE GetIssueLabels(d)
    <3>1. /\ pc[d] = "labels" /\ label' = label
          /\ pc'[d] = CASE want[d] = "add" /\ ~label -> "add"
                        [] want[d] = "remove" /\ label -> "remove"
                        [] OTHER -> "done"
      BY <2>2, <1>2, <1>6, <1>7 DEF GetIssueLabels, Goto, prVars
    <3> QED BY <3>1, <2>0, <1>5, <1>7 DEF RequestHandler, RequestSettled, Ended
  <2>3. CASE RemoveLabel(d)
    <3>1. /\ pc[d] = "remove" /\ label' = FALSE /\ want[d] = "remove"
          /\ pc'[d] = IF opts.storeTreeHash THEN "list" ELSE "done"
      BY <2>3, <2>0, <1>2, <1>6 DEF RemoveLabel, SetLabel, Goto, RequestHandler
    <3> QED BY <3>1, <2>0, <1>5 DEF RequestHandler, RequestSettled, Ended
  <2>4. CASE ListComments(d)
    <3>1. /\ pc[d] = "list" /\ label' = label /\ hashes' = hashes
          /\ listed'[d] = Len(hashes) /\ pc'[d] = "delete"
      BY <2>4, <1>2, <1>6 DEF ListComments, Goto, prVars, TypeOK
    <3> QED BY <3>1, <2>0, <1>5 DEF RequestHandler, Ended
  <2>5. CASE DeleteComments(d)
    <3>1. /\ pc[d] = "delete" /\ label' = label /\ pc'[d] = "done"
          /\ hashes' = [i \in DOMAIN hashes |-> IF i <= listed[d] THEN Deleted ELSE hashes[i]]
      BY <2>5, <1>2, <1>6 DEF DeleteComments, Goto
    <3>2. /\ listed[d] = Len(hashes) /\ want[d] = "remove" /\ ~label /\ Allowed(d)
      BY <3>1, <2>0 DEF RequestHandler
    <3>3. \A i \in DOMAIN hashes : i <= listed[d]
      BY <3>2 DEF TypeOK
    <3>4. Kept' = {}
      BY <3>1, <3>3 DEF Kept
    <3> QED BY <3>1, <3>2, <3>4, <1>7 DEF RequestSettled
  <2>6. CASE AddLabel(d)
    <3>1. /\ pc[d] = "add" /\ label' = TRUE /\ pc'[d] \in {"head", "done"}
      BY <2>6, <1>2, <1>6 DEF AddLabel, stickyLgtm, Goto
    <3> QED BY <3>1, <2>0, <1>5 DEF RequestHandler, RequestSettled, Ended
  <2>7. CASE GetHead(d)
    <3>1. pc[d] = "head" /\ pc'[d] = "store" /\ label' = label
      BY <2>7, <1>2 DEF GetHead, Goto, prVars
    <3> QED BY <3>1, <2>0, <1>5 DEF RequestHandler, Ended
  <2>8. CASE StoreTreeHash(d)
    <3>1. pc[d] = "store" /\ pc'[d] = "done" /\ label' = label
      BY <2>8, <1>2 DEF StoreTreeHash, Goto
    <3> QED BY <3>1, <2>0, <1>7 DEF RequestHandler, RequestSettled
  <2> QED BY <2>0, <2>1, <2>2, <2>3, <2>4, <2>5, <2>6, <2>7, <2>8
          DEF Handle, Synchronize, CompareTrees, RequestHandler
<1>10. CASE want[d] = "nothing"
  BY <1>1, <1>3, <1>10 DEF Undisturbed, PushSettled, RequestSettled
<1> QED BY <1>7, <1>8, <1>9, <1>10

\* The event of a delivery that is not raced finds no handler at work.
LEMMA AloneSend ==
    ASSUME AloneInv, NEW d \in Delivery, NEW u \in User, NEW tree \in Tree,
           NEW w \in {"nothing", "add", "remove", "sync"}, Send(d, u, w, tree)
    PROVE  \A e \in Active' : Calm(e)' => Undisturbed(e)'
<1> SUFFICES ASSUME NEW e \in Active', Calm(e)' PROVE Undisturbed(e)'
  OBVIOUS
<1>1. /\ pc'[d] = "queued" /\ label' = label /\ had'[d] = label
      /\ \A f \in Delivery : f # d => pc'[f] = pc[f]
  BY DEF Send, AloneInv, TypeOK
<1>2. Active' = Active \union {d}
  BY <1>1 DEF Active, Ended
<1>3. Active = {}
  BY <1>2 DEF Send, Calm
<1>4. e = d /\ \A f \in Active' : f = d
  BY <1>2, <1>3
<1> QED BY <1>1, <1>4 DEF Undisturbed, PushHandler, RequestHandler, Ended

LEMMA AloneStep ==
    ASSUME AloneInv, [Next]_vars
    PROVE  /\ AloneInv'
           /\ \A d \in Delivery : Finishes(d) /\ Calm(d)' => PushSettled(d) /\ RequestSettled(d)
<1>0. TypeOK /\ TypeOK'
  BY TypeStep DEF AloneInv
<1>1. ASSUME NEW d \in Delivery, NEW u \in User, NEW tree \in Tree,
             NEW w \in {"nothing", "add", "remove", "sync"}, Send(d, u, w, tree)
      PROVE  /\ \A e \in Active' : Calm(e)' => Undisturbed(e)'
             /\ \A e \in Delivery : ~Finishes(e)
  BY <1>0, <1>1, AloneSend DEF Send, Finishes, TypeOK
<1>2. ASSUME NEW d \in Delivery, Handle(d)
      PROVE  /\ \A e \in Active' : Calm(e)' => Undisturbed(e)'
             /\ \A e \in Delivery : Finishes(e) /\ Calm(e)' => PushSettled(e) /\ RequestSettled(e)
  <2>1. d \in Active /\ raced' = raced /\ failed \subseteq failed'
    BY <1>2 DEF Handle, Authorize, GetIssueLabels, RemoveLabel, ListComments, DeleteComments,
                AddLabel, GetHead, StoreTreeHash, Synchronize, CompareTrees, SetLabel,
                stickyLgtm, Fail, Active, Ended
  <2>2. \A e \in Delivery : e # d => pc'[e] = pc[e]
    BY <1>0, <1>2 DEF TypeOK, Handle, Authorize, GetIssueLabels, RemoveLabel, ListComments,
           DeleteComments, AddLabel, GetHead, StoreTreeHash, Synchronize, CompareTrees,
           SetLabel, Goto
  <2>3. \A e \in Delivery : Calm(e)' => Calm(e)
    BY <2>1 DEF Calm
  <2>4. \A e \in Active' : Calm(e)' => e = d
    BY <2>1, <2>2, <2>3 DEF AloneInv, Active, Undisturbed
  <2>5. \A e \in Delivery : Finishes(e) => e = d
    BY <2>2 DEF Finishes
  <2>6. Calm(d)' => /\ pc'[d] = "done" => PushSettled(d) /\ RequestSettled(d)
                    /\ pc'[d] # "done" => Undisturbed(d)'
    BY <1>0, <1>2, <2>1, <2>3, AloneHandle DEF AloneInv, Calm
  <2>7. d \in Active' => pc'[d] # "done"
    BY DEF Active, Ended
  <2> QED BY <2>4, <2>5, <2>6, <2>7 DEF Finishes
<1>3. CASE UNCHANGED vars
  <2>1. \A e \in Active' : Calm(e)' => Undisturbed(e)'
    BY <1>3 DEF AloneInv, vars, prVars, eventVars, Active, Ended, Calm, Undisturbed,
                PushHandler, RequestHandler, Same, LastHash, Kept, Allowed
  <2> QED BY <1>0, <1>3, <2>1 DEF AloneInv, vars, Finishes
<1> QED BY <1>0, <1>1, <1>2, <1>3, Steps DEF AloneInv

LEMMA AloneInit == Init => AloneInv
BY TypeInit DEF Init, AloneInv, Active, Ended

THEOREM AloneInvariance == Spec => []AloneInv
BY AloneInit, AloneStep, PTL DEF Spec

\* A push that nothing disturbs leaves the label if and only if it was there and the author
\* is trusted or the tree is the last one stored, whatever was left by those before.
THEOREM PushesAreSettled == Spec => CalmPushSettles
<1>1. AloneInv /\ [Next]_vars =>
        [\A d \in Delivery : Finishes(d) /\ want[d] = "sync" /\ Calm(d)' =>
            LET same == opts.storeTreeHash /\ LastHash = seen[d]
            IN  label' = (had[d] /\ (opts.sticky \/ same))]_vars
  BY AloneStep DEF PushSettled, Same
<1> QED BY AloneInvariance, <1>1, PTL DEF Spec, CalmPushSettles

\* A request that nothing disturbs, of somebody who may make it, is fulfilled, and a cancel
\* takes every stored hash with it.
THEOREM RequestsAreSettled == Spec => CalmRequestSettles
<1>1. AloneInv /\ [Next]_vars =>
        [\A d \in Delivery : Finishes(d) /\ Calm(d)' /\ want[d] \in {"add", "remove"} =>
            /\ label' = IF Allowed(d) THEN want[d] = "add" ELSE had[d]
            /\ Allowed(d) /\ want[d] = "remove" /\ had[d] /\ opts.storeTreeHash
                  => Kept' = {}]_vars
  BY AloneStep DEF RequestSettled
<1> QED BY AloneInvariance, <1>1, PTL DEF Spec, CalmRequestSettles
===============================================================================
