------------------------------ MODULE ClaProofs ------------------------------
(***************************************************************************)
(* Proofs about the cla plugin, for any number of deliveries, with calls   *)
(* that may fail and any number of changes by people.  Everything rests on *)
(* one fact: whatever claims that the CLA is signed - the label, the       *)
(* labels an event carries, the answer a handler got - was true once, or   *)
(* people have made it up or untrue.                                       *)
(***************************************************************************)
EXTENDS Cla, TLAPS

Deciding == {"remove", "add"}

\* People have withdrawn a signature or changed a label.
Meddled == withdrawals > 0 \/ byHand > 0

\* The inductive invariant, part by part.
SeenIsSigned  == \A d \in Delivery : "yes" \in seen[d] => signed \/ Meddled
FoundIsSigned == \A d \in Delivery : found[d] => signed \/ Meddled
\* A handler that saw the yes label is told "signed", or there is a cause why not.
SeenIsFound   == \A d \in Delivery :
                    pc[d] \in Deciding /\ "yes" \in seen[d] => found[d] \/ Meddled

Inv == TypeOK /\ YesMeansSigned /\ SeenIsSigned /\ FoundIsSigned /\ SeenIsFound

\* In the initial state there is no label and no delivery.
LEMMA InvInit == Init => Inv
  BY BoundOK DEF Init, Inv, TypeOK, YesMeansSigned, SeenIsSigned, FoundIsSigned, SeenIsFound,
         Deciding, Label, Ended

\* An event is sent with the labels of the moment, which tell the truth.
LEMMA InvEvent ==
    ASSUME Inv, NEW d \in Delivery, NEW k \in {"opened", "check-cla", "other"}, Event(d, k)
    PROVE  Inv'
  <1>1. TypeOK'
    BY DEF Inv, TypeOK, Event, people, Label, Ended, Active
  <1>2. YesMeansSigned' /\ FoundIsSigned'
    BY DEF Inv, YesMeansSigned, FoundIsSigned, Meddled, Event, people
  <1>3. SeenIsSigned'
    BY DEF Inv, TypeOK, YesMeansSigned, SeenIsSigned, Meddled, Event, people
  <1>4. SeenIsFound'
    <2>1. \A e \in Delivery : pc'[e] \in Deciding => e # d /\ pc'[e] = pc[e]
      BY DEF Inv, TypeOK, Event, Deciding
    <2>2. \A e \in Delivery : e # d => seen'[e] = seen[e] /\ found'[e] = found[e]
      BY DEF Inv, TypeOK, Event
    <2>3. Meddled' = Meddled
      BY DEF Event, people, Meddled
    <2>4. QED  BY <2>1, <2>2, <2>3 DEF Inv, SeenIsFound
  <1>5. QED  BY <1>1, <1>2, <1>3, <1>4 DEF Inv

\* A signature only makes the claims truer, and what else people do is remembered.
LEMMA InvPeople ==
    ASSUME Inv, Sign \/ Withdraw \/ \E l \in Label : Relabel(l)
    PROVE  Inv'
  <1>0. withdrawals \in Nat /\ byHand \in Nat
    BY DEF Inv, TypeOK
  <1>1. TypeOK'
    <2>1. labels' \in SUBSET Label
      BY DEF Inv, TypeOK, Sign, Withdraw, Relabel
    <2>2. signed' \in BOOLEAN /\ withdrawals' \in Nat /\ byHand' \in Nat
      <3>1. /\ withdrawals' \in {withdrawals, withdrawals + 1}
            /\ byHand' \in {byHand, byHand + 1}
        BY DEF Sign, Withdraw, Relabel
      <3>2. withdrawals + 1 \in Nat /\ byHand + 1 \in Nat
        BY <1>0
      <3>3. signed' \in BOOLEAN
        BY DEF Inv, TypeOK, Sign, Withdraw, Relabel
      <3>4. QED  BY <1>0, <3>1, <3>2, <3>3
    <2>3. raced' \in SUBSET Delivery /\ UNCHANGED <<kind, seen, pc, found, failed>>
      BY DEF Inv, TypeOK, Sign, Withdraw, Relabel, Meanwhile, Active
    <2>4. QED  BY <2>1, <2>2, <2>3 DEF Inv, TypeOK, Label, Ended
  <1>2. UNCHANGED <<seen, pc, found>>
    BY DEF Sign, Withdraw, Relabel, Meanwhile
  <1>3. (signed' /\ labels' = labels) \/ Meddled'
    BY <1>0 DEF Sign, Withdraw, Relabel, Meddled
  <1>4. Meddled => Meddled'
    BY <1>0 DEF Sign, Withdraw, Relabel, Meddled
  <1>5. YesMeansSigned'
    BY <1>3 DEF YesMeansSigned, Meddled
  <1>6. SeenIsSigned' /\ FoundIsSigned' /\ SeenIsFound'
    BY <1>2, <1>3, <1>4 DEF Inv, SeenIsSigned, FoundIsSigned, SeenIsFound
  <1>7. QED  BY <1>1, <1>5, <1>6 DEF Inv

\* What no handler changes: what people do and what its event carried.
LEMMA HandleKeeps ==
    ASSUME NEW d \in Delivery, Handle(d)
    PROVE  UNCHANGED <<signed, withdrawals, byHand, kind, seen>>
  BY DEF Handle, Start, isSigned, RemoveLabel, AddLabel, CreateComment, people

\* A step of a handler preserves the types.
LEMMA TypeHandle ==
    ASSUME TypeOK, NEW d \in Delivery, Handle(d)
    PROVE  TypeOK'
  <1>1. CASE Start(d)
    BY <1>1 DEF TypeOK, Start, orgRepoConfig, Goto, Fail, people, Ended
  <1>2. CASE isSigned(d)
    BY <1>2 DEF TypeOK, isSigned, Goto, Fail, people, Ended
  <1>3. CASE RemoveLabel(d)
    BY <1>3 DEF TypeOK, RemoveLabel, Call, OtherLabel, Label, Goto, Fail, Ended, people
  <1>4. CASE AddLabel(d)
    BY <1>4 DEF TypeOK, AddLabel, Call, LabelFor, Label, Goto, Fail, Ended, people
  <1>5. CASE CreateComment(d)
    BY <1>5 DEF TypeOK, CreateComment, Goto, Ended, people
  <1>6. QED  BY <1>1, <1>2, <1>3, <1>4, <1>5 DEF Handle

\* A step of a handler adds the yes label only on an answer that was true, and removes it
\* only where people are the cause.
LEMMA LabelHandle ==
    ASSUME Inv, NEW d \in Delivery, Handle(d)
    PROVE  /\ "yes" \in labels' => signed \/ Meddled
           /\ "yes" \in labels => "yes" \in labels' \/ Meddled
  <1>0. "yes" \in labels => signed \/ Meddled
    BY DEF Inv, YesMeansSigned, Meddled
  <1>1. CASE Start(d) \/ isSigned(d) \/ CreateComment(d)
    <2>1. labels' = labels
      BY <1>1 DEF Start, isSigned, CreateComment
    <2>2. QED  BY <1>0, <2>1
  <1>2. CASE RemoveLabel(d)
    <2>1. labels' = labels \/ labels' = labels \ {OtherLabel(d)}
      BY <1>2 DEF RemoveLabel, Call
    <2>2. labels' # labels => OtherLabel(d) # "yes" \/ Meddled
      BY <1>2 DEF RemoveLabel, OtherLabel, Inv, SeenIsFound, Deciding
    <2>3. QED  BY <1>0, <2>1, <2>2
  <1>3. CASE AddLabel(d)
    <2>1. labels' = labels \/ labels' = labels \union {LabelFor(d)}
      BY <1>3 DEF AddLabel, Call
    <2>2. LabelFor(d) = "yes" => signed \/ Meddled
      BY DEF LabelFor, Inv, FoundIsSigned
    <2>3. QED  BY <1>0, <2>1, <2>2
  <1>4. QED  BY <1>1, <1>2, <1>3 DEF Handle

\* A step of a handler preserves the invariant.
LEMMA InvHandle ==
    ASSUME Inv, NEW d \in Delivery, Handle(d)
    PROVE  Inv'
  <1>1. TypeOK'
    BY TypeHandle DEF Inv
  <1>2. UNCHANGED <<signed, withdrawals, byHand, kind, seen>>
    BY HandleKeeps
  <1>0. Meddled' = Meddled
    BY <1>2 DEF Meddled
  <1>3. YesMeansSigned'
    BY <1>2, LabelHandle DEF YesMeansSigned, Meddled
  <1>4. SeenIsSigned'
    BY <1>0, <1>2 DEF Inv, SeenIsSigned
  <1>5. FoundIsSigned' /\ SeenIsFound'
    <2>1. CASE isSigned(d)
      <3>1. pc' = [pc EXCEPT ![d] = pc'[d]]
        BY <2>1 DEF Inv, TypeOK, isSigned, Goto
      <3>2. \/ found' = [found EXCEPT ![d] = signed]
            \/ found' = found /\ pc'[d] = "done"
        BY <2>1 DEF Inv, TypeOK, isSigned, Goto
      <3>3. QED
        BY <1>0, <1>2, <3>1, <3>2 DEF Inv, TypeOK, FoundIsSigned, SeenIsFound, SeenIsSigned, Deciding
    <2>2. CASE ~isSigned(d)
      <3>1. found' = found
        BY <2>2 DEF Handle, Start, RemoveLabel, AddLabel, CreateComment
      <3>2. \A e \in Delivery : pc'[e] \in Deciding => pc[e] \in Deciding
        BY <2>2 DEF Inv, TypeOK, Handle, Start, orgRepoConfig, RemoveLabel, AddLabel,
                    CreateComment, Goto, Deciding
      <3>3. QED  BY <1>0, <1>2, <3>1, <3>2 DEF Inv, FoundIsSigned, SeenIsFound
    <2>3. QED  BY <2>1, <2>2
  <1>6. QED  BY <1>1, <1>3, <1>4, <1>5 DEF Inv

LEMMA InvStep == Inv /\ [Next]_vars => Inv'
  <1> SUFFICES ASSUME Inv, [Next]_vars PROVE Inv'
    OBVIOUS
  <1>1. ASSUME NEW d \in Delivery, NEW k \in {"opened", "check-cla", "other"}, Event(d, k)
        PROVE  Inv'
    BY <1>1, InvEvent
  <1>2. CASE Sign \/ Withdraw \/ \E l \in Label : Relabel(l)
    BY <1>2, InvPeople
  <1>3. ASSUME NEW d \in Delivery, Handle(d)
        PROVE  Inv'
    BY <1>3, InvHandle
  <1>4. CASE UNCHANGED vars
    BY <1>4 DEF vars, people, Inv, TypeOK, YesMeansSigned, SeenIsSigned, FoundIsSigned,
                SeenIsFound, Meddled, Active, Ended
  <1>5. QED  BY <1>1, <1>2, <1>3, <1>4 DEF Next, Outside

\* The invariant holds in every state of every behaviour.
THEOREM Invariance == Spec => []Inv
  BY InvInit, InvStep, PTL DEF Spec

\* Where the yes label is there is a signature or people are the cause, for any number of
\* racing deliveries, any failing calls and any age of their events.
THEOREM YesIsEarned == Spec => []YesMeansSigned
  <1>1. Inv => YesMeansSigned
    BY DEF Inv
  <1>2. QED  BY Invariance, <1>1, PTL

\* No handler takes the yes label away from an author whose signature nobody withdrew,
\* unless somebody else has given that label.
THEOREM YesIsKept == Spec => YesIsTakenWithCause
  <1>1. Inv /\ [Next]_vars =>
          [("yes" \in labels) /\ ("yes" \notin labels') => withdrawals > 0 \/ byHand' > 0]_vars
    <2> SUFFICES ASSUME Inv, [Next]_vars, "yes" \in labels, "yes" \notin labels'
                 PROVE  withdrawals > 0 \/ byHand' > 0
      OBVIOUS
    <2>1. CASE UNCHANGED vars \/ Sign \/ Withdraw
      BY <2>1 DEF Sign, Withdraw, vars
    <2>2. ASSUME NEW l \in Label, Relabel(l) PROVE byHand' > 0
      <3>1. byHand \in Nat
        BY DEF Inv, TypeOK
      <3>2. QED  BY <2>2, <3>1 DEF Relabel
    <2>3. ASSUME NEW d \in Delivery, NEW k \in {"opened", "check-cla", "other"}, Event(d, k)
          PROVE  FALSE
      BY <2>3 DEF Event
    <2>4. ASSUME NEW d \in Delivery, Handle(d) PROVE withdrawals > 0 \/ byHand' > 0
      <3>1. Meddled
        BY <2>4, LabelHandle
      <3>2. QED  BY <2>4, <3>1, HandleKeeps DEF Meddled
    <2>5. QED  BY <2>1, <2>2, <2>3, <2>4 DEF Next, Outside
  <1>2. QED  BY Invariance, <1>1, PTL DEF Spec, YesIsTakenWithCause

\* The types, for any number of deliveries.
THEOREM TypeCorrect == Spec => []TypeOK
  <1>1. Inv => TypeOK
    BY DEF Inv
  <1>2. QED  BY Invariance, <1>1, PTL

-----------------------------------------------------------------------------
(* As long as all is calm the labels exclude each other: there is one      *)
(* active handler at most, and until it changes the labels it has seen     *)
(* them as they are.                                                       *)

AllCalm == failed = {} /\ raced = {} /\ byHand = 0

\* Nothing happens before the pull request is opened.
Unopened ==
    /\ \A d \in Delivery : pc[d] = "idle" => kind[d] = "none"
    /\ (\A d \in Delivery : kind[d] # "opened") =>
            labels = {} /\ \A d \in Delivery : pc[d] = "idle"

CalmHandler(d) ==
    /\ pc[d] \in {"queued", "isSigned", "remove"} => seen[d] = labels
    /\ pc[d] \in {"queued", "isSigned"} /\ kind[d] = "opened" => labels = {}
    /\ pc[d] = "add" => OtherLabel(d) \notin labels

Calmness ==
    AllCalm => /\ labels # Label
               /\ \A d, e \in Active : d = e
               /\ \A d \in Active : CalmHandler(d)

CInv == TypeOK /\ Unopened /\ Calmness

LEMMA CInvInit == Init => CInv
  <1> SUFFICES ASSUME Init PROVE CInv
    OBVIOUS
  <1>1. TypeOK
    BY InvInit DEF Inv
  <1>2. Active = {}
    BY DEF Init, Active, Ended
  <1>3. labels = {}
    BY DEF Init
  <1>4. QED  BY <1>1, <1>2, <1>3 DEF Init, CInv, Unopened, Calmness, Label

\* Calm only ever ends.
LEMMA CalmEnds == TypeOK /\ [Next]_vars /\ AllCalm' => AllCalm
  <1> SUFFICES ASSUME TypeOK, [Next]_vars
               PROVE  failed \subseteq failed' /\ raced \subseteq raced' /\ (byHand' = 0 => byHand = 0)
    BY DEF AllCalm
  <1>0. byHand \in Nat
    BY DEF TypeOK
  <1>1. CASE Outside
    <2>1. failed \subseteq failed' /\ raced \subseteq raced'
      BY <1>1 DEF Outside, Sign, Withdraw, Relabel, Meanwhile, Event
    <2>2. byHand' \in {byHand, byHand + 1}
      BY <1>1 DEF Outside, Sign, Withdraw, Relabel, Event, people
    <2>3. QED  BY <1>0, <2>1, <2>2
  <1>2. ASSUME NEW d \in Delivery, Handle(d)
        PROVE  failed \subseteq failed' /\ raced \subseteq raced' /\ byHand' = byHand
    BY <1>2 DEF Handle, Start, orgRepoConfig, isSigned, RemoveLabel, AddLabel, CreateComment,
                Call, Fail, people
  <1>3. CASE UNCHANGED vars
    BY <1>3 DEF vars, people
  <1>4. QED  BY <1>1, <1>2, <1>3 DEF Next

\* Nor does the opening of the pull request get lost.
LEMMA UnopenedStep == TypeOK /\ Unopened /\ [Next]_vars => Unopened'
  <1> SUFFICES ASSUME TypeOK, Unopened, [Next]_vars PROVE Unopened'
    OBVIOUS
  <1>1. ASSUME NEW d \in Delivery, NEW k \in {"opened", "check-cla", "other"}, Event(d, k)
        PROVE  Unopened'
    <2>1. /\ kind'[d] = k /\ pc'[d] = "queued" /\ kind[d] = "none"
          /\ \A e \in Delivery : e # d => kind'[e] = kind[e] /\ pc'[e] = pc[e]
      BY <1>1 DEF Event, TypeOK, Unopened
    <2>2. \E e \in Delivery : kind'[e] = "opened"
      <3>1. CASE k = "opened"
        BY <2>1, <3>1
      <3>2. CASE k # "opened"
        <4>1. PICK e \in Delivery : kind[e] = "opened"
          BY <1>1, <3>2 DEF Event
        <4>2. QED  BY <2>1, <4>1
      <3>3. QED  BY <3>1, <3>2
    <2>3. QED  BY <2>1, <2>2 DEF Unopened
  <1>2. CASE Sign \/ Withdraw \/ \E l \in Label : Relabel(l)
    BY <1>2 DEF Sign, Withdraw, Relabel, Meanwhile, Unopened
  <1>3. ASSUME NEW d \in Delivery, Handle(d) PROVE Unopened'
    <2>1. kind' = kind
      BY <1>3, HandleKeeps
    <2>2. pc[d] # "idle"
      BY <1>3 DEF Handle, Start, isSigned, RemoveLabel, AddLabel, CreateComment
    <2>3. \A e \in Delivery : pc'[e] = "idle" => pc[e] = "idle"
      BY <1>3 DEF TypeOK, Handle, Start, orgRepoConfig, isSigned, RemoveLabel, AddLabel,
                  CreateComment, Goto
    <2>4. QED  BY <2>1, <2>2, <2>3 DEF Unopened
  <1>4. CASE UNCHANGED vars
    BY <1>4 DEF vars, people, Unopened
  <1>5. QED  BY <1>1, <1>2, <1>3, <1>4 DEF Next, Outside

\* An event that finds a handler at work is not calm; the only one at work has seen the
\* labels of this moment.
LEMMA CalmEvent ==
    ASSUME CInv, NEW d \in Delivery, NEW k \in {"opened", "check-cla", "other"}, Event(d, k),
           AllCalm, AllCalm'
    PROVE  Calmness'
  <1>1. Active = {}
    BY DEF Event, AllCalm
  <1>2. /\ labels' = labels /\ seen'[d] = labels /\ kind'[d] = k /\ pc'[d] = "queued"
        /\ \A e \in Delivery : e # d => pc'[e] = pc[e]
    BY DEF Event, CInv, TypeOK, people
  <1>3. Active' = {d}
    BY <1>1, <1>2 DEF Active, Ended
  <1>4. labels # Label
    BY DEF CInv, Calmness
  <1>5. k = "opened" => labels = {}
    BY DEF Event, CInv, Unopened
  <1>6. CalmHandler(d)'
    BY <1>2, <1>5 DEF CalmHandler
  <1>7. QED  BY <1>2, <1>3, <1>4, <1>6 DEF Calmness, Label

\* A handler that is alone and fails in nothing.
LEMMA CalmHandle ==
    ASSUME CInv, NEW d \in Delivery, Handle(d), AllCalm, AllCalm'
    PROVE  Calmness'
  <1>1. UNCHANGED <<signed, withdrawals, byHand, kind, seen>>
    BY HandleKeeps
  <1>2. d \in Active
    BY DEF Handle, Start, isSigned, RemoveLabel, AddLabel, CreateComment, Active, Ended
  <1>3. /\ labels # Label
        /\ \A e \in Active : e = d
        /\ CalmHandler(d)
    BY <1>2 DEF CInv, Calmness
  <1>4. \A e \in Delivery : e # d => pc'[e] = pc[e]
    BY DEF CInv, TypeOK, Handle, Start, orgRepoConfig, isSigned, RemoveLabel, AddLabel,
           CreateComment, Goto
  <1>5. \A e \in Active' : e = d
    BY <1>3, <1>4 DEF Active
  <1>6. labels' # Label /\ CalmHandler(d)'
    <2>1. CASE Start(d)
      <3>1. labels' = labels /\ pc[d] = "queued" /\ pc'[d] \in {"isSigned", "done"}
        BY <2>1 DEF Start, orgRepoConfig, Goto, CInv, TypeOK, people
      <3>2. QED  BY <1>1, <1>3, <3>1 DEF CalmHandler, Label
    <2>2. CASE isSigned(d)
      <3>1. /\ labels' = labels /\ pc[d] = "isSigned"
            /\ pc'[d] \in {"add", "remove", "done"} /\ (pc'[d] = "add" => kind[d] = "opened")
        BY <2>2 DEF isSigned, Goto, CInv, TypeOK, people
      <3>2. QED  BY <1>1, <1>3, <3>1 DEF CalmHandler, Label
    <2>3. CASE RemoveLabel(d)
      <3>1. /\ pc[d] = "remove" /\ pc'[d] = "add" /\ found' = found
            /\ seen[d] = labels
        BY <1>3, <2>3 DEF RemoveLabel, Goto, CInv, TypeOK, CalmHandler
      <3>2. labels' = labels \ {OtherLabel(d)}
        BY <2>3, <3>1 DEF RemoveLabel, Call, Fail, AllCalm
      <3>3. QED  BY <1>3, <3>1, <3>2 DEF CalmHandler, Label, OtherLabel
    <2>4. CASE AddLabel(d)
      <3>1. pc[d] = "add" /\ pc'[d] \in {"comment", "done"} /\ OtherLabel(d) \notin labels
        BY <1>3, <2>4 DEF AddLabel, Goto, CInv, TypeOK, CalmHandler
      <3>2. labels' = labels \/ labels' = labels \union {LabelFor(d)}
        BY <2>4 DEF AddLabel, Call
      <3>3. OtherLabel(d) \notin labels' /\ OtherLabel(d) \in Label
        BY <3>1, <3>2 DEF OtherLabel, LabelFor, Label
      <3>4. QED  BY <3>1, <3>3 DEF CalmHandler
    <2>5. CASE CreateComment(d)
      <3>1. labels' = labels /\ pc'[d] = "done"
        BY <2>5 DEF CreateComment, Goto, CInv, TypeOK
      <3>2. QED  BY <1>3, <3>1 DEF CalmHandler, Label
    <2>6. QED  BY <2>1, <2>2, <2>3, <2>4, <2>5 DEF Handle
  <1>7. QED
    <2>1. \A e \in Active' : CalmHandler(e)'
      BY <1>5, <1>6
    <2>2. Label' = Label
      BY DEF Label
    <2>3. QED  BY <1>5, <1>6, <2>1, <2>2 DEF Calmness

LEMMA CInvStep == Inv /\ CInv /\ [Next]_vars => CInv'
  <1> SUFFICES ASSUME Inv, CInv, [Next]_vars, AllCalm' PROVE Calmness'
    BY InvStep, UnopenedStep DEF CInv, Calmness, Inv
  <1>1. AllCalm
    BY CalmEnds DEF Inv
  <1>2. ASSUME NEW d \in Delivery, NEW k \in {"opened", "check-cla", "other"}, Event(d, k)
        PROVE  Calmness'
    BY <1>1, <1>2, CalmEvent
  <1>3. CASE Sign \/ Withdraw \/ \E l \in Label : Relabel(l)
    <2>1. byHand \in Nat
      BY DEF Inv, TypeOK
    <2>2. Sign \/ Withdraw
      BY <1>3, <2>1 DEF Relabel, AllCalm
    <2>3. Active = {} /\ Active' = Active /\ labels' = labels
      BY <2>2 DEF Sign, Withdraw, Meanwhile, AllCalm, Active, Ended
    <2>4. QED  BY <1>1, <2>3 DEF CInv, Calmness, Label
  <1>4. ASSUME NEW d \in Delivery, Handle(d)
        PROVE  Calmness'
    BY <1>1, <1>4, CalmHandle
  <1>5. CASE UNCHANGED vars
    BY <1>1, <1>5 DEF vars, people, CInv, Calmness, CalmHandler, Active, Ended, Label, OtherLabel
  <1>6. QED  BY <1>2, <1>3, <1>4, <1>5 DEF Next, Outside

\* As long as no delivery overlaps another one or a change by people, nothing fails and
\* nobody else changes the labels, they exclude each other at every moment, for any number of deliveries one after the other.
THEOREM CalmExcludes == Spec => []CalmIsExclusive
  <1>1. CInv => CalmIsExclusive
    BY DEF CInv, Calmness, CalmIsExclusive, Calm, AllCalm, TypeOK
  <1>2. QED  BY Invariance, CInvInit, CInvStep, <1>1, PTL DEF Spec

-----------------------------------------------------------------------------
(* What a check that nothing disturbs makes of the labels, whatever others *)
(* before it have left.                                                    *)

CheckHandler(d) ==
    /\ pc[d] \in {"queued", "isSigned", "remove"} => seen[d] = labels
    /\ pc[d] \in {"remove", "add", "comment"} => found[d] = signed
    /\ pc[d] = "add" => labels = seen[d] \ {OtherLabel(d)}
    /\ pc[d] = "comment" => labels = {LabelFor(d)}

Undisturbed(d) ==
    /\ \A e \in Active : e = d
    /\ kind[d] = "check-cla" => CheckHandler(d)

AloneInv == TypeOK /\ \A d \in Active : Calm(d) => Undisturbed(d)

Repaired == labels' = {IF signed THEN "yes" ELSE "no"}

\* A step of such a check goes on as it should or ends with the right label.
LEMMA AloneHandle ==
    ASSUME TypeOK, NEW d \in Delivery, Handle(d), kind[d] = "check-cla", d \notin failed',
           CheckHandler(d)
    PROVE  /\ CheckHandler(d)'
           /\ pc'[d] = "done" => Repaired
  <1>1. UNCHANGED <<signed, withdrawals, byHand, kind, seen>>
    BY HandleKeeps
  <1>2. ~Fail(d) /\ d \in DOMAIN pc /\ d \in DOMAIN found
    BY DEF Fail, TypeOK
  <1>3. labels \subseteq Label /\ seen[d] \subseteq Label
    BY DEF TypeOK
  <1>4. CASE Start(d)
    <2>1. pc[d] = "queued" /\ pc'[d] = "isSigned" /\ labels' = labels
      BY <1>2, <1>4 DEF Start, orgRepoConfig, Goto, people
    <2>2. QED  BY <1>1, <2>1 DEF CheckHandler
  <1>5. CASE isSigned(d)
    <2>1. pc[d] = "isSigned" /\ pc'[d] = "remove" /\ labels' = labels /\ found'[d] = signed
      BY <1>2, <1>5 DEF isSigned, Goto, people
    <2>2. QED  BY <1>1, <2>1 DEF CheckHandler
  <1>6. CASE RemoveLabel(d)
    <2>1. pc[d] = "remove" /\ pc'[d] = "add" /\ found' = found
      BY <1>2, <1>6 DEF RemoveLabel, Goto
    <2>2. labels' = labels \ {OtherLabel(d)}
      BY <1>2, <1>6, <2>1 DEF RemoveLabel, Call, CheckHandler
    <2>3. QED  BY <1>1, <2>1, <2>2 DEF CheckHandler, OtherLabel
  <1>7. CASE AddLabel(d)
    <2>1. pc[d] = "add" /\ pc'[d] = "comment" /\ found' = found
      BY <1>2, <1>7 DEF AddLabel, Goto
    <2>2. labels' = IF LabelFor(d) \notin seen[d] THEN labels \union {LabelFor(d)} ELSE labels
      BY <1>2, <1>7 DEF AddLabel, Call
    <2>3. labels = seen[d] \ {OtherLabel(d)}
      BY <2>1 DEF CheckHandler
    <2>4. labels' = {LabelFor(d)}
      BY <1>3, <2>2, <2>3 DEF LabelFor, OtherLabel, Label
    <2>5. QED  BY <1>1, <2>1, <2>4 DEF CheckHandler, LabelFor
  <1>8. CASE CreateComment(d)
    <2>1. pc[d] = "comment" /\ pc'[d] = "done" /\ labels' = labels
      BY <1>2, <1>8 DEF CreateComment, Goto
    <2>2. QED  BY <1>1, <2>1 DEF CheckHandler, Repaired, LabelFor
  <1>9. QED  BY <1>4, <1>5, <1>6, <1>7, <1>8 DEF Handle

LEMMA AloneStep ==
    ASSUME AloneInv, TypeOK', [Next]_vars
    PROVE  /\ AloneInv'
           /\ \A d \in Delivery : pc[d] # "done" /\ pc'[d] = "done" /\ kind[d] = "check-cla"
                                    /\ Calm(d)' => Repaired
  <1>0. TypeOK
    BY DEF AloneInv
  <1>1. ASSUME NEW d \in Delivery, NEW k \in {"opened", "check-cla", "other"}, Event(d, k)
        PROVE  /\ \A e \in Active' : Calm(e)' => Undisturbed(e)'
               /\ \A e \in Delivery : pc'[e] = "done" => pc[e] = "done"
    <2>1. /\ labels' = labels /\ seen'[d] = labels /\ pc'[d] = "queued"
          /\ \A e \in Delivery : e # d => pc'[e] = pc[e]
      BY <1>0, <1>1 DEF Event, TypeOK, people
    <2>2. Active' = Active \union {d}
      BY <2>1 DEF Active, Ended
    <2>3. \A e \in Active' : Calm(e)' => Active = {}
      BY <1>1, <2>2 DEF Event, Calm
    <2>4. CheckHandler(d)'
      BY <2>1 DEF CheckHandler
    <2>5. QED  BY <2>1, <2>2, <2>3, <2>4 DEF Undisturbed
  <1>2. CASE Sign \/ Withdraw \/ \E l \in Label : Relabel(l)
    <2>1. Active' = Active /\ (\A e \in Active' : ~Calm(e)') /\ pc' = pc
      BY <1>2 DEF Sign, Withdraw, Relabel, Meanwhile, Active, Ended, Calm
    <2>2. QED  BY <2>1 DEF AloneInv
  <1>3. ASSUME NEW d \in Delivery, Handle(d)
        PROVE  /\ \A e \in Active' : Calm(e)' => Undisturbed(e)'
               /\ \A e \in Delivery : pc[e] # "done" /\ pc'[e] = "done" /\ kind[e] = "check-cla"
                                        /\ Calm(e)' => Repaired
    <2>1. d \in Active /\ raced' = raced /\ failed \subseteq failed'
      BY <1>3 DEF Handle, Start, orgRepoConfig, isSigned, RemoveLabel, AddLabel, CreateComment,
                  Call, Fail, Active, Ended
    <2>2. \A e \in Delivery : e # d => pc'[e] = pc[e]
      BY <1>0, <1>3 DEF TypeOK, Handle, Start, orgRepoConfig, isSigned, RemoveLabel, AddLabel,
                        CreateComment, Goto
    <2>3. \A e \in Delivery : Calm(e)' => Calm(e)
      BY <2>1 DEF Calm
    <2>4. \A e \in Active' : Calm(e)' => e = d
      BY <2>1, <2>2, <2>3 DEF AloneInv, Active, Undisturbed
    <2>5. Calm(d)' /\ kind[d] = "check-cla" =>
             CheckHandler(d)' /\ (pc'[d] = "done" => Repaired)
      BY <1>0, <1>3, <2>1, <2>3, AloneHandle DEF AloneInv, Calm, Undisturbed
    <2>6. Calm(d)' => \A e \in Active' : e = d
      BY <2>1, <2>2, <2>3 DEF AloneInv, Active, Undisturbed
    <2>7. kind' = kind
      BY <1>3, HandleKeeps
    <2>8. QED  BY <2>2, <2>4, <2>5, <2>6, <2>7 DEF Undisturbed
  <1>4. CASE UNCHANGED vars
    <2>1. \A e \in Active' : Calm(e)' => Undisturbed(e)'
      BY <1>4 DEF vars, people, AloneInv, Active, Ended, Calm, Undisturbed, CheckHandler,
                  OtherLabel, LabelFor
    <2>2. QED  BY <1>4, <2>1 DEF vars, AloneInv
  <1>5. QED  BY <1>1, <1>2, <1>3, <1>4 DEF Next, Outside, AloneInv

\* A check that nothing disturbs leaves exactly the right label, even where an earlier race
\* or failure left both or the wrong one.
THEOREM ChecksRepair == Spec => CheckRepairs
  <1>1. Init => AloneInv
    BY InvInit DEF Init, AloneInv, Inv, Active, Ended
  <1>2. Inv' => TypeOK'
    BY DEF Inv
  <1>3. Inv' /\ AloneInv /\ [Next]_vars =>
          [\A d \in Delivery :
              pc[d] # "done" /\ pc'[d] = "done" /\ kind[d] = "check-cla" /\ Calm(d)'
                  => labels' = {IF signed THEN "yes" ELSE "no"}]_vars
    BY <1>2, AloneStep DEF Repaired
  <1>4. Inv' /\ AloneInv /\ [Next]_vars => AloneInv'
    BY <1>2, AloneStep
  <1>5. QED  BY Invariance, <1>1, <1>3, <1>4, PTL DEF Spec, CheckRepairs
=============================================================================
