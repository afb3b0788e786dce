------------------------- MODULE ExternalPostProofs -------------------------
(***************************************************************************)
(* Proofs about ExternalPost, for any posts and endpoints, any maxRetries  *)
(* and any number of kept connections.                                     *)
(*                                                                         *)
(* Two things bound what an endpoint gets: an attempt that delivers fails  *)
(* or ends the post, and a body that was read comes back only through a    *)
(* connection that an answered post has left.                              *)
(***************************************************************************)
EXTENDS ExternalPost, TLAPS

\* The endpoint has answered a post.
Served(e) == \E q \in Post : To[q] = e /\ pc[q] \in Answered

AnswerOf(p) == IF pc[p] \in Answered THEN 1 ELSE 0

PostInv(p) ==
    /\ pc[p] \notin {"sleep", "gave up", "invalid"} => retries[p] < MaxRetries
    /\ received[p] <= retries[p] + AnswerOf(p)
    /\ pc[p] \in Answered => received[p] >= 1
    /\ pc[p] = "reused" \/ rewound[p] => Served(To[p])
    /\ received[p] > 0 => body[p] = "drained" \/ Served(To[p])

KeptInv == \A e \in Endpoint : idle[e] > 0 => Served(e)

IInv == TypeOK /\ KeptInv /\ \A p \in Post : PostInv(p)

-----------------------------------------------------------------------------
(* What every step leaves as it is.                                        *)

\* A step of a post is no step of another one.
LEMMA Others ==
    ASSUME TypeOK, NEW p \in Post, Go(p), NEW q \in Post, q # p
    PROVE  UNCHANGED <<pc[q], retries[q], body[q], rewound[q], received[q]>>
<1>1. CASE NewRequest(p) \/ Wake(p)
  BY <1>1 DEF TypeOK, NewRequest, Wake, Goto
<1>2. CASE Connect(p)
  BY <1>2 DEF TypeOK, Connect, Reuse, Dial, NoConnection, Failed, Goto
<1>3. CASE Send(p)
  BY <1>3 DEF TypeOK, Send, Answer, Break, NothingWritten, TooShort, Failed, Goto
<1> QED BY <1>1, <1>2, <1>3 DEF Go

\* An answered post takes no step.
LEMMA AnsweredStays ==
    ASSUME NEW p \in Post, Go(p)
    PROVE  pc[p] \notin Answered
<1>1. CASE NewRequest(p) \/ Wake(p)
  BY <1>1 DEF NewRequest, Wake, Answered
<1>2. CASE Connect(p)
  BY <1>2 DEF Connect, Reuse, Dial, NoConnection, Answered
<1>3. CASE Send(p)
  BY <1>3 DEF Send, Answer, Break, NothingWritten, TooShort, Connected, Answered
<1> QED BY <1>1, <1>2, <1>3 DEF Go

\* An endpoint that has answered has answered.
LEMMA ServedStays ==
    ASSUME TypeOK, NEW p \in Post, Go(p), NEW e \in Endpoint, Served(e)
    PROVE  Served(e)'
<1>1. PICK q \in Post : To[q] = e /\ pc[q] \in Answered
  BY DEF Served
<1>2. pc'[q] = pc[q]
  BY <1>1, Others, AnsweredStays
<1> QED BY <1>1, <1>2 DEF Served, Answered

\* The values of one post and of its endpoint.
LEMMA Values ==
    ASSUME TypeOK, NEW p \in Post
    PROVE  /\ retries[p] \in 0..MaxRetries /\ retries[p] \in Nat
           /\ received[p] \in Nat
           /\ To[p] \in Endpoint
<1>1. retries \in [Post -> 0..MaxRetries] /\ received \in [Post -> Nat]
  BY DEF TypeOK
<1>2. To[p] \in Endpoint
  BY PostAssumption
<1>3. retries[p] \in 0..MaxRetries
  BY <1>1
<1> QED BY <1>1, <1>2, <1>3

\* The connections kept for one endpoint.
LEMMA IdleValue ==
    ASSUME TypeOK, NEW e \in Endpoint
    PROVE  idle[e] \in 0..MaxIdle /\ idle[e] \in Nat
<1>1. idle \in [Endpoint -> 0..MaxIdle]
  BY DEF TypeOK
<1>2. idle[e] \in 0..MaxIdle
  BY <1>1
<1> QED BY <1>2

\* ... and after a step.
LEMMA IdleValueThen ==
    ASSUME TypeOK', NEW e \in Endpoint
    PROVE  idle'[e] \in Nat
<1>1. idle' \in [Endpoint -> 0..MaxIdle]
  BY DEF TypeOK
<1>2. idle'[e] \in 0..MaxIdle
  BY <1>1
<1> QED BY <1>2

\* One more attempt stays within the bound.
LEMMA OneMore ==
    ASSUME TypeOK, NEW p \in Post, retries[p] < MaxRetries
    PROVE  [retries EXCEPT ![p] = @ + 1] \in [Post -> 0..MaxRetries]
<1>1. retries[p] + 1 \in 0..MaxRetries
  <2>1. MaxRetries \in Nat
    BY PostAssumption
  <2>2. retries[p] \in Nat
    BY Values
  <2> QED BY <2>1, <2>2
<1>2. retries \in [Post -> 0..MaxRetries]
  BY DEF TypeOK
<1> QED BY <1>1, <1>2

\* Without an answer there is no delivery that no failure was counted for.
LEMMA NotAnswered ==
    ASSUME TypeOK, NEW p \in Post, PostInv(p), pc[p] \notin Answered
    PROVE  received[p] <= retries[p]
<1>1. AnswerOf(p) = 0
  BY DEF AnswerOf
<1>2. received[p] <= retries[p] + AnswerOf(p)
  BY DEF PostInv
<1>3. received[p] <= retries[p] + 0
  BY <1>1, <1>2
<1> QED BY <1>3, Values

-----------------------------------------------------------------------------
(* The invariant, step by step.                                            *)

\* From here on, what a step makes of the post that takes it is enough.
LEMMA Enough ==
    ASSUME IInv, NEW p \in Post, Go(p), TypeOK', PostInv(p)',
           idle[To[p]]' > idle[To[p]] => Served(To[p])',
           \A e \in Endpoint : e # To[p] => idle'[e] = idle[e]
    PROVE  IInv'
<1>1. \A e \in Endpoint : Served(e) => Served(e)'
  BY ServedStays DEF IInv
<1>2. KeptInv'
  <2> SUFFICES ASSUME NEW e \in Endpoint, idle'[e] > 0 PROVE Served(e)'
    BY DEF KeptInv
  <2>1. CASE idle[e] > 0
    BY <2>1, <1>1 DEF IInv, KeptInv
  <2>2. CASE ~(idle[e] > 0)
    <3>1. e = To[p]
      BY <2>2
    <3>2. idle[e] \in Nat /\ idle'[e] \in Nat
      BY IdleValue, IdleValueThen DEF IInv
    <3> QED BY <2>2, <3>1, <3>2
  <2> QED BY <2>1, <2>2
<1>3. ASSUME NEW q \in Post, q # p PROVE PostInv(q)'
  <2>1. UNCHANGED <<pc[q], retries[q], body[q], rewound[q], received[q]>>
    BY <1>3, Others DEF IInv
  <2>2. PostInv(q) /\ To[q] \in Endpoint
    BY PostAssumption DEF IInv
  <2>3. Served(To[q]) => Served(To[q])'
    BY <1>1, <2>2
  <2> QED BY <2>1, <2>2, <2>3 DEF PostInv, AnswerOf
<1> QED BY <1>2, <1>3 DEF IInv

LEMMA StartStep ==
    ASSUME IInv, NEW p \in Post, NewRequest(p) \/ Wake(p)
    PROVE  IInv'
<1>1. TypeOK /\ PostInv(p) /\ To[p] \in Endpoint
  BY PostAssumption DEF IInv
<1>2. TypeOK'
  BY <1>1 DEF TypeOK, NewRequest, Wake, Goto
<1>3. /\ UNCHANGED <<retries, body, rewound, received, idle>>
      /\ pc'[p] \in {"attempt", "invalid", "gave up"}
      /\ pc[p] \in {"new", "sleep"}
      /\ pc'[p] = "attempt" => retries[p] < MaxRetries
  BY <1>1 DEF TypeOK, PostInv, NewRequest, Wake, Goto
<1>4. Served(To[p]) => Served(To[p])'
  BY <1>1, ServedStays DEF Go
<1>5. PostInv(p)'
  BY <1>1, <1>3, <1>4 DEF PostInv, AnswerOf, Answered
<1>6. ~(idle[To[p]]' > idle[To[p]])
  <2>1. idle[To[p]] \in Nat
    BY <1>1, IdleValue
  <2>2. idle[To[p]]' = idle[To[p]]
    BY <1>3
  <2> QED BY <2>1, <2>2
<1> QED BY <1>2, <1>3, <1>5, <1>6, Enough DEF Go

LEMMA ConnectStep ==
    ASSUME IInv, NEW p \in Post, Connect(p)
    PROVE  IInv'
<1>1. TypeOK /\ PostInv(p) /\ To[p] \in Endpoint
  BY PostAssumption DEF IInv
<1>2. Go(p) /\ pc[p] = "attempt" /\ retries[p] < MaxRetries
  BY <1>1 DEF Go, Connect, Reuse, Dial, NoConnection, PostInv
<1>3. Served(To[p]) => Served(To[p])'
  BY <1>1, <1>2, ServedStays
<1>4. idle[To[p]] \in 0..MaxIdle /\ idle[To[p]] \in Nat
  BY <1>1, IdleValue
<1>5. CASE Reuse(p)
  <2>1. idle[To[p]] > 0 /\ idle' = [idle EXCEPT ![To[p]] = idle[To[p]] - 1]
    BY <1>5 DEF Reuse
  <2>2. idle[To[p]] - 1 \in 0..MaxIdle
    BY <1>4, <2>1, PostAssumption
  <2>3. idle' \in [Endpoint -> 0..MaxIdle]
    BY <1>1, <2>1, <2>2 DEF TypeOK
  <2>4. TypeOK'
    BY <1>1, <1>5, <2>3 DEF TypeOK, Reuse, Goto
  <2>5. Served(To[p])'
    BY <1>1, <1>3, <2>1 DEF IInv, KeptInv
  <2>6. pc'[p] = "reused" /\ UNCHANGED <<retries, body, rewound, received>>
    BY <1>1, <1>5 DEF Reuse, Goto, TypeOK
  <2>7. PostInv(p)'
    BY <1>1, <1>2, <2>5, <2>6 DEF PostInv, AnswerOf, Answered
  <2> QED BY <1>1, <1>2, <2>1, <2>4, <2>5, <2>7, Enough DEF TypeOK
<1>6. CASE Dial(p)
  <2>1. TypeOK' /\ UNCHANGED <<retries, body, rewound, received, idle>> /\ pc'[p] = "fresh"
    BY <1>1, <1>6 DEF TypeOK, Dial, Goto
  <2>2. PostInv(p)'
    BY <1>1, <1>2, <1>3, <2>1 DEF PostInv, AnswerOf, Answered
  <2>3. ~(idle[To[p]]' > idle[To[p]])
    BY <1>4, <2>1
  <2> QED BY <1>2, <2>1, <2>2, <2>3, Enough
<1>7. CASE NoConnection(p)
  <2>1. retries' = [retries EXCEPT ![p] = @ + 1]
    BY <1>7 DEF NoConnection, Failed
  <2>2. TypeOK' /\ retries'[p] = retries[p] + 1
    <3>1. retries' \in [Post -> 0..MaxRetries]
      BY <1>1, <1>2, <2>1, OneMore
    <3> QED BY <1>1, <1>7, <2>1, <3>1 DEF TypeOK, NoConnection, Failed, Goto
  <2>3. UNCHANGED <<body, received, idle>> /\ pc'[p] = "sleep" /\ ~rewound'[p]
    BY <1>1, <1>7 DEF TypeOK, NoConnection, Failed, Goto
  <2>4. received'[p] <= retries'[p]
    <3>1. received[p] <= retries[p]
      BY <1>1, <1>2, NotAnswered DEF Answered
    <3>2. received[p] \in Nat /\ retries[p] \in Nat
      BY <1>1, Values
    <3> QED BY <2>2, <2>3, <3>1, <3>2
  <2>5. PostInv(p)'
    <3>1. AnswerOf(p)' = 0
      BY <2>3 DEF AnswerOf, Answered
    <3>2. retries'[p] \in Nat /\ received'[p] \in Nat
      BY <1>1, <2>2, <2>3, Values
    <3>3. received'[p] <= retries'[p] + AnswerOf(p)'
      BY <2>4, <3>1, <3>2
    <3> QED BY <1>1, <1>3, <2>3, <3>3 DEF PostInv, Answered
  <2>6. ~(idle[To[p]]' > idle[To[p]])
    BY <1>4, <2>3
  <2> QED BY <1>2, <2>2, <2>3, <2>5, <2>6, Enough
<1> QED BY <1>5, <1>6, <1>7 DEF Connect

LEMMA AnswerStep ==
    ASSUME IInv, NEW p \in Post, Answer(p)
    PROVE  IInv'
<1>1. TypeOK /\ PostInv(p) /\ To[p] \in Endpoint
  BY PostAssumption DEF IInv
<1>2. idle[To[p]] \in Nat /\ received[p] \in Nat /\ retries[p] \in Nat
  BY <1>1, Values, IdleValue
<1>3. /\ pc'[p] \in Answered /\ pc' \in [Post -> {"new", "attempt", "reused", "fresh", "sleep",
                              "accepted", "refused", "gave up", "invalid"}]
      /\ body'[p] = "drained" /\ received'[p] = received[p] + 1
      /\ UNCHANGED <<retries, rewound, listening>>
  BY <1>1 DEF Answer, Goto, TypeOK, Answered
<1>4. idle' \in [Endpoint -> 0..MaxIdle]
  <2>1. CASE idle' = idle
    BY <1>1, <2>1 DEF TypeOK
  <2>2. CASE idle[To[p]] < MaxIdle /\ idle' = [idle EXCEPT ![To[p]] = @ + 1]
    <3>1. idle[To[p]] + 1 \in 0..MaxIdle
      <4>1. MaxIdle \in Nat
        BY PostAssumption
      <4> QED BY <1>2, <2>2, <4>1
    <3> QED BY <1>1, <2>2, <3>1 DEF TypeOK
  <2> QED BY <2>1, <2>2 DEF Answer
<1>5. TypeOK'
  <2>1. received[p] + 1 \in Nat
    BY <1>2
  <2>2. received' \in [Post -> Nat]
    <3>1. received \in [Post -> Nat]
      BY <1>1 DEF TypeOK
    <3>2. received' = [received EXCEPT ![p] = received[p] + 1]
      BY DEF Answer
    <3> QED BY <2>1, <3>1, <3>2
  <2> QED BY <1>1, <1>3, <1>4, <2>2 DEF Answer, TypeOK
<1>6. Served(To[p])'
  BY <1>3 DEF Served
<1>7. PostInv(p)'
  <2>1. pc[p] \notin Answered
    BY DEF Answer, Connected, Answered
  <2>2. received[p] <= retries[p]
    BY <1>1, <2>1, NotAnswered
  <2>3. AnswerOf(p)' = 1
    BY <1>3 DEF AnswerOf
  <2>4. received'[p] <= retries'[p] + AnswerOf(p)' /\ received'[p] >= 1
    <3>1. received'[p] = received[p] + 1 /\ retries'[p] = retries[p]
      BY <1>3
    <3>2. received[p] + 1 <= retries[p] + 1 /\ received[p] + 1 >= 1
      BY <1>2, <2>2
    <3> QED BY <2>3, <3>1, <3>2
  <2>5. retries'[p] < MaxRetries
    BY <1>1, <1>3 DEF Answer, Connected, PostInv
  <2> QED BY <1>3, <1>6, <2>4, <2>5 DEF PostInv, Answered
<1>8. \A e \in Endpoint : e # To[p] => idle'[e] = idle[e]
  BY <1>1 DEF Answer, TypeOK
<1> QED BY <1>5, <1>6, <1>7, <1>8, Enough DEF Go, Send

\* An attempt that fails is counted, whatever it has delivered.
LEMMA FailedStep ==
    ASSUME IInv, NEW p \in Post, Break(p) \/ TooShort(p)
    PROVE  IInv'
<1>1. TypeOK /\ PostInv(p) /\ To[p] \in Endpoint
  BY PostAssumption DEF IInv
<1>2. /\ pc[p] \in {"reused", "fresh"} /\ Failed(p) /\ Go(p)
      /\ UNCHANGED <<listening, idle>>
  BY DEF Break, TooShort, Connected, Go, Send
<1>3. retries[p] < MaxRetries
  BY <1>1, <1>2 DEF PostInv
<1>4. received[p] \in Nat /\ retries[p] \in Nat /\ idle[To[p]] \in Nat
  BY <1>1, Values, IdleValue
<1>5. /\ pc'[p] = "sleep" /\ retries'[p] = retries[p] + 1 /\ ~rewound'[p]
  BY <1>1, <1>2 DEF Failed, Goto, TypeOK
<1>6. \/ UNCHANGED received /\ (body'[p] = body[p] \/ body'[p] = "drained")
      \/ /\ received' = [received EXCEPT ![p] = received[p] + 1]
         /\ body'[p] = "drained" \/ rewound[p]
  <2>1. CASE Break(p)
    BY <1>1, <2>1 DEF Break, TypeOK
  <2>2. CASE TooShort(p)
    BY <1>1, <2>2 DEF TooShort, TypeOK
  <2> QED BY <2>1, <2>2
<1>7. TypeOK'
  <2>1. received' \in [Post -> Nat]
    <3>1. received \in [Post -> Nat]
      BY <1>1 DEF TypeOK
    <3>2. received[p] + 1 \in Nat
      BY <1>4
    <3> QED BY <1>6, <3>1, <3>2
  <2>2. body' \in [Post -> {"full", "drained"}]
    BY <1>1 DEF TypeOK, Break, TooShort
  <2>3. retries' \in [Post -> 0..MaxRetries]
    BY <1>1, <1>2, <1>3, OneMore DEF Failed
  <2> QED BY <1>1, <1>2, <2>1, <2>2, <2>3 DEF TypeOK, Failed, Goto
<1>8. Served(To[p]) => Served(To[p])'
  BY <1>1, <1>2, ServedStays
<1>9. received'[p] <= retries'[p] + AnswerOf(p)'
  <2>1. received[p] <= retries[p]
    BY <1>1, <1>2, NotAnswered DEF Answered
  <2>2. AnswerOf(p)' = 0
    BY <1>5 DEF AnswerOf, Answered
  <2>3. received'[p] = received[p] \/ received'[p] = received[p] + 1
    BY <1>1, <1>6 DEF TypeOK
  <2> QED BY <1>4, <1>5, <2>1, <2>2, <2>3
<1>10. received'[p] > 0 => body'[p] = "drained" \/ Served(To[p])'
  <2>1. CASE UNCHANGED received /\ (body'[p] = body[p] \/ body'[p] = "drained")
    BY <1>1, <1>8, <2>1 DEF PostInv
  <2>2. CASE body'[p] = "drained" \/ rewound[p]
    BY <1>1, <1>8, <2>2 DEF PostInv
  <2> QED BY <1>6, <2>1, <2>2
<1>11. PostInv(p)'
  BY <1>5, <1>9, <1>10 DEF PostInv, Answered
<1>12. ~(idle[To[p]]' > idle[To[p]])
  BY <1>2, <1>4
<1> QED BY <1>2, <1>7, <1>11, <1>12, Enough

LEMMA NothingWrittenStep ==
    ASSUME IInv, NEW p \in Post, NothingWritten(p)
    PROVE  IInv'
<1>1. TypeOK /\ PostInv(p) /\ To[p] \in Endpoint
  BY PostAssumption DEF IInv
<1>2. TypeOK' /\ Go(p)
  BY <1>1 DEF NothingWritten, Goto, TypeOK, Go, Send
<1>3. /\ pc[p] = "reused" /\ pc'[p] = "attempt" /\ UNCHANGED <<retries, received, idle>>
      /\ body'[p] = body[p] \/ body'[p] = "drained"
  BY <1>1 DEF NothingWritten, Goto, TypeOK
<1>4. Served(To[p])'
  BY <1>1, <1>2, <1>3, ServedStays DEF PostInv
<1>5. PostInv(p)'
  BY <1>1, <1>3, <1>4 DEF PostInv, AnswerOf, Answered
<1> QED BY <1>2, <1>3, <1>4, <1>5, Enough

LEMMA WorldStep ==
    ASSUME IInv, NEW e \in Endpoint, Toggle(e) \/ CloseIdle(e)
    PROVE  IInv'
<1>1. TypeOK /\ KeptInv /\ UNCHANGED <<pc, retries, body, rewound, received>>
  BY DEF IInv, Toggle, CloseIdle, postVars
<1>2. \A f \in Endpoint : idle[f] \in 0..MaxIdle /\ idle[f] \in Nat
  BY <1>1, IdleValue
<1>3. \A f \in Endpoint : Served(f)' = Served(f)
  BY <1>1 DEF Served
<1>4. \A p \in Post : PostInv(p)'
  <2> SUFFICES ASSUME NEW p \in Post PROVE PostInv(p)'
    OBVIOUS
  <2>1. PostInv(p) /\ To[p] \in Endpoint
    BY PostAssumption DEF IInv
  <2> QED BY <1>1, <1>3, <2>1 DEF PostInv, AnswerOf
<1>5. CASE Toggle(e)
  <2>1. TypeOK' /\ idle' = idle
    BY <1>1, <1>5 DEF TypeOK, Toggle, postVars
  <2> QED BY <1>1, <1>3, <1>4, <2>1 DEF IInv, KeptInv
<1>6. CASE CloseIdle(e)
  <2>1. idle[e] > 0 /\ idle' = [idle EXCEPT ![e] = idle[e] - 1]
    BY <1>6 DEF CloseIdle
  <2>2. idle[e] - 1 \in 0..MaxIdle
    BY <1>2, <2>1, PostAssumption
  <2>3. TypeOK'
    BY <1>1, <1>6, <2>1, <2>2 DEF TypeOK, CloseIdle, postVars
  <2>4. \A f \in Endpoint : idle'[f] > 0 => idle[f] > 0
    BY <1>1, <2>1 DEF TypeOK
  <2> QED BY <1>1, <1>3, <1>4, <2>3, <2>4 DEF IInv, KeptInv
<1> QED BY <1>5, <1>6

\* IInv is an invariant.
THEOREM Invariance == Spec => []IInv
<1>1. Init => IInv
  BY PostAssumption DEF Init, IInv, TypeOK, PostInv, KeptInv, AnswerOf, Answered
<1>2. IInv /\ [Next]_vars => IInv'
  <2> SUFFICES ASSUME IInv, [Next]_vars PROVE IInv'
    OBVIOUS
  <2>1. ASSUME NEW p \in Post, Go(p) PROVE IInv'
    BY <2>1, StartStep, ConnectStep, AnswerStep, FailedStep, NothingWrittenStep DEF Go, Send
  <2>2. ASSUME NEW e \in Endpoint, Toggle(e) \/ CloseIdle(e) PROVE IInv'
    BY <2>2, WorldStep
  <2>3. CASE UNCHANGED vars
    BY <2>3 DEF vars, postVars, IInv, TypeOK, PostInv, KeptInv, AnswerOf, Served
  <2> QED BY <2>1, <2>2, <2>3 DEF Next
<1> QED BY <1>1, <1>2, PTL DEF Spec

\* The types, among them that no post makes more than MaxRetries attempts and that no more
\* than MaxIdle connections are kept.
THEOREM TypeCorrect == Spec => []TypeOK
<1>1. IInv => TypeOK
  BY DEF IInv
<1> QED BY Invariance, <1>1, PTL

\* Each attempt of a post delivers its payload at most once.
THEOREM DeliveredOncePerAttempt == Spec => []OncePerAttempt
<1>1. IInv => OncePerAttempt
  BY DEF IInv, PostInv, AnswerOf, OncePerAttempt
<1> QED BY Invariance, <1>1, PTL

\* An endpoint gets the payload of a post at most maxRetries times.
THEOREM DeliveriesBounded == Spec => [](\A p \in Post : received[p] <= MaxRetries)
<1>1. IInv => \A p \in Post : received[p] <= MaxRetries
  <2> SUFFICES ASSUME IInv, NEW p \in Post PROVE received[p] <= MaxRetries
    OBVIOUS
  <2>1. /\ PostInv(p) /\ MaxRetries \in Nat
        /\ received[p] \in Nat /\ retries[p] \in 0..MaxRetries /\ retries[p] \in Nat
    BY Values, PostAssumption DEF IInv
  <2>2. CASE pc[p] \notin Answered
    <3>1. received[p] <= retries[p]
      BY <2>1, <2>2, NotAnswered DEF IInv
    <3> QED BY <2>1, <3>1
  <2>3. CASE pc[p] \in Answered
    <3>1. retries[p] < MaxRetries /\ received[p] <= retries[p] + 1
      BY <2>1, <2>3 DEF PostInv, AnswerOf, Answered
    <3> QED BY <2>1, <3>1
  <2> QED BY <2>2, <2>3
<1> QED BY Invariance, <1>1, PTL

\* What is reported as dispatched was received.
THEOREM DispatchedIsReceived == Spec => []DispatchedWasReceived
<1>1. IInv => DispatchedWasReceived
  BY DEF IInv, PostInv, Answered, DispatchedWasReceived
<1> QED BY Invariance, <1>1, PTL

\* A payload that was read or received is delivered again only after the endpoint has
\* answered another post.
THEOREM LateDeliveryHasAnother == Spec => LateDeliveryNeedsAnother
<1>1. IInv /\ [Next]_vars =>
        [\A p \in Post :
          (body[p] = "drained" \/ received[p] > 0) /\ received'[p] > received[p]
              => \E q \in Post \ {p} : To[q] = To[p] /\ pc[q] \in Answered]_vars
  <2> SUFFICES ASSUME IInv, [Next]_vars, NEW p \in Post,
                      body[p] = "drained" \/ received[p] > 0, received'[p] > received[p]
               PROVE  \E q \in Post \ {p} : To[q] = To[p] /\ pc[q] \in Answered
    OBVIOUS
  <2>0. TypeOK /\ PostInv(p) /\ received[p] \in Nat
    BY DEF IInv, TypeOK
  <2>1. received'[p] # received[p]
    BY <2>0
  <2>2. Go(p)
    <3>1. CASE UNCHANGED vars
      BY <2>1, <3>1 DEF vars, postVars
    <3>2. ASSUME NEW e \in Endpoint, Toggle(e) \/ CloseIdle(e) PROVE FALSE
      BY <2>1, <3>2 DEF Toggle, CloseIdle, postVars
    <3> QED BY <2>0, <2>1, <3>1, <3>2, Others DEF Next
  <2>3. Answer(p) \/ Break(p)
    BY <2>1, <2>2 DEF Go, NewRequest, Wake, Connect, Reuse, Dial, NoConnection, Send,
                      NothingWritten, TooShort
  <2>4. Whole(p) /\ pc[p] \notin Answered
    BY <2>3 DEF Answer, Break, Connected, Answered
  <2>5. Served(To[p])
    BY <2>0, <2>4 DEF Whole, PostInv, TypeOK
  <2> QED BY <2>4, <2>5 DEF Served
<1> QED BY Invariance, <1>1, PTL DEF Spec, LateDeliveryNeedsAnother
=============================================================================
