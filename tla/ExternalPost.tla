---------------------------- MODULE ExternalPost ----------------------------
(***************************************************************************)
(* Posting events to external plugins: dispatch and do of                  *)
(* gitee/plugins/dispatcher.go (prow/hook/server.go has the same two), and *)
(* the HTTP transport under them, which all posts of the process share.    *)
(*                                                                         *)
(* All attempts of a post use one http.Request, whose body is a buffer     *)
(* that is read once.  A later attempt finds it at its end, shorter than   *)
(* the Content-Length, and fails before a byte is written.  If that        *)
(* happens on a connection kept from another post, the transport goes on   *)
(* by itself: it rewinds the body (NewRequest knows how to rewind a        *)
(* buffer) and sends it on another connection.  On a new connection it     *)
(* reports the error, and what broke after a byte was written it never     *)
(* sends again: a POST is not idempotent.                                  *)
(*                                                                         *)
(* Of the endpoints it is assumed that they speak HTTP/1, do not redirect  *)
(* and answer only what they have read; of the headers, which are those of *)
(* the webhook, that they fit the transport's buffer and have no           *)
(* Idempotency-Key.  Time (the backoff) is not modelled, only that an      *)
(* attempt is followed by a sleep.                                         *)
(***************************************************************************)
EXTENDS Naturals

CONSTANTS Post,        \* the posts of the process
          Endpoint,
          To,          \* the endpoint of each post
          MaxRetries,  \* maxRetries of do, 5
          MaxIdle      \* connections that the transport keeps for an endpoint, 2

ASSUME PostAssumption == /\ To \in [Post -> Endpoint]
                         /\ MaxRetries \in Nat \ {0}
                         /\ MaxIdle \in Nat

VARIABLES pc,         \* where each post is
          retries,    \* attempts that failed so far
          body,       \* "full" until an attempt has read it
          rewound,    \* whether the attempt under way has a body of its own
          received,   \* complete payloads that the endpoint got from this post
          listening,  \* the endpoints that accept new connections
          idle        \* connections kept for each endpoint

postVars == <<pc, retries, body, rewound, received>>
vars == <<postVars, listening, idle>>

Answered == {"accepted", "refused"}
Ended(p) == pc[p] \in Answered \union {"gave up", "invalid"}

TypeOK == /\ pc \in [Post -> {"new", "attempt", "reused", "fresh", "sleep",
                              "accepted", "refused", "gave up", "invalid"}]
          /\ retries \in [Post -> 0..MaxRetries]
          /\ body \in [Post -> {"full", "drained"}]
          /\ rewound \in [Post -> BOOLEAN]
          /\ received \in [Post -> Nat]
          /\ listening \in SUBSET Endpoint
          /\ idle \in [Endpoint -> 0..MaxIdle]

Init == /\ pc = [p \in Post |-> "new"]
        /\ retries = [p \in Post |-> 0]
        /\ body = [p \in Post |-> "full"]
        /\ rewound = [p \in Post |-> FALSE]
        /\ received = [p \in Post |-> 0]
        /\ listening \in SUBSET Endpoint
        /\ idle = [e \in Endpoint |-> 0]

Goto(p, l) == pc' = [pc EXCEPT ![p] = l]

\* http.NewRequest fails on an endpoint that is no URL; otherwise do begins.
NewRequest(p) ==
    /\ pc[p] = "new"
    /\ Goto(p, "attempt") \/ Goto(p, "invalid")
    /\ UNCHANGED <<retries, body, rewound, received, listening, idle>>

-----------------------------------------------------------------------------
(* ec.Do(req): a connection is found, and used.                            *)

\* ec.Do returns an error.
Failed(p) == /\ Goto(p, "sleep")
             /\ retries' = [retries EXCEPT ![p] = @ + 1]
             /\ rewound' = [rewound EXCEPT ![p] = FALSE]

\* A connection that another post has left.
Reuse(p) ==
    /\ pc[p] = "attempt"
    /\ idle[To[p]] > 0
    /\ idle' = [idle EXCEPT ![To[p]] = @ - 1]
    /\ Goto(p, "reused")
    /\ UNCHANGED <<retries, body, rewound, received, listening>>

Dial(p) ==
    /\ pc[p] = "attempt"
    /\ idle[To[p]] = 0
    /\ To[p] \in listening
    /\ Goto(p, "fresh")
    /\ UNCHANGED <<retries, body, rewound, received, listening, idle>>

\* No connection: the body is left as it was.
NoConnection(p) ==
    /\ pc[p] = "attempt"
    /\ idle[To[p]] = 0
    /\ To[p] \notin listening
    /\ Failed(p)
    /\ UNCHANGED <<body, received, listening, idle>>

Connected(p) == pc[p] \in {"reused", "fresh"}

\* There is a payload to send.
Whole(p) == body[p] = "full" \/ rewound[p]

\* The endpoint answers, and keeps the connection or not; a status other than 2xx and an
\* answer that cannot be read are errors of dispatch, and are not retried.
Answer(p) ==
    /\ Connected(p) /\ Whole(p)
    /\ body' = [body EXCEPT ![p] = "drained"]
    /\ received' = [received EXCEPT ![p] = @ + 1]
    /\ \E status \in Answered : Goto(p, status)
    /\ \/ UNCHANGED idle
       \/ idle[To[p]] < MaxIdle /\ idle' = [idle EXCEPT ![To[p]] = @ + 1]
    /\ UNCHANGED <<retries, rewound, listening>>

\* Mutant: the transport sends a post again that broke, as it does with what is
\* idempotent.
BreakReplayed(p) ==
    /\ Connected(p) /\ Whole(p)
    /\ body' = [body EXCEPT ![p] = "drained"]
    /\ received' \in {received, [received EXCEPT ![p] = @ + 1]}
    /\ rewound' = [rewound EXCEPT ![p] = TRUE]
    /\ Goto(p, "attempt")
    /\ UNCHANGED <<retries, listening, idle>>

\* The connection breaks while the post uses it: the body may have been read, and the
\* endpoint may have had the whole of it.
Break(p) ==
    /\ Connected(p) /\ Whole(p)
    /\ \E b \in {body[p], "drained"} :
          /\ body' = [body EXCEPT ![p] = b]
          /\ \/ UNCHANGED received
             \/ /\ b = "drained" \/ rewound[p]
                /\ received' = [received EXCEPT ![p] = @ + 1]
    /\ Failed(p)
    /\ UNCHANGED <<listening, idle>>

\* Nothing was written on a kept connection, because it was closed at the other end or
\* because the body was too short.  The transport takes the next connection, with a body
\* of its own.
NothingWritten(p) ==
    /\ pc[p] = "reused"
    /\ \E b \in {body[p], "drained"} : body' = [body EXCEPT ![p] = b]
    /\ rewound' = [rewound EXCEPT ![p] = TRUE]
    /\ Goto(p, "attempt")
    /\ UNCHANGED <<retries, received, listening, idle>>

\* Mutant: every attempt makes its own request.
TooShortRewound(p) ==
    /\ pc[p] = "fresh" /\ ~Whole(p)
    /\ received' = [received EXCEPT ![p] = @ + 1]
    /\ Goto(p, "accepted")
    /\ UNCHANGED <<retries, body, rewound, listening, idle>>

\* Mutant: the failure to send is not an error of the attempt.
TooShortIgnored(p) ==
    /\ pc[p] = "fresh" /\ ~Whole(p)
    /\ Goto(p, "accepted")
    /\ UNCHANGED <<retries, body, rewound, received, listening, idle>>

\* On a new connection a body that is too short is an error of the attempt.
TooShort(p) ==
    /\ pc[p] = "fresh" /\ ~Whole(p)
    /\ Failed(p)
    /\ UNCHANGED <<body, received, listening, idle>>

-----------------------------------------------------------------------------

\* Mutant: the loop has no bound.
WakeForever(p) ==
    /\ pc[p] = "sleep"
    /\ Goto(p, "attempt")
    /\ retries' = [retries EXCEPT ![p] = 0]
    /\ UNCHANGED <<body, rewound, received, listening, idle>>

\* The loop sleeps after every failure, the last one too.
Wake(p) ==
    /\ pc[p] = "sleep"
    /\ Goto(p, IF retries[p] < MaxRetries THEN "attempt" ELSE "gave up")
    /\ UNCHANGED <<retries, body, rewound, received, listening, idle>>

\* Endpoints come and go,
Toggle(e) ==
    /\ listening' = IF e \in listening THEN listening \ {e} ELSE listening \union {e}
    /\ UNCHANGED <<postVars, idle>>

\* and kept connections are closed, at either end.
CloseIdle(e) ==
    /\ idle[e] > 0
    /\ idle' = [idle EXCEPT ![e] = @ - 1]
    /\ UNCHANGED <<postVars, listening>>

Connect(p) == Reuse(p) \/ Dial(p) \/ NoConnection(p)
Send(p) == Answer(p) \/ Break(p) \/ NothingWritten(p) \/ TooShort(p)
Go(p) == NewRequest(p) \/ Connect(p) \/ Send(p) \/ Wake(p)

Next == (\E p \in Post : Go(p)) \/ \E e \in Endpoint : Toggle(e) \/ CloseIdle(e)

Spec == Init /\ [][Next]_vars

\* The goroutine runs, and what it does with a connection ends: the client has no timeout
\* of its own, that it ends is an assumption on the endpoint.
FairSpec == Spec /\ \A p \in Post : WF_vars(Go(p))

-----------------------------------------------------------------------------
\* However attempts and resends follow each other, an attempt delivers the payload at
\* most once: an endpoint gets it at most maxRetries times from one post (do).
OncePerAttempt ==
    \A p \in Post : received[p] <= retries[p] + IF pc[p] \in Answered THEN 1 ELSE 0

\* A post that is reported as dispatched was received whole.
DispatchedWasReceived == \A p \in Post : pc[p] = "accepted" => received[p] >= 1

\* A retry repairs a failure to connect and no more: once the payload was read or
\* received, it is delivered by a later attempt, a second time perhaps, only if the endpoint
\* has answered another post, whose connection was kept (dispatch makes one request for
\* all attempts).
LateDeliveryNeedsAnother ==
    [][\A p \in Post :
          (body[p] = "drained" \/ received[p] > 0) /\ received'[p] > received[p]
              => \E q \in Post \ {p} : To[q] = To[p] /\ pc[q] \in Answered]_vars

\* A post ends after a bounded number of attempts even if the endpoint comes and goes.
PostEnds == \A p \in Post : <>Ended(p)
=============================================================================
