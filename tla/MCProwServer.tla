---------------------------- MODULE MCProwServer ----------------------------
(* Values for the constants of ProwServer. *)
EXTENDS ProwServer, TLC

MCPlugin == {"lgtm", "trigger"}

all == [name |-> "all", events |-> {}]
MCExternal == {all}

\* The second configuration adds a plugin, the third takes the first one away.
MCHistory == <<
    [plugins  |-> <<"org">> :> {"lgtm"}, external |-> <<"org">> :> {all}],
    [plugins  |-> <<"org">> :> {"lgtm"} @@ <<"org", "repo">> :> {"trigger"},
     external |-> <<"org">> :> {}],
    [plugins  |-> <<"org", "repo">> :> {"trigger"}, external |-> <<"org">> :> {all}] >>

MCRegistered == [t \in EventType |->
    IF t = "pull_request" THEN {"lgtm", "trigger"} ELSE IF t = "push" THEN {"trigger"} ELSE {}]

opened == [valid |-> TRUE, parses |-> TRUE, type |-> "pull_request", action |-> "opened",
           org |-> "org", repo |-> "repo"]

MCPayload == { opened,
               [opened EXCEPT !.action = "labeled"],
               [opened EXCEPT !.type = "push"],
               [opened EXCEPT !.type = "release"],
               [opened EXCEPT !.parses = FALSE],
               [opened EXCEPT !.valid = FALSE] }
=============================================================================
