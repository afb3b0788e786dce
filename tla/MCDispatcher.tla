---------------------------- MODULE MCDispatcher ----------------------------
(* Values for the constants of Dispatcher. *)
EXTENDS Dispatcher, TLC

MCPlugin == {"cla", "lgtm"}

all    == [name |-> "all", events |-> {}]
pushes == [name |-> "pushes", events |-> {"Push Hook"}]
MCExternal == {all, pushes}

\* The plugin of the organisation is replaced by one of the repository; pushes go
\* to an external plugin as long as the first configuration is in force.
MCConfigs ==
    { [plugins  |-> <<"org">> :> {"cla"},
       external |-> <<"org", "repo">> :> {pushes}],
      [plugins  |-> <<"org", "repo">> :> {"lgtm"},
       external |-> <<"elsewhere">> :> {all}] }

\* Both plugins handle notes; the owner a push is looked up by has no plugin.
MCRegistered == "Note Hook" :> {"cla", "lgtm"} @@
                "Merge Request Hook" :> {"cla", "lgtm"} @@
                "Push Hook" :> {"cla"} @@
                "Issue Hook" :> {}

note == [valid |-> TRUE, parses |-> TRUE, type |-> "Note Hook",
         namespace |-> "org", owner |-> "Owner", path |-> "repo"]

MCPayload == { note,
               [note EXCEPT !.type = "Push Hook"],
               [note EXCEPT !.type = "Release Hook"],
               [note EXCEPT !.parses = FALSE],
               [note EXCEPT !.valid = FALSE] }

\* For the disagreement, which one event with a plugin and a post shows.
OneNote == {note}
OneConfig == {[plugins |-> <<"org">> :> {"cla"}, external |-> <<"org">> :> {all}]}
=============================================================================
