---------------------------- MODULE MCPluginHelp ----------------------------
(* Values for the constants of PluginHelp. *)
EXTENDS PluginHelp, TLC

CONSTANTS a, b, b1

MCOrgOf == b1 :> b

refresh == [name |-> "refresh", endpoint |-> "up"]
needs == [name |-> "needs", endpoint |-> "stuck"]
MCExternal == {refresh, needs}

\* The second configuration enables plugins on an organisation more.
MCHistory == <<
    [plugins |-> a :> {"lgtm"} @@ b1 :> {"lgtm"}, external |-> <<>>],
    [plugins |-> a :> {"lgtm"}, external |-> b :> {needs, refresh}] >>
=============================================================================
