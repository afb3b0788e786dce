-------------------------- MODULE MCPluginOptions --------------------------
(* PluginOptions with two repositories of one organisation.                *)
EXTENDS PluginOptions

MCOwner == [r \in Repo |-> "o"]

MCListed == {[name |-> "p", endpoint |-> ""], [name |-> "p", endpoint |-> "http://e"],
             [name |-> "q", endpoint |-> ""]}

MCBase == ("a/plugins.yaml" :> "plugins.yaml") @@ ("b/plugins.yaml" :> "plugins.yaml")
              @@ ("b/other.yaml" :> "other.yaml")

MCMapSpec ==
    {[name |-> "m", key |-> k, namespace |-> n, additional |-> a, clusters |-> c] :
        k \in {"", "other.yaml"}, n \in {"", "x"}, a \in {<<>>, <<"y">>},
        c \in {<<>>, [default |-> <<"x">>], [default |-> <<"x", "y">>, build |-> <<"">>],
               [build |-> <<"x">>]}}

MCSetting ==
    {<<"exclude", TRUE>>, <<"isOpen", TRUE>>, <<"isOpen", FALSE>>,
     <<"validStates", <<>>>>, <<"validStates", <<State("NEW")>>>>,
     <<"validStates", <<State("NEW"), State("NEW")>>>>,
     <<"statuses", <<>>>>, <<"statuses", <<"NEW", "OPEN">>>>,
     <<"releases", <<"v1">>>>, <<"release", "v2">>,
     <<"stateAfter", [status |-> "CLOSED", resolution |-> "FIXED"]>>,
     <<"statusAfter", "CLOSED">>}

MCBug == [status : {"NEW", "CLOSED"}, resolution : {"", "FIXED"}]
=============================================================================
