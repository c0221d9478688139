----------------------------- MODULE MCServerInfra -----------------------------
(* Two plugins that share a port, overrides of one of them, a route to an       *)
(* endpoint that is missing, a policy that cannot be built, a route name taken  *)
(* by another owner, routes and a policy that were there before.                *)
EXTENDS ServerInfra

Cfg(p, c, k) == [path |-> p, cm |-> c, keep |-> k]
Over(n, p, c, k) == [plugin |-> n, path |-> p, cm |-> c, keep |-> k]
Ep(n, port, proto) == [name |-> n, port |-> port, proto |-> proto]

Map == [name |-> <<"map">>, dir |-> <<"BlueMap">>,
        configs |-> <<Cfg("core", "cm1", FALSE), Cfg("web", "cm1", TRUE)>>,
        endpoints |-> <<Ep(<<"web">>, 8100, "HTTP"), Ep(<<"api">>, 8100, "TCP")>>]
Voice == [name |-> <<"voice">>, dir |-> None, configs |-> <<>>,
          endpoints |-> <<Ep(<<"talk">>, 24454, "UDP"), Ep(<<"web">>, 8100, "HTTP")>>]

Other == [name |-> <<"other">>, dir |-> None, configs |-> <<>>,
          endpoints |-> <<Ep(<<"web">>, 8200, "HTTP")>>]

NoGateway == [enabled |-> FALSE, tcp |-> FALSE, udp |-> FALSE, http |-> <<>>]
Route(p, e, h) == [plugin |-> p, endpoint |-> e, host |-> h]

Plain == [rcon |-> 0, overrides |-> <<>>, files |-> <<>>, gateway |-> NoGateway,
          policy |-> [enabled |-> TRUE, valid |-> TRUE]]
Full == [rcon |-> 25575,
         overrides |-> <<Over(<<"map">>, "core", "cm1", FALSE),
                         Over(<<"map">>, "core", "cm2", TRUE), Over(<<"map">>, "extra", "cm2", FALSE)>>,
         files |-> <<Cfg("bukkit", "cm1", FALSE)>>,
         gateway |-> [enabled |-> TRUE, tcp |-> TRUE, udp |-> TRUE,
                      http |-> <<Route(<<"map">>, <<"web">>, "a"), Route(<<"voice">>, <<"web">>, "b"),
                                 Route(<<"other">>, <<"web">>, "d")>>],
         policy |-> [enabled |-> FALSE, valid |-> TRUE]]
Rcon == [Plain EXCEPT !.rcon = 25575, !.policy = [enabled |-> TRUE, valid |-> FALSE]]

MCSpecs == {[server |-> Plain, plugins |-> <<Voice>>],
            [server |-> Full, plugins |-> <<Map, Voice>>],
            [server |-> Full, plugins |-> <<Voice, Other>>],
            [server |-> Rcon, plugins |-> <<>>]}
MCForeign == [n \in {<<"other", "web">>} |-> [host |-> "c", own |-> FALSE, port |-> 80]]
MCBefore == {[k \in {"tcp", "udp", "policy"} |-> None],
             [k \in {"tcp", "udp", "policy"} |-> IF k = "tcp" THEN "loose" ELSE "theirs"]}
=============================================================================
