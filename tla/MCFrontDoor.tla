---------------------------- MODULE MCFrontDoor -----------------------------
(* Two keys of two roles; two addresses besides loopback and room for one    *)
(* bucket; one console connection; a data directory with two names, whose    *)
(* links may stay, leave, leave to what does not exist yet and lead above it. *)
EXTENDS FrontDoor, TLC

CONSTANTS c1, r1, r2

table(name_, pairs) == [name |-> name_, pairs |-> pairs]
pair_(k, v) == [key |-> k, value |-> v]
keyTable(n, k, r) == table("keys", <<pair_("name", n), pair_("key", k), pair_("role", r)>>)

orders(t) ==
  {[t EXCEPT !.pairs = <<t.pairs[i[1]], t.pairs[i[2]], t.pairs[i[3]]>>] : i \in Permutations(1..3)}

MCConfigFiles == {<<keyTable("main", "main-key-of-panel", "admin"), keyTable("", "view-key-of-panel", "readonly")>>}

servers == {table("server", <<pair_("host", h), pair_("port", p)>>) :
              h \in {"0.0.0.0", "127.0.0.1"}, p \in {"8443", "0", "no port"}}

MCWrittenFiles ==
  {<<s, a, b>> : s \in servers,
                 a \in orders(keyTable("main", "main-key-of-panel", "readonly")),
                 b \in orders(keyTable("other", "view-key-of-panel", "admin"))
                       \cup {keyTable("short", "short", "admin"), keyTable("test", "test", "admin")}}

MCAtoi == ("8443" :> 8443) @@ ("0" :> 0)
MCShortTexts == {"short", "test"}
MCOverrides == {[host |-> h, port |-> 0] : h \in {"", "0.0.0.0"}}

route(p, ref_, a, m) == [path |-> p, ref |-> ref_, action |-> a, method |-> m]
send_(t, v, u, r) == [token |-> t, via |-> v, upgrade |-> u, route |-> r]

MCSends ==
  {send_("main-key-of-panel", "header", FALSE, route("/v1/config", "", "", "POST")),
   send_("view-key-of-panel", "header", FALSE, route("/v1/config", "", "", "POST")),
   send_("view-key-of-panel", "query", TRUE, route("/v1/self", "", "", "GET")),
   send_("main-key-of-panel", "header", FALSE, route("/v1/self", "", "", "GET")),
   send_("no-key", "header", FALSE, route("/v1/self", "", "", "GET"))}

jwt(k, sc, srv, ps, e, n) ==
  [key |-> k, scope |-> {sc}, server |-> srv, permissions |-> ps, exp |-> e, nbf |-> n]

MCPanelTokens ==
  {jwt("main-key-of-panel", "websocket", "srv", {"websocket.connect", "control.console"}, 3, 0),
   jwt("main-key-of-panel", "websocket", "srv", {"admin"}, 1, 0),
   jwt("main-key-of-panel", "websocket", "srv", {"control.stop"}, 2, 1),
   jwt("view-key-of-panel", "websocket", "srv", {"websocket.connect", "control.stop"}, 2, 0),
   jwt("main-key-of-panel", "websocket", "other", {"admin"}, 2, 0),
   jwt("no-key", "websocket", "srv", {"admin"}, 2, 0)}

\* A name is the one of the data directory, so that a link to "/" leads back to it.
MCPaths == {<<>>, <<"r">>, <<"b">>, <<"r", "b">>, <<"b", "r">>, <<"..", "b">>}
MCTargets ==
  {[abs |-> FALSE, to |-> <<"b">>], [abs |-> TRUE, to |-> <<"o">>], [abs |-> TRUE, to |-> <<>>],
   [abs |-> FALSE, to |-> <<"..", "o", "n">>]}
MCOutside == [p \in {<<"o">>, <<"o", "b">>} |-> IF p = <<"o">> THEN Dir ELSE File]
=============================================================================
