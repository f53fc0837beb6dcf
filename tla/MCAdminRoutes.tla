--------------------------- MODULE MCAdminRoutes ----------------------------
(* A key of each role, and a route that changes something in three groups.   *)
EXTENDS Access, TLC

pair_(k, v) == [key |-> k, value |-> v]
keyTable(n, k, r) ==
  [name |-> "keys", pairs |-> <<pair_("name", n), pair_("key", k), pair_("role", r)>>]

MCConfigFiles == {<<keyTable("main", "main-key", "admin"), keyTable("view", "view-key", "readonly")>>}
MCAtoi == "8080" :> 8080
MCOverrides == {[host |-> "", port |-> 0]}

routes ==
  {[path |-> "/v1/containers/", ref |-> "web", action |-> "rename", method |-> "POST"],
   [path |-> "/v1/images/", ref |-> "alpine", action |-> "pull", method |-> "POST"],
   [path |-> "/v1/system/prune", ref |-> "", action |-> "", method |-> "POST"]}

MCSends ==
  {[token |-> k, via |-> "header", upgrade |-> FALSE, route |-> r] :
     k \in {"main-key", "view-key"}, r \in routes}
=============================================================================
