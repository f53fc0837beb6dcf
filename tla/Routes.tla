------------------------------- MODULE Routes -------------------------------
(***************************************************************************)
(* The authenticated routes of wings (internal/server), with the handlers  *)
(* they have and the ones they wrap in AdminOnly.  A request names a route *)
(* by its path, the ref and the action that follow it, "" where there are  *)
(* none, and its method.                                                   *)
(***************************************************************************)
EXTENDS Integers

fmActions == {"fm/list", "fm/read", "fm/download", "fm/download-zip", "fm/upload-zip",
              "fm/write", "fm/upload", "fm/mkdir", "fm/rm", "fm/move", "fm/chmod"}

containerHandlers ==
  ({"", "stats", "logs", "terminal/stream", "terminal/ws", "fs/", "top", "changes", "export",
    "backup", "pull", "sftp", "ports"} \X {"GET"}) \cup
  ({"backup", "reinstall", "pull", "transfer", "limits", "update", "exec", "exec/stream",
    "terminal", "terminal/input", "terminal/resize", "cp", "start", "stop", "restart", "kill",
    "rename", "wait", "commit", "ports/add", "ports/remove"} \X {"POST"}) \cup
  ({"", "backup", "sftp"} \X {"DELETE"}) \cup {<<"sftp", "PUT">>} \cup
  (fmActions \X {"GET", "POST", "PUT", "DELETE"})

isMutating(action, method) ==
  \/ action \in {"start", "stop", "restart", "kill", "remove", "exec", "exec/stream", "terminal",
       "terminal/input", "terminal/resize", "terminal/ws", "cp", "limits", "update", "rename",
       "commit", "ports/add", "ports/remove", "wait", "reinstall", "pull", "transfer", "export"}
  \/ action \in {"sftp", "ports"} /\ method # "GET"
  \/ action = "backup" \/ action \in fmActions
  \/ action = "" /\ method = "DELETE"

isImageMutating(action, method) ==
  action \in {"pull", "tag", "push", "verify"} \/ (action = "" /\ method = "DELETE")

\* The other groups, one to a file: what any key may ask for, and what is wrapped
\* in AdminOnly.
rows(paths, actions, methods) == paths \X actions \X methods

\* server.go itself; handleSftpInfo does not look at the method.
serverRoutes ==
  [any |-> rows({"/v1/version", "/v1/system/info", "/v1/self", "/v1/events", "/v1/sftp/info"},
                  {""}, {"GET"}) \cup
           rows({"/v1/sftp/info"}, {""}, {"POST", "PUT", "DELETE"}),
   admin |-> {}]

containers ==
  [any |-> {<<"/v1/containers", "", "GET">>}, admin |-> {<<"/v1/containers", "", "POST">>}]

images ==
  [any |-> rows({"/v1/images", "/v1/images/search"}, {""}, {"GET"}) \cup
           rows({"/v1/images/"}, {"", "history", "get"}, {"GET"}),
   admin |-> rows({"/v1/images/"}, {"pull", "tag", "push", "verify"}, {"POST"}) \cup
             {<<"/v1/images/", "", "DELETE">>}]

networks ==
  [any |-> rows({"/v1/networks", "/v1/networks/"}, {""}, {"GET"}),
   admin |-> {<<"/v1/networks", "", "POST">>, <<"/v1/networks/", "", "DELETE">>}]

volumes ==
  [any |-> rows({"/v1/volumes", "/v1/volumes/"}, {""}, {"GET"}),
   admin |-> rows({"/v1/volumes", "/v1/volumes/prune"}, {""}, {"POST"}) \cup
             {<<"/v1/volumes/", "", "DELETE">>}]

services ==
  [any |-> rows({"/v1/services", "/v1/services/", "/v1/functions"}, {""}, {"GET"}),
   admin |-> rows({"/v1/services", "/v1/functions"}, {""}, {"POST"}) \cup
             rows({"/v1/services/"}, {"scale", "update"}, {"POST"}) \cup
             rows({"/v1/functions/"}, {"", "invoke"}, {"POST"}) \cup
             rows({"/v1/services/", "/v1/functions/"}, {"", "remove"}, {"DELETE"})]

\* Below a blueprint any action but the two is passed over.
blueprints ==
  [any |-> rows({"/v1/blueprints", "/v1/blueprints/"}, {""}, {"GET"}),
   admin |-> rows({"/v1/blueprints/"}, {"install", "uninstall"}, {"POST"})]

tasks ==
  [any |-> rows({"/v1/tasks", "/v1/tasks/"}, {""}, {"GET"}),
   admin |-> rows({"/v1/tasks/"}, {"cancel", "retry"}, {"POST"})]

cluster ==
  [any |-> rows({"/v1/nodes", "/v1/cluster/health", "/v1/cluster/replicas", "/v1/cluster/info",
                   "/v1/cluster/containers"}, {""}, {"GET"}),
   admin |-> {<<"/v1/cluster/replicas", "", "POST">>, <<"/v1/cluster/replicas/", "", "DELETE">>}]

system ==
  [any |-> rows({"/v1/system/df", "/v1/info"}, {""}, {"GET"}),
   admin |-> {<<"/v1/system/prune", "", "POST">>}]

bootstrap == [any |-> {}, admin |-> {<<"/v1/bootstrap/ensure", "", "POST">>}]

panel ==
  [any |-> {}, admin |-> rows({"/v1/transfers", "/v1/config", "/v1/deauthorize"}, {""}, {"POST"})]

groups == {serverRoutes, containers, images, networks, volumes, services, blueprints, tasks,
           cluster, system, bootstrap, panel}

anyKey == UNION {g.any : g \in groups}
adminOnly == UNION {g.admin : g \in groups}

triple(route) == <<route.path, route.action, route.method>>

\* A route without a handler is answered with 404 or 405.
hasHandler(route) ==
  IF route.path = "/v1/containers/"
  THEN route.ref # "" /\ <<route.action, route.method>> \in containerHandlers
  ELSE \/ triple(route) \in anyKey \cup adminOnly
       \/ route.path = "/v1/metrics" /\ route.method = "GET"

\* splitRef returns the ref, then the action, and the containers' route takes
\* the first for the action.  requires is Remote.MetricsRequiresAuth.
needsAdmin(route, requires) ==
  CASE route.path = "/v1/containers/" -> isMutating(route.ref, route.method)
    [] route.path = "/v1/images/"     -> isImageMutating(route.action, route.method)
    [] route.path = "/v1/metrics"     -> requires
    [] OTHER -> triple(route) \in adminOnly

\* What the audit log is for.
isMutation(method) == method \in {"POST", "DELETE", "PUT", "PATCH"}
=============================================================================
