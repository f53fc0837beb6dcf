----------------------------- MODULE PanelToken -----------------------------
(***************************************************************************)
(* The signed tokens the panel gives to browsers (paneljwt.go): a token    *)
(* names the key it was signed with and its claims.  A token of another    *)
(* layout is one whose key is none of the configuration's.                 *)
(***************************************************************************)
EXTENDS Config

CONSTANTS
  PanelTokens,  \* [key, scope, server, permissions, exp, nbf]
  MaxTTL,       \* maxPanelJWTTTL
  Skew          \* how far nbf may lie ahead: 60 s

ASSUME TokensAssumption ==
  /\ MaxTTL \in Nat /\ Skew \in Nat
  /\ \A token \in PanelTokens : token.exp \in Int /\ token.nbf \in Int

\* The keys the signature matches; all are tried, and the last one gives the role.
signers(token) == {i \in DOMAIN conf.keys : conf.keys[i].key = token.key}

signerRole(token) ==
  conf.keys[CHOOSE i \in signers(token) : \A j \in signers(token) : j <= i].role

\* verifyPanelJWT at the time t.
verified(token, t) ==
  /\ signers(token) # {}
  /\ token.exp > 0 /\ t <= token.exp
  /\ token.exp - t <= MaxTTL
  /\ ~(token.nbf > 0 /\ t + Skew < token.nbf)

hasScope(token, want) == want \in token.scope

secondsLeft(token, t) == token.exp - t
=============================================================================
