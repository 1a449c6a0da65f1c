------------------------------- MODULE MCBoot -------------------------------
(* The instance of Boot that TLC checks: a pod with and without the sidecar, *)
(* the sync-db command, and environments that Parse refuses.                 *)
EXTENDS Boot

Serve == [command |-> "serve", database |-> TRUE, log |-> TRUE, set |-> AuthVars,
          key |-> TRUE, mermaid |-> TRUE]

MCEnvironments ==
    { Serve, [Serve EXCEPT !.set = {}, !.key = FALSE, !.mermaid = FALSE],
      [Serve EXCEPT !.command = "sync-db"],
      [Serve EXCEPT !.database = FALSE], [Serve EXCEPT !.log = FALSE],
      [Serve EXCEPT !.set = {"SESSION_KEY", "OIDC_ISSUER"}],
      [Serve EXCEPT !.set = AuthVars \ {"SESSION_KEY"}, !.key = FALSE],
      [Serve EXCEPT !.key = FALSE] }
=============================================================================
