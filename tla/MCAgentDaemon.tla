---------------------------- MODULE MCAgentDaemon ----------------------------
(* Two threads, of the service, the control surface or a terminal, an       *)
(* update of the app, and room for two daemons.                             *)
EXTENDS AgentDaemon
====
