---------------------------- MODULE MCBotSupervisor ----------------------------
(* One bot, listed or not, the watchdog's thread and one of the control     *)
(* surface, and a foreign guest that may take a freed pid.                  *)
EXTENDS BotSupervisor

CONSTANTS a
ASSUME OneBot == Bots = {a} /\ Staged = Bots
====
