-------------------------- MODULE MCTelegramClients --------------------------
(* One Telegram client for TLC: connections and listeners are taken from    *)
(* pools, so no symmetry is declared and liveness is checked in the same run. *)
EXTENDS TelegramClients

=============================================================================
