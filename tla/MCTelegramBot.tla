---------------------------- MODULE MCTelegramBot ----------------------------
(* TLC instances of TelegramBot: a few updates in batches of two.           *)
EXTENDS TelegramBot
=============================================================================
