--------------------------- MODULE MCBotLifecycle ---------------------------
(* An instance of BotLifecycle with a bot that is set up, or one that never *)
(* was (nothing saved counts as enabled) and has the configuration's token. *)
EXTENDS BotLifecycle

MCFirst ==
  {[saved |-> [enabled |-> TRUE, token |-> "t1"], config |-> None],
   [saved |-> [enabled |-> TRUE, token |-> None], config |-> "t2"]}
=============================================================================
