----------------------------- MODULE MCCommandBot -----------------------------
(* Two accounts, the trader and a stranger, and updates of every kind.        *)
EXTENDS CommandBot

TwoAccounts == <<"a1", "a2">>

FewUpdates ==
  {[from |-> "trader", command |-> "pause", token |-> "all"],
   [from |-> "trader", command |-> "resume", token |-> "a1"],
   [from |-> "trader", command |-> "pause", token |-> "a3"],
   [from |-> "stranger", command |-> "pause", token |-> "a2"],
   [from |-> "stranger", command |-> "chatter", token |-> ""]}

Whitelist == {"trader"}

===============================================================================
