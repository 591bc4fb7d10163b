----------------------------- MODULE MCSupervisor -----------------------------
(* Two accounts, one of them well or badly configured in each of the ways     *)
(* that matter, under each of the three programs.                             *)
EXTENDS Supervisor

TwoAccounts == <<"a1", "a2">>

Good == [enabled |-> TRUE, mode |-> "passive", allow_live_execution |-> FALSE, rules |-> "valid",
         credentials |-> TRUE, reachable |-> TRUE]

SomeSettings ==
  {Good,
   [Good EXCEPT !.mode = "hybrid", !.allow_live_execution = TRUE],
   [Good EXCEPT !.mode = "active"],
   [Good EXCEPT !.allow_live_execution = TRUE],
   [Good EXCEPT !.rules = "invalid"],
   [Good EXCEPT !.credentials = FALSE],
   [Good EXCEPT !.reachable = FALSE],
   [Good EXCEPT !.enabled = FALSE]}

SomeConfigs ==
  [program : {"run_monitor", "run_bot", "a1", "a2"}, mock : BOOLEAN, env_confirmed : BOOLEAN,
   commands : BOOLEAN, account : [{"a1", "a2"} -> SomeSettings]]

BotAndFirst == {"bot", "a1"}

===============================================================================
