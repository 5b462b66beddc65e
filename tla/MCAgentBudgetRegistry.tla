------------------------ MODULE MCAgentBudgetRegistry -------------------------
(* Two budgets of two owners and three paycards that both compete for.     *)
EXTENDS AgentBudgetRegistry, TLC

CONSTANTS ann, bot, b1, b2, p1, p2, p3

MCOwnerOf == b1 :> ann @@ b2 :> bot
MCAgentOf == b1 :> bot @@ b2 :> bot
===============================================================================
