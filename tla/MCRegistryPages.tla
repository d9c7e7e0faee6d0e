-------------------------- MODULE MCRegistryPages --------------------------
(***************************************************************************)
(* The pages that keep records (MCP servers, token usage, prices and       *)
(* budgets, API keys), for TLC.  Each is checked on its own: `which` says  *)
(* which one moves, the others stay as they start.                         *)
(***************************************************************************)
EXTENDS McpServers, TokenUsage, TokenCosts, AiKeys

VARIABLE which

-----------------------------------------------------------------------------
(* Prices: a tier with one that includes its name, one in the other currency, *)
(* one that is free of charge.                                                *)
Price(i, o, c, free) == [in |-> i, out |-> o, currency |-> c, free |-> free]
MCIncludes(a, b) == a = b \/ <<a, b>> = <<"gpt-4o-mini", "gpt-4o">>
MCBuiltin == <<[match |-> "gpt-4o", price |-> Price(1, 2, "USD", FALSE)],
               [match |-> "glm", price |-> Price(7, 14, "CNY", FALSE)]>>
MCOffered == {Price(7, 0, "CNY", FALSE), Price(0, 0, "USD", TRUE)}
MCUsage == <<[model |-> "gpt-4o", prompt |-> 1, completion |-> 2],
             [model |-> "glm", prompt |-> 1, completion |-> 1],
             [model |-> "main", prompt |-> 1, completion |-> 1]>>
MCUsed == [s \in {"a", "global"} |-> IF s = "a" THEN 1 ELSE 2]

-----------------------------------------------------------------------------
RecordsInit ==
  /\ which \in {"mcp", "usage", "costs", "keys"}
  /\ McpInit /\ TokenInit /\ CostInit /\ AiInit
  /\ which # "keys" => keys = [p \in Providers |-> "none"]

Only(who) == which = who /\ UNCHANGED which

RecordsNext ==
  \/ Only("mcp") /\ McpNext /\ UNCHANGED <<tokenvars, costvars, aivars>>
  \/ Only("usage") /\ TokenNext /\ UNCHANGED <<mcpvars, costvars, aivars>>
  \/ Only("costs") /\ CostNext /\ UNCHANGED <<mcpvars, tokenvars, aivars>>
  \/ Only("keys") /\ AiNext /\ UNCHANGED <<mcpvars, tokenvars, costvars>>

recordsvars == <<which, mcpvars, tokenvars, costvars, aivars>>

(* The interval of the usage page does nothing while the page is closed.      *)
RecordsSpec == RecordsInit /\ [][RecordsNext]_recordsvars /\ TokenFair

(* A server the user has deleted is not brought back by what was under way,    *)
(* and one that was found dangerous is not left enabled but by the user.       *)
McpIsSafe == DangerIsOff /\ DroppedStaysDropped

(* The summary on show becomes that of what is on show, and the badge of the   *)
(* sidebar is only ever set by a summary of all instances, in whatever order   *)
(* the summaries answer.                                                       *)
UsageConverges == BadgeIsOfAll /\ SummaryConverges

(* The budget that warns is the one that is stored for the scope on show, and  *)
(* the total is the sum of what the rows show, in the currency chosen.         *)
CostsAgree == WarnsAsStored /\ TotalsAgree
=============================================================================
