----------------------------- MODULE TokenCosts -----------------------------
(***************************************************************************)
(* Budgets and prices: what is kept in localStorage                        *)
(* (stores/tokenLogStore.ts, stores/tokenPricingStore.ts), the forms that  *)
(* edit it (BudgetEditor, the storage tab of the desktop's SettingsPage)   *)
(* and the sections of the token page that judge a summary by it.  Model   *)
(* names are members of a set with the relation "contains".                *)
(***************************************************************************)
EXTENDS Integers, FiniteSets, SequencesExt

CONSTANTS Budgeted,      \* instances with a budget of their own
          Names,         \* model names
          Generic,       \* those that name no model: "", main, default, unknown
          Includes(_, _), \* Includes(a, b): name a contains name b
          Builtin,       \* SORTED_RULES: <<[match, price]>>, longest name first
          Offered,       \* prices the user may type
          Usage,         \* modelBreakdown: <<[model, prompt, completion]>>
          Rate,          \* CNY per USD
          Limits, Used,  \* daily limits the user may type, and use of today by scope
          MaxEdits       \* bound: edits made

Global == "global"
Scopes == Budgeted \cup {Global}
DefaultBudget == [enabled |-> FALSE, daily |-> 0]
ASSUME CostAssumption == Global \notin Budgeted /\ Rate \in Nat \ {0} /\ 0 \in Limits

VARIABLES
  saved,      \* budgets in localStorage: of the scopes that have one
  overrides,  \* price overrides, in the order they were added
  currency,   \* display currency
  view,       \* "settings", "tokens" or "away"
  draft,      \* the forms of the settings: budget shown by scope
  shown,      \* the token page: sel, global and own budget read
  edits

costvars == <<saved, overrides, currency, view, draft, shown, edits>>

GetBudget(scope) == IF scope \in DOMAIN saved THEN saved[scope] ELSE DefaultBudget
Put(scope, budget) == [s \in DOMAIN saved \cup {scope} |-> IF s = scope THEN budget ELSE saved[s]]
NoOwn == [enabled |-> FALSE, daily |-> -1]
OwnBudget(scope) ==
  IF scope = Global THEN NoOwn
  ELSE IF GetBudget(scope).enabled THEN GetBudget(scope) ELSE NoOwn
Unseen == [sel |-> Global, global |-> DefaultBudget, own |-> NoOwn]

CostInit ==
  /\ saved = [s \in {} |-> DefaultBudget] /\ overrides = << >> /\ currency = "ORIGINAL"
  /\ view = "away" /\ draft = [s \in Scopes |-> DefaultBudget] /\ shown = Unseen /\ edits = 0

-----------------------------------------------------------------------------
(* tokenPricingStore *)

NoPrice == [in |-> 0, out |-> 0, currency |-> "none", free |-> FALSE]
First(s, Test(_)) == IF \E i \in DOMAIN s : Test(s[i]) THEN SelectSeq(s, Test)[1].price ELSE NoPrice

(* A user's price of the very name, else the first that contains it or is     *)
(* contained in it, else the longest built-in name it contains.               *)
FindModelPrice(model) ==
  LET exact   == First(overrides, LAMBDA o : o.match = model)
      partial == First(overrides, LAMBDA o : Includes(model, o.match) \/ Includes(o.match, model))
      builtin == First(Builtin, LAMBDA r : Includes(model, r.match))
  IN  IF model \in Generic THEN NoPrice
      ELSE IF exact # NoPrice THEN exact ELSE IF partial # NoPrice THEN partial ELSE builtin

CalculateCost(m) ==
  LET price == FindModelPrice(m.model)
  IN  IF price.free THEN 0 ELSE m.prompt * price.in + m.completion * price.out

ConvertWrong(cost, from, to) ==   \* mutant: the rate is applied the other way
  IF from = to THEN cost ELSE IF from = "CNY" THEN cost * Rate ELSE cost \div Rate
ConvertCost(cost, from, to) ==
  IF from = to THEN cost ELSE IF from = "USD" THEN cost * Rate ELSE cost \div Rate

Sum(s) == SumFunction(s)
Priced == SelectSeq(Usage, LAMBDA m : FindModelPrice(m.model) # NoPrice)
AggregateCosts ==
  LET target == IF currency = "ORIGINAL" THEN "CNY" ELSE currency
  IN  Sum([i \in DOMAIN Priced |->
             ConvertCost(CalculateCost(Priced[i]), FindModelPrice(Priced[i].model).currency, target)])

(* CostSection of the token page: the same sum, written again.                *)
ToDisplay(cost, from) ==
  IF currency \in {"ORIGINAL", from} THEN cost
  ELSE IF from = "USD" THEN cost * Rate ELSE cost \div Rate
CostSection ==
  [total   |-> Sum([i \in DOMAIN Priced |->
                      ToDisplay(CalculateCost(Priced[i]), FindModelPrice(Priced[i].model).currency)]),
   unknown |-> {m.model : m \in {n \in ToSet(Usage) : FindModelPrice(n.model) = NoPrice}}]

-----------------------------------------------------------------------------
(* Budgets as the token page judges them. *)

BudgetLevel(used, limit) ==
  IF limit <= 0 \/ 2 * used < limit THEN "none"
  ELSE IF used >= limit THEN "over" ELSE IF 10 * used >= 8 * limit THEN "critical" ELSE "warn"

EffectiveBudget == IF shown.own # NoOwn THEN shown.own ELSE shown.global
BudgetProgress ==
  IF EffectiveBudget.enabled /\ EffectiveBudget.daily > 0
  THEN BudgetLevel(Used[shown.sel], EffectiveBudget.daily) ELSE "hidden"

(* InstanceBreakdownSection: each instance by its own budget only.            *)
InstanceLevel(inst) ==
  IF GetBudget(inst).enabled /\ GetBudget(inst).daily > 0
  THEN BudgetLevel(Used[inst], GetBudget(inst).daily) ELSE "none"

OpenTokenPage ==
  /\ view' = "tokens" /\ shown' = [Unseen EXCEPT !.global = GetBudget(Global)]
  /\ UNCHANGED <<saved, overrides, currency, draft, edits>>


SelectScope(scope) ==
  /\ view = "tokens" /\ shown' = [shown EXCEPT !.sel = scope, !.own = OwnBudget(scope)]
  /\ UNCHANGED <<saved, overrides, currency, view, draft, edits>>

-----------------------------------------------------------------------------
(* The settings. *)

Edits == view = "settings" /\ edits < MaxEdits /\ edits' = edits + 1

OpenSettings ==
  /\ view' = "settings" /\ draft' = [s \in Scopes |-> GetBudget(s)]
  /\ UNCHANGED <<saved, overrides, currency, shown, edits>>

LeavesPage == view' = "away" /\ UNCHANGED <<saved, overrides, currency, draft, shown, edits>>

(* The limits are offered only while the budget is on. *)
BudgetLimitInputs(scope, daily) ==
  /\ Edits /\ draft[scope].enabled /\ draft' = [draft EXCEPT ![scope].daily = daily]
  /\ UNCHANGED <<saved, overrides, currency, view, shown>>

(* handleToggle saves the limits typed so far as well. *)
ToggleBudget(scope) ==
  /\ Edits /\ draft' = [draft EXCEPT ![scope].enabled = ~@] /\ saved' = Put(scope, draft'[scope])
  /\ UNCHANGED <<overrides, currency, view, shown>>

SaveBudget(scope) ==
  /\ view = "settings" /\ draft[scope].enabled /\ saved' = Put(scope, draft[scope])
  /\ UNCHANGED <<overrides, currency, view, draft, shown, edits>>

ClearInstanceBudget(inst) ==
  /\ view = "settings" /\ draft[inst].enabled
  /\ saved' = [s \in DOMAIN saved \ {inst} |-> saved[s]]
  /\ draft' = [draft EXCEPT ![inst] = DefaultBudget]
  /\ UNCHANGED <<overrides, currency, view, shown, edits>>

Without(name) == SelectSeq(overrides, LAMBDA o : o.match # name)
Replace(name, price) ==
  [i \in DOMAIN overrides |-> IF overrides[i].match = name THEN [match |-> name, price |-> price]
                                                           ELSE overrides[i]]
SetUserPriceOverride(name, price) ==
  /\ Edits
  /\ overrides' = IF Without(name) = overrides THEN Append(overrides, [match |-> name, price |-> price])
                                               ELSE Replace(name, price)
  /\ UNCHANGED <<saved, currency, view, draft, shown>>

RemoveUserPriceOverride(name) ==
  /\ view = "settings" /\ overrides' = Without(name) /\ overrides' # overrides
  /\ UNCHANGED <<saved, currency, view, draft, shown, edits>>

(* The choice is offered on both pages. *)
SetDisplayCurrency(c) ==
  /\ view # "away" /\ currency' = c
  /\ UNCHANGED <<saved, overrides, view, draft, shown, edits>>

CostNext ==
  \/ OpenTokenPage \/ OpenSettings \/ LeavesPage
  \/ \E scope \in Scopes : \/ SelectScope(scope) \/ ToggleBudget(scope) \/ SaveBudget(scope)
                           \/ \E daily \in Limits : BudgetLimitInputs(scope, daily)
  \/ \E inst \in Budgeted : ClearInstanceBudget(inst)
  \/ \E name \in Names : \/ RemoveUserPriceOverride(name)
                         \/ \E price \in Offered : SetUserPriceOverride(name, price)
  \/ \E c \in {"ORIGINAL", "USD", "CNY"} : SetDisplayCurrency(c)

CostSpec == CostInit /\ [][CostNext]_costvars

-----------------------------------------------------------------------------
(* The page warns of the chosen instance by the budget that is stored for it: *)
(* its own when that is on, the global one otherwise; and the row of an       *)
(* instance whose own budget is on shows the level the page shows for it.     *)
WarnsAsStored ==
  view = "tokens" =>
    /\ EffectiveBudget = IF OwnBudget(shown.sel) # NoOwn THEN GetBudget(shown.sel) ELSE GetBudget(Global)
    /\ shown.own # NoOwn /\ shown.own.daily > 0 => BudgetProgress = InstanceLevel(shown.sel)

(* In one currency, the total of the page is the one the store aggregates,    *)
(* whatever the user's prices.                                                *)
TotalsAgree == currency # "ORIGINAL" => CostSection.total = AggregateCosts
=============================================================================
