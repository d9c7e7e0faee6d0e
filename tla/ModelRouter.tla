---------------------------- MODULE ModelRouter ----------------------------
(***************************************************************************)
(* The routing rules (packages/shared/src/modelRouter.ts) and the page     *)
(* that edits them (components/router/RouterPageContent.tsx).  The rules   *)
(* are kept in localStorage; a save that the storage refuses is logged and *)
(* forgotten.  The order of the array matters between equal priorities     *)
(* only: MatchRule leaves that choice open.                                *)
(***************************************************************************)
EXTENDS Integers, FiniteSets

CONSTANTS Ids,        \* ids of rules
          Inputs,     \* texts of the user; a rule has the ones its keywords hit
          Targets,    \* instances
          MaxPriority \* bound
ASSUME RouterAssumption == MaxPriority \in Nat

VARIABLES
  rules,     \* STORAGE_KEY of localStorage: the rules, by id
  drafts,    \* the cards under edit: their keywords and target, by id
  halfMoved  \* a move of which only one half was stored

routervars == <<rules, drafts, halfMoved>>

Drafts == [keywords : SUBSET Inputs \ {{}}, target : Targets]
Rules  == [keywords : SUBSET Inputs \ {{}}, target : Targets, priority : Nat, enabled : BOOLEAN]

RouterTypeOK ==
  /\ DOMAIN rules \subseteq Ids /\ rules \in [DOMAIN rules -> Rules]
  /\ DOMAIN drafts \subseteq Ids /\ drafts \in [DOMAIN drafts -> Drafts]
  /\ halfMoved \in BOOLEAN

RouterInit == rules = [i \in {} |-> {}] /\ drafts = [i \in {} |-> {}] /\ halfMoved = FALSE

-----------------------------------------------------------------------------
Hits(i, input) == rules[i].enabled /\ input \in rules[i].keywords

(* The rule that routes an input: the first enabled one that hits. *)
MatchRule(i, input) ==
  /\ i \in DOMAIN rules /\ Hits(i, input)
  /\ \A j \in DOMAIN rules : Hits(j, input) => rules[i].priority <= rules[j].priority

SaveRules(to) == rules' = to \/ rules' = rules

Patched(r, i, patch) == [r EXCEPT ![i] = patch]

NextPriorityLast(p) ==   \* mutant: the number of rules counts, as if none were ever deleted
  p = 10 * (Cardinality(DOMAIN rules) + 1)
NextPriority(p) ==
  IF DOMAIN rules = {} THEN p = 10
  ELSE \E j \in DOMAIN rules : /\ p = rules[j].priority + 10
                               /\ \A k \in DOMAIN rules : rules[k].priority <= rules[j].priority

(* The form, with a template's keywords or the user's.  It closes whether the *)
(* rule was stored or not.                                                    *)
HandleAdd(i, d) ==
  /\ i \in Ids \ DOMAIN rules
  /\ \E p \in 0..MaxPriority :
       /\ NextPriority(p)
       /\ SaveRules([j \in DOMAIN rules \cup {i} |->
            IF j = i THEN [keywords |-> d.keywords, target |-> d.target, priority |-> p, enabled |-> TRUE]
                     ELSE rules[j]])
  /\ UNCHANGED <<drafts, halfMoved>>

EditCard(i, d) ==
  /\ i \in DOMAIN rules
  /\ drafts' = [j \in DOMAIN drafts \cup {i} |-> IF j = i THEN d ELSE drafts[j]]
  /\ UNCHANGED <<rules, halfMoved>>

CloseCard(i) == drafts' = [j \in DOMAIN drafts \ {i} |-> drafts[j]]

CancelCard(i) == i \in DOMAIN drafts /\ CloseCard(i) /\ UNCHANGED <<rules, halfMoved>>

(* A card patches what it edits, not the priority it was opened with.         *)
SaveCard(i) ==
  /\ i \in DOMAIN drafts \cap DOMAIN rules
  /\ SaveRules(Patched(rules, i, [rules[i] EXCEPT !.keywords = drafts[i].keywords, !.target = drafts[i].target]))
  /\ CloseCard(i) /\ UNCHANGED halfMoved

(* The buttons of a card that is not under edit. *)
HandleToggle(i) ==
  /\ i \in DOMAIN rules \ DOMAIN drafts
  /\ SaveRules(Patched(rules, i, [rules[i] EXCEPT !.enabled = ~@]))
  /\ UNCHANGED <<drafts, halfMoved>>

DeleteRule(i) ==
  /\ i \in DOMAIN rules \ DOMAIN drafts
  /\ SaveRules([j \in DOMAIN rules \ {i} |-> rules[j]])
  /\ UNCHANGED <<drafts, halfMoved>>

(* Neighbours in the order of the priorities. *)
NextTo(i, j) ==
  /\ i # j
  /\ \A k \in DOMAIN rules \ {i, j} :
       \/ rules[k].priority <= rules[i].priority /\ rules[k].priority <= rules[j].priority
       \/ rules[k].priority >= rules[i].priority /\ rules[k].priority >= rules[j].priority

(* A rule moved up or down takes the priority of its neighbour, the neighbour *)
(* the rule's: two saves, of which either may be refused.                     *)
HandleMove(i, j) ==
  /\ i \in DOMAIN rules /\ j \in DOMAIN rules /\ NextTo(i, j)
  /\ LET Given(k, p) == [rules[k] EXCEPT !.priority = p]
         first  == Patched(rules, i, Given(i, rules[j].priority))
         second == Patched(rules, j, Given(j, rules[i].priority))
         both   == Patched(first, j, Given(j, rules[i].priority))
     IN  \/ rules' = both /\ UNCHANGED halfMoved
         \/ rules' \in {first, second} /\ halfMoved' = TRUE
         \/ UNCHANGED <<rules, halfMoved>>
  /\ UNCHANGED drafts

RouterNext ==
  \/ \E i \in Ids, d \in Drafts : HandleAdd(i, d) \/ EditCard(i, d)
  \/ \E i \in Ids : CancelCard(i) \/ SaveCard(i) \/ HandleToggle(i) \/ DeleteRule(i)
  \/ \E i, j \in Ids : HandleMove(i, j)

RouterSpec == RouterInit /\ [][RouterNext]_routervars

-----------------------------------------------------------------------------
(* The rules are totally ordered: no two have one priority, so the rule that   *)
(* routes an input is the one the page shows first, and a move up or down does *)
(* move.  Only a move of which one half was refused may break it.              *)
OrderIsTotal ==
  ~halfMoved => \A i, j \in DOMAIN rules : rules[i].priority = rules[j].priority => i = j

(* Every rule an edit does not touch keeps its place: two rules change their   *)
(* order only when they were neighbours.                                       *)
EditsKeepOrder ==
  [][\A i, j \in DOMAIN rules \cap DOMAIN rules' :
       rules[i].priority < rules[j].priority /\ rules'[j].priority < rules'[i].priority => NextTo(i, j)]_routervars
=============================================================================
