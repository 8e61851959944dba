---------------------------- MODULE BudgetManager ----------------------------
(***************************************************************************)
(* Spending budgets (apps/desktop/src/main/chat/budget-manager.ts,         *)
(* shared/budgets.ts): what has been spent against each budget, by period, *)
(* looked at before a provider is called and added to when it reports the  *)
(* cost of an answer.                                                      *)
(*                                                                         *)
(* A budget covers some of the conversations (all of them, one, or those   *)
(* held with one provider) and is counted by conversation or by day; a     *)
(* month is a longer day. The sums of days gone by are never looked at     *)
(* again and not kept here. Budgets are not edited while the turns run;    *)
(* the announcements of a crossed threshold, which only make a toast, are  *)
(* left out. The table neither fails to be read nor to be written.         *)
(***************************************************************************)
EXTENDS Naturals, FiniteSets

CONSTANTS
    Convs,      \* conversations
    Budgets,    \* budgets with a hard stop
    Covers,     \* the conversations each applies to
    Daily,      \* budgets whose period is the day; the others count by conversation
    Amount,     \* amount_usd, in the least unit of cost
    Costs,      \* what one answer of a provider may cost
    MaxCost     \* the most of that

Today == "today"    \* the period key of a daily budget

ASSUME BudgetAssumption ==
    /\ Covers \in [Budgets -> SUBSET Convs]
    /\ Daily \subseteq Budgets
    /\ Amount \in [Budgets -> Nat \ {0}]
    /\ MaxCost \in Nat
    /\ Costs \subseteq 0 .. MaxCost
    /\ Today \notin Convs

VARIABLE spent      \* budget_spend: spent_usd by budget and period key

Keys == Convs \cup {Today}

BudgetTypeOK == spent \in [Budgets -> [Keys -> Nat]]

BudgetInit == spent = [b \in Budgets |-> [k \in Keys |-> 0]]

\* applicableBudgets()
Applicable(c) == {b \in Budgets : c \in Covers[b]}

\* periodKeyForNow()
PeriodKey(b, c) == IF b \in Daily THEN Today ELSE c

\* (mutant) Spending up to the amount is allowed.
OverAmount(c) == \E b \in Applicable(c) : spent[b][PeriodKey(b, c)] > Amount[b]

\* check() throws: a budget that applies is used up.
Exceeded(c) == \E b \in Applicable(c) : spent[b][PeriodKey(b, c)] >= Amount[b]

\* accrue(): under the key of now, not of when the provider was called.
Accrue(c, cost) ==
    spent' = [b \in Budgets |-> [k \in Keys |->
        spent[b][k] + (IF b \in Applicable(c) /\ k = PeriodKey(b, c) THEN cost ELSE 0)]]

\* Another day begins, and the daily budgets at nothing.
Midnight == spent' = [b \in Budgets |-> [spent[b] EXCEPT ![Today] = 0]]
=============================================================================
