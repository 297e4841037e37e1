---------------------------- MODULE PromptBudget ----------------------------
(***************************************************************************)
(* Which messages of a conversation are sent upstream within the input      *)
(* budget (prompt_budget.go selectPromptMessages). A unit is named by the   *)
(* index of its first message; tokens are weights.                          *)
(***************************************************************************)
EXTENDS ToolProtocol

CONSTANTS InputBudget,            \* stats.PromptBudget, tools and attachments taken off
          ContinuingHistoryShare, \* configuredContinuingHistoryShare, in tenths
          MaxTaskAnchorUnits,     \* maxTaskAnchorUnits
          MaxTaskAnchorTokens     \* maxTaskAnchorTokens

ASSUME BudgetAssumption ==
    /\ InputBudget \in Nat /\ MaxTaskAnchorUnits \in Nat \ {0} /\ MaxTaskAnchorTokens \in Nat
    /\ ContinuingHistoryShare \in 0..10

\* A text that names a path, a link or a server.
TaskAnchorText == "/srv"

\* Slip: every message is a unit of its own.
SlipPromptUnitsSplit(h) == DOMAIN h

PromptUnits(h) == {i \in DOMAIN h : StartsUnit(h, i)}

UnitEnd(units, h, u) == Min({v \in units : v > u} \cup {Len(h) + 1}) - 1

UnitTokens(units, h, u) == PortableMessagesBytes(SubSeq(h, u, UnitEnd(units, h, u)))

TokensOf(units, h, chosen) ==
    LET sum[k \in 0..Len(h)] ==
            IF k = 0 THEN 0
            ELSE sum[k - 1] + (IF k \in chosen THEN UnitTokens(units, h, k) ELSE 0)
    IN sum[Len(h)]

Instructions(units, h) == {u \in units : h[u].role = "system"}

LastUserUnit(units, h) ==
    Max({u \in units : h[u].role = "user"} \cup {Min(units)})

CurrentTurn(units, h) == {u \in units : u >= LastUserUnit(units, h)}

IsTaskAnchor(units, h, u) ==
    /\ u = UnitEnd(units, h, u)
    /\ h[u].role \in {"user", "assistant"} /\ h[u].calls = <<>>
    /\ h[u].text = TaskAnchorText

\* The earliest anchor and the newest ones, in their order.
TaskAnchors(units, h) ==
    LET found  == {u \in units : u < LastUserUnit(units, h) /\ IsTaskAnchor(units, h, u)}
        newest == {u \in found : Cardinality({v \in found : v > u}) < MaxTaskAnchorUnits - 1}
    IN IF found = {} THEN {} ELSE newest \cup {Min(found)}

\* An anchor that fits is added to what is chosen.
AddTaskAnchor(units, h, acc, u) ==
    LET cost == UnitTokens(units, h, u) IN
    IF \/ acc.spent + cost > MaxTaskAnchorTokens
       \/ TokensOf(units, h, acc.chosen) + cost > InputBudget
    THEN acc
    ELSE [chosen |-> acc.chosen \cup {u}, spent |-> acc.spent + cost]

WithTaskAnchors(units, h, chosen) ==
    LET anchors == TaskAnchors(units, h)
        acc[k \in 0..Len(h)] ==
            IF k = 0 THEN [chosen |-> chosen, spent |-> 0]
            ELSE IF k \in anchors THEN AddTaskAnchor(units, h, acc[k - 1], k) ELSE acc[k - 1]
    IN acc[Len(h)].chosen

HistoryLimit(continuing) ==
    IF continuing THEN (InputBudget * ContinuingHistoryShare) \div 10 ELSE InputBudget

\* The newest units before the current turn, up to the first that does not fit.
RecentTail(units, h, chosen, limit) ==
    LET rest == {u \in units \ chosen : u < LastUserUnit(units, h) /\ h[u].role # "system"} IN
    {u \in rest : \A v \in rest : v >= u =>
        TokensOf(units, h, chosen \cup {w \in rest : w >= v}) <= limit}

Indispensable(units, h) == Instructions(units, h) \cup CurrentTurn(units, h)

PromptExceeded(units, h) == TokensOf(units, h, Indispensable(units, h)) > InputBudget

SelectedUnits(units, h, continuing) ==
    LET anchored == WithTaskAnchors(units, h, Indispensable(units, h))
    IN anchored \cup RecentTail(units, h, anchored, HistoryLimit(continuing))

\* The messages of the selected units, in their order.
MessagesOf(units, h, chosen) ==
    FlattenSeq([u \in DOMAIN h |-> IF u \in chosen THEN SubSeq(h, u, UnitEnd(units, h, u)) ELSE <<>>])

SelectedPrompt(units, h, continuing) == MessagesOf(units, h, SelectedUnits(units, h, continuing))

SelectPromptMessages(h, continuing) == SelectedPrompt(PromptUnits(h), h, continuing)
=============================================================================
