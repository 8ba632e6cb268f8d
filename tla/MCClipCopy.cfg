SPECIFICATION CopySpec
CONSTANTS
    Budgets <- MCBudgets
    Gaps <- MCGaps
    MaxPush = 4
    Reorder = 1
    AudioLead = 0
    Chunk = 2
INVARIANTS WithinBudgetOrOneGop ServedExactly ClipWholeOrRefused
PROPERTIES FootageSpec
