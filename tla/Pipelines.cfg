\* One ticket's drafts, or the indexes, or the report of one week.  A ticket
\* that is arbitrated or discarded is done, and nobody need index, ask or
\* order anything: the system may stop.
SPECIFICATION PipelinesSpec
CONSTANTS
    Topics = {"rfp", "knowledge", "kpis"}
    Documents <- MCDocuments
    SlotSettings <- MCSlotSettings
    Extracted <- MCExtracted
    Budgets <- MCBudgets
    Aspects = {}
    Drafts <- MCDrafts
    Figures <- MCFigures
    Indexers = {i1, i2}
    Askers = {q1}
    Sources <- MCSources
    TierSettings <- MCTierSettings
    TOP_K = 1
    MaxEdits = 1
    MaxBuilds = 3
    Records <- MCRecords
    MaxRecords = 3
    MaxFlows = 2
SYMMETRY MCSymmetry
CHECK_DEADLOCK FALSE
INVARIANTS
    
    IndexHoldsCorpus
    
    KpisAsDefined
