SPECIFICATION Spec
CONSTANTS
    Messages = {m1, m2, m3}
    Texts = {t1, t2}
    Dates = {d1, d2}
    None = None
    MaxEvents = 3
    MaxDecisions = 1
    MaxPauses = 1
    MaxStale = 1
SYMMETRY Symmetry
INVARIANTS OneShown NewestShown ToldAsIs
PROPERTIES SuppressionLifted
CHECK_DEADLOCK FALSE
