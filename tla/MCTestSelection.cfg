SPECIFICATION Spec
CONSTANTS
    Programs <- MCPrograms
    PartOf <- MCPartOf
    Raws <- MCRaws
    Repeats = {0, 1, 2}
INVARIANTS TypeOK ExpandsToProduct FilterDecides ReportComplete
CHECK_DEADLOCK FALSE
