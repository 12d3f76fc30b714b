\* The combinational logic, for every byte at every place of a column.
CONSTANT Fills = {0, 87}
SPECIFICATION Spec
INVARIANTS
    SboxesAreTheirFormula
    ColumnsAreProducts
    ShiftsUndone
    KeyWordsChain
    TableOfTheCore
