SPECIFICATION Spec
CONSTANTS
    Bools = {"MODULES", "Q", "B", "D"}
    Tristates = {"A", "C"}
    Name <- MCName
    Sources <- MCSources
INVARIANTS ConditionsKeepTheirMeaning EntriesStayInView
