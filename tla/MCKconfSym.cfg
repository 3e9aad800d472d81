CONSTANTS
    Bools = {"MODULES", "P", "Q", "R", "BC"}
    Tristates = {"A", "B", "T", "TC"}
    Kconfigs <- MCKconfigs
    FileLines <- MCFileLines
    MaxSets = 2
SPECIFICATION Spec
INVARIANTS SavedComesBack OneChosen
PROPERTIES FilesAgree
