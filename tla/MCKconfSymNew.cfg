CONSTANTS
    Bools = {"MODULES", "P", "Q", "R", "BC"}
    Tristates = {"A", "B", "T", "TC"}
    Kconfigs <- OptionalChoices
    FileLines <- MCFileLines
    MaxSets = 2
SPECIFICATION Spec
PROPERTIES DefconfigSkipsRedundant
