CONSTANTS
    Bools = {"MODULES", "P", "Q", "R", "BC"}
    Tristates = {"A", "B", "T", "TC"}
    Kconfigs <- MCKconfigs
    FileLines <- MCFileLines
    MaxSets = 2
    MaxOpen = 3
    MaxLines = 1
    Hotkeys <- MCHotkeys
    MenuHeights = {0, 1, 2, 3, 5}
    ListHeight = 3
    Texts <- MCTexts
    BoxHeights = {1, 2, 3}
    Border = 2
    MaxHscroll = 1
    Jumps = {0, 2, 4, 6}
    JUMP_NB = 2
    BoxWidth = 3
    MAX_LEN = 5
    MaxOverrun = 2
    Chars = {"o", "h", "x"}
SPECIFICATION ProgramsSpec
INVARIANTS NothingNewIsLeft MenusLeadEverywhere NothingLostSilently ScreenTellsTheChoice WindowsShowTheText
CHECK_DEADLOCK FALSE
