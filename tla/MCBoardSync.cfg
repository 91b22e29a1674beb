SPECIFICATION SyncSpec
CONSTANTS
    Tabs = {1, 2}
    ElementIds = {e1}
    Here = {1}
    Ranks <- MCRanks
    MaxActs = 3
INVARIANT SettledBoardsAgree
PROPERTY ClearedStaysCleared
CHECK_DEADLOCK FALSE
