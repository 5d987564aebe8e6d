SPECIFICATION Spec
CONSTANTS
    Handles = {h1, h2}
    Results = {r1, r2}
    Threads = {t1, t2}
    QueryStmts = {"select", "update"}
    MaxQueries = 3
    NRows = 1
    NoHandle = NoHandle
    NoThread = NoThread
INVARIANTS
    ResultsKeepApart
    ConnectionUsable
CHECK_DEADLOCK FALSE
