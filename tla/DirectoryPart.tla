--------------------------- MODULE DirectoryPart ---------------------------
\* The directory of a realm under names of its own, for the modules that hold it
\* beside other components.
CONSTANTS
    Clerk,      \* requests of administrators in flight
    RowId, RowName, NoRow,
    Subject, MaxDepth, MaxLinks, MaxRows

VARIABLES backend, rows, index, links, d_req, d_used, revoked, renamed

directory_vars == <<backend, rows, index, links, d_req, d_used, revoked, renamed>>

directory == INSTANCE Directory
    WITH Task <- Clerk, Id <- RowId, Name <- RowName, None <- NoRow, MaxLoad <- MaxRows,
         req <- d_req, used <- d_used

ASSUME DirectoryAssumption == NoRow \notin RowId \cup directory!Table

\* See Directory: a name leads to its row, and nothing refers to a row that is gone.
DirectorySound == directory!DirectorySound
=============================================================================
