--------------------------- MODULE MCRestoreJournal ---------------------------
(* Small instances of RestoreJournal; the bounds are in the cfg files.     *)
EXTENDS RestoreJournal
=============================================================================
