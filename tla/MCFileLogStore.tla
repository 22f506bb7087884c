--------------------------- MODULE MCFileLogStore ---------------------------
(***************************************************************************)
(* Small instance of FileLogStore: two terms and two vote ranks, enough    *)
(* for a log to be truncated and rewritten by a later leader; three        *)
(* indices, enough for a purge inside, at the end of and beyond the log,   *)
(* each with entries appended after it.                                    *)
(***************************************************************************)
EXTENDS FileLogStore
=============================================================================
