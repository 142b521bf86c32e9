------------------------------- MODULE MCImport -------------------------------
(* Three rows that may share a key, one database failure, every setting.   *)
EXTENDS ImportEngine
=============================================================================
