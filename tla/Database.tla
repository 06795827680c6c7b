------------------------------- MODULE Database -------------------------------
(***************************************************************************)
(* The database that an installation runs on, one for as long as it lasts  *)
(* (infrastructure/persistence/database): SQLite takes what it is given,   *)
(* and gives times back without a zone; PostgreSQL keeps to the types of   *)
(* the columns, and gives times back in UTC.                               *)
(***************************************************************************)
VARIABLE database

Databases == {"sqlite", "postgres"}
===============================================================================
