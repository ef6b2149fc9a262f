--------------------------- MODULE MCSchemaMigrations ---------------------------
(* Instance of SchemaMigrations for TLC: constants in the configuration.   *)
EXTENDS SchemaMigrations
===============================================================================
