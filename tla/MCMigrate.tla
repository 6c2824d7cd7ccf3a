---------------------------- MODULE MCMigrate ----------------------------
(* The numbers of the instance are in the .cfg file. *)
EXTENDS Migrate
=============================================================================
