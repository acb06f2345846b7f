----------------------------- MODULE MCMigrator -----------------------------
(* Model-checking instance of Migrator: the bounds are given in the .cfg   *)
(* files; the uint modulus only needs to exceed MaxVersion.                *)
EXTENDS Migrator

MCUintModulus == 1024
=============================================================================
