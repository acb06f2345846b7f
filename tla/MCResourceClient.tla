-------------------------- MODULE MCResourceClient --------------------------
(* Model-checking instance of ResourceClient: the bounds are in the .cfg   *)
(* files, the sets of constructors below.                                  *)
EXTENDS ResourceClient

MCAllKinds == AllKinds
\* The constructors that ping the client they created.
MCPingKinds == {"cache", "database"}
\* The constructors whose attempt is a single call.
MCSingleCallKinds == {"legacy_database", "migrator"}
MCDatabaseKinds == {"database"}
MCSentryKinds == {"sentry"}
=============================================================================
