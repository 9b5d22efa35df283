---------------------------- MODULE MCRoleStore ----------------------------
(* Instances of RoleStore for TLC. *)
EXTENDS RoleStore

\* No file, every file, or a text for the metadata.
MCInitial == {{}, Files, {Metadata}}
=============================================================================
