-------------------------- MODULE MCCommandRegistry --------------------------
(* CommandRegistry with two commands an earlier version left, one of them   *)
(* under a name this version uses, and two names that are new.              *)
EXTENDS CommandRegistry

MCSlashNames == {"home", "status", "players"}
MCOldNames == {"home", "ping"}

=============================================================================
