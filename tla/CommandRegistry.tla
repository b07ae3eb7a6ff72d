--------------------------- MODULE CommandRegistry ---------------------------
(***************************************************************************)
(* The global slash commands: initbot() asks for the list of them and      *)
(* deletes each one it finds, on_ready creates the commands of the bot     *)
(* once.  Every request is carried out by Discord when it comes to it, in  *)
(* any order, or refused; a creation under a name that is in use replaces  *)
(* the command and keeps its id, which is what the deletion goes by.       *)
(***************************************************************************)
EXTENDS Integers, FiniteSets

CONSTANTS
  SlashNames,   \* the names on_ready creates
  OldNames      \* the names in use before the process starts

ASSUME RegistryAssumption == IsFiniteSet(SlashNames) /\ IsFiniteSet(OldNames)

VARIABLES
  running,      \* no exception has ended the process
  table,        \* Discord's commands: name -> "old" or "new"
  list,         \* of global_commands_get: "unasked", "asked", "answered" or
                \* "refused", and after the callback "used" or "thrown"
  listed,       \* the names in its answer
  deletes, creates,     \* names in requests not yet carried out
  once,         \* run_once<register_bot_commands>
  early,        \* history: names created before their deletion, if there was to be one
  kept, uncreated       \* history: names whose deletion, or creation, was refused

vars == <<running, table, list, listed, deletes, creates, once, early, kept, uncreated>>

Init ==
  /\ running = TRUE
  /\ table = [n \in OldNames |-> "old"]
  /\ list = "unasked" /\ listed = {}
  /\ deletes = {} /\ creates = {}
  /\ once = FALSE
  /\ early = {} /\ kept = {} /\ uncreated = {}

Without(f, n) == [m \in DOMAIN f \ {n} |-> f[m]]

\* global_commands_get, in main().
AskForCommands ==
  /\ list = "unasked"
  /\ list' = "asked"
  /\ UNCHANGED <<running, table, listed, deletes, creates, once, early, kept, uncreated>>

\* Discord answers it, with the list or with an error.
ListCommands ==
  /\ list = "asked"
  /\ list' = "answered" /\ listed' = DOMAIN table
  /\ UNCHANGED <<running, table, deletes, creates, once, early, kept, uncreated>>

ListRefused ==
  /\ list = "asked"
  /\ list' = "refused"
  /\ UNCHANGED <<running, table, listed, deletes, creates, once, early, kept, uncreated>>

\* Mutant: whatever is in the table by now is deleted.
DeletePresent ==
  /\ list = "answered"
  /\ list' = "used" /\ deletes' = DOMAIN table
  /\ UNCHANGED <<running, table, listed, creates, once, early, kept, uncreated>>

\* The callback: global_command_delete for each.
DeleteListed ==
  /\ list = "answered"
  /\ list' = "used" /\ deletes' = listed
  /\ UNCHANGED <<running, table, listed, creates, once, early, kept, uncreated>>

\* The callback does not look for an error: std::get of a value that is no map of
\* commands throws out of it, before any deletion, into the library (external), which
\* drops the exception or lets the process end.
ListThrows ==
  /\ list = "refused"
  /\ list' = "thrown" /\ running' \in BOOLEAN
  /\ UNCHANGED <<table, listed, deletes, creates, once, early, kept, uncreated>>

\* on_ready, of any shard, for the first time or again; the bot thread is started after
\* the list has been asked for.
CreateCommands ==
  /\ running /\ list # "unasked"
  /\ once' = TRUE
  /\ creates' = IF once THEN creates ELSE SlashNames
  /\ UNCHANGED <<running, table, list, listed, deletes, early, kept, uncreated>>

Deleted(n) ==
  /\ n \in deletes
  /\ deletes' = deletes \ {n} /\ table' = Without(table, n)
  /\ UNCHANGED <<running, list, listed, creates, once, early, kept, uncreated>>

Created(n) ==
  /\ n \in creates
  /\ creates' = creates \ {n}
  /\ table' = [m \in DOMAIN table \cup {n} |-> IF m = n THEN "new" ELSE table[m]]
  /\ early' = IF list \notin {"used", "thrown"} \/ n \in deletes
              THEN early \cup {n} ELSE early
  /\ UNCHANGED <<running, list, listed, deletes, once, kept, uncreated>>

\* Nobody looks at the answer to a deletion or a creation.
DeletionFails(n) ==
  /\ n \in deletes
  /\ deletes' = deletes \ {n} /\ kept' = kept \cup {n}
  /\ UNCHANGED <<running, table, list, listed, creates, once, early, uncreated>>

CreationFails(n) ==
  /\ n \in creates
  /\ creates' = creates \ {n} /\ uncreated' = uncreated \cup {n}
  /\ UNCHANGED <<running, table, list, listed, deletes, once, early, kept>>

Next ==
  \/ AskForCommands \/ CreateCommands
  \/ ListCommands \/ DeleteListed \/ ListRefused \/ ListThrows
  \/ \E n \in OldNames \cup SlashNames :
       Deleted(n) \/ Created(n) \/ DeletionFails(n) \/ CreationFails(n)

Spec == Init /\ [][Next]_vars

-----------------------------------------------------------------------------

\* Every variable has a value of its type.
RegistryTypeOK ==
  /\ running \in BOOLEAN
  /\ DOMAIN table \subseteq OldNames \cup SlashNames
  /\ \A n \in DOMAIN table : table[n] \in {"old", "new"}
  /\ list \in {"unasked", "asked", "answered", "refused", "used", "thrown"}
  /\ listed \subseteq OldNames \cup SlashNames /\ deletes \subseteq listed
  /\ creates \subseteq SlashNames /\ once \in BOOLEAN
  /\ early \subseteq SlashNames
  /\ kept \subseteq listed /\ uncreated \subseteq SlashNames

\* Nothing is under way any more, and both sides have begun.
Settled == list \in {"used", "thrown"} /\ once /\ deletes = {} /\ creates = {}

\* The commands of this version Discord has accepted.
Accepted == SlashNames \ uncreated

\* Of these, the ones the callback has deleted again: it had them in its list, by their
\* own or by their predecessor's name, and the creation was carried out before the
\* deletion.
Lost == {n \in Accepted \cap early : list = "used" /\ n \in listed \ kept}

\* What is left of an earlier version: everything when there was no list, otherwise
\* what Discord has refused to delete.
Spared == {n \in OldNames : list = "thrown" \/ n \in kept}

\* When both sides have come to rest the table holds exactly the commands of this
\* version but the lost ones, and the spared ones of an earlier version that were not
\* replaced: a list that is out of date when the callback goes by it costs no command
\* that took over no listed name, a refused request costs no other command than its
\* own, and a refused list deletes nothing.
CommandsSettle ==
  Settled =>
    /\ {n \in DOMAIN table : table[n] = "new"} = Accepted \ Lost
    /\ {n \in DOMAIN table : table[n] = "old"} = Spared \ Accepted

=============================================================================
