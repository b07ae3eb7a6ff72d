----------------------------- MODULE AutoUpdates -----------------------------
(***************************************************************************)
(* StatusBot with a history variable for what the admins of a guild have   *)
(* last been told about automatic updates.                                 *)
(***************************************************************************)
EXTENDS StatusBot

VARIABLE disabled   \* guilds last told "Automatic updates disabled."

autoVars == <<vars, disabled>>

\* SetAutoUpdate(g) completes a /disableautoupdate or an /enableautoupdate.
Answers(g, at) == Stage(g) = at /\ Stage(g)' = "idle"

ObserveAnswer ==
  disabled' = {g \in Guilds : \/ Answers(g, "disableautoupdate")
                              \/ /\ g \in disabled
                                 /\ ~Answers(g, "enableautoupdate")
                                 /\ ~Answers(g, "eraseBot")}

AutoInit == Init /\ disabled = {}

AutoNext == Next /\ ObserveAnswer

AutoSpec == AutoInit /\ [][AutoNext]_autoVars

-----------------------------------------------------------------------------

\* /help says of /disableautoupdate: "Disables automatic updates." (and the
\* command answers "Automatic updates disabled.").  So no automatic message is
\* decided on for a guild that has been told so.
SilentWhenDisabled ==
  [][pc = "automsg" /\ pc' = "send" => cur \notin disabled]_autoVars

=============================================================================
