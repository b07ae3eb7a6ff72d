---------------------------- MODULE Announcements ----------------------------
(***************************************************************************)
(* StatusBot with two history variables that observe, guild by guild, what *)
(* /change and the automatic messages have done to the stored data.        *)
(***************************************************************************)
EXTENDS StatusBot

VARIABLES
  changed,   \* /change altered the address since main() last read it
  told       \* what a follower of the channel makes of its messages: the player
             \* count, the players' names, and whether some names went untold

annVars == <<vars, changed, told>>

Address(g) == <<programinfos[g].serverip, programinfos[g].serverport>>

Joins(g) == g \notin DOMAIN programinfos /\ g \in (DOMAIN programinfos)'

Stays(g) == g \in DOMAIN programinfos /\ g \in (DOMAIN programinfos)'

Count(server) == IF server = None THEN 0
                 ELSE IF server.says.now = None THEN 0 ELSE server.says.now

\* The players the commands list.
NamesOf(server) ==
  IF server = None THEN {}
  ELSE {n \in Names : \E i \in DOMAIN server.says.sample :
                       i <= Count(server) /\ server.says.sample[i] = n}

\* A name stands twice in the list, or a player has none.
Ambiguous(server) == Cardinality(NamesOf(server)) # Count(server)

ObserveChange ==
  changed' = [g \in Guilds |->
                IF Joins(g) \/ (cur = g /\ pc = "request" /\ pc' = "write") THEN FALSE
                ELSE changed[g] \/ (Stays(g) /\ Address(g)' # Address(g))]

\* With nobody to tell, the follower starts over from what this poll shows.  An
\* update tells the difference between the two counts, and whom to strike from the
\* list or to add to it.  Names that change while the count stays are not told.
Follow(g) ==
  LET new == programinfos[g].serverdata
      old == programinfos[g].oldserver
  IN  IF pc = "automsg" /\ ~Wanted(g)
      THEN [count |-> Count(new), names |-> NamesOf(new), lost |-> Ambiguous(new)]
      ELSE IF pc = "automsg"
      THEN [told[g] EXCEPT !.lost = \/ @ \/ Ambiguous(new)
                                    \/ ~CountsDiffer(g) /\ NamesOf(old) # NamesOf(new)]
      ELSE IF pc = "send"
      THEN [told[g] EXCEPT !.count = @ + Count(new) - Count(old),
                           !.names = (@ \ ebd.names) \cup (ebd.names \ @)]
      ELSE told[g]

Unaware == [count |-> 0, names |-> {}, lost |-> FALSE]

ObserveTold ==
  told' = [g \in Guilds |-> IF Joins(g) THEN Unaware
                            ELSE IF cur # g \/ dangling \/ pc' = pc THEN told[g]
                            ELSE Follow(g)]

AnnInit ==
  /\ Init
  /\ changed = [g \in Guilds |-> FALSE]
  /\ told = [g \in Guilds |-> Unaware]

AnnNext == Next /\ ObserveChange /\ ObserveTold

AnnSpec == AnnInit /\ [][AnnNext]_annVars

-----------------------------------------------------------------------------

\* What the commands display is about the address now configured, unless
\* /change has altered it since main() last read it.
FreshUnlessChanged ==
  \A g \in DOMAIN programinfos :
    LET info == programinfos[g] IN
    \/ info.serverdata = None
    \/ changed[g]
    \/ cur = g /\ pc \in {"write", "wait", "parse"}
    \/ info.serverdata.about = [ip |-> info.serverip, port |-> info.serverport]

Announcing(g) == cur = g /\ pc \in {"automsg", "send", "save"}

\* The announced changes add up: whoever follows the channel knows the player
\* count the commands display.  No change is announced twice and none is lost,
\* over any number of polls.
AnnouncementsAddUp ==
  \A g \in DOMAIN programinfos :
    Announcing(g) \/ told[g].count = Count(programinfos[g].serverdata)

\* And knows the players' names, if each message is read as "whoever of these was
\* on the list has left, the others have joined"; unless players changed while
\* their number stayed, or two had the same name.
NamesAddUp ==
  \A g \in DOMAIN programinfos :
    \/ Announcing(g) \/ told[g].lost
    \/ told[g].names = NamesOf(programinfos[g].serverdata)

\* An update names at least one player: different counts mean different lists,
\* whatever names occur in them, and however often.
SaysWho == pc = "send" => ebd.names # {}

=============================================================================
