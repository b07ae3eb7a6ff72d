------------------------ MODULE CommandRegistryProofs ------------------------
(***************************************************************************)
(* Proofs about CommandRegistry, for all sets of old and new commands.     *)
(***************************************************************************)
EXTENDS CommandRegistry, TLAPS

\* The names whose creation has been carried out.
Made == IF once THEN SlashNames \ (creates \cup uncreated) ELSE {}

\* A deletion of this name has been carried out.
Gone(n) == list = "used" /\ n \in listed \ (kept \cup deletes)

\* What Discord has under each name, at every moment: of this version what was made and
\* not deleted afterwards, of an earlier one what was neither deleted nor replaced.
TableIsExact ==
  /\ \A n \in SlashNames \cup OldNames :
       n \in DOMAIN table <=> IF n \in Made THEN ~(Gone(n) /\ n \in early)
                              ELSE n \in OldNames /\ ~Gone(n)
  /\ \A n \in DOMAIN table : table[n] = IF n \in Made THEN "new" ELSE "old"

\* A command that was made late has no deletion before it.
LateIsSafe ==
  /\ early \subseteq Made
  /\ \A n \in Made \ early : list \in {"used", "thrown"} /\ n \notin deletes

\* Deletions come of the list, and refusals of requests; all old names are in the list.
ListComesFirst ==
  /\ list # "used" => deletes = {} /\ kept = {}
  /\ deletes \cap kept = {}
  /\ list \in {"answered", "used"} => OldNames \subseteq listed
  /\ ~once => creates = {} /\ uncreated = {}
  /\ creates \cap uncreated = {}

RegistryInv == RegistryTypeOK /\ TableIsExact /\ LateIsSafe /\ ListComesFirst

-----------------------------------------------------------------------------

\* The first state.
LEMMA RegistryInitially == Init => RegistryInv
BY DEF Init, RegistryInv, RegistryTypeOK, TableIsExact, LateIsSafe, ListComesFirst, Made,
       Gone

\* What a deletion leaves in the table.
LEMMA WithoutOne ==
  ASSUME NEW n
  PROVE  /\ DOMAIN Without(table, n) = DOMAIN table \ {n}
         /\ \A m \in DOMAIN table \ {n} : Without(table, n)[m] = table[m]
BY DEF Without

\* No step breaks the invariant.
LEMMA RegistryStepKeeps ==
  ASSUME RegistryInv, [Next]_vars
  PROVE  RegistryInv'
<1> USE DEF RegistryInv, RegistryTypeOK, TableIsExact, LateIsSafe, ListComesFirst, Made, Gone
<1>1. CASE AskForCommands
  BY <1>1 DEF AskForCommands
<1>2. CASE CreateCommands
  BY <1>2 DEF CreateCommands
<1>3. CASE ListCommands
  BY <1>3 DEF ListCommands
<1>4. CASE DeleteListed
  BY <1>4 DEF DeleteListed
<1>5. CASE ListRefused \/ ListThrows
  BY <1>5 DEF ListRefused, ListThrows
<1>6. ASSUME NEW n \in OldNames \cup SlashNames, Deleted(n) PROVE RegistryInv'
  <2>1. /\ n \in deletes /\ deletes' = deletes \ {n}
        /\ DOMAIN table' = DOMAIN table \ {n}
        /\ \A m \in DOMAIN table' : table'[m] = table[m]
        /\ UNCHANGED <<running, list, listed, creates, once, early, kept, uncreated>>
    BY <1>6, WithoutOne DEF Deleted
  <2> QED
    BY <2>1
<1>7. ASSUME NEW n \in OldNames \cup SlashNames, Created(n) PROVE RegistryInv'
  <2>1. /\ n \in creates /\ creates' = creates \ {n}
        /\ DOMAIN table' = DOMAIN table \cup {n}
        /\ \A m \in DOMAIN table' : table'[m] = IF m = n THEN "new" ELSE table[m]
        /\ early' = IF list \notin {"used", "thrown"} \/ n \in deletes
                    THEN early \cup {n} ELSE early
        /\ UNCHANGED <<running, list, listed, deletes, once, kept, uncreated>>
    BY <1>7 DEF Created
  <2>2. once /\ n \notin early /\ n \notin Made
    BY <2>1
  <2>3. Made' = Made \cup {n}
    BY <2>1, <2>2
  <2> QED
    BY <2>1, <2>2, <2>3
<1>8. ASSUME NEW n \in OldNames \cup SlashNames, DeletionFails(n) PROVE RegistryInv'
  BY <1>8 DEF DeletionFails
<1>9. ASSUME NEW n \in OldNames \cup SlashNames, CreationFails(n) PROVE RegistryInv'
  BY <1>9 DEF CreationFails
<1>10. CASE UNCHANGED vars
  BY <1>10 DEF vars
<1> HIDE DEF RegistryInv
<1> QED
  BY <1>1, <1>2, <1>3, <1>4, <1>5, <1>6, <1>7, <1>8, <1>9, <1>10 DEF Next

-----------------------------------------------------------------------------

\* RegistryInv holds from the first state on.
LEMMA RegistryInvariant == Spec => []RegistryInv
BY RegistryInitially, RegistryStepKeeps, PTL DEF Spec

\* The table, the list and the requests stay within their types.
THEOREM RegistryTypes == Spec => []RegistryTypeOK
<1>1. RegistryInv => RegistryTypeOK
  BY DEF RegistryInv
<1> QED
  BY <1>1, RegistryInvariant, PTL

\* Which commands there are when both sides of the registration have come to rest, for
\* any sets of names, any order of the requests and any of them refused, the list too.
THEOREM RegistrySettles == Spec => []CommandsSettle
<1>1. RegistryInv => CommandsSettle
  <2> SUFFICES ASSUME RegistryInv, Settled
               PROVE  /\ {n \in DOMAIN table : table[n] = "new"} = Accepted \ Lost
                      /\ {n \in DOMAIN table : table[n] = "old"} = Spared \ Accepted
    BY DEF CommandsSettle
  <2>1. Made = Accepted /\ early \subseteq Accepted
    BY DEF RegistryInv, LateIsSafe, Settled, Made, Accepted
  <2>2. \A n : Gone(n) <=> list = "used" /\ n \in listed \ kept
    BY DEF Settled, Gone
  <2>3. DOMAIN table \subseteq SlashNames \cup OldNames
    BY DEF RegistryInv, RegistryTypeOK
  <2>4. \A n \in OldNames : ~Gone(n) <=> n \in Spared
    BY <2>2 DEF RegistryInv, ListComesFirst, Settled, Spared
  <2>5. \A n \in Accepted : Gone(n) /\ n \in early <=> n \in Lost
    BY <2>1, <2>2 DEF Lost
  <2>6. \A n \in DOMAIN table : table[n] = IF n \in Accepted THEN "new" ELSE "old"
    BY <2>1 DEF RegistryInv, TableIsExact
  <2>7. \A n \in SlashNames \cup OldNames :
          n \in DOMAIN table <=> IF n \in Accepted THEN n \notin Lost ELSE n \in Spared
    BY <2>1, <2>4, <2>5 DEF RegistryInv, TableIsExact, Spared
  <2> QED
    BY <2>3, <2>6, <2>7 DEF Accepted, Spared
<1> QED
  BY <1>1, RegistryInvariant, PTL

=============================================================================
