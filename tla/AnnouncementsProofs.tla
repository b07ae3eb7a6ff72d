------------------------- MODULE AnnouncementsProofs -------------------------
(***************************************************************************)
(* Proofs about Announcements, for any guilds, addresses and answers: what *)
(* is stored is about the configured address unless /change has just       *)
(* altered it, and the announced changes and names add up to what the      *)
(* commands display.                                                       *)
(***************************************************************************)
EXTENDS Announcements, StatusBotProofs, FiniteSetTheorems

-----------------------------------------------------------------------------
(* Lists of players.                                                       *)

\* An answer whose names sendautomsg can read.
Named(server) ==
  server = None \/ (/\ server \in Snapshot /\ server.says.now \in Nat
                    /\ Len(server.says.sample) >= server.says.now)

\* Where a name stands in the list.
Places(server, n) == {i \in 1..Count(server) : server.says.sample[i] = n}

LEMMA PlacesCounted ==
  ASSUME NEW server, Named(server), NEW n
  PROVE  /\ Count(server) \in Nat /\ IsFiniteSet(Places(server, n))
         /\ Times(server, n) = Cardinality(Places(server, n))
<1>1. CASE server = None
  <2>1. Count(server) = 0 /\ Times(server, n) = 0 /\ Places(server, n) = {}
    BY <1>1 DEF Count, Times, Places
  <2> QED
    BY <2>1, FS_EmptySet
<1>2. CASE server # None
  <2>1. Count(server) = server.says.now /\ server.says.now \in Nat
    BY <1>2, ConstantsAssumption DEF Named, Count
  <2>2. IsFiniteSet(1..Count(server))
    BY <2>1, FS_Interval
  <2>3. IsFiniteSet(Places(server, n))
    BY <2>2, FS_Subset DEF Places
  <2> QED
    BY <1>2, <2>1, <2>3 DEF Times, Places
<1> QED
  BY <1>1, <1>2

\* A player counted has a name.
LEMMA NamesListed ==
  ASSUME NEW server, Named(server)
  PROVE  /\ \A i \in 1..Count(server) : server.says.sample[i] \in Names
         /\ NamesOf(server) = {n \in Names : \E i \in 1..Count(server) :
                                               server.says.sample[i] = n}
<1>1. CASE server = None
  BY <1>1 DEF Count, NamesOf
<1>2. CASE server # None
  <2>1. /\ Count(server) = server.says.now /\ server.says.now \in Nat
        /\ server.says.sample \in Seq(Names) /\ Len(server.says.sample) >= server.says.now
    BY <1>2, ConstantsAssumption DEF Named, Count, Snapshot, Report
  <2>2. \A i \in 1..Count(server) : i \in DOMAIN server.says.sample
    BY <2>1
  <2>3. \A i \in 1..Count(server) : server.says.sample[i] \in Names
    BY <2>1, <2>2
  <2>4. \A i \in DOMAIN server.says.sample : i <= Count(server) <=> i \in 1..Count(server)
    BY <2>1
  <2> QED
    BY <1>2, <2>2, <2>3, <2>4 DEF NamesOf
<1> QED
  BY <1>1, <1>2

\* Lists with each name equally often are equally long: the places of each name in
\* one are paired with its places in the other.
LEMMA SameTimesSameCount ==
  ASSUME NEW a, NEW b, Named(a), Named(b), \A n \in Names : Times(a, n) = Times(b, n)
  PROVE  Count(a) = Count(b)
<1> DEFINE S == 1..Count(a)
           K == 1..Count(b)
           s(i) == a.says.sample[i]
           t(i) == b.says.sample[i]
           pair(n) == CHOOSE h : h \in Bijection(Places(a, n), Places(b, n))
           f == [i \in S |-> pair(s(i))[i]]
<1>1. /\ Count(a) \in Nat /\ Count(b) \in Nat
      /\ \A i \in S : s(i) \in Names
      /\ \A i \in K : t(i) \in Names
  BY PlacesCounted, NamesListed
<1>2. \A n \in Names : pair(n) \in Bijection(Places(a, n), Places(b, n))
  <2> TAKE n \in Names
  <2>1. ExistsBijection(Places(a, n), Places(b, n))
    <3>1. /\ IsFiniteSet(Places(a, n)) /\ IsFiniteSet(Places(b, n))
          /\ Cardinality(Places(a, n)) = Cardinality(Places(b, n))
      BY PlacesCounted
    <3> QED
      BY <3>1, FS_SameCardinalityBij
  <2> QED
    BY <2>1 DEF ExistsBijection
<1>3. \A n \in Names : /\ \A i \in Places(a, n) : pair(n)[i] \in Places(b, n)
                       /\ \A i, j \in Places(a, n) : pair(n)[i] = pair(n)[j] => i = j
                       /\ \A k \in Places(b, n) : \E i \in Places(a, n) : pair(n)[i] = k
  <2> TAKE n \in Names
  <2> DEFINE h == pair(n)
  <2>1. h \in Bijection(Places(a, n), Places(b, n))
    BY <1>2
  <2> HIDE DEF h
  <2> QED
    BY <2>1 DEF Bijection, Injection, Surjection, IsInjective
<1> HIDE DEF pair
<1>4. \A i \in S : i \in Places(a, s(i)) /\ f[i] = pair(s(i))[i]
  BY DEF Places
<1>5. \A i \in S : f[i] \in K /\ t(f[i]) = s(i)
  <2> TAKE i \in S
  <2>1. f[i] \in Places(b, s(i))
    BY <1>1, <1>3, <1>4
  <2> QED
    BY <2>1 DEF Places
<1> HIDE DEF f
<1>6. \A i, j \in S : f[i] = f[j] => i = j
  <2> SUFFICES ASSUME NEW i \in S, NEW j \in S, f[i] = f[j] PROVE i = j
    OBVIOUS
  <2>1. s(i) = s(j) /\ s(i) \in Names
    BY <1>1, <1>5
  <2>2. i \in Places(a, s(i)) /\ j \in Places(a, s(i)) /\ pair(s(i))[i] = pair(s(i))[j]
    BY <1>4, <2>1
  <2> QED
    BY <1>3, <2>1, <2>2
<1>7. \A k \in K : \E i \in S : f[i] = k
  <2> TAKE k \in K
  <2>1. k \in Places(b, t(k)) /\ t(k) \in Names
    BY <1>1 DEF Places
  <2>2. PICK i \in Places(a, t(k)) : pair(t(k))[i] = k
    BY <1>3, <2>1
  <2>3. i \in S /\ s(i) = t(k)
    BY <2>2 DEF Places
  <2> QED
    BY <1>4, <2>2, <2>3
<1>8. f \in [S -> K]
  BY <1>5 DEF f
<1>9. f \in Bijection(S, K)
  BY <1>6, <1>7, <1>8 DEF Bijection, Injection, Surjection, IsInjective
<1>10. IsFiniteSet(S) /\ Cardinality(S) = Count(a) /\ Cardinality(K) = Count(b)
  <2>1. \A n \in Nat : IsFiniteSet(1..n) /\ Cardinality(1..n) = n
    <3> TAKE n \in Nat
    <3>1. IsFiniteSet(1..n) /\ Cardinality(1..n) = IF 1 > n THEN 0 ELSE n - 1 + 1
      BY FS_Interval
    <3> QED
      BY <3>1
  <2> QED
    BY <1>1, <2>1
<1> QED
  BY <1>9, <1>10, FS_Bijection DEF ExistsBijection

\* With as many names as players, each stands there once.
LEMMA NamedOnce ==
  ASSUME NEW server, Named(server), ~Ambiguous(server)
  PROVE  \A n \in Names : Times(server, n) = IF n \in NamesOf(server) THEN 1 ELSE 0
<1> DEFINE S == 1..Count(server)
           s(i) == server.says.sample[i]
           f == [i \in S |-> s(i)]
<1>1. Count(server) \in Nat /\ IsFiniteSet(S) /\ Cardinality(S) = Count(server)
  BY PlacesCounted, FS_Interval
<1>2. f \in Surjection(S, NamesOf(server))
  <2>1. \A i \in S : s(i) \in NamesOf(server)
    BY NamesListed
  <2>2. \A n \in NamesOf(server) : \E i \in S : s(i) = n
    BY NamesListed
  <2> QED
    BY <2>1, <2>2 DEF Surjection
<1>3. Cardinality(S) = Cardinality(NamesOf(server))
  BY <1>1 DEF Ambiguous
<1>4. f \in Injection(S, NamesOf(server))
  BY <1>1, <1>2, <1>3, FS_SurjSameCardinalityImpliesInj
<1>5. \A i, j \in S : s(i) = s(j) => i = j
  BY <1>4 DEF Injection, IsInjective
<1> TAKE n \in Names
<1>6. CASE n \in NamesOf(server)
  <2>1. PICK i \in S : s(i) = n
    BY <1>6, NamesListed
  <2>2. Places(server, n) = {i}
    BY <1>5, <2>1 DEF Places
  <2> QED
    BY <1>6, <2>2, PlacesCounted, FS_Singleton
<1>7. CASE n \notin NamesOf(server)
  <2>1. Places(server, n) = {}
    BY <1>7, NamesListed DEF Places
  <2> QED
    BY <1>7, <2>1, PlacesCounted, FS_EmptySet
<1> QED
  BY <1>6, <1>7

-----------------------------------------------------------------------------
(* The inductive invariant.                                                *)

Message == [joined : BOOLEAN, names : SUBSET Names]

Follower == [count : Int, names : SUBSET Names, lost : BOOLEAN]

\* While main() asks about an address that /change leaves alone, request and answer
\* are about that address; before the request there is no answer.
AsksForAddress ==
  /\ pc \in {"request", "write"} => asked = None /\ readbuf = None
  /\ pc \in {"write", "wait", "parse"} /\ ~dangling /\ ~changed[cur] =>
       /\ pc = "write" => programinfos[cur].webrequest = MakeRequest(cur)
       /\ asked # None => asked = MakeRequest(cur)
       /\ readbuf # None => readbuf.about = MakeRequest(cur)

\* main() has the answer of this guild in its hands, between the two assignments.
Comparing(g) == cur = g /\ ~dangling /\ pc \in {"automsg", "send", "save"}

\* A follower knows the count of an answer and, unless names went untold, its names.
Agrees(follower, server) ==
  /\ follower.count = Count(server)
  /\ follower.lost \/ (follower.names = NamesOf(server) /\ ~Ambiguous(server))

\* But for then, the last answer is the one the next will be compared with, and
\* what the channel was told leads up to it.
Remembered ==
  \A g \in DOMAIN programinfos :
    \/ Comparing(g)
    \/ /\ programinfos[g].oldserver = programinfos[g].serverdata
       /\ Agrees(told[g], programinfos[g].serverdata)

\* Then the channel knows the old answer, and from the message on the new one.
ToldSoFar ==
  Comparing(cur) =>
    Agrees(told[cur], IF pc = "save" THEN programinfos[cur].serverdata
                                     ELSE programinfos[cur].oldserver)

\* The message to be sent names what the two answers have not in common.
Differ(old, new) == (NamesOf(old) \ NamesOf(new)) \cup (NamesOf(new) \ NamesOf(old))

NamesToTell ==
  /\ SaysWho
  /\ pc = "send" /\ ~dangling /\ ~told[cur].lost =>
       LET info == programinfos[cur]
       IN  ebd.names = Differ(info.oldserver, info.serverdata) /\ ~Ambiguous(info.serverdata)

AnnInv ==
  /\ IInv
  /\ changed \in [Guilds -> BOOLEAN] /\ told \in [Guilds -> Follower]
  /\ pc = "send" => ebd \in Message
  /\ AsksForAddress /\ FreshUnlessChanged /\ Remembered /\ ToldSoFar /\ NamesToTell

\* The parts that a step has to keep; IInv is kept by every step of StatusBot.
AnnKept ==
  /\ pc = "send" => ebd \in Message
  /\ AsksForAddress /\ FreshUnlessChanged /\ Remembered /\ ToldSoFar /\ NamesToTell

\* A guild that joins has had no answer, and nobody was told one.
LEMMA NothingTold == Agrees(Unaware, None)
<1>1. Count(None) = 0 /\ NamesOf(None) = {}
  BY DEF Count, NamesOf
<1>2. ~Ambiguous(None)
  BY <1>1, FS_EmptySet DEF Ambiguous
<1> QED
  BY <1>1, <1>2 DEF Agrees, Unaware

-----------------------------------------------------------------------------
(* The history variables.                                                  *)

\* Counts are numbers.
LEMMA CountIsNat ==
  ASSUME AnnInv, NEW g \in DOMAIN programinfos
  PROVE  /\ programinfos[g] \in ProgramInfo
         /\ Count(programinfos[g].serverdata) \in Nat
         /\ Count(programinfos[g].oldserver) \in Nat
<1>1. programinfos[g] \in ProgramInfo
  BY DEF AnnInv, IInv, CoreInv, TypeOK
<1> QED
  BY <1>1 DEF ProgramInfo, Snapshot, Report, Count

\* What a follower makes of it keeps its type.
LEMMA ToldType ==
  ASSUME AnnInv, ObserveTold
  PROVE  told' \in [Guilds -> Follower]
<1> SUFFICES ASSUME NEW g \in Guilds PROVE told'[g] \in Follower
  BY DEF ObserveTold
<1>1. told[g] \in Follower
  BY DEF AnnInv
<1>2. CASE Joins(g)
  BY <1>2 DEF ObserveTold, Unaware, Follower
<1>3. CASE ~Joins(g) /\ (cur # g \/ dangling \/ pc' = pc)
  BY <1>1, <1>3 DEF ObserveTold
<1>4. CASE ~Joins(g) /\ cur = g /\ ~dangling /\ pc' # pc
  <2>1. told'[g] = Follow(g)
    BY <1>4 DEF ObserveTold
  <2>2. CASE pc \notin {"automsg", "send"}
    BY <1>1, <2>1, <2>2 DEF Follow
  <2>3. CASE pc \in {"automsg", "send"}
    <3>1. g \in DOMAIN programinfos
      BY <1>4, <2>3 DEF AnnInv, IInv, CoreInv, IteratorValid, Visit
    <3> DEFINE new == programinfos[g].serverdata
               old == programinfos[g].oldserver
    <3>2. Count(new) \in Nat /\ Count(old) \in Nat
      BY <3>1, CountIsNat
    <3>3. NamesOf(new) \in SUBSET Names
      BY DEF NamesOf
    <3>4. Ambiguous(new) \in BOOLEAN
      BY DEF Ambiguous
    <3>5. CASE pc = "automsg" /\ ~Wanted(g)
      <4>1. told'[g] = [count |-> Count(new), names |-> NamesOf(new), lost |-> Ambiguous(new)]
        BY <2>1, <3>5 DEF Follow
      <4> QED
        BY <3>2, <3>3, <3>4, <4>1 DEF Follower
    <3>6. CASE pc = "automsg" /\ Wanted(g)
      <4> DEFINE lost == \/ told[g].lost \/ Ambiguous(new)
                         \/ ~CountsDiffer(g) /\ NamesOf(old) # NamesOf(new)
      <4>1. told'[g] = [told[g] EXCEPT !.lost = lost]
        BY <2>1, <3>6 DEF Follow
      <4>2. lost \in BOOLEAN
        OBVIOUS
      <4> HIDE DEF lost
      <4> QED
        BY <1>1, <4>1, <4>2 DEF Follower
    <3>7. CASE pc = "send"
      <4>1. ebd.names \in SUBSET Names
        BY <3>7 DEF AnnInv, Message
      <4>2. told'[g] = [told[g] EXCEPT !.count = told[g].count + Count(new) - Count(old),
                                       !.names = (told[g].names \ ebd.names)
                                                   \cup (ebd.names \ told[g].names)]
        BY <2>1, <3>7 DEF Follow
      <4>3. told[g].count + Count(new) - Count(old) \in Int
        BY <1>1, <3>2 DEF Follower
      <4>4. (told[g].names \ ebd.names) \cup (ebd.names \ told[g].names) \in SUBSET Names
        BY <1>1, <4>1 DEF Follower
      <4> QED
        BY <1>1, <4>2, <4>3, <4>4 DEF Follower
    <3> QED
      BY <2>3, <3>5, <3>6, <3>7
  <2> QED
    BY <2>2, <2>3
<1> QED
  BY <1>2, <1>3, <1>4

\* For the guilds that stay, /change alone and the building of a request matter.
LEMMA ChangedKept ==
  ASSUME AnnInv, ObserveChange
  PROVE  /\ changed' \in [Guilds -> BOOLEAN]
         /\ \A g \in Guilds : Joins(g) => ~changed'[g]
         /\ \A g \in Guilds :
              Stays(g) /\ ~(cur = g /\ pc = "request" /\ pc' = "write") =>
                changed'[g] = (changed[g] \/ Address(g)' # Address(g))
<1>1. \A g \in Guilds : changed[g] \in BOOLEAN
  BY DEF AnnInv
<1> QED
  BY <1>1 DEF ObserveChange, Joins, Stays

\* A guild that joins starts with nothing told; a step that is not one of sendautomsg
\* tells the others nothing.
LEMMA ToldKept ==
  ASSUME AnnInv, ObserveTold
  PROVE  /\ told' \in [Guilds -> Follower]
         /\ \A g \in Guilds : Joins(g) => told'[g] = Unaware
         /\ \A g \in Guilds :
              ~Joins(g) /\ (cur # g \/ dangling \/ pc' = pc \/ pc \notin {"automsg", "send"})
                => told'[g] = told[g]
BY ToldType DEF ObserveTold, Unaware, Follow

-----------------------------------------------------------------------------
(* The other threads.                                                      *)

\* An entry that a step leaves to its guild: a new one, or one whose answers are as
\* before and whose request, if it was rebuilt, was rebuilt from the address.
EntryKept(g) ==
  \/ g \notin DOMAIN programinfos /\ programinfos'[g] = NewProgramInfo
  \/ /\ g \in DOMAIN programinfos
     /\ programinfos'[g].serverdata = programinfos[g].serverdata
     /\ programinfos'[g].oldserver = programinfos[g].oldserver
     /\ \/ programinfos'[g].webrequest = programinfos[g].webrequest
        \/ programinfos'[g].webrequest = MakeRequest(g)'

\* Steps of the shards, and any step by which the process ends.
LEMMA ShardsKeepAnn ==
  ASSUME AnnInv, IInv', ObserveChange, ObserveTold,
         UNCHANGED <<pc, cur, ebd, asked, readbuf>>,
         dangling => dangling', dangling' => dangling \/ cur \notin DOMAIN programinfos',
         \A g \in DOMAIN programinfos' : EntryKept(g)
  PROVE  AnnKept'
<1>1. /\ DOMAIN programinfos \subseteq Guilds /\ DOMAIN programinfos' \subseteq Guilds
      /\ pc \in Visit /\ ~dangling' => cur \in DOMAIN programinfos /\ cur \in DOMAIN programinfos'
  BY DEF AnnInv, IInv, CoreInv, TypeOK, IteratorValid
<1>2. \A g \in DOMAIN programinfos' :
        IF g \in DOMAIN programinfos THEN Stays(g) /\ ~Joins(g) ELSE Joins(g)
  BY DEF Stays, Joins
<1>3. ASSUME NEW g \in DOMAIN programinfos', g \in DOMAIN programinfos
      PROVE  /\ changed'[g] = (changed[g] \/ Address(g)' # Address(g))
             /\ told'[g] = told[g]
  BY <1>1, <1>2, <1>3, ChangedKept, ToldKept
<1>4. ASSUME NEW g \in DOMAIN programinfos', g \notin DOMAIN programinfos
      PROVE  ~changed'[g] /\ told'[g] = Unaware /\ programinfos'[g] = NewProgramInfo
  BY <1>1, <1>2, <1>4, ChangedKept, ToldKept DEF EntryKept
<1>5. AsksForAddress'
  <2>1. ASSUME NEW g \in Guilds, g = cur, pc \in {"write", "wait", "parse"},
               ~dangling', ~changed'[g]
        PROVE  /\ pc = "write" => programinfos'[g].webrequest = MakeRequest(g)'
               /\ asked # None => asked = MakeRequest(g)'
               /\ readbuf # None => readbuf.about = MakeRequest(g)'
    <3>1. g \in DOMAIN programinfos /\ g \in DOMAIN programinfos' /\ ~dangling
      BY <1>1, <2>1 DEF Visit
    <3>2. ~changed[g] /\ Address(g)' = Address(g)
      BY <1>3, <2>1, <3>1
    <3>3. MakeRequest(g)' = MakeRequest(g)
      BY <3>2 DEF Address, MakeRequest
    <3>4. /\ pc = "write" => programinfos[g].webrequest = MakeRequest(g)
          /\ asked # None => asked = MakeRequest(g)
          /\ readbuf # None => readbuf.about = MakeRequest(g)
      BY <2>1, <3>1, <3>2 DEF AnnInv, AsksForAddress
    <3> QED
      BY <3>1, <3>3, <3>4 DEF EntryKept
  <2>2. pc \in {"write", "wait", "parse"} /\ ~dangling' => cur \in Guilds
    BY <1>1 DEF Visit
  <2> QED
    BY <2>1, <2>2 DEF AnnInv, AsksForAddress, MakeRequest
<1>6. FreshUnlessChanged'
  <2> SUFFICES ASSUME NEW g \in DOMAIN programinfos'
               PROVE  \/ programinfos'[g].serverdata = None
                      \/ changed'[g]
                      \/ cur = g /\ pc \in {"write", "wait", "parse"}
                      \/ programinfos'[g].serverdata.about
                           = [ip |-> programinfos'[g].serverip, port |-> programinfos'[g].serverport]
    BY DEF FreshUnlessChanged
  <2>1. CASE g \notin DOMAIN programinfos
    BY <1>4, <2>1 DEF NewProgramInfo
  <2>2. CASE g \in DOMAIN programinfos
    BY <1>3, <2>2 DEF EntryKept, AnnInv, FreshUnlessChanged, Address
  <2> QED
    BY <2>1, <2>2
<1>7. Remembered'
  <2> SUFFICES ASSUME NEW g \in DOMAIN programinfos', ~Comparing(g)'
               PROVE  /\ programinfos'[g].oldserver = programinfos'[g].serverdata
                      /\ Agrees(told'[g], programinfos'[g].serverdata)
    BY DEF Remembered
  <2>1. CASE g \notin DOMAIN programinfos
    BY <1>4, <2>1, NothingTold DEF NewProgramInfo
  <2>2. CASE g \in DOMAIN programinfos
    <3>1. ~Comparing(g)
      BY <1>1, <2>2 DEF Comparing, Visit
    <3> QED
      BY <1>3, <2>2, <3>1 DEF EntryKept, AnnInv, Remembered
  <2> QED
    BY <2>1, <2>2
<1>8. ToldSoFar'
  <2> SUFFICES ASSUME Comparing(cur)'
               PROVE  Agrees(told'[cur], IF pc = "save" THEN programinfos'[cur].serverdata
                                                     ELSE programinfos'[cur].oldserver)
    BY DEF ToldSoFar
  <2>1. cur \in DOMAIN programinfos /\ cur \in DOMAIN programinfos' /\ Comparing(cur)
    BY <1>1 DEF Comparing, Visit
  <2> QED
    BY <1>3, <2>1 DEF EntryKept, AnnInv, ToldSoFar
<1>9. pc' = "send" => ebd' \in Message
  BY DEF AnnInv
<1>10. NamesToTell'
  <2> SUFFICES ASSUME pc = "send", ~dangling', ~told'[cur].lost
               PROVE  /\ ebd.names = Differ(programinfos'[cur].oldserver,
                                            programinfos'[cur].serverdata)
                      /\ ~Ambiguous(programinfos'[cur].serverdata)
    BY DEF AnnInv, NamesToTell, SaysWho
  <2>1. cur \in DOMAIN programinfos /\ cur \in DOMAIN programinfos' /\ ~dangling
    BY <1>1 DEF Visit
  <2> QED
    BY <1>3, <2>1 DEF EntryKept, AnnInv, NamesToTell
<1> QED
  BY <1>5, <1>6, <1>7, <1>8, <1>9, <1>10 DEF AnnKept

\* Each of these steps leaves the entries to their guilds.
LEMMA HandlersKeepAnn ==
  ASSUME AnnInv, IInv', ObserveChange, ObserveTold, NEW g \in Guilds, HandlerStep(g)
  PROVE  AnnKept'
<1> USE ConstantsAssumption
<1>1. CASE Halt("terminated")
  BY <1>1, ShardsKeepAnn DEF Halt, regVars, iterVars, netVars, msgVars, EntryKept
<1>2. CASE ~Halt("terminated")
  <2>1. UNCHANGED <<pc, cur, ebd, asked, readbuf>>
    BY <1>2 DEF HandlerStep, EmplaceInfo, EmplaceBot, EraseInfo, EraseBot, Home,
           SetAutoUpdate, ChangeIp, ChangePort, ChangeRequest, TestNull, ReadOnline,
           ReadTexts, ReadCount, ReadNames, Throw, NothingWritten, MainUntouched, msgVars,
           netVars
  <2>2. CASE EmplaceInfo(g)
    <3>1. dangling' = dangling /\ \A k \in DOMAIN programinfos' : EntryKept(k)
      BY <2>2 DEF EmplaceInfo, Emplace, EntryKept
    <3> QED
      BY <2>1, <3>1, ShardsKeepAnn
  <2>3. CASE EraseInfo(g)
    <3>1. /\ dangling' = (dangling \/ cur = g) /\ DOMAIN programinfos' = DOMAIN programinfos \ {g}
          /\ \A k \in DOMAIN programinfos' : EntryKept(k)
      BY <2>3 DEF EraseInfo, Erase, EntryKept
    <3> QED
      BY <2>1, <3>1, ShardsKeepAnn
  <2>4. CASE ChangeIp(g) \/ ChangePort(g) \/ ChangeRequest(g)
    <3>1. \A k \in DOMAIN programinfos : programinfos[k] \in ProgramInfo
      BY DEF AnnInv, IInv, CoreInv, TypeOK
    <3>2. CASE ChangeIp(g)
      <4>1. dangling' = dangling /\ \A k \in DOMAIN programinfos' : EntryKept(k)
        BY <3>1, <3>2 DEF ChangeIp, EntryKept, ProgramInfo
      <4> QED
        BY <2>1, <4>1, ShardsKeepAnn
    <3>3. CASE ChangePort(g)
      <4>1. dangling' = dangling /\ \A k \in DOMAIN programinfos' : EntryKept(k)
        BY <3>1, <3>3 DEF ChangePort, EntryKept, ProgramInfo
      <4> QED
        BY <2>1, <4>1, ShardsKeepAnn
    <3>4. CASE ChangeRequest(g)
      <4>1. dangling' = dangling /\ \A k \in DOMAIN programinfos' : EntryKept(k)
        BY <3>1, <3>4 DEF ChangeRequest, EntryKept, ProgramInfo, MakeRequest
      <4> QED
        BY <2>1, <4>1, ShardsKeepAnn
    <3> QED
      BY <2>4, <3>2, <3>3, <3>4
  <2>5. CASE ~(EmplaceInfo(g) \/ EraseInfo(g) \/ ChangeIp(g) \/ ChangePort(g) \/ ChangeRequest(g))
    <3>1. UNCHANGED <<programinfos, dangling>>
      BY <1>2, <2>5 DEF HandlerStep, EmplaceBot, EraseBot, Home, SetAutoUpdate, TestNull,
             ReadOnline, ReadTexts, ReadCount, ReadNames, Throw, NothingWritten, regVars
    <3> QED
      BY <2>1, <3>1, ShardsKeepAnn DEF EntryKept
  <2> QED
    BY <2>2, <2>3, <2>4, <2>5
<1> QED
  BY <1>1, <1>2

\* A new event, the stop key, the end of the process, or nothing.
LEMMA OthersKeepAnn ==
  ASSUME AnnInv, IInv', ObserveChange, ObserveTold,
         \/ \E g \in Guilds : Event(g)
         \/ StopKey \/ UNCHANGED vars \/ \E how : Halt(how)
  PROVE  AnnKept'
<1>1. UNCHANGED <<programinfos, dangling, pc, cur, ebd, asked, readbuf>>
  BY DEF Event, GuildCreate, GuildDelete, SlashHome, SlashChange, SlashAutoUpdate,
         SlashInfo, Deliver, MainUntouched, StopKey, Halt, vars, regVars, iterVars, netVars,
         msgVars
<1> QED
  BY <1>1, ShardsKeepAnn DEF EntryKept

-----------------------------------------------------------------------------
(* main() and the context thread.                                          *)

\* A step by which no address, no answer and no old answer of a guild changes, and
\* that is no announcement.
LEMMA QuietStep ==
  ASSUME AnnInv, ObserveChange, ObserveTold, UNCHANGED programinfos,
         ~(pc = "request" /\ pc' = "write"),
         pc' = pc \/ pc \notin {"automsg", "send"}
  PROVE  /\ \A g \in DOMAIN programinfos :
              g \in Guilds /\ changed'[g] = changed[g] /\ told'[g] = told[g]
<1> SUFFICES ASSUME NEW g \in DOMAIN programinfos
             PROVE  g \in Guilds /\ changed'[g] = changed[g] /\ told'[g] = told[g]
  OBVIOUS
<1>1. g \in Guilds /\ Stays(g) /\ ~Joins(g) /\ Address(g)' = Address(g) /\ changed[g] \in BOOLEAN
  BY DEF AnnInv, IInv, CoreInv, TypeOK, Stays, Joins, Address
<1> QED
  BY <1>1, ChangedKept, ToldKept

\* The loop, and a visit up to the start of the read.
LEMMA LoopKeepsAnn ==
  ASSUME AnnInv, IInv', ObserveChange, ObserveTold, ~\E how : Halt(how),
         \/ ResolveDns \/ LoopTest \/ NextGuild \/ Sleep \/ CheckConfigured \/ Connect
         \/ StartRead \/ StopIo \/ ShutdownCluster
  PROVE  AnnKept'
<1>1. /\ UNCHANGED <<programinfos, ebd>>
      /\ pc \notin {"request", "write", "wait", "parse", "automsg", "send", "save"}
      /\ pc' \notin {"write", "wait", "parse", "automsg", "send", "save"}
      /\ pc' = "request" => asked' = None /\ readbuf' = None
  BY DEF ResolveDns, LoopTest, NextGuild, Sleep, CheckConfigured, Connect, StartRead,
         StopIo, ShutdownCluster, At, Continue, regVars, msgVars
<1>2. \A g \in DOMAIN programinfos : changed'[g] = changed[g] /\ told'[g] = told[g]
  BY <1>1, QuietStep
<1>3. AsksForAddress'
  BY <1>1 DEF AsksForAddress
<1>4. FreshUnlessChanged'
  BY <1>1, <1>2 DEF AnnInv, FreshUnlessChanged
<1>5. Remembered'
  BY <1>1, <1>2 DEF AnnInv, Remembered, Comparing
<1>6. ToldSoFar'
  BY <1>1 DEF ToldSoFar, Comparing
<1>7. NamesToTell'
  BY <1>1 DEF NamesToTell, SaysWho
<1> QED
  BY <1>1, <1>3, <1>4, <1>5, <1>6, <1>7 DEF AnnKept

\* Request, wait, and the two assignments of answers write to one entry at most.
LEMMA OneEntry ==
  ASSUME AnnInv, ObserveChange, ObserveTold, ~dangling, ~\E how : Halt(how),
         BuildRequest \/ ParseAnswer \/ SaveOld
  PROVE  /\ cur \in DOMAIN programinfos /\ cur \in Guilds /\ cur' = cur /\ dangling' = dangling
         /\ DOMAIN programinfos' = DOMAIN programinfos
         /\ \A g \in DOMAIN programinfos \ {cur} : programinfos'[g] = programinfos[g]
         /\ \A g \in DOMAIN programinfos : Address(g)' = Address(g) /\ told'[g] = told[g]
         /\ programinfos[cur] \in ProgramInfo
         /\ \A g \in DOMAIN programinfos :
              (IF BuildRequest /\ g = cur THEN ~changed'[g] ELSE changed'[g] = changed[g])
<1>1. pc \in {"request", "parse", "save"} /\ UNCHANGED iterVars
  BY DEF BuildRequest, ParseAnswer, SaveOld, At, Continue
<1>2. /\ cur \in DOMAIN programinfos /\ DOMAIN programinfos \subseteq Guilds
      /\ \A g \in DOMAIN programinfos : programinfos[g] \in ProgramInfo
  BY <1>1 DEF AnnInv, IInv, CoreInv, IteratorValid, TypeOK, Visit
<1>3. PICK field, v :
        /\ field \in {"webrequest", "oldserver", "serverdata"}
        /\ programinfos' = [programinfos EXCEPT ![cur][field] = v]
  BY DEF BuildRequest, ParseAnswer, SaveOld
<1>4. /\ DOMAIN programinfos' = DOMAIN programinfos
      /\ \A g \in DOMAIN programinfos \ {cur} : programinfos'[g] = programinfos[g]
      /\ programinfos'[cur].serverip = programinfos[cur].serverip
      /\ programinfos'[cur].serverport = programinfos[cur].serverport
  BY <1>2, <1>3 DEF ProgramInfo
<1>5. \A g \in DOMAIN programinfos : Address(g)' = Address(g)
  BY <1>4 DEF Address
<1>6. \A g \in DOMAIN programinfos : g \in Guilds /\ Stays(g) /\ ~Joins(g)
  BY <1>2, <1>4 DEF Stays, Joins
<1>7. \A g \in DOMAIN programinfos : told'[g] = told[g]
  BY <1>1, <1>6, ToldKept
<1>8. ASSUME NEW g \in DOMAIN programinfos
      PROVE  IF BuildRequest /\ g = cur THEN ~changed'[g] ELSE changed'[g] = changed[g]
  <2>1. CASE BuildRequest /\ g = cur
    BY <1>6, <2>1 DEF BuildRequest, At, Continue, ObserveChange
  <2>2. CASE ~(BuildRequest /\ g = cur)
    <3>1. ~(cur = g /\ pc = "request" /\ pc' = "write")
      BY <2>2 DEF BuildRequest, ParseAnswer, SaveOld, At
    <3>2. changed[g] \in BOOLEAN
      BY <1>6 DEF AnnInv
    <3> QED
      BY <1>5, <1>6, <2>2, <3>1, <3>2, ChangedKept
  <2> QED
    BY <2>1, <2>2
<1> QED
  BY <1>1, <1>2, <1>4, <1>5, <1>7, <1>8 DEF iterVars

\* The request is made from the address as it is.
LEMMA BuildKeepsAnn ==
  ASSUME AnnInv, IInv', ObserveChange, ObserveTold, ~\E how : Halt(how), BuildRequest
  PROVE  AnnKept'
<1>1. /\ pc = "request" /\ pc' = "write" /\ UNCHANGED <<asked, readbuf, ebd>> /\ ~dangling
      /\ programinfos' = [programinfos EXCEPT ![cur].webrequest = MakeRequest(cur)]
  BY DEF BuildRequest, At, Continue, netVars, msgVars
<1>2. /\ cur \in DOMAIN programinfos /\ cur \in Guilds /\ cur' = cur /\ dangling' = dangling
      /\ DOMAIN programinfos' = DOMAIN programinfos
      /\ \A g \in DOMAIN programinfos \ {cur} : programinfos'[g] = programinfos[g]
      /\ \A g \in DOMAIN programinfos : told'[g] = told[g] /\ (g # cur => changed'[g] = changed[g])
      /\ programinfos[cur] \in ProgramInfo
  BY <1>1, OneEntry
<1>3. /\ programinfos'[cur].webrequest = MakeRequest(cur)
      /\ programinfos'[cur].serverip = programinfos[cur].serverip
      /\ programinfos'[cur].serverport = programinfos[cur].serverport
      /\ programinfos'[cur].serverdata = programinfos[cur].serverdata
      /\ programinfos'[cur].oldserver = programinfos[cur].oldserver
  BY <1>1, <1>2 DEF ProgramInfo
<1>4. AsksForAddress'
  BY <1>1, <1>2, <1>3 DEF AnnInv, AsksForAddress, MakeRequest
<1>5. FreshUnlessChanged'
  BY <1>1, <1>2 DEF AnnInv, FreshUnlessChanged
<1>6. Remembered'
  BY <1>1, <1>2, <1>3 DEF AnnInv, Remembered, Comparing
<1>7. ToldSoFar'
  BY <1>1 DEF ToldSoFar, Comparing
<1>8. NamesToTell'
  BY <1>1 DEF NamesToTell, SaysWho
<1> QED
  BY <1>1, <1>4, <1>5, <1>6, <1>7, <1>8 DEF AnnKept

\* It is sent, or lost, and an answer waited for.
LEMMA AskKeepsAnn ==
  ASSUME AnnInv, IInv', ObserveChange, ObserveTold, ~\E how : Halt(how),
         WriteRequest \/ AwaitDone
  PROVE  AnnKept'
<1>1. /\ UNCHANGED <<programinfos, cur, dangling, ebd, readbuf>>
      /\ pc \in {"write", "wait"} /\ pc' \in {"wait", "parse"}
      /\ pc = "write" => ~dangling /\ asked' \in {programinfos[cur].webrequest, None}
      /\ pc # "write" => asked' = asked
  BY DEF WriteRequest, AwaitDone, At, Continue, regVars, iterVars, msgVars, netVars
<1>2. \A g \in DOMAIN programinfos : changed'[g] = changed[g] /\ told'[g] = told[g]
  BY <1>1, QuietStep
<1>3. ~dangling => cur \in DOMAIN programinfos
  BY <1>1 DEF AnnInv, IInv, CoreInv, IteratorValid, Visit
<1>4. AsksForAddress'
  BY <1>1, <1>2, <1>3 DEF AnnInv, AsksForAddress, MakeRequest
<1>5. FreshUnlessChanged'
  BY <1>1, <1>2 DEF AnnInv, FreshUnlessChanged
<1>6. Remembered'
  BY <1>1, <1>2 DEF AnnInv, Remembered, Comparing
<1>7. ToldSoFar'
  BY <1>1 DEF ToldSoFar, Comparing
<1>8. NamesToTell'
  BY <1>1 DEF NamesToTell, SaysWho
<1> QED
  BY <1>1, <1>4, <1>5, <1>6, <1>7, <1>8 DEF AnnKept

\* The answer is about the address, unless that has changed since.
LEMMA ParseKeepsAnn ==
  ASSUME AnnInv, IInv', ObserveChange, ObserveTold, ~\E how : Halt(how), ParseAnswer
  PROVE  AnnKept'
<1>1. /\ pc = "parse" /\ pc' = "automsg" /\ UNCHANGED ebd /\ ~dangling /\ readbuf # None
      /\ programinfos' = [programinfos EXCEPT ![cur].serverdata = readbuf]
  BY DEF ParseAnswer, At, Continue, msgVars
<1>2. /\ cur \in DOMAIN programinfos /\ cur \in Guilds /\ cur' = cur /\ dangling' = dangling
      /\ DOMAIN programinfos' = DOMAIN programinfos
      /\ \A g \in DOMAIN programinfos \ {cur} : programinfos'[g] = programinfos[g]
      /\ \A g \in DOMAIN programinfos : told'[g] = told[g] /\ changed'[g] = changed[g]
      /\ programinfos[cur] \in ProgramInfo
  BY <1>1, OneEntry DEF BuildRequest, At
<1>3. /\ programinfos'[cur].serverip = programinfos[cur].serverip
      /\ programinfos'[cur].serverport = programinfos[cur].serverport
      /\ programinfos'[cur].serverdata = readbuf
      /\ programinfos'[cur].oldserver = programinfos[cur].oldserver
  BY <1>1, <1>2 DEF ProgramInfo
<1>4. ~changed[cur] => readbuf.about = MakeRequest(cur)
  BY <1>1 DEF AnnInv, AsksForAddress
<1>5. AsksForAddress'
  BY <1>1 DEF AsksForAddress
<1>6. FreshUnlessChanged'
  BY <1>1, <1>2, <1>3, <1>4 DEF AnnInv, FreshUnlessChanged, MakeRequest
<1>7. Remembered'
  BY <1>1, <1>2 DEF AnnInv, Remembered, Comparing
<1>8. ToldSoFar'
  <2>1. Agrees(told[cur], programinfos[cur].oldserver)
    BY <1>1, <1>2 DEF AnnInv, Remembered, Comparing
  <2> QED
    BY <1>1, <1>2, <1>3, <2>1 DEF ToldSoFar
<1>9. NamesToTell'
  BY <1>1 DEF NamesToTell, SaysWho
<1> QED
  BY <1>1, <1>5, <1>6, <1>7, <1>8, <1>9 DEF AnnKept

\* sendautomsg writes no entry; what it tells is of the guild under the iterator.
LEMMA Telling ==
  ASSUME AnnInv, ObserveChange, ObserveTold, ~\E how : Halt(how),
         DecideAutoMsg \/ SendAutoMsg
  PROVE  /\ UNCHANGED <<programinfos, cur, dangling, asked, readbuf>> /\ pc' \in {"send", "save"}
         /\ pc' # pc
         /\ \A g \in DOMAIN programinfos :
              /\ changed'[g] = changed[g]
              /\ told'[g] = IF cur = g /\ ~dangling THEN Follow(g) ELSE told[g]
<1>1. /\ UNCHANGED <<programinfos, cur, dangling, asked, readbuf>>
      /\ pc \in {"automsg", "send"} /\ pc' \in {"send", "save"} /\ pc' # pc
  BY DEF DecideAutoMsg, SendAutoMsg, At, Continue, regVars, iterVars, netVars
<1>2. ASSUME NEW g \in DOMAIN programinfos
      PROVE  changed'[g] = changed[g] /\ told'[g] = IF cur = g /\ ~dangling THEN Follow(g) ELSE told[g]
  <2>1. g \in Guilds /\ Stays(g) /\ ~Joins(g) /\ Address(g)' = Address(g) /\ changed[g] \in BOOLEAN
    BY <1>1 DEF AnnInv, IInv, CoreInv, TypeOK, Stays, Joins, Address
  <2>2. changed'[g] = changed[g]
    BY <1>1, <2>1, ChangedKept
  <2>3. told'[g] = IF cur = g /\ ~dangling THEN Follow(g) ELSE told[g]
    BY <1>1, <2>1 DEF ObserveTold
  <2> QED
    BY <2>2, <2>3
<1> QED
  BY <1>1, <1>2

\* What remains when it has told: the parts about the other guilds.
LEMMA TellingKeepsAnn ==
  ASSUME AnnInv, IInv', ObserveChange, ObserveTold, ~\E how : Halt(how),
         DecideAutoMsg \/ SendAutoMsg,
         pc' = "send" => ebd' \in Message,
         ~dangling => Agrees(told'[cur], IF pc' = "save" THEN programinfos[cur].serverdata
                                                      ELSE programinfos[cur].oldserver),
         NamesToTell'
  PROVE  AnnKept'
<1>1. /\ UNCHANGED <<programinfos, cur, dangling, asked, readbuf>>
      /\ pc \in {"automsg", "send"} /\ pc' \in {"send", "save"}
      /\ \A g \in DOMAIN programinfos : changed'[g] = changed[g]
      /\ \A g \in DOMAIN programinfos : cur # g \/ dangling => told'[g] = told[g]
  BY Telling DEF DecideAutoMsg, SendAutoMsg, At
<1>2. AsksForAddress'
  BY <1>1 DEF AsksForAddress
<1>3. FreshUnlessChanged'
  BY <1>1 DEF AnnInv, FreshUnlessChanged
<1>4. Remembered'
  BY <1>1 DEF AnnInv, Remembered, Comparing
<1>5. ToldSoFar'
  BY <1>1 DEF ToldSoFar, Comparing
<1> QED
  BY <1>2, <1>3, <1>4, <1>5 DEF AnnKept

\* Where sendautomsg reads a count it reads the names, too.
LEMMA DifferentCounts ==
  ASSUME AnnInv, NEW g \in DOMAIN programinfos, Readable(g), CountsDiffer(g)
  PROVE  /\ Named(programinfos[g].serverdata) /\ Named(programinfos[g].oldserver)
         /\ Count(programinfos[g].serverdata) # Count(programinfos[g].oldserver)
<1> DEFINE new == programinfos[g].serverdata
           old == programinfos[g].oldserver
<1>1. new \in Snapshot \cup {None} /\ old \in Snapshot \cup {None}
  BY CountIsNat DEF ProgramInfo
<1>2. /\ new # None /\ new.says.now # None /\ Len(new.says.sample) >= new.says.now
      /\ old # None => old.says.now # None /\ Len(old.says.sample) >= old.says.now
  BY DEF Readable, PlayersOld
<1>3. \A server \in Snapshot : server.says.now \in Nat \cup {None}
  BY DEF Snapshot, Report
<1>4. new.says.now # (IF old = None THEN 0 ELSE old.says.now)
  BY DEF CountsDiffer, PlayersOld
<1> HIDE DEF new, old
<1>5. Named(new) /\ Named(old)
  BY <1>1, <1>2, <1>3 DEF Named
<1>6. Count(new) # Count(old)
  BY <1>2, <1>4 DEF Count
<1> QED
  BY <1>5, <1>6 DEF new, old

\* If the counts differ somebody is named; if no name is ambiguous all are.
LEMMA DifferenceTold ==
  ASSUME AnnInv, NEW g \in DOMAIN programinfos, Readable(g), CountsDiffer(g)
  PROVE  /\ PlayersDiff(g) # {}
         /\ ~Ambiguous(programinfos[g].serverdata) /\ ~Ambiguous(programinfos[g].oldserver)
              => PlayersDiff(g) = Differ(programinfos[g].oldserver, programinfos[g].serverdata)
<1> DEFINE new == programinfos[g].serverdata
           old == programinfos[g].oldserver
<1>1. Named(new) /\ Named(old) /\ Count(new) # Count(old)
  BY DifferentCounts
<1>2. PlayersDiff(g) = {n \in Names : Times(old, n) # Times(new, n)}
  BY DEF PlayersDiff
<1> HIDE DEF new, old
<1>3. PlayersDiff(g) # {}
  <2> SUFFICES ASSUME \A n \in Names : Times(new, n) = Times(old, n) PROVE FALSE
    BY <1>2
  <2> QED
    BY <1>1, SameTimesSameCount
<1>4. ASSUME ~Ambiguous(new), ~Ambiguous(old) PROVE PlayersDiff(g) = Differ(old, new)
  <2>1. \A n \in Names : /\ Times(new, n) = IF n \in NamesOf(new) THEN 1 ELSE 0
                         /\ Times(old, n) = IF n \in NamesOf(old) THEN 1 ELSE 0
    BY <1>1, <1>4, NamedOnce
  <2>2. NamesOf(new) \subseteq Names /\ NamesOf(old) \subseteq Names
    BY DEF NamesOf
  <2>3. \A n \in Names : Times(old, n) # Times(new, n) <=> n \in Differ(old, new)
    BY <2>1 DEF Differ
  <2> QED
    BY <1>2, <2>2, <2>3 DEF Differ
<1> QED
  BY <1>3, <1>4 DEF new, old

\* No message: nobody to tell, or the same count as before.
LEMMA DecideKeepsAnn ==
  ASSUME AnnInv, IInv', ObserveChange, ObserveTold, ~\E how : Halt(how), DecideAutoMsg
  PROVE  AnnKept'
<1>1. /\ pc = "automsg"
      /\ pc' = IF Wanted(cur) /\ CountsDiffer(cur) THEN "send" ELSE "save"
      /\ Wanted(cur) => Readable(cur)
  BY DEF DecideAutoMsg, At, Continue
<1>2. pc' = "send" => ebd' \in Message
  <2> DEFINE more == programinfos[cur].serverdata.says.now > PlayersOld(cur)
             names == PlayersDiff(cur)
  <2>1. more \in BOOLEAN /\ names \in SUBSET Names
    BY DEF PlayersDiff
  <2>2. pc' = "send" => ebd' = [joined |-> more, names |-> names]
    BY <1>1 DEF DecideAutoMsg
  <2> HIDE DEF more, names
  <2> QED
    BY <2>1, <2>2 DEF Message
<1> DEFINE new == programinfos[cur].serverdata
           old == programinfos[cur].oldserver
           differ == ~CountsDiffer(cur) /\ NamesOf(old) # NamesOf(new)
<1>3. ASSUME ~dangling
      PROVE  /\ cur \in DOMAIN programinfos /\ Agrees(told[cur], old)
             /\ Wanted(cur) =>
                  /\ told'[cur].count = told[cur].count /\ told'[cur].names = told[cur].names
                  /\ told'[cur].lost = (told[cur].lost \/ Ambiguous(new) \/ differ)
             /\ ~Wanted(cur) => Agrees(told'[cur], new)
  <2>1. cur \in DOMAIN programinfos /\ cur \in Guilds
    BY <1>1, <1>3 DEF AnnInv, IInv, CoreInv, IteratorValid, Visit
  <2>2. told'[cur] = Follow(cur) /\ told[cur] \in Follower
    BY <1>3, <2>1, Telling DEF AnnInv
  <2>3. Agrees(told[cur], old)
    BY <1>1, <1>3 DEF AnnInv, ToldSoFar, Comparing
  <2>4. CASE ~Wanted(cur)
    <3>1. told'[cur] = [count |-> Count(new), names |-> NamesOf(new), lost |-> Ambiguous(new)]
      BY <1>1, <2>2, <2>4 DEF Follow
    <3> HIDE DEF new
    <3> QED
      BY <2>1, <2>3, <2>4, <3>1 DEF Agrees
  <2>5. CASE Wanted(cur)
    <3>1. told'[cur] = [told[cur] EXCEPT !.lost = told[cur].lost \/ Ambiguous(new) \/ differ]
      BY <1>1, <2>2, <2>5 DEF Follow
    <3> HIDE DEF new, differ
    <3> QED
      BY <2>1, <2>2, <2>3, <2>5, <3>1 DEF Follower
  <2> QED
    BY <2>4, <2>5
<1>4. ASSUME ~dangling PROVE Agrees(told'[cur], IF pc' = "save" THEN new ELSE old)
  <2>1. CASE ~Wanted(cur)
    BY <1>1, <1>3, <1>4, <2>1
  <2>2. CASE Wanted(cur) /\ CountsDiffer(cur)
    <3>1. pc' # "save"
      BY <1>1, <2>2
    <3> HIDE DEF new, old, differ
    <3> QED
      BY <1>3, <1>4, <2>2, <3>1 DEF Agrees
  <2>3. CASE Wanted(cur) /\ ~CountsDiffer(cur)
    <3>1. pc' = "save" /\ (differ <=> NamesOf(old) # NamesOf(new))
      BY <1>1, <2>3
    <3>2. Count(new) = Count(old)
      BY <1>1, <2>3 DEF Readable, CountsDiffer, PlayersOld, Count
    <3> HIDE DEF new, old, differ
    <3> QED
      BY <1>3, <1>4, <2>3, <3>1, <3>2 DEF Agrees
  <2> QED
    BY <2>1, <2>2, <2>3
<1>5. NamesToTell'
  <2> SUFFICES ASSUME pc' = "send"
               PROVE  /\ ebd'.names # {}
                      /\ ~dangling /\ ~told'[cur].lost =>
                           ebd'.names = Differ(old, new) /\ ~Ambiguous(new)
    BY Telling DEF NamesToTell, SaysWho
  <2>1. Wanted(cur) /\ CountsDiffer(cur) /\ Readable(cur)
    BY <1>1
  <2>2. cur \in DOMAIN programinfos /\ ebd'.names = PlayersDiff(cur)
    BY <2>1 DEF DecideAutoMsg, Wanted
  <2>3. ebd'.names # {}
    BY <2>1, <2>2, DifferenceTold
  <2>4. ASSUME ~dangling, ~told'[cur].lost
        PROVE  ebd'.names = Differ(old, new) /\ ~Ambiguous(new)
    <3>1. ~Ambiguous(new) /\ ~told[cur].lost
      BY <1>3, <2>1, <2>4
    <3>2. ~Ambiguous(old)
      BY <1>3, <2>4, <3>1 DEF Agrees
    <3> QED
      BY <2>1, <2>2, <3>1, <3>2, DifferenceTold
  <2> QED
    BY <2>3, <2>4
<1> QED
  BY <1>2, <1>4, <1>5, TellingKeepsAnn

\* The message tells the difference.
LEMMA SendKeepsAnn ==
  ASSUME AnnInv, IInv', ObserveChange, ObserveTold, ~\E how : Halt(how), SendAutoMsg
  PROVE  AnnKept'
<1>1. pc = "send" /\ pc' = "save"
  BY DEF SendAutoMsg, At, Continue
<1>2. ASSUME ~dangling
      PROVE  Agrees(told'[cur], programinfos[cur].serverdata)
  <2>1. cur \in DOMAIN programinfos /\ cur \in Guilds
    BY <1>1, <1>2 DEF AnnInv, IInv, CoreInv, IteratorValid, Visit
  <2>2. told'[cur] = Follow(cur) /\ told[cur] \in Follower
    BY <1>2, <2>1, Telling DEF AnnInv
  <2>3. Agrees(told[cur], programinfos[cur].oldserver)
    BY <1>1, <1>2 DEF AnnInv, ToldSoFar, Comparing
  <2>4. /\ Count(programinfos[cur].serverdata) \in Nat
        /\ Count(programinfos[cur].oldserver) \in Nat
    BY <2>1, CountIsNat
  <2> DEFINE new == programinfos[cur].serverdata
             old == programinfos[cur].oldserver
  <2>5. /\ told'[cur].count = told[cur].count + Count(new) - Count(old)
        /\ told'[cur].names = (told[cur].names \ ebd.names) \cup (ebd.names \ told[cur].names)
        /\ told'[cur].lost = told[cur].lost
    BY <1>1, <2>2 DEF Follow, Follower
  <2>6. ~told[cur].lost => ebd.names = Differ(old, new) /\ ~Ambiguous(new)
    BY <1>1, <1>2 DEF AnnInv, NamesToTell
  <2> HIDE DEF new, old
  <2>7. ~told[cur].lost => told'[cur].names = NamesOf(new)
    <3>1. ~told[cur].lost => told[cur].names = NamesOf(old)
      BY <2>3 DEF Agrees, old
    <3> QED
      BY <2>5, <2>6, <3>1 DEF Differ
  <2>8. told'[cur].count = Count(new)
    BY <2>3, <2>4, <2>5 DEF Agrees, new, old
  <2> QED
    BY <2>5, <2>6, <2>7, <2>8 DEF Agrees, new
<1>3. NamesToTell'
  BY <1>1 DEF NamesToTell, SaysWho
<1> QED
  BY <1>1, <1>2, <1>3, TellingKeepsAnn

\* The answer becomes the old one, for the next difference.
LEMMA SaveKeepsAnn ==
  ASSUME AnnInv, IInv', ObserveChange, ObserveTold, ~\E how : Halt(how), SaveOld
  PROVE  AnnKept'
<1>1. /\ pc = "save" /\ pc' = "next" /\ ~dangling
      /\ programinfos' = [programinfos EXCEPT ![cur].oldserver = programinfos[cur].serverdata]
  BY DEF SaveOld, At, Continue
<1>2. /\ cur \in DOMAIN programinfos /\ cur \in Guilds /\ cur' = cur /\ dangling' = dangling
      /\ DOMAIN programinfos' = DOMAIN programinfos
      /\ \A g \in DOMAIN programinfos \ {cur} : programinfos'[g] = programinfos[g]
      /\ \A g \in DOMAIN programinfos : told'[g] = told[g] /\ changed'[g] = changed[g]
      /\ programinfos[cur] \in ProgramInfo
  BY <1>1, OneEntry DEF BuildRequest, At
<1>3. /\ programinfos'[cur].serverip = programinfos[cur].serverip
      /\ programinfos'[cur].serverport = programinfos[cur].serverport
      /\ programinfos'[cur].serverdata = programinfos[cur].serverdata
      /\ programinfos'[cur].oldserver = programinfos[cur].serverdata
  BY <1>1, <1>2 DEF ProgramInfo
<1>4. Agrees(told[cur], programinfos[cur].serverdata)
  BY <1>1 DEF AnnInv, ToldSoFar, Comparing
<1>5. AsksForAddress'
  BY <1>1 DEF AsksForAddress
<1>6. FreshUnlessChanged'
  BY <1>1, <1>2, <1>3 DEF AnnInv, FreshUnlessChanged
<1>7. Remembered'
  BY <1>1, <1>2, <1>3, <1>4 DEF AnnInv, Remembered, Comparing
<1>8. ToldSoFar'
  BY <1>1 DEF ToldSoFar, Comparing
<1>9. NamesToTell'
  BY <1>1 DEF NamesToTell, SaysWho
<1> QED
  BY <1>1, <1>5, <1>6, <1>7, <1>8, <1>9 DEF AnnKept

\* The context thread answers what was asked.
LEMMA NetworkKeepsAnn ==
  ASSUME AnnInv, IInv', ObserveChange, ObserveTold, ReceiveBody \/ ReadFinished
  PROVE  AnnKept'
<1>1. /\ UNCHANGED <<programinfos, pc, cur, dangling, ebd>>
      /\ asked' \in {asked, None}
      /\ readbuf' = readbuf \/ (asked # None /\ readbuf'.about = asked)
  BY DEF ReceiveBody, ReadFinished, regVars, iterVars, msgVars
<1>2. pc \in {"request", "write"} => readbuf' = readbuf
  BY DEF ReceiveBody, ReadFinished, AnnInv, AsksForAddress
<1>3. \A g \in DOMAIN programinfos : changed'[g] = changed[g] /\ told'[g] = told[g]
  BY <1>1, QuietStep
<1>4. pc \in Visit /\ ~dangling => cur \in DOMAIN programinfos
  BY DEF AnnInv, IInv, CoreInv, IteratorValid
<1>5. AsksForAddress'
  BY <1>1, <1>2, <1>3, <1>4 DEF AnnInv, AsksForAddress, MakeRequest, Visit
<1>6. FreshUnlessChanged'
  BY <1>1, <1>3 DEF AnnInv, FreshUnlessChanged
<1>7. Remembered'
  BY <1>1, <1>3 DEF AnnInv, Remembered, Comparing
<1>8. ToldSoFar'
  BY <1>1, <1>3, <1>4 DEF AnnInv, ToldSoFar, Comparing, Visit
<1>9. NamesToTell'
  BY <1>1, <1>3, <1>4 DEF AnnInv, NamesToTell, SaysWho, Visit
<1> QED
  BY <1>1, <1>5, <1>6, <1>7, <1>8, <1>9 DEF AnnInv, AnnKept

-----------------------------------------------------------------------------
(* The theorems.                                                           *)

LEMMA AnnInitInv == AnnInit => AnnInv
<1> SUFFICES ASSUME AnnInit PROVE AnnInv
  OBVIOUS
<1> USE DEF AnnInit
<1>1. IInv
  BY InitEstablishes
<1>2. DOMAIN programinfos = {} /\ pc = "resolve"
  BY DEF Init
<1>3. changed \in [Guilds -> BOOLEAN] /\ told \in [Guilds -> Follower]
  BY DEF Unaware, Follower
<1> QED
  BY <1>1, <1>2, <1>3 DEF AnnInv, AsksForAddress, FreshUnlessChanged, Remembered, ToldSoFar, Comparing,
     NamesToTell, SaysWho

LEMMA AnnStep == AnnInv /\ [AnnNext]_annVars => AnnInv'
<1> SUFFICES ASSUME AnnInv, [AnnNext]_annVars PROVE AnnInv'
  OBVIOUS
<1>1. IInv'
  <2>1. [Next]_vars
    BY DEF AnnNext, annVars
  <2> QED
    BY <2>1, CorePreserved, DataKept, FreshKept, WaitsKept DEF AnnInv, IInv
<1>2. CASE UNCHANGED annVars
  BY <1>1, <1>2 DEF annVars, vars, AnnInv, AsksForAddress, FreshUnlessChanged, Remembered, ToldSoFar,
         Comparing, MakeRequest, NamesToTell, SaysWho
<1>3. CASE AnnNext
  <2> USE <1>1, <1>3 DEF AnnNext
  <2>1. changed' \in [Guilds -> BOOLEAN] /\ told' \in [Guilds -> Follower]
    BY ChangedKept, ToldType
  <2>2. AnnKept'
    <3>1. CASE \E how : Halt(how)
      BY <3>1, OthersKeepAnn
    <3>2. CASE ~\E how : Halt(how)
      <4> USE <3>2
      <4>1. CASE \E g \in Guilds : Event(g) \/ HandlerStep(g)
        BY <4>1, OthersKeepAnn, HandlersKeepAnn
      <4>2. CASE MainStep
        BY <4>2, LoopKeepsAnn, BuildKeepsAnn, AskKeepsAnn, ParseKeepsAnn, DecideKeepsAnn,
           SendKeepsAnn, SaveKeepsAnn DEF MainStep, JoinStop
      <4>3. CASE NetworkStep
        BY <4>3, NetworkKeepsAnn DEF NetworkStep, ReadFailed
      <4>4. CASE StopKey \/ RaceBites \/ Ended
        BY <4>4, OthersKeepAnn DEF RaceBites, Ended
      <4> QED
        BY <4>1, <4>2, <4>3, <4>4 DEF Next
    <3> QED
      BY <3>1, <3>2
  <2> QED
    BY <2>1, <2>2 DEF AnnKept, AnnInv
<1> QED
  BY <1>2, <1>3

\* AnnInv holds in every reachable state.
THEOREM AnnInductive == AnnSpec => []AnnInv
<1> QED
  BY AnnInitInv, AnnStep, PTL DEF AnnSpec

\* What the commands display is about the configured address, unless /change has
\* altered it since main() last read it, for every interleaving of its three writes
\* with the visit.
THEOREM DataIsFresh == AnnSpec => []FreshUnlessChanged
<1>1. AnnInv => FreshUnlessChanged
  BY DEF AnnInv
<1> QED
  BY <1>1, AnnInductive, PTL

\* The announced changes add up to the count the commands display, over any number
\* of polls, /home and /change calls.
THEOREM ChangesAddUp == AnnSpec => []AnnouncementsAddUp
<1>1. AnnInv => AnnouncementsAddUp
  BY DEF AnnInv, Remembered, Comparing, Agrees, AnnouncementsAddUp, Announcing
<1> QED
  BY <1>1, AnnInductive, PTL

\* And so do the names, each message read as who has left and who has joined; unless
\* names changed beside the count, or were not distinct.
THEOREM NamesAreKnown == AnnSpec => []NamesAddUp
<1>1. AnnInv => NamesAddUp
  BY DEF AnnInv, Remembered, Comparing, Agrees, NamesAddUp, Announcing
<1> QED
  BY <1>1, AnnInductive, PTL

\* No message is about nobody, for answers of any length.
THEOREM MessagesSayWho == AnnSpec => []SaysWho
<1>1. AnnInv => SaysWho
  BY DEF AnnInv, NamesToTell
<1> QED
  BY <1>1, AnnInductive, PTL

=============================================================================
