------------------------- MODULE NodeIdentity_proofs -------------------------
(***************************************************************************)
(* Proofs about NodeIdentity, for any list of configurations, any number   *)
(* of requests, preparations and starts of the service: a process speaks   *)
(* as one node, and a committed preparation used the settings of one node. *)
(***************************************************************************)
EXTENDS NodeIdentity, TLAPS

ReaderPlace == {"idle", "look", "read", "listener", "ok", "pending", "bad"}
PreparationPlace == {"new", "begin", "fetch", "prepared", "route", "check", "running", "gone"}

IdentityTypes ==
  /\ newest \in 0..Len(Issued) /\ file \in {Absent, Broken, newest}
  /\ listener \in Nat
  /\ pc \in Starting \cup {"down", "serve"}
  /\ io \in [Reader -> ReaderPlace]
  /\ got \in [Reader -> 0..Len(Issued) + 1]
  /\ at \in [Preparation -> PreparationPlace]

\* What is noted for the preparations is noted for every one of them.
NotedForAll ==
  /\ asked = [p \in Preparation |-> asked[p]]
  /\ node = [p \in Preparation |-> node[p]]
  /\ used = [p \in Preparation |-> used[p]]

\* What a reader has read of config.yml is not newer than what was written.
ReadsInOrder == \A r \in Reader : got[r] \in Config => got[r] <= newest

\* The node n had been issued when configuration c was.
IssuedBy(n, c) == \E b \in Config : b <= c /\ Issued[b].id = n

Latched == identity.id # None

LatchKnown ==
  /\ Bound => Latched
  /\ Latched => IssuedBy(identity.id, newest)

\* Requests are served after the start, and the process has not spoken before it registers.
Quiet ==
  /\ pc # "serve" => \A v \in Version : io[v] = "idle"
  /\ pc \in {"down", "boot", "latch", "manager", "match"} => said = {}
  /\ said \subseteq {config.id}

\* As long as config.yml is not removed during a start, the latch is not left open.
FileThere ==
  /\ pc \in Starting \ {"boot"} => file # Absent
  /\ pc = "boot" => io[Main] \in {"read", "listener"}
  /\ pc = "boot" /\ io[Main] = "listener" /\ got[Main] # Absent => file # Absent
  /\ pc \in Starting => io[Main] # "pending"

\* Main reads config.yml for the latch, for the process manager and for the latch again: if both
\* ends give the same node, so does what was read in between.
InBetween(c) ==
  /\ c <= newest /\ IssuedBy(identity.id, c)
  /\ io[Main] = "listener" /\ got[Main] \in Config => c <= got[Main]

MainKnows ==
  /\ pc = "latch" /\ io[Main] = "ok" => Latched
  /\ pc = "manager" => Latched
  /\ pc = "manager" /\ io[Main] = "listener" /\ got[Main] \in Config
       => IssuedBy(identity.id, got[Main])
  /\ pc = "match" => Latched
  /\ pc = "match" /\ reporter # None => \E c \in Config : Issued[c].id = reporter /\ InBetween(c)
  /\ pc = "match" /\ io[Main] = "ok" => reporter \in {None, identity.id}
  /\ pc \in {"register", "profile", "server", "serve"} =>
       Latched /\ config.id = identity.id /\ reporter \in {None, identity.id}

\* A preparation began under configuration b; its settings were fetched under later ones, and
\* its commit reads a later one still.
Ident(c) == [id |-> Issued[c].id, panel |-> Issued[c].panel]

FetchedUnder(p, b, u) ==
  \E c \in Config :
    /\ b <= c /\ c <= newest /\ u = Ident(c)
    /\ at[p] = "check" /\ io[p] = "listener" /\ got[p] \in Config => c <= got[p]

PreparedUnder(p) ==
  \E b \in Config :
    /\ b <= newest /\ node[p].id = Issued[b].id /\ node[p].panel = Issued[b].panel
    /\ \A u \in used[p] : FetchedUnder(p, b, u)

PreparationKnown(p) ==
  /\ at[p] # "new" => asked[p] \in Node
  /\ at[p] \in {"new", "begin"} => used[p] = {}
  /\ at[p] \in {"prepared", "route", "check", "running"} => used[p] # {}
  /\ at[p] \in {"fetch", "prepared", "route", "check", "running"} => PreparedUnder(p)

Preparations == \A p \in Preparation : PreparationKnown(p)

\* What CommittedUnderOneNode says of one preparation.
UsedItsOwn(p) == used[p] = {[id |-> node[p].id, panel |-> node[p].panel]}

IdentityInv ==
  /\ IdentityTypes /\ NotedForAll /\ ReadsInOrder /\ LatchKnown
  /\ Preparations /\ CommittedUnderOneNode
  /\ Careful => FileThere /\ MainKnows /\ Quiet

LEMMA BoundsOfFiles ==
  /\ Len(Issued) \in Nat /\ Config = 1..Len(Issued)
  /\ Absent = 0 /\ Broken = Len(Issued) + 1
  /\ Absent \notin Config /\ Broken \notin Config /\ Broken # Absent
  BY DEF Config, Absent, Broken

LEMMA ReadersDiffer ==
  /\ Main \in Reader /\ Version \subseteq Reader /\ Preparation \subseteq Reader
  /\ Main \notin Version /\ Main \notin Preparation /\ \A p \in Preparation : p \notin Version
  BY IdentityAssumption DEF Reader

\* A reader that learns of a node has read a configuration of it.
LEMMA FromEnvSays ==
  \A c \in 0..Len(Issued) + 1 :
    FromEnv(c).id # None =>
      /\ c \in Config /\ ~FromEnv(c).error
      /\ FromEnv(c).id = Issued[c].id /\ FromEnv(c).panel = Issued[c].panel
<1> SUFFICES ASSUME NEW c \in 0..Len(Issued) + 1, FromEnv(c).id # None
             PROVE  /\ c \in Config /\ ~FromEnv(c).error
                    /\ FromEnv(c).id = Issued[c].id /\ FromEnv(c).panel = Issued[c].panel
  OBVIOUS
<1>1. c # Absent
  BY DEF FromEnv, Unknown
<1>2. c # Broken /\ listener # 0
  BY <1>1 DEF FromEnv, Unknown
<1>3. c \in Config
  BY <1>1, <1>2, BoundsOfFiles
<1> QED BY <1>1, <1>2, <1>3 DEF FromEnv

\* Changing one place of a function leaves it a function on the same set.
LEMMA StillFunction ==
  ASSUME NEW f, NEW g, NEW S, NEW y, NEW v, f = [x \in S |-> f[x]], g = [f EXCEPT ![y] = v]
  PROVE  g = [x \in S |-> g[x]]
  OBVIOUS

\* ... and gives it the value at that place.
LEMMA ValueThere ==
  ASSUME NEW f, NEW g, NEW S, NEW y \in S, NEW v, f = [x \in S |-> f[x]], g = [f EXCEPT ![y] = v]
  PROVE  g[y] = v
<1>1. DOMAIN f = S
  BY Zenon
<1> QED BY <1>1

\* Configurations are issued in an order in which a node, once replaced, does not come back.
LEMMA SameNodeBetween ==
  ASSUME NEW n, NEW c \in Config, NEW d \in Config, IssuedBy(n, c), c <= d, Issued[d].id = n
  PROVE  Issued[c].id = n
<1>1. PICK b \in Config : b <= c /\ Issued[b].id = n
  BY DEF IssuedBy
<1>2. c \in b..d
  BY <1>1, BoundsOfFiles
<1> QED BY <1>1, <1>2, IdentityAssumption

\* Sequences, as far as they are needed here.
LEMMA ElementOfSeq ==
  ASSUME NEW R, NEW s \in Seq(R), NEW i \in 1..Len(s)
  PROVE  s[i] \in R
  OBVIOUS

\* A configuration is its node and its panel.
LEMMA SameConfiguration ==
  ASSUME NEW c \in Config, NEW d \in Config,
         Issued[c].id = Issued[d].id, Issued[c].panel = Issued[d].panel
  PROVE  Issued[c] = Issued[d]
<1>1. Issued \in Seq([id : STRING, panel : STRING])
  BY IdentityAssumption
<1>2. Issued[c] \in [id : STRING, panel : STRING] /\ Issued[d] \in [id : STRING, panel : STRING]
  BY <1>1, BoundsOfFiles, ElementOfSeq
<1> QED BY <1>2

\* Nor does a configuration come back.
LEMMA SameConfigurationBetween ==
  ASSUME NEW c \in Config, NEW d \in Config, Issued[c] = Issued[d], NEW e \in c..d
  PROVE  Issued[e] = Issued[c]
  BY IdentityAssumption

\* What is known of the settings of a preparation stays known as configurations are written,
\* and its commit reads a configuration that is not older than the newest.
LEMMA StillPreparedUnder ==
  ASSUME NEW p \in Preparation, PreparedUnder(p),
         newest \in Nat, newest' \in Nat, newest <= newest',
         node'[p] = node[p], used'[p] = used[p],
         at'[p] = "check" /\ io'[p] = "listener" /\ got'[p] \in Config =>
           \/ newest <= got'[p]
           \/ at[p] = "check" /\ io[p] = "listener" /\ got'[p] = got[p]
  PROVE  PreparedUnder(p)'
<1>1. PICK b \in Config :
        /\ b <= newest /\ node[p].id = Issued[b].id /\ node[p].panel = Issued[b].panel
        /\ \A u \in used[p] : FetchedUnder(p, b, u)
  BY DEF PreparedUnder
<1>2. b <= newest' /\ node'[p].id = Issued[b].id /\ node'[p].panel = Issued[b].panel
  BY <1>1, BoundsOfFiles
<1>3. ASSUME NEW u \in used'[p] PROVE FetchedUnder(p, b, u)'
  <2>1. PICK c \in Config :
          /\ b <= c /\ c <= newest /\ u = Ident(c)
          /\ at[p] = "check" /\ io[p] = "listener" /\ got[p] \in Config => c <= got[p]
    BY <1>1, <1>3 DEF FetchedUnder
  <2>2. c <= newest'
    BY <2>1, BoundsOfFiles
  <2>3. at'[p] = "check" /\ io'[p] = "listener" /\ got'[p] \in Config => c <= got'[p]
    BY <2>1, BoundsOfFiles
  <2> QED BY <2>1, <2>2, <2>3 DEF FetchedUnder
<1> QED BY <1>2, <1>3 DEF PreparedUnder

\* The same for all that is known of a preparation, when a step is not its own ...
LEMMA Undisturbed ==
  ASSUME NEW p \in Preparation, PreparationKnown(p),
         newest \in Nat, newest' \in Nat, newest <= newest',
         at'[p] = at[p], asked'[p] = asked[p], node'[p] = node[p], used'[p] = used[p],
         io'[p] = "listener" /\ got'[p] \in Config =>
           newest <= got'[p] \/ (io[p] = "listener" /\ got'[p] = got[p])
  PROVE  PreparationKnown(p)'
  BY StillPreparedUnder DEF PreparationKnown

\* ... and when the process ends.
LEMMA EndedPreparation ==
  ASSUME NEW p \in Preparation, PreparationKnown(p), Ends
  PROVE  PreparationKnown(p)'
<1>1. asked'[p] = asked[p] /\ used'[p] = used[p]
  BY DEF Ends
<1>2. at'[p] = IF at[p] = "new" THEN "new" ELSE "gone"
  BY DEF Ends
<1>3. CASE at[p] = "new"
  BY <1>1, <1>2, <1>3 DEF PreparationKnown
<1>4. CASE at[p] # "new"
  BY <1>1, <1>2, <1>4 DEF PreparationKnown
<1> QED BY <1>3, <1>4

LEMMA IdentityInit == Init => IdentityInv
<1> SUFFICES ASSUME Init PROVE IdentityInv
  OBVIOUS
<1> USE DEF Init
<1>1. IdentityTypes
  BY BoundsOfFiles DEF IdentityTypes, ReaderPlace, PreparationPlace
<1>2. NotedForAll
  BY DEF NotedForAll
<1>3. ReadsInOrder
  BY BoundsOfFiles DEF ReadsInOrder
<1>4. LatchKnown
  BY DEF LatchKnown, Bound, Latched, Unbound
<1>5. Preparations /\ CommittedUnderOneNode
  BY DEF Preparations, PreparationKnown, CommittedUnderOneNode
<1>6. FileThere /\ MainKnows
  BY DEF FileThere, MainKnows, Starting
<1>7. Quiet
  BY ReadersDiffer DEF Quiet
<1> QED BY <1>1, <1>2, <1>3, <1>4, <1>5, <1>6, <1>7 DEF IdentityInv

\* Every step keeps the types.
LEMMA IdentityTypesKept ==
  ASSUME IdentityTypes, [Next]_vars
  PROVE  IdentityTypes'
<1> USE DEF files, process, reading, preparing
<1>1. ASSUME NEW c \in Config, Configured(c) PROVE IdentityTypes'
  BY <1>1 DEF Configured, Installs, IdentityTypes, Config
<1>2. ASSUME NEW content \in {Absent, Broken}, Edited(content) PROVE IdentityTypes'
  BY <1>2 DEF Edited, IdentityTypes
<1>3. CASE Projected
  BY <1>3 DEF Projected, IdentityTypes
<1>4. ASSUME NEW r \in Reader, ReadsConfig(r) PROVE IdentityTypes'
  BY <1>4, BoundsOfFiles DEF ReadsConfig, Turn, IdentityTypes, ReaderPlace
<1>5. ASSUME NEW r \in Reader, LooksForConfig(r) PROVE IdentityTypes'
  BY <1>5 DEF LooksForConfig, Turn, IdentityTypes, ReaderPlace
<1>6. ASSUME NEW r \in Reader, Binds(r) PROVE IdentityTypes'
  <2>1. Turn(r, "ok") \/ Turn(r, "bad")
    BY <1>6 DEF Binds
  <2>2. io' \in [Reader -> ReaderPlace]
    BY <2>1 DEF Turn, IdentityTypes, ReaderPlace
  <2>3. UNCHANGED <<files, process, got, preparing>>
    BY <1>6 DEF Binds
  <2> QED BY <2>2, <2>3 DEF IdentityTypes
<1>7. CASE Boots
  BY <1>7 DEF Boots, Enters, Turn, IdentityTypes, Starting, Reader, ReaderPlace
<1>8. CASE ReadsAddress
  BY <1>8, BoundsOfFiles DEF ReadsAddress, Enters, Turn, Ends, IdentityTypes, Starting,
       ReaderPlace, PreparationPlace
<1>9. CASE LatchesIdentity
  BY <1>9, BoundsOfFiles DEF LatchesIdentity, Enters, Turn, Ends, IdentityTypes, Starting,
       ReaderPlace, PreparationPlace
<1>10. CASE MakesManager
  BY <1>10 DEF MakesManager, Enters, Turn, IdentityTypes, Starting, Reader, ReaderPlace
<1>11. CASE MatchesIdentity
  BY <1>11, BoundsOfFiles DEF MatchesIdentity, Enters, Turn, Ends, IdentityTypes, Starting,
       ReaderPlace, PreparationPlace
<1>12. CASE Registers
  BY <1>12, BoundsOfFiles DEF Registers, Enters, Turn, Ends, GoesOnWithout, IdentityTypes,
       Starting, ReaderPlace, PreparationPlace
<1>13. CASE FetchesProfile
  BY <1>13, BoundsOfFiles DEF FetchesProfile, Enters, Turn, Ends, GoesOnWithout,
       IdentityTypes, Starting, ReaderPlace, PreparationPlace
<1>14. CASE MakesServer
  BY <1>14, BoundsOfFiles DEF MakesServer, Enters, Turn, Ends, IdentityTypes, ReaderPlace,
       PreparationPlace
<1>15. CASE SendsHeartbeat
  BY <1>15 DEF SendsHeartbeat, IdentityTypes
<1>16. CASE ReportsArtifacts
  BY <1>16 DEF ReportsArtifacts, IdentityTypes
<1>17. CASE Stops
  BY <1>17, BoundsOfFiles DEF Stops, Ends, IdentityTypes, ReaderPlace, PreparationPlace
<1>18. ASSUME NEW v \in Version, VersionAsked(v) PROVE IdentityTypes'
  BY <1>18 DEF VersionAsked, Turn, IdentityTypes, Reader, ReaderPlace
<1>19. ASSUME NEW v \in Version, VersionAnswered(v) PROVE IdentityTypes'
  BY <1>19 DEF VersionAnswered, Turn, IdentityTypes, Reader, ReaderPlace
<1>20. ASSUME NEW p \in Preparation, NEW n \in Node, PrepareAsked(p, n) PROVE IdentityTypes'
  BY <1>20 DEF PrepareAsked, Moves, Turn, IdentityTypes, Reader, ReaderPlace, PreparationPlace
<1>21. ASSUME NEW p \in Preparation, PrepareBegins(p) PROVE IdentityTypes'
  BY <1>21, BoundsOfFiles DEF PrepareBegins, Moves, Turn, IdentityTypes, Reader, ReaderPlace,
       PreparationPlace
<1>22. ASSUME NEW p \in Preparation, Fetches(p) PROVE IdentityTypes'
  BY <1>22 DEF Fetches, Moves, IdentityTypes, PreparationPlace
<1>23. ASSUME NEW p \in Preparation, PrepareAnswered(p) PROVE IdentityTypes'
  BY <1>23 DEF PrepareAnswered, Moves, IdentityTypes, PreparationPlace
<1>24. ASSUME NEW p \in Preparation, CommitAsked(p) PROVE IdentityTypes'
  BY <1>24 DEF CommitAsked, Moves, Turn, IdentityTypes, Reader, ReaderPlace, PreparationPlace
<1>25. ASSUME NEW p \in Preparation, CommitRouted(p) PROVE IdentityTypes'
  <2>1. io' \in [Reader -> ReaderPlace]
    BY <1>25 DEF CommitRouted, Turn, IdentityTypes, ReaderPlace
  <2>2. at' \in [Preparation -> PreparationPlace]
    BY <1>25 DEF CommitRouted, Moves, IdentityTypes, PreparationPlace
  <2> QED BY <1>25, <2>1, <2>2 DEF CommitRouted, IdentityTypes
<1>26. ASSUME NEW p \in Preparation, CommitChecked(p) PROVE IdentityTypes'
  BY <1>26 DEF CommitChecked, Moves, Turn, IdentityTypes, Reader, ReaderPlace, PreparationPlace
<1>27. CASE UNCHANGED vars
  BY <1>27 DEF vars, IdentityTypes
<1> QED BY <1>1, <1>2, <1>3, <1>4, <1>5, <1>6, <1>7, <1>8, <1>9, <1>10, <1>11, <1>12, <1>13,
       <1>14, <1>15, <1>16, <1>17, <1>18, <1>19, <1>20, <1>21, <1>22, <1>23, <1>24, <1>25, <1>26,
       <1>27 DEF Next, MainStep, PreparationStep

\* What a preparation notes it notes in its own place.
LEMMA NotedKept ==
  ASSUME NotedForAll, [Next]_vars
  PROVE  NotedForAll'
<1> USE DEF files, process, reading, preparing
<1>1. ASSUME NEW c \in Config, Configured(c) PROVE NotedForAll'
  BY <1>1 DEF Configured, NotedForAll
<1>2. ASSUME NEW content \in {Absent, Broken}, Edited(content) PROVE NotedForAll'
  BY <1>2 DEF Edited, NotedForAll
<1>3. CASE Projected
  BY <1>3 DEF Projected, NotedForAll
<1>4. ASSUME NEW r \in Reader, ReadsConfig(r) PROVE NotedForAll'
  BY <1>4 DEF ReadsConfig, NotedForAll
<1>5. ASSUME NEW r \in Reader, LooksForConfig(r) PROVE NotedForAll'
  BY <1>5 DEF LooksForConfig, NotedForAll
<1>6. ASSUME NEW r \in Reader, Binds(r) PROVE NotedForAll'
  BY <1>6 DEF Binds, NotedForAll
<1>7. CASE Boots
  BY <1>7 DEF Boots, NotedForAll
<1>8. CASE ReadsAddress
  BY <1>8 DEF ReadsAddress, Ends, NotedForAll
<1>9. CASE LatchesIdentity
  BY <1>9 DEF LatchesIdentity, Ends, NotedForAll
<1>10. CASE MakesManager
  BY <1>10 DEF MakesManager, NotedForAll
<1>11. CASE MatchesIdentity
  BY <1>11 DEF MatchesIdentity, Ends, NotedForAll
<1>12. CASE Registers
  BY <1>12 DEF Registers, Ends, GoesOnWithout, NotedForAll
<1>13. CASE FetchesProfile
  BY <1>13 DEF FetchesProfile, Ends, GoesOnWithout, NotedForAll
<1>14. CASE MakesServer
  BY <1>14 DEF MakesServer, Ends, NotedForAll
<1>15. CASE SendsHeartbeat
  BY <1>15 DEF SendsHeartbeat, NotedForAll
<1>16. CASE ReportsArtifacts
  BY <1>16 DEF ReportsArtifacts, NotedForAll
<1>17. CASE Stops
  BY <1>17 DEF Stops, Ends, NotedForAll
<1>18. ASSUME NEW v \in Version, VersionAsked(v) PROVE NotedForAll'
  BY <1>18 DEF VersionAsked, NotedForAll
<1>19. ASSUME NEW v \in Version, VersionAnswered(v) PROVE NotedForAll'
  BY <1>19 DEF VersionAnswered, NotedForAll
<1>20. ASSUME NEW p \in Preparation, NEW n \in Node, PrepareAsked(p, n) PROVE NotedForAll'
  <2>1. asked' = [q \in Preparation |-> asked'[q]]
    BY <1>20 DEF PrepareAsked, NotedForAll
  <2>2. node' = node /\ used' = used
    BY <1>20 DEF PrepareAsked
  <2> QED BY <2>1, <2>2 DEF NotedForAll
<1>21. ASSUME NEW p \in Preparation, PrepareBegins(p) PROVE NotedForAll'
  <2>1. node' = [q \in Preparation |-> node'[q]]
    BY <1>21 DEF PrepareBegins, NotedForAll
  <2>2. asked' = asked /\ used' = used
    BY <1>21 DEF PrepareBegins
  <2> QED BY <2>1, <2>2 DEF NotedForAll
<1>22. ASSUME NEW p \in Preparation, Fetches(p) PROVE NotedForAll'
  <2>1. used' = [q \in Preparation |-> used'[q]]
    BY <1>22 DEF Fetches, NotedForAll
  <2>2. asked' = asked /\ node' = node
    BY <1>22 DEF Fetches
  <2> QED BY <2>1, <2>2 DEF NotedForAll
<1>23. ASSUME NEW p \in Preparation, PrepareAnswered(p) PROVE NotedForAll'
  BY <1>23 DEF PrepareAnswered, NotedForAll
<1>24. ASSUME NEW p \in Preparation, CommitAsked(p) PROVE NotedForAll'
  BY <1>24 DEF CommitAsked, NotedForAll
<1>25. ASSUME NEW p \in Preparation, CommitRouted(p) PROVE NotedForAll'
  BY <1>25 DEF CommitRouted, NotedForAll
<1>26. ASSUME NEW p \in Preparation, CommitChecked(p) PROVE NotedForAll'
  BY <1>26 DEF CommitChecked, NotedForAll
<1>27. CASE UNCHANGED vars
  BY <1>27 DEF vars, NotedForAll
<1> QED BY <1>1, <1>2, <1>3, <1>4, <1>5, <1>6, <1>7, <1>8, <1>9, <1>10, <1>11, <1>12, <1>13,
       <1>14, <1>15, <1>16, <1>17, <1>18, <1>19, <1>20, <1>21, <1>22, <1>23, <1>24, <1>25, <1>26,
       <1>27 DEF Next, MainStep, PreparationStep

\* config.yml has the newest configuration or none, and nobody reads another.
LEMMA ReadsKept ==
  ASSUME ReadsInOrder, IdentityTypes, [Next]_vars
  PROVE  ReadsInOrder'
<1> USE DEF files, process, reading, preparing
<1>1. ASSUME NEW c \in Config, Configured(c) PROVE ReadsInOrder'
  BY <1>1 DEF Configured, Installs, ReadsInOrder, IdentityTypes, Config
<1>2. ASSUME NEW content \in {Absent, Broken}, Edited(content) PROVE ReadsInOrder'
  BY <1>2 DEF Edited, ReadsInOrder
<1>3. CASE Projected
  BY <1>3 DEF Projected, ReadsInOrder
<1>4. ASSUME NEW r \in Reader, ReadsConfig(r) PROVE ReadsInOrder'
  BY <1>4, BoundsOfFiles DEF ReadsConfig, ReadsInOrder, IdentityTypes
<1>5. ASSUME NEW r \in Reader, LooksForConfig(r) PROVE ReadsInOrder'
  BY <1>5 DEF LooksForConfig, ReadsInOrder
<1>6. ASSUME NEW r \in Reader, Binds(r) PROVE ReadsInOrder'
  BY <1>6 DEF Binds, ReadsInOrder
<1>7. CASE Boots
  BY <1>7 DEF Boots, ReadsInOrder
<1>8. CASE ReadsAddress
  BY <1>8, BoundsOfFiles DEF ReadsAddress, Ends, ReadsInOrder
<1>9. CASE LatchesIdentity
  BY <1>9, BoundsOfFiles DEF LatchesIdentity, Ends, ReadsInOrder
<1>10. CASE MakesManager
  BY <1>10 DEF MakesManager, ReadsInOrder
<1>11. CASE MatchesIdentity
  BY <1>11, BoundsOfFiles DEF MatchesIdentity, Ends, ReadsInOrder
<1>12. CASE Registers
  BY <1>12, BoundsOfFiles DEF Registers, Ends, GoesOnWithout, ReadsInOrder
<1>13. CASE FetchesProfile
  BY <1>13, BoundsOfFiles DEF FetchesProfile, Ends, GoesOnWithout, ReadsInOrder
<1>14. CASE MakesServer
  BY <1>14, BoundsOfFiles DEF MakesServer, Ends, ReadsInOrder
<1>15. CASE SendsHeartbeat
  BY <1>15 DEF SendsHeartbeat, ReadsInOrder
<1>16. CASE ReportsArtifacts
  BY <1>16 DEF ReportsArtifacts, ReadsInOrder
<1>17. CASE Stops
  BY <1>17, BoundsOfFiles DEF Stops, Ends, ReadsInOrder
<1>18. ASSUME NEW v \in Version, VersionAsked(v) PROVE ReadsInOrder'
  BY <1>18 DEF VersionAsked, ReadsInOrder
<1>19. ASSUME NEW v \in Version, VersionAnswered(v) PROVE ReadsInOrder'
  BY <1>19 DEF VersionAnswered, ReadsInOrder
<1>20. ASSUME NEW p \in Preparation, NEW n \in Node, PrepareAsked(p, n) PROVE ReadsInOrder'
  BY <1>20 DEF PrepareAsked, ReadsInOrder
<1>21. ASSUME NEW p \in Preparation, PrepareBegins(p) PROVE ReadsInOrder'
  BY <1>21 DEF PrepareBegins, ReadsInOrder
<1>22. ASSUME NEW p \in Preparation, Fetches(p) PROVE ReadsInOrder'
  BY <1>22 DEF Fetches, ReadsInOrder
<1>23. ASSUME NEW p \in Preparation, PrepareAnswered(p) PROVE ReadsInOrder'
  BY <1>23 DEF PrepareAnswered, ReadsInOrder
<1>24. ASSUME NEW p \in Preparation, CommitAsked(p) PROVE ReadsInOrder'
  BY <1>24 DEF CommitAsked, ReadsInOrder
<1>25. ASSUME NEW p \in Preparation, CommitRouted(p) PROVE ReadsInOrder'
  BY <1>25 DEF CommitRouted, ReadsInOrder
<1>26. ASSUME NEW p \in Preparation, CommitChecked(p) PROVE ReadsInOrder'
  BY <1>26 DEF CommitChecked, ReadsInOrder
<1>27. CASE UNCHANGED vars
  BY <1>27 DEF vars, ReadsInOrder
<1> QED BY <1>1, <1>2, <1>3, <1>4, <1>5, <1>6, <1>7, <1>8, <1>9, <1>10, <1>11, <1>12, <1>13,
       <1>14, <1>15, <1>16, <1>17, <1>18, <1>19, <1>20, <1>21, <1>22, <1>23, <1>24, <1>25, <1>26,
       <1>27 DEF Next, MainStep, PreparationStep

\* The latch takes a node out of a configuration that a reader has read.
LEMMA LatchKept ==
  ASSUME LatchKnown, IdentityTypes, ReadsInOrder, [Next]_vars
  PROVE  LatchKnown'
<1> USE DEF files, process, reading, preparing
<1>1. ASSUME NEW c \in Config, Configured(c) PROVE LatchKnown'
  BY <1>1 DEF Configured, Installs, LatchKnown, IdentityTypes, Bound, Latched, IssuedBy, Config
<1>2. ASSUME NEW content \in {Absent, Broken}, Edited(content) PROVE LatchKnown'
  BY <1>2 DEF Edited, LatchKnown, Bound, Latched
<1>3. CASE Projected
  BY <1>3 DEF Projected, LatchKnown, Bound, Latched
<1>4. ASSUME NEW r \in Reader, ReadsConfig(r) PROVE LatchKnown'
  BY <1>4 DEF ReadsConfig, LatchKnown, Bound, Latched
<1>5. ASSUME NEW r \in Reader, LooksForConfig(r) PROVE LatchKnown'
  BY <1>5 DEF LooksForConfig, LatchKnown, Bound, Latched
<1>6. ASSUME NEW r \in Reader, Binds(r) PROVE LatchKnown'
  <2>1. newest \in Nat /\ newest' = newest /\ got[r] \in 0..Len(Issued) + 1
    BY <1>6 DEF Binds, IdentityTypes
  <2>2. CASE UNCHANGED identity
    BY <2>1, <2>2 DEF LatchKnown, Bound, Latched
  <2>3. CASE identity' = Candidate(r) /\ Result(r).id # None
    <3>1. got[r] \in Config /\ Result(r).id = Issued[got[r]].id
      BY <2>1, <2>3, FromEnvSays DEF Result
    <3>2. IssuedBy(Result(r).id, newest)
      BY <2>1, <3>1 DEF ReadsInOrder, IssuedBy
    <3>3. identity'.id = Result(r).id
      BY <2>3 DEF Candidate
    <3> QED BY <2>1, <2>3, <3>2, <3>3 DEF LatchKnown, Latched
  <2> QED BY <1>6, <2>2, <2>3 DEF Binds
<1>7. CASE Boots
  BY <1>7 DEF Boots, LatchKnown, Bound, Latched
<1>8. CASE ReadsAddress
  BY <1>8 DEF ReadsAddress, Ends, LatchKnown, Bound, Latched, Unbound
<1>9. CASE LatchesIdentity
  BY <1>9 DEF LatchesIdentity, Ends, LatchKnown, Bound, Latched, Unbound
<1>10. CASE MakesManager
  BY <1>10 DEF MakesManager, LatchKnown, Bound, Latched
<1>11. CASE MatchesIdentity
  BY <1>11 DEF MatchesIdentity, Ends, LatchKnown, Bound, Latched, Unbound
<1>12. CASE Registers
  BY <1>12 DEF Registers, Ends, GoesOnWithout, LatchKnown, Bound, Latched, Unbound
<1>13. CASE FetchesProfile
  BY <1>13 DEF FetchesProfile, Ends, GoesOnWithout, LatchKnown, Bound, Latched, Unbound
<1>14. CASE MakesServer
  BY <1>14 DEF MakesServer, Ends, LatchKnown, Bound, Latched, Unbound
<1>15. CASE SendsHeartbeat
  BY <1>15 DEF SendsHeartbeat, LatchKnown, Bound, Latched
<1>16. CASE ReportsArtifacts
  BY <1>16 DEF ReportsArtifacts, LatchKnown, Bound, Latched
<1>17. CASE Stops
  BY <1>17 DEF Stops, Ends, LatchKnown, Bound, Latched, Unbound
<1>18. ASSUME NEW v \in Version, VersionAsked(v) PROVE LatchKnown'
  BY <1>18 DEF VersionAsked, LatchKnown, Bound, Latched
<1>19. ASSUME NEW v \in Version, VersionAnswered(v) PROVE LatchKnown'
  BY <1>19 DEF VersionAnswered, LatchKnown, Bound, Latched
<1>20. ASSUME NEW p \in Preparation, NEW n \in Node, PrepareAsked(p, n) PROVE LatchKnown'
  BY <1>20 DEF PrepareAsked, LatchKnown, Bound, Latched
<1>21. ASSUME NEW p \in Preparation, PrepareBegins(p) PROVE LatchKnown'
  BY <1>21 DEF PrepareBegins, LatchKnown, Bound, Latched
<1>22. ASSUME NEW p \in Preparation, Fetches(p) PROVE LatchKnown'
  BY <1>22 DEF Fetches, LatchKnown, Bound, Latched
<1>23. ASSUME NEW p \in Preparation, PrepareAnswered(p) PROVE LatchKnown'
  BY <1>23 DEF PrepareAnswered, LatchKnown, Bound, Latched
<1>24. ASSUME NEW p \in Preparation, CommitAsked(p) PROVE LatchKnown'
  BY <1>24 DEF CommitAsked, LatchKnown, Bound, Latched
<1>25. ASSUME NEW p \in Preparation, CommitRouted(p) PROVE LatchKnown'
  BY <1>25 DEF CommitRouted, LatchKnown, Bound, Latched
<1>26. ASSUME NEW p \in Preparation, CommitChecked(p) PROVE LatchKnown'
  BY <1>26 DEF CommitChecked, LatchKnown, Bound, Latched
<1>27. CASE UNCHANGED vars
  BY <1>27 DEF vars, LatchKnown, Bound, Latched
<1> QED BY <1>1, <1>2, <1>3, <1>4, <1>5, <1>6, <1>7, <1>8, <1>9, <1>10, <1>11, <1>12, <1>13,
       <1>14, <1>15, <1>16, <1>17, <1>18, <1>19, <1>20, <1>21, <1>22, <1>23, <1>24, <1>25, <1>26,
       <1>27 DEF Next, MainStep, PreparationStep

\* What speaks before the requests are served is the configuration of main; afterwards it is the
\* reporter, which has the same node, or the latch.
LEMMA QuietKept ==
  ASSUME Quiet, Careful, IdentityTypes, MainKnows, [Next]_vars
  PROVE  Quiet'
<1> USE DEF files, process, reading, preparing
<1>1. ASSUME NEW c \in Config, Configured(c) PROVE Quiet'
  BY <1>1 DEF Configured, Quiet
<1>2. ASSUME NEW content \in {Absent, Broken}, Edited(content) PROVE Quiet'
  BY <1>2 DEF Edited, Quiet
<1>3. CASE Projected
  BY <1>3 DEF Projected, Quiet
<1>4. ASSUME NEW r \in Reader, ReadsConfig(r) PROVE Quiet'
  BY <1>4 DEF ReadsConfig, Turn, Quiet
<1>5. ASSUME NEW r \in Reader, LooksForConfig(r) PROVE Quiet'
  BY <1>5 DEF LooksForConfig, Turn, Quiet
<1>6. ASSUME NEW r \in Reader, Binds(r) PROVE Quiet'
  BY <1>6 DEF Binds, Turn, HasRead, Quiet, IdentityTypes, Reader
<1>7. CASE Boots
  BY <1>7, ReadersDiffer DEF Boots, Enters, Turn, Quiet
<1>8. CASE ReadsAddress
  BY <1>8 DEF ReadsAddress, Enters, Turn, Ends, HasRead, Quiet, IdentityTypes, Reader
<1>9. CASE LatchesIdentity
  BY <1>9 DEF LatchesIdentity, Enters, Turn, Ends, Resolved, Quiet, IdentityTypes, Reader
<1>10. CASE MakesManager
  BY <1>10 DEF MakesManager, Enters, Turn, HasRead, Quiet
<1>11. CASE MatchesIdentity
  BY <1>11 DEF MatchesIdentity, Enters, Turn, Ends, Quiet, IdentityTypes, Reader
<1>12. CASE Registers
  BY <1>12, ReadersDiffer DEF Registers, Enters, Turn, Ends, GoesOnWithout, Quiet, IdentityTypes
<1>13. CASE FetchesProfile
  BY <1>13, ReadersDiffer DEF FetchesProfile, Enters, Turn, Ends, GoesOnWithout, Quiet,
       IdentityTypes
<1>14. CASE MakesServer
  BY <1>14 DEF MakesServer, Enters, Ends, Quiet, Reader
<1>15. CASE SendsHeartbeat
  BY <1>15 DEF SendsHeartbeat, Quiet
<1>16. CASE ReportsArtifacts
  BY <1>16 DEF ReportsArtifacts, Quiet, MainKnows
<1>17. CASE Stops
  BY <1>17 DEF Stops, Ends, Quiet, Reader
<1>18. ASSUME NEW v \in Version, VersionAsked(v) PROVE Quiet'
  BY <1>18 DEF VersionAsked, Quiet
<1>19. ASSUME NEW v \in Version, VersionAnswered(v) PROVE Quiet'
  BY <1>19 DEF VersionAnswered, Resolved, Quiet, MainKnows
<1>20. ASSUME NEW p \in Preparation, NEW n \in Node, PrepareAsked(p, n) PROVE Quiet'
  BY <1>20 DEF PrepareAsked, Quiet
<1>21. ASSUME NEW p \in Preparation, PrepareBegins(p) PROVE Quiet'
  BY <1>21 DEF PrepareBegins, Turn, Quiet
<1>22. ASSUME NEW p \in Preparation, Fetches(p) PROVE Quiet'
  BY <1>22 DEF Fetches, Quiet
<1>23. ASSUME NEW p \in Preparation, PrepareAnswered(p) PROVE Quiet'
  BY <1>23 DEF PrepareAnswered, Quiet
<1>24. ASSUME NEW p \in Preparation, CommitAsked(p) PROVE Quiet'
  BY <1>24, ReadersDiffer DEF CommitAsked, Turn, Quiet
<1>25. ASSUME NEW p \in Preparation, CommitRouted(p) PROVE Quiet'
  BY <1>25 DEF CommitRouted, Turn, HasRead, Quiet, IdentityTypes, Reader
<1>26. ASSUME NEW p \in Preparation, CommitChecked(p) PROVE Quiet'
  BY <1>26 DEF CommitChecked, Turn, Quiet
<1>27. CASE UNCHANGED vars
  BY <1>27 DEF vars, Quiet
<1> QED BY <1>1, <1>2, <1>3, <1>4, <1>5, <1>6, <1>7, <1>8, <1>9, <1>10, <1>11, <1>12, <1>13,
       <1>14, <1>15, <1>16, <1>17, <1>18, <1>19, <1>20, <1>21, <1>22, <1>23, <1>24, <1>25, <1>26,
       <1>27 DEF Next, MainStep, PreparationStep

\* A start that has seen config.yml finds it each time it looks again.
LEMMA FileThereKept ==
  ASSUME FileThere, Careful, IdentityTypes, [Next]_vars
  PROVE  FileThere'
<1> USE DEF files, process, reading, preparing
<1>1. ASSUME NEW c \in Config, Configured(c) PROVE FileThere'
  BY <1>1, BoundsOfFiles DEF Configured, Installs, FileThere
<1>2. ASSUME NEW content \in {Absent, Broken}, Edited(content) PROVE FileThere'
  BY <1>2 DEF Edited, FileThere, Starting
<1>3. CASE Projected
  BY <1>3 DEF Projected, FileThere
<1>4. ASSUME NEW r \in Reader, ReadsConfig(r) PROVE FileThere'
  BY <1>4 DEF ReadsConfig, Turn, FileThere, IdentityTypes
<1>5. ASSUME NEW r \in Reader, LooksForConfig(r) PROVE FileThere'
  <2>1. UNCHANGED <<pc, file, got>>
    BY <1>5 DEF LooksForConfig
  <2>2. pc \in Starting /\ r = Main => file # Absent
    BY <1>5 DEF LooksForConfig, FileThere
  <2> QED BY <1>5, <2>1, <2>2 DEF LooksForConfig, Turn, FileThere
<1>6. ASSUME NEW r \in Reader, Binds(r) PROVE FileThere'
  BY <1>6, ReadersDiffer DEF Binds, Turn, FileThere, IdentityTypes
<1>7. CASE Boots
  BY <1>7 DEF Boots, Enters, Turn, FileThere, IdentityTypes, Reader
<1>8. CASE ReadsAddress
  <2>1. CASE Ends
    BY <2>1 DEF Ends, FileThere, Starting
  <2>2. CASE ~Ends
    <3>1. /\ Result(Main).id # None
          /\ pc' = "latch" /\ io' = [io EXCEPT ![Main] = "look"] /\ file' = file
      BY <1>8, <2>2 DEF ReadsAddress, Enters, Turn
    <3>2. got[Main] # Absent
      BY <3>1, FromEnvSays, BoundsOfFiles DEF Result
    <3> QED BY <1>8, <3>1, <3>2 DEF ReadsAddress, HasRead, FileThere
  <2> QED BY <2>1, <2>2
<1>9. CASE LatchesIdentity
  BY <1>9 DEF LatchesIdentity, Enters, Turn, Ends, FileThere, IdentityTypes, Reader
<1>10. CASE MakesManager
  BY <1>10 DEF MakesManager, Enters, Turn, FileThere, Starting
<1>11. CASE MatchesIdentity
  BY <1>11 DEF MatchesIdentity, Enters, Turn, Ends, FileThere, IdentityTypes, Reader
<1>12. CASE Registers
  BY <1>12 DEF Registers, Enters, Turn, Ends, GoesOnWithout, FileThere, IdentityTypes, Reader
<1>13. CASE FetchesProfile
  BY <1>13 DEF FetchesProfile, Enters, Turn, Ends, GoesOnWithout, FileThere, IdentityTypes, Reader
<1>14. CASE MakesServer
  BY <1>14 DEF MakesServer, Enters, Ends, FileThere, Starting
<1>15. CASE SendsHeartbeat
  BY <1>15 DEF SendsHeartbeat, FileThere
<1>16. CASE ReportsArtifacts
  BY <1>16 DEF ReportsArtifacts, FileThere
<1>17. CASE Stops
  BY <1>17 DEF Stops, Ends, FileThere, Starting
<1>18. ASSUME NEW v \in Version, VersionAsked(v) PROVE FileThere'
  BY <1>18 DEF VersionAsked, FileThere, Starting
<1>19. ASSUME NEW v \in Version, VersionAnswered(v) PROVE FileThere'
  BY <1>19 DEF VersionAnswered, Turn, Resolved, FileThere
<1>20. ASSUME NEW p \in Preparation, NEW n \in Node, PrepareAsked(p, n) PROVE FileThere'
  BY <1>20 DEF PrepareAsked, FileThere, Starting
<1>21. ASSUME NEW p \in Preparation, PrepareBegins(p) PROVE FileThere'
  BY <1>21, ReadersDiffer DEF PrepareBegins, Turn, FileThere
<1>22. ASSUME NEW p \in Preparation, Fetches(p) PROVE FileThere'
  BY <1>22 DEF Fetches, FileThere
<1>23. ASSUME NEW p \in Preparation, PrepareAnswered(p) PROVE FileThere'
  BY <1>23 DEF PrepareAnswered, FileThere
<1>24. ASSUME NEW p \in Preparation, CommitAsked(p) PROVE FileThere'
  BY <1>24 DEF CommitAsked, Turn, FileThere
<1>25. ASSUME NEW p \in Preparation, CommitRouted(p) PROVE FileThere'
  BY <1>25, ReadersDiffer DEF CommitRouted, Turn, FileThere, IdentityTypes
<1>26. ASSUME NEW p \in Preparation, CommitChecked(p) PROVE FileThere'
  BY <1>26, ReadersDiffer DEF CommitChecked, Turn, FileThere
<1>27. CASE UNCHANGED vars
  BY <1>27 DEF vars, FileThere
<1> QED BY <1>1, <1>2, <1>3, <1>4, <1>5, <1>6, <1>7, <1>8, <1>9, <1>10, <1>11, <1>12, <1>13,
       <1>14, <1>15, <1>16, <1>17, <1>18, <1>19, <1>20, <1>21, <1>22, <1>23, <1>24, <1>25, <1>26,
       <1>27 DEF Next, MainStep, PreparationStep

\* The latch is set from the second read, the reporter from the third, and the fourth must give
\* what the latch has: the third lies between two reads of one node.
LEMMA MainKnowsKept ==
  ASSUME MainKnows, Careful, IdentityTypes, ReadsInOrder, LatchKnown, FileThere, Quiet, [Next]_vars
  PROVE  MainKnows'
<1> USE DEF files, process, reading, preparing
<1>1. ASSUME NEW c \in Config, Configured(c) PROVE MainKnows'
  BY <1>1, BoundsOfFiles DEF Configured, Installs, MainKnows, IdentityTypes, InBetween, Latched
<1>2. ASSUME NEW content \in {Absent, Broken}, Edited(content) PROVE MainKnows'
  BY <1>2 DEF Edited, MainKnows, InBetween, Latched
<1>3. CASE Projected
  BY <1>3 DEF Projected, MainKnows, InBetween, Latched
<1>4. ASSUME NEW r \in Reader, ReadsConfig(r) PROVE MainKnows'
  BY <1>4, BoundsOfFiles DEF ReadsConfig, Turn, MainKnows, IdentityTypes, LatchKnown, InBetween,
       Latched
<1>5. ASSUME NEW r \in Reader, LooksForConfig(r) PROVE MainKnows'
  BY <1>5 DEF LooksForConfig, Turn, MainKnows, InBetween, Latched
<1>6. ASSUME NEW r \in Reader, Binds(r) PROVE MainKnows'
  <2>1. /\ UNCHANGED <<newest, pc, config, reporter, got>>
        /\ io[r] = "listener" /\ (r \in Version \/ (r = Main /\ pc \in {"latch", "match", "server"}))
    <3>1. UNCHANGED <<files, process, got>>
      BY <1>6 DEF Binds
    <3>2. HasRead(r) /\ (r \in Version \/ (r = Main /\ pc \in {"latch", "match", "server"}))
      BY <1>6 DEF Binds
    <3> QED BY <3>1, <3>2 DEF HasRead
  <2>2. \/ UNCHANGED identity /\ Turn(r, "bad")
        \/ /\ Result(r).id # None /\ Turn(r, "ok") /\ identity' = Candidate(r)
           /\ identity = Unbound \/ identity = Candidate(r)
    BY <1>6 DEF Binds
  <2>3. Latched => UNCHANGED identity
    BY <2>2 DEF Latched, Unbound
  <2>4. CASE r \in Version
    <3>1. pc = "serve" /\ UNCHANGED identity
      BY <2>1, <2>3, <2>4 DEF Quiet, MainKnows
    <3> QED BY <2>1, <3>1 DEF MainKnows, Latched
  <2>5. CASE r = Main /\ pc = "latch"
    <3>1. io'[Main] = "ok" => Latched'
      BY <2>2, <2>5 DEF Turn, IdentityTypes, Candidate, Latched
    <3> QED BY <2>1, <2>5, <3>1 DEF MainKnows
  <2>6. CASE r = Main /\ pc = "match"
    <3>1. Latched /\ UNCHANGED identity /\ io'[Main] # "listener"
      BY <2>2, <2>3, <2>6 DEF MainKnows, Turn, IdentityTypes
    <3>2. ASSUME reporter # None PROVE \E c \in Config : Issued[c].id = reporter /\ InBetween(c)'
      BY <2>1, <2>6, <3>1, <3>2 DEF MainKnows, InBetween
    <3>3. ASSUME io'[Main] = "ok", reporter # None PROVE reporter = identity.id
      <4>1. PICK c \in Config : Issued[c].id = reporter /\ InBetween(c)
        BY <2>6, <3>3 DEF MainKnows
      <4>2. Result(Main).id # None /\ identity.id = Result(Main).id
        BY <2>2, <2>6, <3>1, <3>3 DEF Turn, IdentityTypes, Candidate
      <4>3. got[Main] \in Config /\ Issued[got[Main]].id = identity.id
        BY <4>2, FromEnvSays, ReadersDiffer DEF Result, IdentityTypes
      <4>4. c <= got[Main] /\ IssuedBy(identity.id, c)
        BY <2>1, <2>6, <4>1, <4>3 DEF InBetween
      <4> QED BY <4>1, <4>3, <4>4, SameNodeBetween
    <3> QED BY <2>1, <2>6, <3>1, <3>2, <3>3 DEF MainKnows, Latched
  <2>7. CASE r = Main /\ pc = "server"
    BY <2>1, <2>3, <2>7 DEF MainKnows, Latched
  <2> QED BY <2>1, <2>4, <2>5, <2>6, <2>7
<1>7. CASE Boots
  BY <1>7 DEF Boots, Enters, MainKnows
<1>8. CASE ReadsAddress
  BY <1>8 DEF ReadsAddress, Enters, Turn, Ends, MainKnows, IdentityTypes, Reader
<1>9. CASE LatchesIdentity
  BY <1>9 DEF LatchesIdentity, Enters, Turn, Ends, Resolved, MainKnows, IdentityTypes,
       FileThere, Latched
<1>10. CASE MakesManager
  <2>1. /\ pc = "manager" /\ io[Main] = "listener" /\ pc' = "match" /\ reporter' = Result(Main).id
        /\ UNCHANGED <<newest, identity, got>> /\ io'[Main] = "look"
    BY <1>10, ReadersDiffer DEF MakesManager, HasRead, Enters, Turn, IdentityTypes
  <2>2. Latched'
    BY <2>1 DEF MainKnows, Latched
  <2>3. ASSUME reporter' # None PROVE \E c \in Config : Issued[c].id = reporter' /\ InBetween(c)'
    <3>1. got[Main] \in Config /\ Issued[got[Main]].id = reporter'
      BY <2>1, <2>3, FromEnvSays, ReadersDiffer DEF Result, IdentityTypes
    <3>2. got[Main] <= newest /\ IssuedBy(identity.id, got[Main])
      BY <2>1, <3>1, ReadersDiffer DEF ReadsInOrder, MainKnows
    <3> QED BY <2>1, <3>1, <3>2 DEF InBetween
  <2> QED BY <2>1, <2>2, <2>3 DEF MainKnows
<1>11. CASE MatchesIdentity
  BY <1>11 DEF MatchesIdentity, Enters, Ends, Resolved, IsLatchedNode, MainKnows, FileThere,
       Latched, Starting
<1>12. CASE Registers
  BY <1>12 DEF Registers, Enters, Ends, GoesOnWithout, MainKnows, Latched
<1>13. CASE FetchesProfile
  BY <1>13 DEF FetchesProfile, Enters, Ends, GoesOnWithout, MainKnows, Latched
<1>14. CASE MakesServer
  BY <1>14 DEF MakesServer, Enters, Ends, MainKnows, Latched
<1>15. CASE SendsHeartbeat
  BY <1>15 DEF SendsHeartbeat, MainKnows, Latched
<1>16. CASE ReportsArtifacts
  BY <1>16 DEF ReportsArtifacts, MainKnows, Latched
<1>17. CASE Stops
  BY <1>17 DEF Stops, Ends, MainKnows
<1>18. ASSUME NEW v \in Version, VersionAsked(v) PROVE MainKnows'
  BY <1>18 DEF VersionAsked, MainKnows, Latched
<1>19. ASSUME NEW v \in Version, VersionAnswered(v) PROVE MainKnows'
  BY <1>19 DEF VersionAnswered, Resolved, MainKnows, Quiet, Latched
<1>20. ASSUME NEW p \in Preparation, NEW n \in Node, PrepareAsked(p, n) PROVE MainKnows'
  BY <1>20 DEF PrepareAsked, MainKnows, Latched
<1>21. ASSUME NEW p \in Preparation, PrepareBegins(p) PROVE MainKnows'
  BY <1>21 DEF PrepareBegins, Turn, MainKnows, InBetween, Latched
<1>22. ASSUME NEW p \in Preparation, Fetches(p) PROVE MainKnows'
  BY <1>22 DEF Fetches, MainKnows, InBetween, Latched
<1>23. ASSUME NEW p \in Preparation, PrepareAnswered(p) PROVE MainKnows'
  BY <1>23 DEF PrepareAnswered, MainKnows, InBetween, Latched
<1>24. ASSUME NEW p \in Preparation, CommitAsked(p) PROVE MainKnows'
  BY <1>24 DEF CommitAsked, Turn, MainKnows, InBetween, Latched
<1>25. ASSUME NEW p \in Preparation, CommitRouted(p) PROVE MainKnows'
  BY <1>25 DEF CommitRouted, Turn, MainKnows, IdentityTypes, InBetween, Latched, Reader
<1>26. ASSUME NEW p \in Preparation, CommitChecked(p) PROVE MainKnows'
  BY <1>26 DEF CommitChecked, Turn, MainKnows, InBetween, Latched
<1>27. CASE UNCHANGED vars
  BY <1>27 DEF vars, MainKnows, InBetween, Latched
<1> QED BY <1>1, <1>2, <1>3, <1>4, <1>5, <1>6, <1>7, <1>8, <1>9, <1>10, <1>11, <1>12, <1>13,
       <1>14, <1>15, <1>16, <1>17, <1>18, <1>19, <1>20, <1>21, <1>22, <1>23, <1>24, <1>25, <1>26,
       <1>27 DEF Next, MainStep, PreparationStep

\* What is known of a preparation is kept by its own steps and by those of the others.
LEMMA PreparationsKept ==
  ASSUME Preparations, IdentityTypes, NotedForAll, ReadsInOrder, [Next]_vars
  PROVE  Preparations'
<1> USE DEF files, process, reading, preparing
<1> SUFFICES ASSUME NEW q \in Preparation PROVE PreparationKnown(q)'
  BY DEF Preparations
<1>q. /\ PreparationKnown(q) /\ newest \in Nat
      /\ q \in Reader /\ q # Main /\ q \notin Version
  BY ReadersDiffer DEF Preparations, IdentityTypes
<1>1. ASSUME NEW c \in Config, Configured(c) PROVE PreparationKnown(q)'
  BY <1>1, <1>q, Undisturbed, BoundsOfFiles DEF Configured, Installs
<1>2. ASSUME NEW content \in {Absent, Broken}, Edited(content) PROVE PreparationKnown(q)'
  BY <1>2, <1>q, Undisturbed DEF Edited
<1>3. CASE Projected
  BY <1>3, <1>q, Undisturbed DEF Projected
<1>4. ASSUME NEW r \in Reader, ReadsConfig(r) PROVE PreparationKnown(q)'
  <2>1. got'[q] \in Config =>
          \/ newest <= got'[q] \/ io'[q] # "listener"
          \/ io[q] = "listener" /\ got'[q] = got[q]
    BY <1>4, <1>q, BoundsOfFiles DEF ReadsConfig, Turn, IdentityTypes
  <2> QED BY <1>4, <1>q, <2>1, Undisturbed DEF ReadsConfig
<1>5. ASSUME NEW r \in Reader, LooksForConfig(r) PROVE PreparationKnown(q)'
  BY <1>5, <1>q, Undisturbed DEF LooksForConfig, Turn
<1>6. ASSUME NEW r \in Reader, Binds(r) PROVE PreparationKnown(q)'
  BY <1>6, <1>q, Undisturbed DEF Binds, Turn, IdentityTypes
<1>7. CASE Boots
  BY <1>7, <1>q, Undisturbed DEF Boots, Enters, Turn
<1>8. CASE ReadsAddress
  <2>1. CASE Ends
    BY <1>q, <2>1, EndedPreparation
  <2>2. CASE ~Ends
    BY <1>8, <1>q, <2>2, Undisturbed DEF ReadsAddress, Enters, Turn, IdentityTypes
  <2> QED BY <2>1, <2>2
<1>9. CASE LatchesIdentity
  <2>1. CASE Ends
    BY <1>q, <2>1, EndedPreparation
  <2>2. CASE ~Ends
    BY <1>9, <1>q, <2>2, Undisturbed DEF LatchesIdentity, Enters, Turn, IdentityTypes
  <2> QED BY <2>1, <2>2
<1>10. CASE MakesManager
  BY <1>10, <1>q, Undisturbed DEF MakesManager, Enters, Turn
<1>11. CASE MatchesIdentity
  <2>1. CASE Ends
    BY <1>q, <2>1, EndedPreparation
  <2>2. CASE ~Ends
    BY <1>11, <1>q, <2>2, Undisturbed DEF MatchesIdentity, Enters, Turn, IdentityTypes
  <2> QED BY <2>1, <2>2
<1>12. CASE Registers
  <2>1. CASE Ends
    BY <1>q, <2>1, EndedPreparation
  <2>2. CASE ~Ends
    BY <1>12, <1>q, <2>2, Undisturbed DEF Registers, GoesOnWithout, Enters, Turn, IdentityTypes
  <2> QED BY <2>1, <2>2
<1>13. CASE FetchesProfile
  <2>1. CASE Ends
    BY <1>q, <2>1, EndedPreparation
  <2>2. CASE ~Ends
    BY <1>13, <1>q, <2>2, Undisturbed DEF FetchesProfile, GoesOnWithout, Enters, Turn, IdentityTypes
  <2> QED BY <2>1, <2>2
<1>14. CASE MakesServer
  <2>1. CASE Ends
    BY <1>q, <2>1, EndedPreparation
  <2>2. CASE ~Ends
    BY <1>14, <1>q, <2>2, Undisturbed DEF MakesServer, Enters, Turn, IdentityTypes
  <2> QED BY <2>1, <2>2
<1>15. CASE SendsHeartbeat
  BY <1>15, <1>q, Undisturbed DEF SendsHeartbeat
<1>16. CASE ReportsArtifacts
  BY <1>16, <1>q, Undisturbed DEF ReportsArtifacts
<1>17. CASE Stops
  BY <1>17, <1>q, EndedPreparation DEF Stops
<1>18. ASSUME NEW v \in Version, VersionAsked(v) PROVE PreparationKnown(q)'
  BY <1>18, <1>q, Undisturbed DEF VersionAsked, Turn
<1>19. ASSUME NEW v \in Version, VersionAnswered(v) PROVE PreparationKnown(q)'
  BY <1>19, <1>q, Undisturbed DEF VersionAnswered, Turn
<1>20. ASSUME NEW p \in Preparation, NEW n \in Node, PrepareAsked(p, n) PROVE PreparationKnown(q)'
  <2>1. CASE q # p
    BY <1>20, <1>q, <2>1, Undisturbed DEF PrepareAsked, Moves, Turn
  <2>2. CASE q = p
    BY <1>20, <1>q, <2>2 DEF PrepareAsked, Moves, NotedForAll, PreparationKnown
  <2> QED BY <2>1, <2>2
<1>21. ASSUME NEW p \in Preparation, PrepareBegins(p) PROVE PreparationKnown(q)'
  <2>1. CASE q # p
    BY <1>21, <1>q, <2>1, Undisturbed DEF PrepareBegins, Moves, Turn, NotedForAll, IdentityTypes
  <2>2. CASE q = p
    <3>1. at[q] = "begin" /\ asked[q] \in Node /\ used[q] = {} /\ UNCHANGED <<asked, used, newest>>
      BY <1>21, <1>q, <2>2 DEF PrepareBegins, PreparationKnown
    <3>2. CASE IsAskedNode(q)
      <4>1. at'[q] = "fetch" /\ node'[q] = Result(q)
        <5>1. at'[q] = "fetch"
          BY <1>21, <2>2, <3>2 DEF PrepareBegins, Moves, IdentityTypes
        <5>2. node' = [node EXCEPT ![q] = Result(q)]
          BY <1>21, <2>2, <3>2 DEF PrepareBegins
        <5> QED BY <5>1, <5>2 DEF NotedForAll
      <4>2. Result(q).id # None
        BY <3>1, <3>2, IdentityAssumption DEF IsAskedNode, Node
      <4>3. /\ got[q] \in Config
            /\ Result(q).id = Issued[got[q]].id /\ Result(q).panel = Issued[got[q]].panel
        BY <1>q, <4>2, FromEnvSays DEF Result, IdentityTypes
      <4>4. got[q] <= newest'
        BY <1>q, <3>1, <4>3 DEF ReadsInOrder
      <4>5. PreparedUnder(q)'
        BY <3>1, <4>1, <4>3, <4>4 DEF PreparedUnder
      <4> QED BY <3>1, <4>1, <4>5 DEF PreparationKnown
    <3>3. CASE ~IsAskedNode(q)
      BY <1>21, <2>2, <3>1, <3>3 DEF PrepareBegins, Moves, IdentityTypes, PreparationKnown
    <3> QED BY <3>2, <3>3
  <2> QED BY <2>1, <2>2
<1>22. ASSUME NEW p \in Preparation, Fetches(p) PROVE PreparationKnown(q)'
  <2>1. CASE q # p
    BY <1>22, <1>q, <2>1, Undisturbed DEF Fetches, Moves, NotedForAll, IdentityTypes
  <2>2. CASE q = p
    <3>1. at[q] = "fetch" /\ UNCHANGED <<asked, node, newest, file>>
      BY <1>22, <2>2 DEF Fetches
    <3>2. CASE at'[q] = "gone"
      BY <1>q, <3>1, <3>2 DEF PreparationKnown
    <3>3. CASE /\ FromEnv(file).id # None /\ UNCHANGED at
               /\ used' = [used EXCEPT ![q] =
                    used[q] \cup {[id |-> FromEnv(file).id, panel |-> FromEnv(file).panel]}]
      <4>1. /\ file \in Config /\ file = newest
            /\ FromEnv(file).id = Issued[file].id /\ FromEnv(file).panel = Issued[file].panel
        <5>1. file \in 0..Len(Issued) + 1
          BY BoundsOfFiles DEF IdentityTypes
        <5>2. /\ file \in Config
              /\ FromEnv(file).id = Issued[file].id /\ FromEnv(file).panel = Issued[file].panel
          BY <3>3, <5>1, FromEnvSays
        <5> QED BY <5>2, BoundsOfFiles DEF IdentityTypes
      <4>2. used'[q] = used[q] \cup {Ident(newest)}
        <5>1. used' = [used EXCEPT ![q] = used[q] \cup {Ident(newest)}]
          <6>1. [id |-> FromEnv(file).id, panel |-> FromEnv(file).panel] = Ident(newest)
            BY <4>1 DEF Ident
          <6> QED BY <3>3, <6>1
        <5> QED BY <5>1 DEF NotedForAll
      <4>3. PICK b \in Config :
              /\ b <= newest /\ node[q].id = Issued[b].id /\ node[q].panel = Issued[b].panel
              /\ \A u \in used[q] : FetchedUnder(q, b, u)
        BY <1>q, <3>1 DEF PreparationKnown, PreparedUnder
      <4>4. ASSUME NEW u \in used'[q] PROVE FetchedUnder(q, b, u)'
        <5>1. CASE u \in used[q]
          BY <3>1, <3>3, <4>3, <5>1 DEF FetchedUnder
        <5>2. CASE u = Ident(newest)
          <6>1. newest \in Config /\ b <= newest /\ newest' = newest /\ at'[q] # "check"
            BY <3>1, <3>3, <4>1, <4>3
          <6>2. newest <= newest'
            BY <6>1, BoundsOfFiles
          <6> QED BY <5>2, <6>1, <6>2 DEF FetchedUnder
        <5> QED BY <4>2, <4>4, <5>1, <5>2
      <4>5. PreparedUnder(q)'
        BY <3>1, <4>3, <4>4 DEF PreparedUnder
      <4>6. at'[q] = "fetch" /\ asked'[q] \in Node
        BY <1>q, <3>1, <3>3 DEF PreparationKnown
      <4>7. /\ asked'[q] \in Node'
            /\ at'[q] \notin {"new", "begin", "prepared", "route", "check", "running"}
        BY <4>6 DEF Node
      <4> QED BY <4>5, <4>7 DEF PreparationKnown
    <3>4. \/ at'[q] = "gone"
          \/ /\ FromEnv(file).id # None /\ UNCHANGED at
             /\ used' = [used EXCEPT ![q] =
                  used[q] \cup {[id |-> FromEnv(file).id, panel |-> FromEnv(file).panel]}]
      BY <1>22, <2>2 DEF Fetches, Moves, IdentityTypes
    <3> QED BY <3>2, <3>3, <3>4
  <2> QED BY <2>1, <2>2
<1>23. ASSUME NEW p \in Preparation, PrepareAnswered(p) PROVE PreparationKnown(q)'
  <2>1. CASE q # p
    BY <1>23, <1>q, <2>1, Undisturbed DEF PrepareAnswered, Moves
  <2>2. CASE q = p
    <3>1. /\ at[q] \in {"fetch", "prepared", "route", "check"} /\ used[q] # {}
          /\ UNCHANGED <<asked, node, used, newest>>
      BY <1>23, <1>q, <2>2 DEF PrepareAnswered
    <3>2. at'[q] \in {"prepared"} /\ ~(at'[q] = "check" /\ io'[q] = "listener")
      BY <1>23, <1>q, <2>2 DEF PrepareAnswered, Moves, IdentityTypes
    <3>3. PreparedUnder(q)'
      BY <1>q, <3>1, <3>2, StillPreparedUnder DEF PreparationKnown
    <3> QED BY <1>q, <3>1, <3>2, <3>3 DEF PreparationKnown
  <2> QED BY <2>1, <2>2
<1>24. ASSUME NEW p \in Preparation, CommitAsked(p) PROVE PreparationKnown(q)'
  <2>1. CASE q # p
    BY <1>24, <1>q, <2>1, Undisturbed DEF CommitAsked, Moves, Turn
  <2>2. CASE q = p
    <3>1. /\ at[q] \in {"fetch", "prepared", "route", "check"} /\ used[q] # {}
          /\ UNCHANGED <<asked, node, used, newest>>
      BY <1>24, <1>q, <2>2 DEF CommitAsked, PreparationKnown
    <3>2. at'[q] \in {"route"} /\ ~(at'[q] = "check" /\ io'[q] = "listener")
      BY <1>24, <1>q, <2>2 DEF CommitAsked, Moves, IdentityTypes
    <3>3. PreparedUnder(q)'
      BY <1>q, <3>1, <3>2, StillPreparedUnder DEF PreparationKnown
    <3> QED BY <1>q, <3>1, <3>2, <3>3 DEF PreparationKnown
  <2> QED BY <2>1, <2>2
<1>25. ASSUME NEW p \in Preparation, CommitRouted(p) PROVE PreparationKnown(q)'
  <2>1. CASE q # p
    BY <1>25, <1>q, <2>1, Undisturbed DEF CommitRouted, Moves, Turn, IdentityTypes
  <2>2. CASE q = p
    <3>1. /\ at[q] \in {"fetch", "prepared", "route", "check"} /\ used[q] # {}
          /\ UNCHANGED <<asked, node, used, newest>>
      BY <1>25, <1>q, <2>2 DEF CommitRouted, PreparationKnown
    <3>2. at'[q] \in {"check", "prepared"} /\ ~(at'[q] = "check" /\ io'[q] = "listener")
      BY <1>25, <1>q, <2>2 DEF CommitRouted, Moves, Turn, IdentityTypes
    <3>3. PreparedUnder(q)'
      BY <1>q, <3>1, <3>2, StillPreparedUnder DEF PreparationKnown
    <3> QED BY <1>q, <3>1, <3>2, <3>3 DEF PreparationKnown
  <2> QED BY <2>1, <2>2
<1>26. ASSUME NEW p \in Preparation, CommitChecked(p) PROVE PreparationKnown(q)'
  <2>1. CASE q # p
    BY <1>26, <1>q, <2>1, Undisturbed DEF CommitChecked, Moves, Turn
  <2>2. CASE q = p
    <3>1. /\ at[q] \in {"fetch", "prepared", "route", "check"} /\ used[q] # {}
          /\ UNCHANGED <<asked, node, used, newest>>
      BY <1>26, <1>q, <2>2 DEF CommitChecked, PreparationKnown
    <3>2. at'[q] \in {"running", "prepared"} /\ ~(at'[q] = "check" /\ io'[q] = "listener")
      BY <1>26, <1>q, <2>2 DEF CommitChecked, Moves, IdentityTypes
    <3>3. PreparedUnder(q)'
      BY <1>q, <3>1, <3>2, StillPreparedUnder DEF PreparationKnown
    <3> QED BY <1>q, <3>1, <3>2, <3>3 DEF PreparationKnown
  <2> QED BY <2>1, <2>2
<1>27. CASE UNCHANGED vars
  BY <1>27, <1>q, Undisturbed DEF vars
<1> QED BY <1>1, <1>2, <1>3, <1>4, <1>5, <1>6, <1>7, <1>8, <1>9, <1>10, <1>11, <1>12, <1>13,
       <1>14, <1>15, <1>16, <1>17, <1>18, <1>19, <1>20, <1>21, <1>22, <1>23, <1>24, <1>25, <1>26,
       <1>27 DEF Next, MainStep, PreparationStep

\* A commit reads the configuration the preparation began under: all the settings were fetched in
\* between.
LEMMA CommittedKept ==
  ASSUME CommittedUnderOneNode, IdentityTypes, NotedForAll, ReadsInOrder, Preparations, [Next]_vars
  PROVE  CommittedUnderOneNode'
<1> USE DEF files, process, reading, preparing, UsedItsOwn
<1> SUFFICES ASSUME NEW q \in Preparation, at'[q] = "running"
             PROVE  UsedItsOwn(q)'
  BY DEF CommittedUnderOneNode
<1>q. /\ at'[q] = "running" /\ q \in Preparation
      /\ at[q] = "running" => UsedItsOwn(q)
  BY DEF CommittedUnderOneNode
<1>1. ASSUME NEW c \in Config, Configured(c) PROVE UsedItsOwn(q)'
  BY <1>1, <1>q DEF Configured
<1>2. ASSUME NEW content \in {Absent, Broken}, Edited(content) PROVE UsedItsOwn(q)'
  BY <1>2, <1>q DEF Edited
<1>3. CASE Projected
  BY <1>3, <1>q DEF Projected
<1>4. ASSUME NEW r \in Reader, ReadsConfig(r) PROVE UsedItsOwn(q)'
  BY <1>4, <1>q DEF ReadsConfig
<1>5. ASSUME NEW r \in Reader, LooksForConfig(r) PROVE UsedItsOwn(q)'
  BY <1>5, <1>q DEF LooksForConfig
<1>6. ASSUME NEW r \in Reader, Binds(r) PROVE UsedItsOwn(q)'
  BY <1>6, <1>q DEF Binds
<1>7. CASE Boots
  BY <1>7, <1>q DEF Boots
<1>8. CASE ReadsAddress
  <2>1. ~Ends
    BY <1>q DEF Ends
  <2> QED BY <1>8, <1>q, <2>1 DEF ReadsAddress
<1>9. CASE LatchesIdentity
  <2>1. ~Ends
    BY <1>q DEF Ends
  <2> QED BY <1>9, <1>q, <2>1 DEF LatchesIdentity
<1>10. CASE MakesManager
  BY <1>10, <1>q DEF MakesManager
<1>11. CASE MatchesIdentity
  <2>1. ~Ends
    BY <1>q DEF Ends
  <2> QED BY <1>11, <1>q, <2>1 DEF MatchesIdentity
<1>12. CASE Registers
  <2>1. ~Ends
    BY <1>q DEF Ends
  <2> QED BY <1>12, <1>q, <2>1 DEF Registers, GoesOnWithout
<1>13. CASE FetchesProfile
  <2>1. ~Ends
    BY <1>q DEF Ends
  <2> QED BY <1>13, <1>q, <2>1 DEF FetchesProfile, GoesOnWithout
<1>14. CASE MakesServer
  <2>1. ~Ends
    BY <1>q DEF Ends
  <2> QED BY <1>14, <1>q, <2>1 DEF MakesServer
<1>15. CASE SendsHeartbeat
  BY <1>15, <1>q DEF SendsHeartbeat
<1>16. CASE ReportsArtifacts
  BY <1>16, <1>q DEF ReportsArtifacts
<1>17. CASE Stops
  BY <1>17, <1>q DEF Stops, Ends
<1>18. ASSUME NEW v \in Version, VersionAsked(v) PROVE UsedItsOwn(q)'
  BY <1>18, <1>q DEF VersionAsked
<1>19. ASSUME NEW v \in Version, VersionAnswered(v) PROVE UsedItsOwn(q)'
  BY <1>19, <1>q DEF VersionAnswered
<1>20. ASSUME NEW p \in Preparation, NEW n \in Node, PrepareAsked(p, n) PROVE UsedItsOwn(q)'
  <2>1. q # p
    BY <1>20, <1>q DEF PrepareAsked, Moves
  <2> QED BY <1>20, <1>q, <2>1 DEF PrepareAsked, Moves
<1>21. ASSUME NEW p \in Preparation, PrepareBegins(p) PROVE UsedItsOwn(q)'
  <2>1. q # p
    BY <1>21, <1>q DEF PrepareBegins, Moves, IdentityTypes
  <2> QED BY <1>21, <1>q, <2>1 DEF PrepareBegins, Moves, IdentityTypes, NotedForAll
<1>22. ASSUME NEW p \in Preparation, Fetches(p) PROVE UsedItsOwn(q)'
  <2>1. q # p
    BY <1>22, <1>q DEF Fetches, Moves, IdentityTypes
  <2> QED BY <1>22, <1>q, <2>1 DEF Fetches, Moves, IdentityTypes, NotedForAll
<1>23. ASSUME NEW p \in Preparation, PrepareAnswered(p) PROVE UsedItsOwn(q)'
  BY <1>23, <1>q DEF PrepareAnswered, Moves
<1>24. ASSUME NEW p \in Preparation, CommitAsked(p) PROVE UsedItsOwn(q)'
  BY <1>24, <1>q DEF CommitAsked, Moves
<1>25. ASSUME NEW p \in Preparation, CommitRouted(p) PROVE UsedItsOwn(q)'
  BY <1>25, <1>q DEF CommitRouted, Moves, IdentityTypes
<1>26. ASSUME NEW p \in Preparation, CommitChecked(p) PROVE UsedItsOwn(q)'
  <2>1. CASE q # p
    BY <1>26, <1>q, <2>1 DEF CommitChecked, Moves
  <2>2. CASE q = p
    <3>1. at[q] = "check" /\ io[q] = "listener" /\ Result(q) = node[q] /\ UNCHANGED <<node, used>>
      BY <1>26, <1>q, <2>2 DEF CommitChecked, HasRead, StillItsNode, Moves
    <3>2. used[q] # {}
      BY <3>1 DEF Preparations, PreparationKnown
    <3>3. PICK b \in Config :
            /\ b <= newest /\ node[q].id = Issued[b].id /\ node[q].panel = Issued[b].panel
            /\ \A u \in used[q] : FetchedUnder(q, b, u)
      BY <3>1 DEF Preparations, PreparationKnown, PreparedUnder
    <3>4. /\ got[q] \in Config
          /\ node[q].id = Issued[got[q]].id /\ node[q].panel = Issued[got[q]].panel
      <4>1. FromEnv(got[q]).id # None
        BY <3>1, <3>3, IdentityAssumption DEF Result
      <4>2. got[q] \in 0..Len(Issued) + 1
        BY ReadersDiffer DEF IdentityTypes
      <4> QED BY <3>1, <4>1, <4>2, FromEnvSays DEF Result
    <3>5. Issued[b] = Issued[got[q]]
      <4>1. Issued[b].id = Issued[got[q]].id /\ Issued[b].panel = Issued[got[q]].panel
        BY <3>3, <3>4
      <4> QED BY <3>4, <4>1, SameConfiguration
    <3>6. ASSUME NEW u \in used[q] PROVE u = [id |-> node[q].id, panel |-> node[q].panel]
      <4>1. PICK c \in Config : b <= c /\ c <= got[q] /\ u = Ident(c)
        BY <3>1, <3>3, <3>4, <3>6 DEF FetchedUnder
      <4>2. c \in b..got[q]
        BY <3>4, <4>1, BoundsOfFiles
      <4>3. Issued[c] = Issued[b]
        BY <3>4, <3>5, <4>2, SameConfigurationBetween
      <4> QED BY <3>3, <4>1, <4>3 DEF Ident
    <3> QED BY <3>1, <3>2, <3>6
  <2> QED BY <2>1, <2>2
<1>27. CASE UNCHANGED vars
  BY <1>27, <1>q DEF vars
<1> QED BY <1>1, <1>2, <1>3, <1>4, <1>5, <1>6, <1>7, <1>8, <1>9, <1>10, <1>11, <1>12, <1>13,
       <1>14, <1>15, <1>16, <1>17, <1>18, <1>19, <1>20, <1>21, <1>22, <1>23, <1>24, <1>25, <1>26,
       <1>27 DEF Next, MainStep, PreparationStep

LEMMA IdentityStep == IdentityInv /\ [Next]_vars => IdentityInv'
<1> SUFFICES ASSUME IdentityInv, [Next]_vars PROVE IdentityInv'
  OBVIOUS
<1> USE DEF IdentityInv
<1>1. IdentityTypes' /\ NotedForAll' /\ ReadsInOrder' /\ LatchKnown'
  BY IdentityTypesKept, NotedKept, ReadsKept, LatchKept
<1>2. Preparations' /\ CommittedUnderOneNode'
  BY PreparationsKept, CommittedKept
<1>3. ASSUME Careful PROVE FileThere' /\ MainKnows' /\ Quiet'
  BY <1>3, FileThereKept, MainKnowsKept, QuietKept
<1> QED BY <1>1, <1>2, <1>3

\* Every step of main, of the readers of the two files, of the requests and of who writes the
\* files keeps the parts above (main.go, control/client.go, updater_identity.go).
THEOREM IdentityInvariant == Spec => []IdentityInv
<1>1. Init => IdentityInv
  BY IdentityInit
<1>2. IdentityInv /\ [Next]_vars => IdentityInv'
  BY IdentityStep
<1> QED BY <1>1, <1>2, PTL DEF Spec

\* As long as config.yml is not removed during a start, a process speaks as one node from its
\* registration to its end, whatever is written between its reads (requireMatchingUpdaterIdentity).
THEOREM OneIdentityKept == Spec => [](Careful => OneIdentity)
<1>1. IdentityInv => (Careful => OneIdentity)
  BY DEF IdentityInv, Quiet, OneIdentity
<1> QED BY <1>1, IdentityInvariant, PTL

\* A committed preparation got everything as the node, and from the panel, it began under, for
\* any list of configurations and without the assumption on starts (SetPreparationIdentityCheck).
THEOREM CommitsUnderOneNode == Spec => []CommittedUnderOneNode
<1>1. IdentityInv => CommittedUnderOneNode
  BY DEF IdentityInv
<1> QED BY <1>1, IdentityInvariant, PTL
=============================================================================
