---------------------------- MODULE NodeIdentity ----------------------------
(***************************************************************************)
(* Who the service is (cmd/encoder-recorder, internal/control, the updater *)
(* identity latch and the preparation routes of internal/httpapi).  The    *)
(* identity of the node is in two files: config.yml, which the configure   *)
(* command replaces by rename, and the listener credential.  Nobody keeps  *)
(* them: the start of the service, every look at the latch, every          *)
(* preparation and every fetch of runtime settings reads them again, first *)
(* one and then the other, while they may change.                          *)
(*                                                                         *)
(* A configuration is its place in Issued, the order in which the control  *)
(* panel has issued them.  Tokens are left out: they decide only whether   *)
(* the control panel answers.                                              *)
(***************************************************************************)
EXTENDS Naturals, Sequences

CONSTANTS
  Issued,        \* records [id, panel]: the configurations written to config.yml, in their order
  Version,       \* requests for the updater's version
  Preparation,   \* start preparations
  Main,          \* the reader that is the start of the service
  Required,      \* requireControlPanelRuntimeConfig
  Careful,       \* config.yml is not removed while the service is starting
  MaxRevision,   \* bound on the revisions of the listener credential
  MaxStarts,     \* bound on the starts of the service
  MaxEdits       \* bound on the times config.yml is removed or spoilt by hand

Config == 1..Len(Issued)
Absent == 0
Broken == Len(Issued) + 1
Node == {Issued[c].id : c \in Config}
None == "none"
Reader == {Main} \cup Version \cup Preparation

\* A node that was replaced by another does not come back, and neither does its panel.
ASSUME IdentityAssumption ==
  /\ Issued \in Seq([id : STRING, panel : STRING])
  /\ Main \notin Version \cup Preparation /\ Version \cap Preparation = {}
  /\ \A c \in Config : Issued[c].id # None
  /\ \A c, d \in Config : \A e \in c..d :
       /\ Issued[c].id = Issued[d].id => Issued[e].id = Issued[c].id
       /\ Issued[c] = Issued[d] => Issued[e] = Issued[c]
  /\ {Required, Careful} \subseteq BOOLEAN
  /\ {MaxRevision, MaxStarts, MaxEdits} \subseteq Nat

VARIABLES
  file,       \* config.yml: a configuration, Absent or Broken
  newest,     \* the last configuration that was written
  listener,   \* the revision in the listener credential, 0 while there is none that is usable
  pc,         \* where main is
  config,     \* the configuration main has read and sends heartbeats under
  reporter,   \* the node under which the process manager reports its artifacts
  identity,   \* the latch
  io, got,    \* where each reader is, and what it has read of config.yml
  at,         \* where each preparation is
  asked,      \* the node its request names
  node,       \* the configuration it began under
  used,       \* the configurations its runtime settings and secrets were fetched under
  said,       \* history: the nodes as which this process has spoken
  starts, edits

files == <<file, newest, listener>>
process == <<pc, config, reporter>>
reading == <<io, got>>
preparing == <<at, asked, node, used>>
vars == <<files, process, identity, reading, preparing, said, starts, edits>>

Unknown == [id |-> None, panel |-> None, revision |-> 0, error |-> FALSE]
Unbound == [id |-> None, revision |-> 0]
Starting == {"boot", "latch", "manager", "match", "register", "profile", "server"}

Init ==
  /\ file = Absent /\ newest = 0 /\ listener = 0
  /\ pc = "down" /\ config = Unknown /\ reporter = None /\ identity = Unbound
  /\ io = [r \in Reader |-> "idle"] /\ got = [r \in Reader |-> Absent]
  /\ at = [p \in Preparation |-> "new"]
  /\ asked = [p \in Preparation |-> None]
  /\ node = [p \in Preparation |-> Unknown]
  /\ used = [p \in Preparation |-> {}]
  /\ said = {}
  /\ starts = 0 /\ edits = 0

-----------------------------------------------------------------------------
(* The files                                                               *)

\* The file is written beside config.yml and renamed onto it.
Installs(c) == file' = c /\ newest' = c

\* The configure command: what it received is checked before it is installed.
Configured(c) ==
  /\ c > newest
  /\ Installs(c)
  /\ UNCHANGED <<listener, process, identity, reading, preparing, said, starts, edits>>

\* config.yml is removed or spoilt by hand.
Edited(content) ==
  /\ edits < MaxEdits
  /\ edits' = edits + 1
  /\ content = Absent /\ Careful => pc \notin Starting
  /\ file' = content
  /\ UNCHANGED <<newest, listener, process, identity, reading, preparing, said, starts>>

\* The credential of the listener is written again.
Projected ==
  /\ listener < MaxRevision
  /\ listener' = listener + 1
  /\ UNCHANGED <<file, newest, process, identity, reading, preparing, said, starts, edits>>

Turn(r, place) == io' = [io EXCEPT ![r] = place]

\* ConfigFromEnv reads config.yml, and then the credential if config.yml names a node.
ReadsConfig(r) ==
  /\ io[r] = "read"
  /\ Turn(r, "listener")
  /\ got' = [got EXCEPT ![r] = file]
  /\ UNCHANGED <<files, process, identity, preparing, said, starts, edits>>

\* What ConfigFromEnv returns after it has read c, from the credential as it is now.
FromEnv(c) ==
  IF c = Absent THEN Unknown
  ELSE IF c = Broken \/ listener = 0 THEN [Unknown EXCEPT !.error = TRUE]
  ELSE [id |-> Issued[c].id, panel |-> Issued[c].panel, revision |-> listener, error |-> FALSE]

HasRead(r) == io[r] = "listener"
Result(r) == FromEnv(got[r])

-----------------------------------------------------------------------------
(* The latch                                                               *)

Bound == identity # Unbound

\* ResolveFromEnv looks whether the file is there before it reads it.
LooksForConfig(r) ==
  /\ io[r] = "look"
  /\ Turn(r, IF file # Absent THEN "read" ELSE IF Bound THEN "bad" ELSE "pending")
  /\ UNCHANGED <<files, process, identity, got, preparing, said, starts, edits>>

Candidate(r) == [id |-> Result(r).id, revision |-> Result(r).revision]

Binds(r) ==
  /\ HasRead(r)
  /\ r \in Version \/ (r = Main /\ pc \in {"latch", "match", "server"})
  /\ LET usable == ~Result(r).error /\ Result(r).id # None
         fits == identity \in {Unbound, Candidate(r)}
     IN  IF usable /\ fits
         THEN identity' = Candidate(r) /\ Turn(r, "ok")
         ELSE Turn(r, "bad") /\ UNCHANGED identity
  /\ UNCHANGED <<files, process, got, preparing, said, starts, edits>>

Resolved(r) == io[r] \in {"ok", "pending", "bad"}

-----------------------------------------------------------------------------
(* main                                                                    *)

Enters(place, look) == pc' = place /\ Turn(Main, look)

\* log.Fatal, a panic or a signal: what the process knows is gone.
Ends ==
  /\ pc' = "down"
  /\ config' = Unknown /\ reporter' = None /\ identity' = Unbound
  /\ io' = [r \in Reader |-> "idle"] /\ got' = [r \in Reader |-> Absent]
  /\ at' = [p \in Preparation |-> IF at[p] = "new" THEN "new" ELSE "gone"]
  /\ said' = {}
  /\ UNCHANGED <<asked, node, used>>

Boots ==
  /\ pc = "down" /\ starts < MaxStarts
  /\ starts' = starts + 1
  /\ Enters("boot", "read")
  /\ UNCHANGED <<files, config, reporter, identity, got, preparing, said, edits>>

\* Without a node and a credential there is no address to listen on.
ReadsAddress ==
  /\ pc = "boot" /\ HasRead(Main)
  /\ IF Result(Main).error \/ Result(Main).id = None
     THEN Ends
     ELSE /\ config' = Result(Main)
          /\ Enters("latch", "look")
          /\ UNCHANGED <<reporter, identity, got, preparing, said>>
  /\ UNCHANGED <<files, starts, edits>>

\* A latch that is pending does not end the start.
LatchesIdentity ==
  /\ pc = "latch" /\ Resolved(Main)
  /\ IF io[Main] = "bad"
     THEN Ends
     ELSE /\ Enters("manager", "read")
          /\ UNCHANGED <<config, reporter, identity, got, preparing, said>>
  /\ UNCHANGED <<files, starts, edits>>

\* The process manager builds clients of its own.
MakesManager ==
  /\ pc = "manager" /\ HasRead(Main)
  /\ reporter' = Result(Main).id
  /\ Enters("match", "look")
  /\ UNCHANGED <<files, config, identity, got, preparing, said, starts, edits>>

IsAnyNode == TRUE

IsLatchedNode == identity.id = config.id

\* The node main has read must be the one of the latch.
MatchesIdentity ==
  /\ pc = "match" /\ Resolved(Main)
  /\ IF io[Main] = "bad" \/ (io[Main] = "ok" /\ ~IsLatchedNode)
     THEN Ends
     ELSE /\ Enters("register", "idle")
          /\ UNCHANGED <<config, reporter, identity, got, preparing, said>>
  /\ UNCHANGED <<files, starts, edits>>

\* A request to the control panel fails, perhaps after it took effect: where the runtime
\* configuration is required the service ends, elsewhere it goes on.
GoesOnWithout ==
  IF Required
  THEN Ends
  ELSE /\ Enters("server", "look")
       /\ said' = said \cup {config.id}
       /\ UNCHANGED <<config, reporter, identity, got, preparing>>

Registers ==
  /\ pc = "register"
  /\ \/ /\ Enters("profile", "idle")
        /\ said' = said \cup {config.id}
        /\ UNCHANGED <<config, reporter, identity, got, preparing>>
     \/ GoesOnWithout
  /\ UNCHANGED <<files, starts, edits>>

FetchesProfile ==
  /\ pc = "profile"
  /\ \/ /\ Enters("server", "look")
        /\ UNCHANGED <<config, reporter, identity, got, preparing, said>>
     \/ GoesOnWithout
  /\ UNCHANGED <<files, starts, edits>>

MakesServer ==
  /\ pc = "server" /\ Resolved(Main)
  /\ IF io[Main] = "bad"
     THEN Ends
     ELSE /\ Enters("serve", "idle")
          /\ UNCHANGED <<config, reporter, identity, got, preparing, said>>
  /\ UNCHANGED <<files, starts, edits>>

\* The heartbeat loop keeps the configuration it was started with.
SendsHeartbeat ==
  /\ pc \in {"server", "serve"}
  /\ said' = said \cup {config.id}
  /\ UNCHANGED <<files, process, identity, reading, preparing, starts, edits>>

ReportsArtifacts ==
  /\ pc = "serve" /\ reporter # None
  /\ said' = said \cup {reporter}
  /\ UNCHANGED <<files, process, identity, reading, preparing, starts, edits>>

Stops ==
  /\ pc = "serve"
  /\ Ends
  /\ UNCHANGED <<files, starts, edits>>

-----------------------------------------------------------------------------
(* The requests                                                            *)

VersionAsked(v) ==
  /\ pc = "serve" /\ io[v] = "idle"
  /\ Turn(v, "look")
  /\ UNCHANGED <<files, process, identity, got, preparing, said, starts, edits>>

VersionAnswered(v) ==
  /\ Resolved(v)
  /\ Turn(v, "idle")
  /\ said' = IF io[v] = "ok" THEN said \cup {identity.id} ELSE said
  /\ UNCHANGED <<files, process, identity, got, preparing, starts, edits>>

Moves(p, place) == at' = [at EXCEPT ![p] = place]

PrepareAsked(p, n) ==
  /\ pc = "serve" /\ at[p] = "new"
  /\ Moves(p, "begin") /\ Turn(p, "read")
  /\ asked' = [asked EXCEPT ![p] = n]
  /\ UNCHANGED <<files, process, identity, got, node, used, said, starts, edits>>

IsAskedNode(p) == ~Result(p).error /\ Result(p).id = asked[p]

PrepareBegins(p) ==
  /\ at[p] = "begin" /\ HasRead(p)
  /\ Turn(p, "idle")
  /\ IF IsAskedNode(p)
     THEN Moves(p, "fetch") /\ node' = [node EXCEPT ![p] = Result(p)]
     ELSE Moves(p, "gone") /\ UNCHANGED node
  /\ UNCHANGED <<files, process, identity, got, asked, used, said, starts, edits>>

\* Every runtime setting and every secret is fetched by a client of its own.  Of the credential
\* only its presence matters here, so both files are read in one step.
Fetches(p) ==
  /\ at[p] = "fetch"
  /\ LET f == FromEnv(file) IN
       IF f.error \/ f.id = None
       THEN Moves(p, "gone") /\ UNCHANGED used
       ELSE /\ used' = [used EXCEPT ![p] = @ \cup {[id |-> f.id, panel |-> f.panel]}]
            /\ UNCHANGED at
  /\ UNCHANGED <<files, process, identity, reading, asked, node, said, starts, edits>>

\* The other ends of a preparation are in ProcessSlot.
PrepareAnswered(p) ==
  /\ at[p] = "fetch" /\ used[p] # {}
  /\ Moves(p, "prepared")
  /\ UNCHANGED <<files, process, identity, reading, asked, node, used, said, starts, edits>>

CommitAsked(p) ==
  /\ at[p] = "prepared"
  /\ Moves(p, "route") /\ Turn(p, "read")
  /\ UNCHANGED <<files, process, identity, got, asked, node, used, said, starts, edits>>

\* The route looks for the node the request names, and the manager for the one of the start.
CommitRouted(p) ==
  /\ at[p] = "route" /\ HasRead(p)
  /\ IF IsAskedNode(p)
     THEN Moves(p, "check") /\ Turn(p, "read")
     ELSE Moves(p, "prepared") /\ Turn(p, "idle")
  /\ UNCHANGED <<files, process, identity, got, asked, node, used, said, starts, edits>>

StillUsable(p) == ~Result(p).error

\* Node, revision and panel are those of the start.
StillItsNode(p) == Result(p) = node[p]

CommitChecked(p) ==
  /\ at[p] = "check" /\ HasRead(p)
  /\ Turn(p, "idle")
  /\ Moves(p, IF StillItsNode(p) THEN "running" ELSE "prepared")
  /\ UNCHANGED <<files, process, identity, got, asked, node, used, said, starts, edits>>

-----------------------------------------------------------------------------
MainStep ==
  \/ Boots \/ ReadsAddress \/ LatchesIdentity \/ MakesManager \/ MatchesIdentity
  \/ Registers \/ FetchesProfile \/ MakesServer
  \/ SendsHeartbeat \/ ReportsArtifacts \/ Stops

PreparationStep(p) ==
  \/ \E n \in Node : PrepareAsked(p, n)
  \/ PrepareBegins(p) \/ Fetches(p) \/ PrepareAnswered(p)
  \/ CommitAsked(p) \/ CommitRouted(p) \/ CommitChecked(p)

Next ==
  \/ \E c \in Config : Configured(c)
  \/ \E content \in {Absent, Broken} : Edited(content)
  \/ Projected
  \/ \E r \in Reader : ReadsConfig(r) \/ LooksForConfig(r) \/ Binds(r)
  \/ MainStep
  \/ \E v \in Version : VersionAsked(v) \/ VersionAnswered(v)
  \/ \E p \in Preparation : PreparationStep(p)

Spec == Init /\ [][Next]_vars

-----------------------------------------------------------------------------
(* A process presents itself as one node as long as it lives: its registration, its heartbeats,
   the artifacts its process manager reports and the version it tells the updater name the same
   service id, whenever the files change between the reads each of them goes back to
   (requireMatchingUpdaterIdentity, UpdaterIdentityLatch).  Requests made on behalf of one
   handler are not meant: they go by config.yml as it is at that time. *)
OneIdentity == \A n, m \in said : n = m

(* A preparation that was committed got all its runtime settings and secrets from the control
   panel, and as the node, it began under, although it reads config.yml again for each of
   them (SetPreparationIdentityCheck, prepareRuntimeJob). *)
CommittedUnderOneNode ==
  \A p \in Preparation :
    at[p] = "running" => used[p] = {[id |-> node[p].id, panel |-> node[p].panel]}
=============================================================================
