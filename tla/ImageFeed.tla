------------------------------ MODULE ImageFeed ------------------------------
(***************************************************************************)
(* The loopback image feed shared by the Cover and the Watermark           *)
(* (internal/imagefeed/source.go, wrapped by internal/watermarkfeed).      *)
(*                                                                         *)
(* One goroutine serves one consumer at a time: it writes the current      *)
(* frame, records the version as delivered, and repeats on an update or a  *)
(* tick.  A caller of UpdateAndWait takes a new version and waits on       *)
(* deliveredCh, a channel closed and replaced whenever a new version is    *)
(* delivered, and closed for good by Close.                                *)
(***************************************************************************)
EXTENDS FeedPromise, FiniteSets

CONSTANTS
  MaxConn,    \* bound on the connections the consumer makes
  MaxVersion  \* bound on the updates

ASSUME FeedAssumption ==
  /\ MaxConn \in Nat
  /\ MaxVersion \in Nat \ {0}

VARIABLES
  version, delivered, \* Source.version, .delivered
  updated,    \* is there a token in Source.updated?
  current,    \* Source.current
  listening,  \* is the listener open?
  conn,       \* each connection: a queued one is reset when the consumer goes
  server,     \* where serve and writeFrames are
  serving,    \* the connection they have accepted
  writing,    \* the version writeFrames has copied
  closer,     \* where Close is
  watched     \* the deliveredCh each caller has read

source == <<version, delivered, channel, closedOnce, panicked, updated, feedClosed, current>>
network == <<listening, conn>>
serverVars == <<server, serving, writing>>
callerVars == <<caller, mine, watched>>
vars == <<source, network, serverVars, closer, callerVars, written>>

Conn == 1..MaxConn
None == 0

TypeOK ==
  /\ version \in 1..MaxVersion /\ delivered \in 0..version
  /\ channel \in 0..MaxVersion /\ closedOnce \subseteq 0..MaxVersion
  /\ {panicked, updated, feedClosed, listening} \subseteq BOOLEAN
  /\ current \in Conn \cup {None} /\ serving \in Conn \cup {None}
  /\ conn \in [Conn -> {"new", "queued", "reset", "open", "gone"}]
  /\ server \in {"accept", "accepted", "read", "write", "mark", "select", "leave", "exit"}
  /\ writing \in 0..version
  /\ closer \in {"idle", "closing", "dropped", "waiting", "done"}
  /\ caller \in [Caller -> {"idle", "check", "wait", "ok", "failed"}]
  /\ mine \in [Caller -> 0..version] /\ watched \in [Caller -> 0..MaxVersion]
  /\ written \subseteq 1..version

Init ==
  /\ version = 1 /\ delivered = 0
  /\ channel = 0 /\ closedOnce = {} /\ panicked = FALSE
  /\ updated = FALSE /\ feedClosed = FALSE /\ current = None
  /\ listening = TRUE /\ conn = [c \in Conn |-> "new"]
  /\ server = "accept" /\ serving = None /\ writing = 0
  /\ closer = "idle"
  /\ caller = [u \in Caller |-> "idle"]
  /\ mine = [u \in Caller |-> 0] /\ watched = [u \in Caller |-> 0]
  /\ written = {}

-----------------------------------------------------------------------------
(* The consumer: FFmpeg, which opens the input and may go at any time.     *)

Connects(c) ==
  /\ listening
  /\ conn[c] = "new"
  /\ \A d \in 1..(c - 1) : conn[d] # "new"
  /\ conn' = [conn EXCEPT ![c] = "queued"]
  /\ UNCHANGED <<source, listening, serverVars, closer, callerVars, written>>

Disconnects(c) ==
  /\ conn[c] \in {"queued", "open"}
  /\ conn' = [conn EXCEPT ![c] = IF @ = "queued" THEN "reset" ELSE "gone"]
  /\ UNCHANGED <<source, listening, serverVars, closer, callerVars, written>>

-----------------------------------------------------------------------------
(* UpdateAndWait and WaitInitialDelivery.                                  *)

Update(u) ==
  /\ caller[u] = "idle"
  /\ ~feedClosed
  /\ version < MaxVersion
  /\ version' = version + 1
  /\ updated' = TRUE
  /\ mine' = [mine EXCEPT ![u] = version']
  /\ caller' = [caller EXCEPT ![u] = "check"]
  /\ UNCHANGED <<delivered, channel, closedOnce, panicked, feedClosed, current, network, serverVars,
                 closer, watched, written>>

WaitInitialDelivery(u) ==
  /\ caller[u] = "idle"
  /\ mine' = [mine EXCEPT ![u] = 1]
  /\ caller' = [caller EXCEPT ![u] = "check"]
  /\ UNCHANGED <<source, network, serverVars, closer, watched, written>>

\* waitDelivered looks under the lock and takes the channel to wait on.
WaiterLooks(u) ==
  /\ caller[u] = "check"
  /\ caller' = [caller EXCEPT ![u] =
       IF delivered >= mine[u] THEN "ok" ELSE IF feedClosed THEN "failed" ELSE "wait"]
  /\ watched' = [watched EXCEPT ![u] = channel]
  /\ UNCHANGED <<source, network, serverVars, closer, mine, written>>

WaiterWakes(u) ==
  /\ caller[u] = "wait"
  /\ watched[u] \in closedOnce
  /\ caller' = [caller EXCEPT ![u] = "check"]
  /\ UNCHANGED <<source, network, serverVars, closer, mine, watched, written>>

WaiterTimesOut(u) ==
  /\ caller[u] = "wait"
  /\ caller' = [caller EXCEPT ![u] = "failed"]
  /\ UNCHANGED <<source, network, serverVars, closer, mine, watched, written>>

CallReturns(u) ==
  /\ caller[u] \in {"ok", "failed"}
  /\ caller' = [caller EXCEPT ![u] = "idle"]
  /\ mine' = [mine EXCEPT ![u] = 0]
  /\ watched' = [watched EXCEPT ![u] = 0]
  /\ UNCHANGED <<source, network, serverVars, closer, written>>

-----------------------------------------------------------------------------
(* serve and writeFrames.                                                  *)

ServeAccepts(c) ==
  /\ server = "accept"
  /\ listening
  /\ conn[c] \in {"queued", "reset"}
  /\ \A d \in 1..(c - 1) : conn[d] \notin {"queued", "reset"}
  /\ conn' = [conn EXCEPT ![c] = IF @ = "queued" THEN "open" ELSE "gone"]
  /\ serving' = c
  /\ server' = "accepted"
  /\ UNCHANGED <<source, listening, writing, closer, callerVars, written>>

ServeEnds ==
  /\ server = "accept"
  /\ ~listening
  /\ feedClosed
  /\ server' = "exit"
  /\ UNCHANGED <<source, network, serving, writing, closer, callerVars, written>>

\* Under the lock: after Close nobody would close this connection.
ServeRegisters ==
  /\ server = "accepted"
  /\ \/ /\ feedClosed
        /\ conn' = [conn EXCEPT ![serving] = "gone"]
        /\ server' = "exit"
        /\ UNCHANGED current
     \/ /\ ~feedClosed
        /\ current' = serving
        /\ server' = "read"
        /\ UNCHANGED conn
  /\ UNCHANGED <<version, delivered, channel, closedOnce, panicked, updated, feedClosed, listening,
                 serving, writing, closer, callerVars, written>>

KeepsFrame ==
  /\ server = "read"
  /\ IF feedClosed THEN server' = "leave" /\ UNCHANGED writing
               ELSE server' = "write" /\ writing' = IF writing = 0 THEN version ELSE writing
  /\ UNCHANGED <<source, network, serving, closer, callerVars, written>>

ReadsFrame ==
  /\ server = "read"
  /\ IF feedClosed THEN server' = "leave" /\ UNCHANGED writing
               ELSE server' = "write" /\ writing' = version
  /\ UNCHANGED <<source, network, serving, closer, callerVars, written>>

WritesFrame ==
  /\ server = "write"
  /\ conn[serving] = "open"
  /\ written' = written \cup {writing}
  /\ server' = "mark"
  /\ UNCHANGED <<source, network, serving, writing, closer, callerVars>>

\* The consumer is gone, or took longer than the write deadline.
WriteFails ==
  /\ server = "write"
  /\ server' = "leave"
  /\ UNCHANGED <<source, network, serving, writing, closer, callerVars, written>>

MarksNewAfterClose == writing > delivered
MarksNew == ~feedClosed /\ writing > delivered

MarksWithoutWaking ==
  /\ server = "mark"
  /\ server' = "select"
  /\ delivered' = IF MarksNew THEN writing ELSE delivered
  /\ UNCHANGED <<version, channel, closedOnce, panicked, updated, feedClosed, current, network,
                 serving, writing, closer, callerVars, written>>

MarksNewest ==
  /\ server = "mark"
  /\ server' = "select"
  /\ IF MarksNew
     THEN /\ delivered' = version
          /\ panicked' = (panicked \/ channel \in closedOnce)
          /\ closedOnce' = closedOnce \cup {channel}
          /\ channel' = channel + 1
     ELSE UNCHANGED <<delivered, panicked, closedOnce, channel>>
  /\ UNCHANGED <<version, updated, feedClosed, current, network, serving, writing, closer, callerVars,
                 written>>

\* markDelivered: wakes the waiters by closing the channel they read.
MarksDelivered ==
  /\ server = "mark"
  /\ server' = "select"
  /\ IF MarksNew
     THEN /\ delivered' = writing
          /\ panicked' = (panicked \/ channel \in closedOnce)
          /\ closedOnce' = closedOnce \cup {channel}
          /\ channel' = channel + 1
     ELSE UNCHANGED <<delivered, panicked, closedOnce, channel>>
  /\ UNCHANGED <<version, updated, feedClosed, current, network, serving, writing, closer, callerVars,
                 written>>

\* done, an update, or the tick of 500 ms.
SelectWakes ==
  /\ server = "select"
  /\ \/ feedClosed /\ server' = "leave" /\ UNCHANGED updated
     \/ updated /\ server' = "read" /\ updated' = FALSE
     \/ server' = "read" /\ UNCHANGED updated
  /\ UNCHANGED <<version, delivered, channel, closedOnce, panicked, feedClosed, current, network,
                 serving, writing, closer, callerVars, written>>

ServeLeaves ==
  /\ server = "leave"
  /\ current' = IF current = serving THEN None ELSE current
  /\ conn' = [conn EXCEPT ![serving] = "gone"]
  /\ serving' = None
  /\ writing' = 0
  /\ server' = "accept"
  /\ UNCHANGED <<version, delivered, channel, closedOnce, panicked, updated, feedClosed, listening,
                 closer, callerVars, written>>

-----------------------------------------------------------------------------
(* Close: the flag and the channels under the lock, then the connection,   *)
(* then the listener, then it waits for serve.  A second Close returns.    *)

CloseBegins ==
  /\ ~feedClosed
  /\ feedClosed' = TRUE
  /\ panicked' = (panicked \/ channel \in closedOnce)
  /\ closedOnce' = closedOnce \cup {channel}
  /\ closer' = "closing"
  /\ UNCHANGED <<version, delivered, channel, updated, current, network, serverVars, callerVars,
                 written>>

CloseDropsConn ==
  /\ closer = "closing"
  /\ conn' = IF current = None THEN conn ELSE [conn EXCEPT ![current] = "gone"]
  /\ closer' = "dropped"
  /\ UNCHANGED <<source, listening, serverVars, callerVars, written>>

CloseKeepsListener ==
  /\ closer = "dropped"
  /\ closer' = "waiting"
  /\ UNCHANGED <<source, network, serverVars, callerVars, written>>

CloseListener ==
  /\ closer = "dropped"
  /\ listening' = FALSE
  /\ closer' = "waiting"
  /\ UNCHANGED <<source, conn, serverVars, callerVars, written>>

CloseReturns ==
  /\ closer = "waiting"
  /\ server = "exit"
  /\ closer' = "done"
  /\ UNCHANGED <<source, network, serverVars, callerVars, written>>

Serve ==
  \/ \E c \in Conn : ServeAccepts(c)
  \/ ServeEnds \/ ServeRegisters \/ ReadsFrame \/ WritesFrame \/ WriteFails
  \/ MarksDelivered \/ SelectWakes \/ ServeLeaves
Closing == CloseDropsConn \/ CloseListener \/ CloseReturns
Waiting(u) == WaiterLooks(u) \/ WaiterWakes(u)

Next ==
  \/ \E c \in Conn : Connects(c) \/ Disconnects(c)
  \/ \E u \in Caller :
       Update(u) \/ WaitInitialDelivery(u) \/ Waiting(u) \/ WaiterTimesOut(u) \/ CallReturns(u)
  \/ Serve \/ CloseBegins \/ Closing

Spec == Init /\ [][Next]_vars

\* Goroutines run; a caller is not assumed to time out, nor Close to be called.
Fairness == WF_vars(Serve) /\ WF_vars(Closing) /\ \A u \in Caller : WF_vars(Waiting(u))

FairSpec == Spec /\ Fairness

-----------------------------------------------------------------------------
\* No wakeup is lost: a caller that waits for a version that is delivered, or on
\* a feed that is closed, returns without its context ending.
NoLostWakeup ==
  \A u \in Caller :
    (caller[u] = "wait" /\ (delivered >= mine[u] \/ feedClosed)) ~> caller[u] # "wait"

\* A version reaches a consumer that stays: the frame is read anew before each
\* write, so an update made during a write is written next.
UpdateReachesConsumer ==
  \A v \in 1..MaxVersion :
    (version >= v /\ server = "write") ~> (delivered >= v \/ feedClosed \/ server = "leave")

\* Close ends the goroutine whatever it is doing: accepting, between Accept and
\* the registration of the connection, writing, or asleep.
CloseEnds == feedClosed ~> closer = "done"
=============================================================================
