----------------------------- MODULE FeedPromise -----------------------------
(***************************************************************************)
(* What a caller of an image feed may rely on when its call has succeeded, *)
(* and what the feed has to keep for it (internal/imagefeed/source.go).    *)
(* ImageFeed says how the feed does it.                                    *)
(***************************************************************************)
EXTENDS Naturals

CONSTANT Caller  \* callers of UpdateAndWait and WaitInitialDelivery

VARIABLES
  channel,     \* which Source.deliveredCh is the current one
  closedOnce,  \* the deliveredCh that have been closed
  panicked,    \* has a channel been closed a second time?
  feedClosed,  \* Source.closed and Source.done
  caller,      \* where each caller is
  mine,        \* the version each caller waits for
  written      \* history: versions written completely to a consumer

\* "waits until the connected consumer has accepted a complete write of that
\* exact feed version" (source.go:82-83): a call that succeeds waited for a
\* version that was written completely, or was overtaken by a newer one that
\* was.  streamproc makes one call at a time, so for it the version is exact.
ExactDelivery ==
  \A u \in Caller : caller[u] = "ok" => \E v \in written : v >= mine[u]

\* deliveredCh is closed by markDelivered and by Close: no channel is closed
\* twice, which would bring the process down, and the current one is open until
\* Close, so a waiter never waits on a channel that nobody will close.
ChannelsClosedOnce ==
  /\ ~panicked
  /\ channel \in closedOnce <=> feedClosed
=============================================================================
