---------------------------- MODULE ReplicaStream ----------------------------
(***************************************************************************)
(* workload.WatchHealth, WatchMetrics and StreamLogs: one goroutine keeps  *)
(* a reader per replica and merges what they read into one channel, until  *)
(* the consumer's context is cancelled.  The sources are health.Service    *)
(* and metrics.Service, whose Watch channels drop what does not fit, and   *)
(* instance.Logs, a stream that blocks its writer and may end.             *)
(***************************************************************************)
EXTENDS Naturals, Sequences

CONSTANTS
    Replicas,           \* the instances the workload may ever have
    Initial,            \* those it has when the stream is opened
    Kinds,              \* the kinds of stream to open
    SubBuffer,          \* room of a Watch channel: watchBufferSize, WatchBuffer
    FanInBuffer,        \* room of the merged channel: fanInBuffer
    MaxEvents,          \* bound on the events of a replica, and of any two
    MaxMishaps          \* bound on listings and Logs calls that fail

Logs == {"follow", "tail"}
Watches == {"health", "metrics"}

ASSUME StreamAssumption ==
    /\ Initial \subseteq Replicas
    /\ Kinds \subseteq Watches \cup Logs
    /\ SubBuffer \in Nat \ {0}
    /\ FanInBuffer \in Nat \ {0}
    /\ MaxEvents \in Nat
    /\ MaxMishaps \in Nat

VARIABLES
    kind,               \* what this stream carries
    running,            \* the consumer's context is not cancelled
    replica,            \* the instance table: "unborn", "live" or "deleted"
    tracked,            \* metrics: instances with a poller and a ring
    untrack,            \* metrics: how far Untrack of an instance is
    pushing,            \* metrics: instances whose poller is between ring and subscribers
    listed,             \* the source's subscriber list
    chan,               \* the channel or log stream of each replica
    buffer,             \* what it holds
    accepted,           \* how many events its source ever put in it
    cancelled,          \* subCtx of each replica
    reader,             \* the goroutine that forwards its events
    held,               \* the event that goroutine is trying to send
    fanin,              \* the merging goroutine
    subs,               \* its map of readers
    out,                \* the merged channel
    outOpen,
    got,                \* the last event of each replica the consumer took
    mishaps

source == <<replica, tracked, untrack, pushing>>
tap == <<listed, chan, buffer, accepted>>
reading == <<reader, held>>
consumer == <<out, outOpen, got>>

vars == <<kind, running, source, tap, cancelled, reading, fanin, subs, consumer, mishaps>>

Stages == {"list", "sync", "wait", "join", "done"}

Place(at) == [at |-> at, add |-> {}, drop |-> {}]

TypeOK ==
    /\ kind \in Kinds
    /\ running \in BOOLEAN
    /\ replica \in [Replicas -> {"unborn", "live", "deleted"}]
    /\ tracked \subseteq Replicas
    /\ untrack \in [Replicas -> {"no", "due", "half", "done"}]
    /\ pushing \subseteq Replicas
    /\ listed \subseteq Replicas
    /\ chan \in [Replicas -> {"none", "open", "closed"}]
    /\ buffer \in [Replicas -> Seq(Nat)]
    /\ accepted \in [Replicas -> Nat]
    /\ cancelled \subseteq Replicas
    /\ reader \in [Replicas -> {"none", "reading", "holding", "gone"}]
    /\ held \in [Replicas -> Nat]
    /\ fanin \in [at : Stages, add : SUBSET Replicas, drop : SUBSET Replicas]
    /\ subs \subseteq Replicas
    /\ out \in Seq(Replicas \X Nat)
    /\ outOpen \in BOOLEAN
    /\ got \in [Replicas -> Nat]
    /\ mishaps \in 0..MaxMishaps

Init ==
    /\ kind \in Kinds
    /\ running = TRUE
    /\ replica = [r \in Replicas |-> IF r \in Initial THEN "live" ELSE "unborn"]
    /\ tracked = IF kind = "metrics" THEN Initial ELSE {}
    /\ untrack = [r \in Replicas |-> "no"]
    /\ pushing = {}
    /\ listed = {}
    /\ chan = [r \in Replicas |-> "none"]
    /\ buffer = [r \in Replicas |-> << >>]
    /\ accepted = [r \in Replicas |-> 0]
    /\ cancelled = {}
    /\ reader = [r \in Replicas |-> "none"]
    /\ held = [r \in Replicas |-> 0]
    /\ fanin = Place("list")
    /\ subs = {}
    /\ out = << >>
    /\ outOpen = TRUE
    /\ got = [r \in Replicas |-> 0]
    /\ mishaps = 0

-----------------------------------------------------------------------------
(* The replicas, and the metrics service's handler of their events.        *)

Spawn(r) ==
    /\ replica[r] = "unborn"
    /\ replica' = [replica EXCEPT ![r] = "live"]
    /\ UNCHANGED <<kind, running, tracked, untrack, pushing, tap, cancelled, reading,
                   fanin, subs, consumer, mishaps>>

\* The row goes first; the event that calls Untrack follows.
Remove(r) ==
    /\ replica[r] = "live"
    /\ replica' = [replica EXCEPT ![r] = "deleted"]
    /\ untrack' = [untrack EXCEPT ![r] = IF kind = "metrics" THEN "due" ELSE "no"]
    /\ UNCHANGED <<kind, running, tracked, pushing, tap, cancelled, reading, fanin, subs,
                   consumer, mishaps>>

\* InstanceCreated, Started or Unsuspended.  Bound: none comes after the row went.
Track(r) ==
    /\ kind = "metrics"
    /\ replica[r] = "live"
    /\ r \notin tracked
    /\ tracked' = tracked \cup {r}
    /\ UNCHANGED <<kind, running, replica, untrack, pushing, tap, cancelled, reading, fanin,
                   subs, consumer, mishaps>>

UntrackRing(r) ==
    /\ untrack[r] = "due"
    /\ untrack' = [untrack EXCEPT ![r] = "half"]
    /\ tracked' = tracked \ {r}
    /\ UNCHANGED <<kind, running, replica, pushing, tap, cancelled, reading, fanin, subs,
                   consumer, mishaps>>

\* Under the other mutex: close the subscribers' channels and forget them.
UntrackSubs(r) ==
    /\ untrack[r] = "half"
    /\ untrack' = [untrack EXCEPT ![r] = "done"]
    /\ chan' = IF r \in listed THEN [chan EXCEPT ![r] = "closed"] ELSE chan
    /\ listed' = listed \ {r}
    /\ UNCHANGED <<kind, running, replica, tracked, pushing, buffer, accepted, cancelled,
                   reading, fanin, subs, consumer, mishaps>>

-----------------------------------------------------------------------------
(* The sources.                                                            *)

HasRoom(r) == Len(buffer[r]) < SubBuffer

Bounded(r) == \A q \in Replicas : accepted[q] + (IF q = r THEN 0 ELSE accepted[r]) < MaxEvents

Accept(r) ==
    /\ Bounded(r)
    /\ accepted' = [accepted EXCEPT ![r] = @ + 1]
    /\ buffer' = [buffer EXCEPT ![r] = Append(@, accepted[r] + 1)]

\* A non-blocking send to every subscriber: what does not fit is dropped.
Offer(r) == IF r \in listed /\ HasRoom(r) THEN Accept(r) ELSE UNCHANGED <<accepted, buffer>>

CheckResult(r) ==
    /\ kind = "health"
    /\ replica[r] # "unborn"
    /\ Offer(r)
    /\ UNCHANGED <<kind, running, source, listed, chan, cancelled, reading, fanin, subs,
                   consumer, mishaps>>

\* push found the instance's ring.  Bound: one instance at a time.
Sampled(r) ==
    /\ r \in tracked
    /\ pushing = {}
    /\ Bounded(r)
    /\ pushing' = pushing \cup {r}
    /\ UNCHANGED <<kind, running, replica, tracked, untrack, tap, cancelled, reading, fanin,
                   subs, consumer, mishaps>>

Push(r) ==
    /\ r \in pushing
    /\ pushing' = pushing \ {r}
    /\ Offer(r)
    /\ UNCHANGED <<kind, running, replica, tracked, untrack, listed, chan, cancelled, reading,
                   fanin, subs, consumer, mishaps>>

\* A log stream blocks its writer instead.
LogLine(r) ==
    /\ kind \in Logs
    /\ chan[r] = "open"
    /\ HasRoom(r)
    /\ Accept(r)
    /\ UNCHANGED <<kind, running, source, listed, chan, cancelled, reading, fanin, subs,
                   consumer, mishaps>>

\* EOF, a read error, or a line beyond the scanner's buffer.
LogEnds(r) ==
    /\ kind \in Logs
    /\ chan[r] = "open"
    /\ chan' = [chan EXCEPT ![r] = "closed"]
    /\ UNCHANGED <<kind, running, source, listed, buffer, accepted, cancelled, reading, fanin,
                   subs, consumer, mishaps>>

Done(r) == r \in cancelled \/ ~running

\* The goroutine Watch leaves behind, or the runtime's log stream, sees subCtx
\* done.
Unwatch(r) ==
    /\ chan[r] = "open"
    /\ Done(r)
    /\ chan' = [chan EXCEPT ![r] = "closed"]
    /\ listed' = listed \ {r}
    /\ UNCHANGED <<kind, running, source, buffer, accepted, cancelled, reading, fanin, subs,
                   consumer, mishaps>>

-----------------------------------------------------------------------------
(* The readers.                                                            *)

Receive(r) ==
    /\ reader[r] = "reading"
    /\ buffer[r] # << >>
    /\ reader' = [reader EXCEPT ![r] = "holding"]
    /\ held' = [held EXCEPT ![r] = Head(buffer[r])]
    /\ buffer' = [buffer EXCEPT ![r] = Tail(@)]
    /\ UNCHANGED <<kind, running, source, listed, chan, accepted, cancelled, fanin, subs,
                   consumer, mishaps>>

\* The range or the scan ends.  A cancelled log stream may lose what it holds.
ReaderEnds(r) ==
    /\ reader[r] = "reading"
    /\ chan[r] = "closed"
    /\ buffer[r] = << >> \/ (kind \in Logs /\ Done(r))
    /\ reader' = [reader EXCEPT ![r] = "gone"]
    /\ UNCHANGED <<kind, running, source, tap, cancelled, held, fanin, subs, consumer, mishaps>>

\* Mutant of Send: a full channel costs the event instead of blocking.
SendDrops(r) ==
    /\ reader[r] = "holding"
    /\ out' = IF Len(out) < FanInBuffer THEN Append(out, <<r, held[r]>>) ELSE out
    /\ reader' = [reader EXCEPT ![r] = "reading"]
    /\ held' = [held EXCEPT ![r] = 0]
    /\ UNCHANGED <<kind, running, source, tap, cancelled, fanin, subs, outOpen, got, mishaps>>

Send(r) ==
    /\ reader[r] = "holding"
    /\ Len(out) < FanInBuffer
    /\ out' = Append(out, <<r, held[r]>>)
    /\ reader' = [reader EXCEPT ![r] = "reading"]
    /\ held' = [held EXCEPT ![r] = 0]
    /\ UNCHANGED <<kind, running, source, tap, cancelled, fanin, subs, outOpen, got, mishaps>>

\* Mutant of Quit: the select has no subCtx.Done case.
QuitNever(r) == FALSE /\ UNCHANGED vars

Quit(r) ==
    /\ reader[r] = "holding"
    /\ Done(r)
    /\ reader' = [reader EXCEPT ![r] = "gone"]
    /\ held' = [held EXCEPT ![r] = 0]
    /\ UNCHANGED <<kind, running, source, tap, cancelled, fanin, subs, consumer, mishaps>>

-----------------------------------------------------------------------------
(* The merging goroutine.                                                  *)

\* ListInstances.
Live == {r \in Replicas : replica[r] = "live"}

\* At the start, and at each tick; a tail that is not followed lists once.
Lists ==
    \/ fanin.at = "list"
    \/ fanin.at = "wait" /\ kind # "tail"

Syncing(add, drop) ==
    IF add \cup drop = {} THEN Place("wait") ELSE [at |-> "sync", add |-> add, drop |-> drop]

\* Mutant of Stale: a resync only adds.
StaleNone == {}

\* Readers whose replica the listing does not name.
Stale == subs \ Live

\* Only this goroutine changes its map, so whom to add and whom to drop are
\* settled by the listing.
List ==
    /\ Lists
    /\ fanin' = Syncing(Live \ subs, Stale)
    /\ UNCHANGED <<kind, running, source, tap, cancelled, reading, subs, consumer, mishaps>>

ListFails ==
    /\ Lists
    /\ mishaps < MaxMishaps
    /\ mishaps' = mishaps + 1
    /\ fanin' = Place("wait")
    /\ UNCHANGED <<kind, running, source, tap, cancelled, reading, subs, consumer>>

\* addReplica.
Open(r) ==
    /\ r \in fanin.add
    /\ fanin' = Syncing(fanin.add \ {r}, fanin.drop)
    /\ subs' = subs \cup {r}
    /\ chan' = [chan EXCEPT ![r] = "open"]
    /\ listed' = IF kind \in Watches THEN listed \cup {r} ELSE listed
    /\ reader' = [reader EXCEPT ![r] = "reading"]
    /\ UNCHANGED <<kind, running, source, buffer, accepted, cancelled, held, consumer, mishaps>>

\* Only Logs can fail; the next resync tries again.
OpenFails(r) ==
    /\ r \in fanin.add
    /\ kind \in Logs
    /\ mishaps < MaxMishaps
    /\ mishaps' = mishaps + 1
    /\ fanin' = Syncing(fanin.add \ {r}, fanin.drop)
    /\ UNCHANGED <<kind, running, source, tap, cancelled, reading, subs, consumer>>

\* removeReplica, once every new replica is added.
Prune(r) ==
    /\ fanin.add = {}
    /\ r \in fanin.drop
    /\ fanin' = Syncing({}, fanin.drop \ {r})
    /\ cancelled' = cancelled \cup {r}
    /\ subs' = subs \ {r}
    /\ UNCHANGED <<kind, running, source, tap, reading, consumer, mishaps>>

\* The deferred function, up to its wait: the context is done, or a tail's five
\* seconds are over.
TearDown ==
    /\ fanin.at = "wait"
    /\ ~running \/ kind = "tail"
    /\ fanin' = Place("join")
    /\ cancelled' = cancelled \cup subs
    /\ subs' = {}
    /\ UNCHANGED <<kind, running, source, tap, reading, consumer, mishaps>>

\* Mutant of Joined: the readers still in the map are waited for, and it is empty.
JoinedSubs == \A r \in subs : reader[r] \in {"none", "gone"}

\* wg.Wait.
Joined == \A r \in Replicas : reader[r] \in {"none", "gone"}

Close ==
    /\ fanin.at = "join"
    /\ Joined
    /\ fanin' = Place("done")
    /\ outOpen' = FALSE
    /\ UNCHANGED <<kind, running, source, tap, cancelled, reading, subs, out, got, mishaps>>

-----------------------------------------------------------------------------
(* The consumer.                                                           *)

Take ==
    /\ out # << >>
    /\ out' = Tail(out)
    /\ got' = [got EXCEPT ![Head(out)[1]] = Head(out)[2]]
    /\ UNCHANGED <<kind, running, source, tap, cancelled, reading, fanin, subs, outOpen, mishaps>>

Leave ==
    /\ running
    /\ running' = FALSE
    /\ UNCHANGED <<kind, source, tap, cancelled, reading, fanin, subs, consumer, mishaps>>

-----------------------------------------------------------------------------

Reads(r) == Receive(r) \/ ReaderEnds(r) \/ Send(r) \/ Quit(r)

Merges ==
    \/ List
    \/ ListFails
    \/ \E r \in Replicas : Open(r) \/ OpenFails(r) \/ Prune(r)

Next ==
    \/ \E r \in Replicas :
          \/ Spawn(r)
          \/ Remove(r)
          \/ Track(r)
          \/ UntrackRing(r)
          \/ UntrackSubs(r)
          \/ CheckResult(r)
          \/ Sampled(r)
          \/ Push(r)
          \/ LogLine(r)
          \/ LogEnds(r)
          \/ Unwatch(r)
          \/ Reads(r)
    \/ Merges
    \/ TearDown
    \/ Close
    \/ Take
    \/ Leave

Spec == Init /\ [][Next]_vars

\* Goroutines that can run do, and a select whose context stays done picks that
\* case in the end.  Nobody is bound to consume, cancel, scale or log.
FairSpec ==
    /\ Spec
    /\ WF_vars(Merges)
    /\ SF_vars(TearDown)
    /\ WF_vars(Close)
    /\ \A r \in Replicas : WF_vars(Unwatch(r)) /\ WF_vars(Reads(r))

-----------------------------------------------------------------------------
(* What the streams promise.                                               *)

Idle(r) == reader[r] \in {"none", "gone"}

\* "every per-replica goroutine MUST exit before close(out) runs", or its send
\* panics; nor does a service send to a channel it, or Untrack, has closed.
NoSendAfterClose ==
    /\ ~outOpen => \A r \in Replicas : Idle(r)
    /\ \A r \in listed : chan[r] = "open"

\* What is on its way to the consumer, oldest first: the merged channel, then
\* the event r's reader holds, then what r's source has room for.
Path(r) ==
    out \o (IF reader[r] = "holding" THEN << <<r, held[r]>> >> ELSE << >>)
        \o [k \in DOMAIN buffer[r] |-> <<r, buffer[r][k]>>]

\* Only the source drops events.  What it accepted reaches the consumer in the
\* order it was accepted, each once; nothing is missing until the reader is
\* cancelled.
DeliveredInOrder ==
    \A r \in Replicas :
        LET p == Path(r)
            mine == {k \in DOMAIN p : p[k][1] = r}
        IN  /\ \A k \in mine : p[k][2] > got[r]
            /\ \A j, k \in mine : j < k => p[j][2] < p[k][2]
            /\ ~Done(r) => {p[k][2] : k \in mine} = (got[r] + 1) .. accepted[r]

\* A cancelled stream is closed, and so is a tail that is not followed, whether
\* or not anyone still takes from it.
TeardownEnds == (~running \/ kind = "tail") ~> ~outOpen

\* A replica that stays is read within a resync: for the two services' streams,
\* since a log stream that ended is not opened again.  A removed one is let go.
StreamFollows ==
    \A r \in Replicas :
        /\ (kind \in Watches /\ replica[r] = "live" /\ running)
               ~> (~Idle(r) \/ replica[r] = "deleted" \/ ~running)
        /\ replica[r] = "deleted" ~> Idle(r)

=============================================================================
