------------------------- MODULE ReplicaStream_proofs -------------------------
(***************************************************************************)
(* No goroutine of a stream sends on a channel that is closed, and what a  *)
(* source accepted is delivered in its order, each event once, for any     *)
(* replicas, kinds of stream, buffers and failures.                        *)
(*                                                                         *)
(* The argument: only Open starts a reader, the list of readers to start   *)
(* is empty outside the "sync" stage, and Close, which waits for them all, *)
(* is taken from a stage that "sync" cannot follow.  On the source's side  *)
(* the two who close a subscriber's channel take it off the list in the    *)
(* same critical section, and log streams are on no list.                  *)
(***************************************************************************)
EXTENDS ReplicaStream, TLAPS

-----------------------------------------------------------------------------
(* The inductive invariant.                                                *)

\* A listing's remainder is only ever worked off in the "sync" stage.
OnlySyncAdds == fanin.add \cup fanin.drop # {} => fanin.at = "sync"

\* The merged channel is closed in the last stage only.
ClosedAtEnd == ~outOpen => fanin.at = "done"

\* From then on every reader is gone.
ReadersGone == fanin.at = "done" => \A r \in Replicas : Idle(r)

\* A service never sends to a closed subscriber.
ListedOpen == \A r \in listed : chan[r] = "open"

\* Log streams have no subscriber list.
LogsUnlisted == kind \in Logs => listed = {}

IInv == TypeOK /\ OnlySyncAdds /\ ClosedAtEnd /\ ReadersGone /\ ListedOpen /\ LogsUnlisted

-----------------------------------------------------------------------------

\* What a listing or a step of its working-off leaves the merging goroutine at.
LEMMA SyncingType ==
    ASSUME NEW A \in SUBSET Replicas, NEW D \in SUBSET Replicas
    PROVE  /\ Syncing(A, D) \in [at : Stages, add : SUBSET Replicas, drop : SUBSET Replicas]
           /\ Syncing(A, D).add = A
           /\ Syncing(A, D).drop = D
           /\ Syncing(A, D).at \in {"wait", "sync"}
           /\ A \cup D # {} => Syncing(A, D).at = "sync"
<1>1. CASE A \cup D = {}
  BY <1>1 DEF Syncing, Place, Stages
<1>2. CASE A \cup D # {}
  BY <1>2 DEF Syncing, Stages
<1> QED BY <1>1, <1>2

\* A stage without a listing to work off.
LEMMA PlaceType ==
    ASSUME NEW at \in Stages
    PROVE  /\ Place(at) \in [at : Stages, add : SUBSET Replicas, drop : SUBSET Replicas]
           /\ Place(at).at = at
           /\ Place(at).add = {}
           /\ Place(at).drop = {}
BY DEF Place

\* The stream starts in the invariant.
LEMMA InitInv == ASSUME Init PROVE IInv
<1> USE StreamAssumption DEF Init
<1>1. fanin = Place("list") /\ "list" \in Stages
  BY DEF Stages
<1>2. TypeOK
  BY <1>1, PlaceType DEF TypeOK
<1>3. OnlySyncAdds /\ ReadersGone
  BY <1>1, PlaceType DEF OnlySyncAdds, ReadersGone
<1> QED BY <1>2, <1>3 DEF IInv, ClosedAtEnd, ListedOpen, LogsUnlisted

-----------------------------------------------------------------------------
(* Steps that leave the merging goroutine and its channel alone.           *)

\* All but the readers, the sources and the merging goroutine's own moves.
LEMMA CalmSteps ==
    ASSUME IInv, NEW r \in Replicas,
           Spawn(r) \/ Remove(r) \/ Track(r) \/ UntrackRing(r) \/ Sampled(r)
    PROVE  IInv'
<1> USE DEF IInv, OnlySyncAdds, ClosedAtEnd, ReadersGone, ListedOpen, LogsUnlisted, Idle,
            source, tap, reading, consumer
<1>1. UNCHANGED <<kind, running, tap, cancelled, reading, fanin, subs, consumer, mishaps>>
  BY DEF Spawn, Remove, Track, UntrackRing, Sampled
<1>2. /\ replica' \in [Replicas -> {"unborn", "live", "deleted"}]
      /\ tracked' \subseteq Replicas
      /\ untrack' \in [Replicas -> {"no", "due", "half", "done"}]
      /\ pushing' \subseteq Replicas
  BY DEF TypeOK, Spawn, Remove, Track, UntrackRing, Sampled
<1>3. TypeOK'
  BY <1>1, <1>2 DEF TypeOK
<1> QED BY <1>1, <1>3

\* An event accepted or not: buffers stay buffers.
LEMMA AcceptType ==
    ASSUME TypeOK, NEW r \in Replicas,
           Accept(r) \/ UNCHANGED <<accepted, buffer>>
    PROVE  /\ buffer' \in [Replicas -> Seq(Nat)]
           /\ accepted' \in [Replicas -> Nat]
<1>1. CASE Accept(r)
  <2>1. accepted[r] + 1 \in Nat /\ buffer[r] \in Seq(Nat)
    BY DEF TypeOK
  <2>2. Append(buffer[r], accepted[r] + 1) \in Seq(Nat)
    BY <2>1
  <2> QED BY <1>1, <2>1, <2>2 DEF Accept, TypeOK
<1>2. CASE UNCHANGED <<accepted, buffer>>
  BY <1>2 DEF TypeOK
<1> QED BY <1>1, <1>2

\* A result, a sample or a log line offered to the subscribers.
LEMMA SourceSteps ==
    ASSUME IInv, NEW r \in Replicas,
           CheckResult(r) \/ Push(r) \/ LogLine(r)
    PROVE  IInv'
<1> USE DEF IInv, OnlySyncAdds, ClosedAtEnd, ReadersGone, ListedOpen, LogsUnlisted, Idle,
            source, tap, reading, consumer
<1>1. UNCHANGED <<kind, running, replica, tracked, untrack, listed, chan, cancelled, reading,
                  fanin, subs, consumer, mishaps>>
  BY DEF CheckResult, Push, LogLine
<1>2. Accept(r) \/ UNCHANGED <<accepted, buffer>>
  BY DEF CheckResult, Push, LogLine, Offer
<1>3. pushing' \subseteq Replicas
  BY DEF TypeOK, CheckResult, Push, LogLine
<1>4. TypeOK'
  BY <1>1, <1>2, <1>3, AcceptType DEF TypeOK
<1> QED BY <1>1, <1>4

\* Closing a replica's channel: whoever does it, the list loses it too.
LEMMA ClosingSteps ==
    ASSUME IInv, NEW r \in Replicas,
           UntrackSubs(r) \/ LogEnds(r) \/ Unwatch(r)
    PROVE  IInv'
<1> USE DEF IInv, source, tap, reading, consumer
<1>1. UNCHANGED <<kind, running, replica, tracked, pushing, buffer, accepted, cancelled,
                  reading, fanin, subs, consumer, mishaps>>
  BY DEF UntrackSubs, LogEnds, Unwatch
<1>2. /\ chan' \in [Replicas -> {"none", "open", "closed"}]
      /\ \A q \in Replicas \ {r} : chan'[q] = chan[q]
  BY DEF TypeOK, UntrackSubs, LogEnds, Unwatch
<1>3. /\ untrack' \in [Replicas -> {"no", "due", "half", "done"}]
      /\ listed' \subseteq listed
  BY DEF TypeOK, UntrackSubs, LogEnds, Unwatch
<1>4. r \notin listed'
  BY DEF UntrackSubs, LogEnds, Unwatch, LogsUnlisted
<1>5. TypeOK'
  BY <1>1, <1>2, <1>3 DEF TypeOK
<1>6. ListedOpen'
  BY <1>2, <1>3, <1>4 DEF ListedOpen, TypeOK
<1> QED
  BY <1>1, <1>3, <1>5, <1>6
  DEF OnlySyncAdds, ClosedAtEnd, ReadersGone, LogsUnlisted, Idle

\* A reader moves: it was not idle, so the merged channel is still open.
LEMMA ReaderSteps ==
    ASSUME IInv, NEW r \in Replicas, Reads(r)
    PROVE  IInv'
<1> USE DEF IInv, source, tap, reading, consumer, Reads
<1>1. UNCHANGED <<kind, running, source, listed, chan, accepted, cancelled, fanin, subs,
                  outOpen, got, mishaps>>
  BY DEF Receive, ReaderEnds, Send, Quit
<1>2. reader[r] \in {"reading", "holding"}
  BY DEF Receive, ReaderEnds, Send, Quit
<1>3. fanin.at # "done"
  BY <1>2 DEF ReadersGone, Idle
<1>4. /\ reader' \in [Replicas -> {"none", "reading", "holding", "gone"}]
      /\ held' \in [Replicas -> Nat]
      /\ buffer' \in [Replicas -> Seq(Nat)]
      /\ out' \in Seq(Replicas \X Nat)
  <2>1. CASE Receive(r)
    <3>1. buffer[r] \in Seq(Nat) /\ buffer[r] # << >>
      BY <2>1 DEF Receive, TypeOK
    <3>2. Head(buffer[r]) \in Nat /\ Tail(buffer[r]) \in Seq(Nat)
      BY <3>1
    <3> QED BY <2>1, <3>2 DEF Receive, TypeOK
  <2>2. CASE ReaderEnds(r)
    BY <2>2 DEF ReaderEnds, TypeOK
  <2>3. CASE Send(r)
    BY <2>3 DEF Send, TypeOK
  <2>4. CASE Quit(r)
    BY <2>4 DEF Quit, TypeOK
  <2> QED BY <2>1, <2>2, <2>3, <2>4
<1>5. TypeOK'
  BY <1>1, <1>4 DEF TypeOK
<1> QED
  BY <1>1, <1>3, <1>5
  DEF OnlySyncAdds, ClosedAtEnd, ReadersGone, ListedOpen, LogsUnlisted

-----------------------------------------------------------------------------
(* The merging goroutine and the consumer.                                 *)

\* A listing comes before the last stage, and leaves the goroutine before it.
LEMMA ListSteps ==
    ASSUME IInv, List \/ ListFails \/ (\E r \in Replicas : OpenFails(r))
    PROVE  IInv'
<1> USE StreamAssumption DEF IInv, source, tap, reading, consumer
<1>1. UNCHANGED <<kind, running, source, tap, cancelled, reading, subs, consumer>>
  BY DEF List, ListFails, OpenFails
<1>2. mishaps' \in 0..MaxMishaps
  <2>1. CASE List
    BY <2>1 DEF List, TypeOK
  <2>2. CASE ListFails \/ \E r \in Replicas : OpenFails(r)
    <3>1. mishaps' = mishaps + 1 /\ mishaps < MaxMishaps
      BY <2>2 DEF ListFails, OpenFails
    <3> QED BY <3>1 DEF TypeOK
  <2> QED BY <2>1, <2>2
<1>3. Live \subseteq Replicas /\ Stale \subseteq Replicas
  BY DEF Live, Stale, TypeOK
<1>4. outOpen
  BY DEF List, ListFails, OpenFails, Lists, ClosedAtEnd, OnlySyncAdds
<1>5. PICK A \in SUBSET Replicas, D \in SUBSET Replicas :
          fanin' = Syncing(A, D) \/ fanin' = Place("wait")
  <2>1. CASE List
    BY <2>1, <1>3 DEF List, TypeOK
  <2>2. CASE ListFails
    BY <2>2 DEF ListFails
  <2>3. CASE \E r \in Replicas : OpenFails(r)
    BY <2>3 DEF OpenFails, TypeOK
  <2> QED BY <2>1, <2>2, <2>3
<1>6. /\ fanin' \in [at : Stages, add : SUBSET Replicas, drop : SUBSET Replicas]
      /\ fanin'.add \cup fanin'.drop # {} => fanin'.at = "sync"
      /\ fanin'.at # "done"
  <2>1. CASE fanin' = Syncing(A, D)
    BY <2>1, SyncingType, ZenonT(60)
  <2>2. CASE fanin' = Place("wait")
    BY <2>2, PlaceType DEF Stages
  <2> QED BY <1>5, <2>1, <2>2
<1>7. TypeOK'
  BY <1>1, <1>2, <1>6 DEF TypeOK
<1> QED
  BY <1>1, <1>4, <1>6, <1>7
  DEF OnlySyncAdds, ClosedAtEnd, ReadersGone, ListedOpen, LogsUnlisted

\* The only step that starts a reader, in the "sync" stage.
LEMMA OpenStep ==
    ASSUME IInv, NEW r \in Replicas, Open(r)
    PROVE  IInv'
<1> USE DEF IInv, source, tap, reading, consumer, Open
<1>1. fanin.at = "sync" /\ outOpen
  BY DEF OnlySyncAdds, ClosedAtEnd
<1>2. /\ fanin.add \ {r} \in SUBSET Replicas
      /\ fanin.drop \in SUBSET Replicas
      /\ fanin' = Syncing(fanin.add \ {r}, fanin.drop)
  BY DEF TypeOK
<1>3. PICK A \in SUBSET Replicas, D \in SUBSET Replicas : fanin' = Syncing(A, D)
  BY <1>2
<1>4. /\ fanin' \in [at : Stages, add : SUBSET Replicas, drop : SUBSET Replicas]
      /\ fanin'.add \cup fanin'.drop # {} => fanin'.at = "sync"
      /\ fanin'.at # "done"
  <2> HIDE DEF IInv, Open
  <2> QED BY <1>3, SyncingType, SMTT(30)
<1>5. TypeOK'
  BY <1>4 DEF TypeOK
<1>6. ListedOpen'
  BY DEF ListedOpen, TypeOK
<1>7. LogsUnlisted'
  BY DEF LogsUnlisted, Logs, Watches
<1> QED
  BY <1>1, <1>4, <1>5, <1>6, <1>7 DEF OnlySyncAdds, ClosedAtEnd, ReadersGone

\* A replica that is gone is let go.
LEMMA PruneStep ==
    ASSUME IInv, NEW r \in Replicas, Prune(r)
    PROVE  IInv'
<1> USE DEF IInv, source, tap, reading, consumer, Prune
<1>1. fanin.at = "sync" /\ outOpen
  BY DEF OnlySyncAdds, ClosedAtEnd
<1>2. PICK D \in SUBSET Replicas : fanin' = Syncing({}, D)
  BY DEF TypeOK
<1>3. /\ fanin' \in [at : Stages, add : SUBSET Replicas, drop : SUBSET Replicas]
      /\ fanin'.add \cup fanin'.drop # {} => fanin'.at = "sync"
      /\ fanin'.at # "done"
  <2> HIDE DEF IInv, Prune
  <2> QED BY <1>2, SyncingType
<1>4. TypeOK'
  BY <1>3 DEF TypeOK
<1> QED
  BY <1>1, <1>3, <1>4
  DEF OnlySyncAdds, ClosedAtEnd, ReadersGone, ListedOpen, LogsUnlisted

\* The deferred teardown: first the wait, then the close.
LEMMA EndSteps ==
    ASSUME IInv, TearDown \/ Close
    PROVE  IInv'
<1> USE DEF IInv, source, tap, reading, consumer
<1>1. CASE TearDown
  <2>1. /\ fanin' = Place("join")
        /\ fanin'.at = "join"
        /\ fanin' \in [at : Stages, add : SUBSET Replicas, drop : SUBSET Replicas]
        /\ fanin'.add \cup fanin'.drop = {}
    BY <1>1, PlaceType DEF TearDown, Stages
  <2>2. outOpen
    BY <1>1 DEF TearDown, ClosedAtEnd
  <2>3. TypeOK'
    BY <1>1, <2>1 DEF TypeOK, TearDown
  <2> QED
    BY <1>1, <2>1, <2>2, <2>3
    DEF TearDown, OnlySyncAdds, ClosedAtEnd, ReadersGone, ListedOpen, LogsUnlisted
<1>2. CASE Close
  <2>1. /\ fanin' = Place("done")
        /\ fanin'.at = "done"
        /\ fanin' \in [at : Stages, add : SUBSET Replicas, drop : SUBSET Replicas]
        /\ fanin'.add \cup fanin'.drop = {}
    BY <1>2, PlaceType DEF Close, Stages
  <2>2. TypeOK'
    BY <1>2, <2>1 DEF TypeOK, Close
  <2>3. ReadersGone'
    BY <1>2 DEF Close, Joined, ReadersGone, Idle
  <2> QED
    BY <1>2, <2>1, <2>2, <2>3
    DEF Close, OnlySyncAdds, ClosedAtEnd, ListedOpen, LogsUnlisted
<1> QED BY <1>1, <1>2

\* The consumer takes an event or leaves.
LEMMA ConsumerSteps ==
    ASSUME IInv, Take \/ Leave
    PROVE  IInv'
<1> USE DEF IInv, source, tap, reading, consumer
<1>1. UNCHANGED <<kind, source, tap, cancelled, reading, fanin, subs, outOpen, mishaps>>
  BY DEF Take, Leave
<1>2. /\ running' \in BOOLEAN
      /\ out' \in Seq(Replicas \X Nat)
      /\ got' \in [Replicas -> Nat]
  <2>1. CASE Take
    <3>1. Head(out) \in Replicas \X Nat /\ Tail(out) \in Seq(Replicas \X Nat)
      BY <2>1 DEF Take, TypeOK
    <3> QED BY <2>1, <3>1 DEF Take, TypeOK
  <2>2. CASE Leave
    BY <2>2 DEF Leave, TypeOK
  <2> QED BY <2>1, <2>2
<1>3. TypeOK'
  BY <1>1, <1>2 DEF TypeOK
<1> QED
  BY <1>1, <1>3
  DEF OnlySyncAdds, ClosedAtEnd, ReadersGone, ListedOpen, LogsUnlisted, Idle

-----------------------------------------------------------------------------

\* Every step keeps the invariant.
LEMMA NextInv == ASSUME IInv, [Next]_vars PROVE IInv'
<1>1. CASE Next
  <2>1. ASSUME NEW r \in Replicas,
               Spawn(r) \/ Remove(r) \/ Track(r) \/ UntrackRing(r) \/ Sampled(r)
        PROVE  IInv'
    BY <2>1, CalmSteps
  <2>2. ASSUME NEW r \in Replicas, CheckResult(r) \/ Push(r) \/ LogLine(r)
        PROVE  IInv'
    BY <2>2, SourceSteps
  <2>3. ASSUME NEW r \in Replicas, UntrackSubs(r) \/ LogEnds(r) \/ Unwatch(r)
        PROVE  IInv'
    BY <2>3, ClosingSteps
  <2>4. ASSUME NEW r \in Replicas, Reads(r) \/ Open(r) \/ Prune(r)
        PROVE  IInv'
    BY <2>4, ReaderSteps, OpenStep, PruneStep
  <2>5. ASSUME Merges PROVE IInv'
    BY <2>5, <2>4, ListSteps DEF Merges
  <2>6. ASSUME TearDown \/ Close \/ Take \/ Leave PROVE IInv'
    BY <2>6, EndSteps, ConsumerSteps
  <2> QED BY <1>1, <2>1, <2>2, <2>3, <2>4, <2>5, <2>6 DEF Next
<1>2. CASE UNCHANGED vars
  BY <1>2
  DEF vars, source, tap, reading, consumer, IInv, TypeOK, OnlySyncAdds, ClosedAtEnd,
      ReadersGone, ListedOpen, LogsUnlisted, Idle
<1> QED BY <1>1, <1>2

\* The invariant holds throughout.
THEOREM Invariance == Spec => []IInv
BY InitInv, NextInv, PTL DEF Spec

\* Every behaviour keeps channels, buffers, readers and the merging goroutine
\* well typed: no buffer ever holds what is not an event.
THEOREM TypeCorrect == Spec => []TypeOK
<1>1. IInv => TypeOK
  BY DEF IInv
<1> QED BY <1>1, Invariance, PTL

\* For any replicas, buffers and failures, nothing is sent on the merged channel
\* after Close, and no service sends to a subscriber whose channel is closed.
THEOREM NeverSendsAfterClose == Spec => []NoSendAfterClose
<1>1. IInv => NoSendAfterClose
  BY DEF IInv, NoSendAfterClose, ClosedAtEnd, ReadersGone, ListedOpen
<1> QED BY <1>1, Invariance, PTL

-----------------------------------------------------------------------------
(* Nothing accepted is lost, doubled or reordered on its way.              *)
(*                                                                         *)
(* An event is in the merged channel, in its reader's hand or in its       *)
(* source's buffer, and each of these places is ahead of the next.  Only   *)
(* Quit throws one away, and a replica is opened once: its reader has not  *)
(* run before, or was cancelled.                                           *)

InOut(r, n) == \E k \in DOMAIN out : out[k] = <<r, n>>
InHand(r, n) == reader[r] = "holding" /\ held[r] = n
InBuffer(r, n) == \E k \in DOMAIN buffer[r] : buffer[r][k] = n

OnTheWay(r, n) == InOut(r, n) \/ InHand(r, n) \/ InBuffer(r, n)

\* The merged channel and the buffer hold a replica's events in order.
OutUp(r) ==
    \A j, k \in DOMAIN out : j < k /\ out[j][1] = r /\ out[k][1] = r => out[j][2] < out[k][2]

BufferUp(r) == \A j, k \in DOMAIN buffer[r] : j < k => buffer[r][j] < buffer[r][k]

\* What is on its way was accepted and is not with the consumer yet.
Fresh(r) ==
    /\ got[r] <= accepted[r]
    /\ \A n \in Nat : OnTheWay(r, n) => got[r] < n /\ n <= accepted[r]

\* What is further on its way was accepted earlier.
Queued(r) ==
    /\ \A n, m \in Nat : InOut(r, n) /\ (InHand(r, m) \/ InBuffer(r, m)) => n < m
    /\ \A n, m \in Nat : InHand(r, n) /\ InBuffer(r, m) => n < m

\* A reader that was not cancelled has lost nothing.
Whole(r) == ~Done(r) => \A n \in Nat : got[r] < n /\ n <= accepted[r] => OnTheWay(r, n)

Flow(r) == OutUp(r) /\ BufferUp(r) /\ Fresh(r) /\ Queued(r) /\ Whole(r)

\* A reader that ran is in the map or was cancelled, and the map's are not opened
\* again.
Opened ==
    /\ \A r \in Replicas : reader[r] # "none" => r \in subs \cup cancelled
    /\ fanin.add \cap subs = {}

FlowInv == Opened /\ \A r \in Replicas : Flow(r)

\* The positions of a sequence's tail, and of a sequence with one more element.
LEMMA TailAt ==
    ASSUME NEW S, NEW s \in Seq(S), s # << >>
    PROVE  /\ 1 \in DOMAIN s /\ Head(s) = s[1] /\ Head(s) \in S
           /\ \A k : k \in DOMAIN Tail(s) <=> k \in Nat \ {0} /\ k + 1 \in DOMAIN s
           /\ \A k \in DOMAIN Tail(s) : k \in Nat /\ Tail(s)[k] = s[k + 1]
           /\ \A k \in DOMAIN s : k = 1 \/ (k - 1 \in DOMAIN Tail(s) /\ Tail(s)[k - 1] = s[k])
OBVIOUS

LEMMA AppendAt ==
    ASSUME NEW S, NEW s \in Seq(S), NEW e \in S
    PROVE  /\ DOMAIN Append(s, e) = DOMAIN s \cup {Len(s) + 1}
           /\ \A k \in DOMAIN s : k \in Nat /\ k < Len(s) + 1 /\ Append(s, e)[k] = s[k]
           /\ Append(s, e)[Len(s) + 1] = e
           /\ Len(s) + 1 \in Nat
OBVIOUS

\* A step that leaves a replica's events where they are.
LEMMA StillFlows ==
    ASSUME NEW q \in Replicas, Flow(q),
           OutUp(q)', \A n \in Nat : InOut(q, n)' <=> InOut(q, n),
           buffer'[q] = buffer[q],
           (reader'[q] = "holding") = (reader[q] = "holding"),
           held'[q] = held[q],
           accepted'[q] = accepted[q],
           got'[q] = got[q],
           Done(q) => Done(q)'
    PROVE  Flow(q)'
<1>1. /\ \A n \in Nat : InHand(q, n)' <=> InHand(q, n)
      /\ \A n \in Nat : InBuffer(q, n)' <=> InBuffer(q, n)
  BY DEF InHand, InBuffer
<1>2. \A n \in Nat : OnTheWay(q, n)' <=> OnTheWay(q, n)
  BY <1>1 DEF OnTheWay
<1>3. BufferUp(q)'
  BY DEF Flow, BufferUp
<1>4. Fresh(q)'
  BY <1>2 DEF Flow, Fresh
<1>5. Queued(q)'
  BY <1>1 DEF Flow, Queued
<1>6. Whole(q)'
  BY <1>2 DEF Flow, Whole
<1> QED BY <1>3, <1>4, <1>5, <1>6 DEF Flow

\* The same when the merged channel is not touched at all.
LEMMA StillFlowsAll ==
    ASSUME \A q \in Replicas : Flow(q),
           UNCHANGED <<out, got>>,
           NEW q \in Replicas,
           buffer'[q] = buffer[q],
           (reader'[q] = "holding") = (reader[q] = "holding"),
           held'[q] = held[q],
           accepted'[q] = accepted[q],
           Done(q) => Done(q)'
    PROVE  Flow(q)'
<1>1. OutUp(q)' /\ \A n \in Nat : InOut(q, n)' <=> InOut(q, n)
  BY DEF Flow, OutUp, InOut
<1> QED BY <1>1, StillFlows

\* What a source accepts comes after everything it accepted before.
LEMMA AcceptFlows ==
    ASSUME TypeOK, NEW r \in Replicas, Accept(r), \A q \in Replicas : Flow(q),
           UNCHANGED <<running, cancelled, reader, held, out, got>>
    PROVE  \A q \in Replicas : Flow(q)'
<1>1. /\ accepted \in [Replicas -> Nat]
      /\ buffer \in [Replicas -> Seq(Nat)]
      /\ accepted' = [accepted EXCEPT ![r] = @ + 1]
      /\ buffer' = [buffer EXCEPT ![r] = Append(@, accepted[r] + 1)]
      /\ got \in [Replicas -> Nat]
  BY DEF TypeOK, Accept
<1>2. ASSUME NEW q \in Replicas \ {r} PROVE Flow(q)'
  <2>1. buffer'[q] = buffer[q] /\ accepted'[q] = accepted[q]
    BY <1>1
  <2> QED BY <2>1, StillFlowsAll DEF Done
<1>3. Flow(r)'
  <2>1. PICK n0 \in Nat : n0 = accepted[r] + 1
    BY <1>1
  <2>2. buffer[r] \in Seq(Nat) /\ buffer'[r] = Append(buffer[r], n0) /\ accepted'[r] = n0
    BY <1>1, <2>1
  <2>3. /\ DOMAIN buffer'[r] = DOMAIN buffer[r] \cup {Len(buffer[r]) + 1}
        /\ \A k \in DOMAIN buffer[r] :
              k \in Nat /\ k < Len(buffer[r]) + 1 /\ buffer'[r][k] = buffer[r][k]
        /\ buffer'[r][Len(buffer[r]) + 1] = n0
        /\ Len(buffer[r]) + 1 \in Nat
    BY <2>2, AppendAt
  <2>4. /\ \A n \in Nat : InOut(r, n)' <=> InOut(r, n)
        /\ \A n \in Nat : InHand(r, n)' <=> InHand(r, n)
    BY DEF InOut, InHand
  <2>5. \A n \in Nat : InBuffer(r, n)' <=> InBuffer(r, n) \/ n = n0
    BY <2>3 DEF InBuffer
  <2>6. \A n \in Nat : OnTheWay(r, n) => got[r] < n /\ n < n0
    BY <1>1, <2>1 DEF Flow, Fresh
  <2>7. OutUp(r)'
    BY DEF Flow, OutUp
  <2>8. BufferUp(r)'
    <3>1. ASSUME NEW j \in DOMAIN buffer'[r], NEW k \in DOMAIN buffer'[r], j < k
          PROVE  buffer'[r][j] < buffer'[r][k]
      <4>1. j \in DOMAIN buffer[r] /\ buffer'[r][j] = buffer[r][j]
        BY <2>3, <3>1
      <4>2. CASE k \in DOMAIN buffer[r]
        BY <2>3, <3>1, <4>1, <4>2 DEF Flow, BufferUp
      <4>3. CASE k = Len(buffer[r]) + 1
        <5>1. buffer[r][j] \in Nat /\ InBuffer(r, buffer[r][j])
          BY <2>2, <4>1 DEF InBuffer
        <5> QED BY <2>3, <2>6, <4>1, <4>3, <5>1 DEF OnTheWay
      <4> QED BY <2>3, <4>2, <4>3
    <3> QED BY <3>1 DEF BufferUp
  <2>9. Fresh(r)'
    <3>1. got[r] <= accepted[r] /\ got'[r] = got[r] /\ got[r] \in Nat /\ accepted[r] \in Nat
      BY <1>1 DEF Flow, Fresh
    <3>2. \A n \in Nat : OnTheWay(r, n)' => OnTheWay(r, n) \/ n = n0
      BY <2>4, <2>5 DEF OnTheWay
    <3> QED BY <2>1, <2>2, <2>6, <3>1, <3>2 DEF Fresh
  <2>10. Queued(r)'
    <3>1. \A n \in Nat : InOut(r, n) \/ InHand(r, n) => n < n0
      BY <2>6 DEF OnTheWay
    <3> QED BY <2>4, <2>5, <3>1 DEF Flow, Queued
  <2>11. Whole(r)'
    <3>1. ASSUME ~Done(r)', NEW n \in Nat, got'[r] < n, n <= accepted'[r]
          PROVE  OnTheWay(r, n)'
      <4>1. CASE n = n0
        BY <2>5, <4>1 DEF OnTheWay
      <4>2. CASE n # n0
        <5>1. got[r] < n /\ n <= accepted[r] /\ ~Done(r)
          BY <1>1, <2>1, <2>2, <3>1, <4>2 DEF Done
        <5>2. OnTheWay(r, n)
          BY <5>1 DEF Flow, Whole
        <5> QED BY <2>4, <2>5, <5>2 DEF OnTheWay
      <4> QED BY <4>1, <4>2
    <3> QED BY <3>1 DEF Whole
  <2> QED BY <2>7, <2>8, <2>9, <2>10, <2>11 DEF Flow
<1> QED BY <1>2, <1>3

\* The reader takes the oldest event of the buffer in its hand.
LEMMA ReceiveFlows ==
    ASSUME TypeOK, NEW r \in Replicas, Receive(r), \A q \in Replicas : Flow(q)
    PROVE  \A q \in Replicas : Flow(q)'
<1>1. /\ reader[r] = "reading"
      /\ buffer[r] \in Seq(Nat) /\ buffer[r] # << >>
      /\ reader'[r] = "holding" /\ held'[r] = Head(buffer[r]) /\ buffer'[r] = Tail(buffer[r])
      /\ UNCHANGED <<running, cancelled, accepted, out, got>>
      /\ \A q \in Replicas \ {r} :
            reader'[q] = reader[q] /\ held'[q] = held[q] /\ buffer'[q] = buffer[q]
  BY DEF TypeOK, Receive, consumer
<1>2. ASSUME NEW q \in Replicas \ {r} PROVE Flow(q)'
  BY <1>1, StillFlowsAll DEF Done
<1>3. Flow(r)'
  <2>1. /\ 1 \in DOMAIN buffer[r] /\ held'[r] = buffer[r][1] /\ held'[r] \in Nat
        /\ \A k : k \in DOMAIN buffer'[r] <=> k \in Nat \ {0} /\ k + 1 \in DOMAIN buffer[r]
        /\ \A k \in DOMAIN buffer'[r] : k \in Nat /\ buffer'[r][k] = buffer[r][k + 1]
        /\ \A k \in DOMAIN buffer[r] :
              k = 1 \/ (k - 1 \in DOMAIN buffer'[r] /\ buffer'[r][k - 1] = buffer[r][k])
    BY <1>1, TailAt
  <2>2. PICK n0 \in Nat : n0 = held'[r]
    BY <2>1
  <2>3. /\ \A n \in Nat : InOut(r, n)' <=> InOut(r, n)
        /\ \A n \in Nat : ~InHand(r, n)
        /\ \A n \in Nat : InHand(r, n)' <=> n = n0
    BY <1>1, <2>2 DEF InOut, InHand
  <2>4. \A n \in Nat : InBuffer(r, n) <=> n = n0 \/ InBuffer(r, n)'
    <3>1. ASSUME NEW n \in Nat, InBuffer(r, n) PROVE n = n0 \/ InBuffer(r, n)'
      <4>1. PICK k \in DOMAIN buffer[r] : buffer[r][k] = n
        BY <3>1 DEF InBuffer
      <4> QED BY <2>1, <2>2, <4>1 DEF InBuffer
    <3>2. ASSUME NEW n \in Nat, InBuffer(r, n)' PROVE InBuffer(r, n)
      <4>1. PICK k \in DOMAIN buffer'[r] : buffer'[r][k] = n
        BY <3>2 DEF InBuffer
      <4> QED BY <2>1, <4>1 DEF InBuffer
    <3>3. InBuffer(r, n0)
      BY <2>1, <2>2 DEF InBuffer
    <3> QED BY <3>1, <3>2, <3>3
  <2>5. \A n \in Nat : OnTheWay(r, n)' <=> OnTheWay(r, n)
    BY <2>3, <2>4 DEF OnTheWay
  <2>6. BufferUp(r)'
    <3>1. BufferUp(r)
      BY DEF Flow
    <3>2. ASSUME NEW j \in DOMAIN buffer'[r], NEW k \in DOMAIN buffer'[r], j < k
          PROVE  buffer'[r][j] < buffer'[r][k]
      <4>1. j + 1 \in DOMAIN buffer[r] /\ k + 1 \in DOMAIN buffer[r] /\ j + 1 < k + 1
        BY <2>1, <3>2
      <4>2. buffer'[r][j] = buffer[r][j + 1] /\ buffer'[r][k] = buffer[r][k + 1]
        BY <2>1
      <4> QED BY <3>1, <4>1, <4>2 DEF BufferUp
    <3> QED BY <3>2 DEF BufferUp
  <2>7. ASSUME NEW n \in Nat, InBuffer(r, n)' PROVE n0 < n
    <3>1. PICK k \in DOMAIN buffer'[r] : buffer'[r][k] = n
      BY <2>7 DEF InBuffer
    <3>2. k \in Nat /\ 1 < k + 1 /\ k + 1 \in DOMAIN buffer[r] /\ buffer[r][k + 1] = n
      BY <2>1, <3>1
    <3> QED BY <2>1, <2>2, <3>2 DEF Flow, BufferUp
  <2>8. OutUp(r)' /\ Fresh(r)' /\ Whole(r)'
    BY <1>1, <2>5 DEF Flow, OutUp, Fresh, Whole, Done
  <2>9. Queued(r)'
    BY <2>3, <2>4, <2>7 DEF Flow, Queued
  <2> QED BY <2>6, <2>8, <2>9 DEF Flow
<1> QED BY <1>2, <1>3

\* The reader sends what it holds.
LEMMA SendFlows ==
    ASSUME TypeOK, NEW r \in Replicas, Send(r), \A q \in Replicas : Flow(q)
    PROVE  \A q \in Replicas : Flow(q)'
<1>1. /\ reader[r] = "holding" /\ held[r] \in Nat
      /\ reader'[r] = "reading"
      /\ out \in Seq(Replicas \X Nat) /\ <<r, held[r]>> \in Replicas \X Nat
      /\ out' = Append(out, <<r, held[r]>>)
      /\ UNCHANGED <<running, cancelled, buffer, accepted, got>>
      /\ \A q \in Replicas \ {r} : reader'[q] = reader[q] /\ held'[q] = held[q]
  BY DEF TypeOK, Send, tap
<1>2. PICK n0 \in Nat : n0 = held[r]
  BY <1>1
<1>3. /\ DOMAIN out' = DOMAIN out \cup {Len(out) + 1}
      /\ \A k \in DOMAIN out : k \in Nat /\ k < Len(out) + 1 /\ out'[k] = out[k]
      /\ out'[Len(out) + 1] = <<r, n0>>
      /\ Len(out) + 1 \in Nat
  BY <1>1, <1>2, AppendAt
<1>4. \A q \in Replicas : \A n \in Nat : InOut(q, n)' <=> InOut(q, n) \/ (q = r /\ n = n0)
  <2>1. \A q \in Replicas : \A n \in Nat : InOut(q, n) => InOut(q, n)'
    BY <1>3 DEF InOut
  <2>2. InOut(r, n0)'
    BY <1>3 DEF InOut
  <2>3. ASSUME NEW q \in Replicas, NEW n \in Nat, InOut(q, n)'
        PROVE  InOut(q, n) \/ (q = r /\ n = n0)
    <3>1. PICK k \in DOMAIN out' : out'[k] = <<q, n>>
      BY <2>3 DEF InOut
    <3>2. CASE k \in DOMAIN out
      BY <1>3, <3>1, <3>2 DEF InOut
    <3>3. CASE k = Len(out) + 1
      BY <1>3, <3>1, <3>3
    <3> QED BY <1>3, <3>2, <3>3
  <2> QED BY <2>1, <2>2, <2>3
<1>5. ASSUME NEW q \in Replicas \ {r} PROVE Flow(q)'
  <2>1. OutUp(q)
    BY DEF Flow
  <2>2. ASSUME NEW j \in DOMAIN out', NEW k \in DOMAIN out', j < k,
               out'[j][1] = q, out'[k][1] = q
        PROVE  out'[j][2] < out'[k][2]
    <3>1. j \in DOMAIN out /\ k \in DOMAIN out
      BY <1>3, <2>2
    <3>2. out'[j] = out[j] /\ out'[k] = out[k]
      BY <1>3, <3>1
    <3> QED BY <2>1, <2>2, <3>1, <3>2 DEF OutUp
  <2>3. OutUp(q)'
    BY <2>2 DEF OutUp
  <2> QED BY <1>1, <1>4, <2>3, StillFlows DEF Done
<1>6. Flow(r)'
  <2>1. /\ \A n \in Nat : InHand(r, n) <=> n = n0
        /\ \A n \in Nat : ~InHand(r, n)'
        /\ \A n \in Nat : InBuffer(r, n)' <=> InBuffer(r, n)
    BY <1>1, <1>2 DEF InHand, InBuffer
  <2>2. \A n \in Nat : OnTheWay(r, n)' <=> OnTheWay(r, n)
    BY <1>4, <2>1 DEF OnTheWay
  <2>3. OutUp(r)'
    <3>1. ASSUME NEW j \in DOMAIN out', NEW k \in DOMAIN out', j < k,
                 out'[j][1] = r, out'[k][1] = r
          PROVE  out'[j][2] < out'[k][2]
      <4>1. j \in DOMAIN out /\ out'[j] = out[j]
        BY <1>3, <3>1
      <4>2. CASE k \in DOMAIN out
        BY <1>3, <3>1, <4>1, <4>2 DEF Flow, OutUp
      <4>3. CASE k = Len(out) + 1
        <5>1. out[j] \in Replicas \X Nat
          BY <1>1, <4>1
        <5>2. out[j][2] \in Nat /\ out[j] = <<r, out[j][2]>>
          BY <3>1, <4>1, <5>1
        <5>3. InOut(r, out[j][2])
          BY <4>1, <5>2 DEF InOut
        <5>4. out[j][2] < n0
          BY <2>1, <5>2, <5>3 DEF Flow, Queued
        <5> QED BY <1>3, <4>1, <4>3, <5>4
      <4> QED BY <1>3, <4>2, <4>3
    <3> QED BY <3>1 DEF OutUp
  <2>4. BufferUp(r)' /\ Fresh(r)' /\ Whole(r)'
    BY <1>1, <2>2 DEF Flow, BufferUp, Fresh, Whole, Done
  <2>5. Queued(r)'
    BY <1>4, <2>1 DEF Flow, Queued
  <2> QED BY <2>3, <2>4, <2>5 DEF Flow
<1> QED BY <1>5, <1>6

\* The consumer takes the oldest event of the merged channel.
LEMMA TakeFlows ==
    ASSUME TypeOK, Take, \A q \in Replicas : Flow(q)
    PROVE  \A q \in Replicas : Flow(q)'
<1>1. /\ out \in Seq(Replicas \X Nat) /\ out # << >>
      /\ out' = Tail(out)
      /\ got \in [Replicas -> Nat]
      /\ got' = [got EXCEPT ![Head(out)[1]] = Head(out)[2]]
      /\ UNCHANGED <<running, cancelled, buffer, accepted, reader, held>>
  BY DEF TypeOK, Take, tap, reading
<1>2. /\ 1 \in DOMAIN out /\ Head(out) = out[1] /\ Head(out) \in Replicas \X Nat
      /\ \A k : k \in DOMAIN out' <=> k \in Nat \ {0} /\ k + 1 \in DOMAIN out
      /\ \A k \in DOMAIN out' : k \in Nat /\ out'[k] = out[k + 1]
      /\ \A k \in DOMAIN out : k = 1 \/ (k - 1 \in DOMAIN out' /\ out'[k - 1] = out[k])
  BY <1>1, TailAt
<1>3. PICK r \in Replicas, n0 \in Nat : Head(out) = <<r, n0>>
  BY <1>2
<1>4. out[1] = <<r, n0>> /\ got'[r] = n0 /\ \A q \in Replicas \ {r} : got'[q] = got[q]
  BY <1>1, <1>2, <1>3
<1>5. ASSUME NEW q \in Replicas PROVE OutUp(q)'
  <2>1. OutUp(q)
    BY DEF Flow
  <2>2. ASSUME NEW j \in DOMAIN out', NEW k \in DOMAIN out', j < k,
               out'[j][1] = q, out'[k][1] = q
        PROVE  out'[j][2] < out'[k][2]
    <3>1. j + 1 \in DOMAIN out /\ k + 1 \in DOMAIN out /\ j + 1 < k + 1
      BY <1>2, <2>2
    <3>2. out'[j] = out[j + 1] /\ out'[k] = out[k + 1]
      BY <1>2
    <3> QED BY <2>1, <2>2, <3>1, <3>2 DEF OutUp
  <2> QED BY <2>2 DEF OutUp
<1>6. ASSUME NEW q \in Replicas, NEW n \in Nat
      PROVE  InOut(q, n) <=> InOut(q, n)' \/ (q = r /\ n = n0)
  <2>1. ASSUME InOut(q, n) PROVE InOut(q, n)' \/ (q = r /\ n = n0)
    <3>1. PICK k \in DOMAIN out : out[k] = <<q, n>>
      BY <2>1 DEF InOut
    <3> QED BY <1>2, <1>4, <3>1 DEF InOut
  <2>2. ASSUME InOut(q, n)' PROVE InOut(q, n)
    <3>1. PICK k \in DOMAIN out' : out'[k] = <<q, n>>
      BY <2>2 DEF InOut
    <3> QED BY <1>2, <3>1 DEF InOut
  <2>3. InOut(r, n0)
    BY <1>2, <1>4 DEF InOut
  <2> QED BY <2>1, <2>2, <2>3
<1>7. ASSUME NEW q \in Replicas \ {r} PROVE Flow(q)'
  BY <1>1, <1>4, <1>5, <1>6, StillFlows DEF Done
<1>8. Flow(r)'
  <2>1. /\ \A n \in Nat : InHand(r, n)' <=> InHand(r, n)
        /\ \A n \in Nat : InBuffer(r, n)' <=> InBuffer(r, n)
    BY <1>1 DEF InHand, InBuffer
  <2>2. \A n \in Nat : OnTheWay(r, n) <=> OnTheWay(r, n)' \/ n = n0
    BY <1>6, <2>1 DEF OnTheWay
  <2>3. got[r] < n0 /\ n0 <= accepted[r] /\ got[r] \in Nat /\ accepted[r] \in Nat
    BY <1>1, <2>2 DEF Flow, Fresh, TypeOK
  <2>4. ASSUME NEW n \in Nat, OnTheWay(r, n)' PROVE n0 < n
    <3>1. CASE InOut(r, n)'
      <4>1. PICK k \in DOMAIN out' : out'[k] = <<r, n>>
        BY <3>1 DEF InOut
      <4>2. k + 1 \in DOMAIN out /\ out[k + 1] = <<r, n>> /\ k \in Nat /\ 1 < k + 1
        BY <1>2, <4>1
      <4>3. OutUp(r)
        BY DEF Flow
      <4> QED BY <1>2, <1>4, <4>2, <4>3 DEF OutUp
    <3>2. CASE InHand(r, n) \/ InBuffer(r, n)
      BY <1>6, <3>2 DEF Flow, Queued
    <3> QED BY <2>1, <2>4, <3>1, <3>2 DEF OnTheWay
  <2>5. BufferUp(r)'
    BY <1>1 DEF Flow, BufferUp
  <2>6. Fresh(r)'
    BY <1>1, <1>4, <2>2, <2>3, <2>4 DEF Flow, Fresh
  <2>7. Queued(r)'
    BY <1>6, <2>1 DEF Flow, Queued
  <2>8. Whole(r)'
    <3>1. ASSUME ~Done(r)', NEW n \in Nat, got'[r] < n, n <= accepted'[r]
          PROVE  OnTheWay(r, n)'
      <4>1. ~Done(r) /\ got[r] < n /\ n <= accepted[r] /\ n # n0
        BY <1>1, <1>4, <2>3, <3>1 DEF Done
      <4> QED BY <2>2, <4>1 DEF Flow, Whole
    <3> QED BY <3>1 DEF Whole
  <2> QED BY <1>5, <2>5, <2>6, <2>7, <2>8 DEF Flow
<1> QED BY <1>7, <1>8

\* A reader that gives up had been cancelled, so it may lose what it holds.
LEMMA EndFlows ==
    ASSUME TypeOK, NEW r \in Replicas, ReaderEnds(r) \/ Quit(r),
           \A q \in Replicas : Flow(q)
    PROVE  \A q \in Replicas : Flow(q)'
<1>1. /\ UNCHANGED <<running, cancelled, buffer, accepted, out, got>>
      /\ reader'[r] = "gone"
      /\ \A q \in Replicas \ {r} : reader'[q] = reader[q] /\ held'[q] = held[q]
      /\ reader[r] = "holding" => Done(r)
      /\ reader[r] \in {"reading", "holding"}
  BY DEF TypeOK, ReaderEnds, Quit, tap, consumer
<1>2. ASSUME NEW q \in Replicas \ {r} PROVE Flow(q)'
  BY <1>1, StillFlowsAll DEF Done
<1>3. Flow(r)'
  <2>1. /\ \A n \in Nat : InOut(r, n)' <=> InOut(r, n)
        /\ \A n \in Nat : InBuffer(r, n)' <=> InBuffer(r, n)
        /\ \A n \in Nat : ~InHand(r, n)'
    BY <1>1 DEF InOut, InBuffer, InHand
  <2>2. \A n \in Nat : OnTheWay(r, n)' => OnTheWay(r, n)
    BY <2>1 DEF OnTheWay
  <2>3. OutUp(r)' /\ BufferUp(r)' /\ Fresh(r)'
    BY <1>1, <2>2 DEF Flow, OutUp, BufferUp, Fresh
  <2>4. Queued(r)'
    BY <2>1 DEF Flow, Queued
  <2>5. Whole(r)'
    <3>1. ASSUME ~Done(r)' PROVE \A n \in Nat : OnTheWay(r, n) => OnTheWay(r, n)'
      BY <1>1, <2>1, <3>1 DEF OnTheWay, Done, InHand
    <3> QED BY <1>1, <3>1 DEF Flow, Whole, Done
  <2> QED BY <2>3, <2>4, <2>5 DEF Flow
<1> QED BY <1>2, <1>3

\* A reader is started with an empty hand, where there was none.
LEMMA OpenFlows ==
    ASSUME TypeOK, NEW r \in Replicas, Open(r), \A q \in Replicas : Flow(q), Opened
    PROVE  \A q \in Replicas : Flow(q)'
<1>1. /\ UNCHANGED <<running, cancelled, buffer, accepted, held, out, got>>
      /\ reader'[r] = "reading"
      /\ \A q \in Replicas \ {r} : reader'[q] = reader[q]
      /\ ~Done(r) => reader[r] # "holding"
  BY DEF TypeOK, Open, consumer, Opened, Done
<1>2. ASSUME NEW q \in Replicas \ {r} PROVE Flow(q)'
  BY <1>1, StillFlowsAll DEF Done
<1>3. Flow(r)'
  <2>1. /\ \A n \in Nat : InOut(r, n)' <=> InOut(r, n)
        /\ \A n \in Nat : InBuffer(r, n)' <=> InBuffer(r, n)
        /\ \A n \in Nat : ~InHand(r, n)'
    BY <1>1 DEF InOut, InBuffer, InHand
  <2>2. \A n \in Nat : OnTheWay(r, n)' => OnTheWay(r, n)
    BY <2>1 DEF OnTheWay
  <2>3. OutUp(r)' /\ BufferUp(r)' /\ Fresh(r)'
    BY <1>1, <2>2 DEF Flow, OutUp, BufferUp, Fresh
  <2>4. Queued(r)'
    BY <2>1 DEF Flow, Queued
  <2>5. Whole(r)'
    <3>1. ASSUME ~Done(r)' PROVE \A n \in Nat : OnTheWay(r, n) => OnTheWay(r, n)'
      BY <1>1, <2>1, <3>1 DEF OnTheWay, Done, InHand
    <3> QED BY <1>1, <3>1 DEF Flow, Whole, Done
  <2> QED BY <2>3, <2>4, <2>5 DEF Flow
<1> QED BY <1>2, <1>3

\* Every step keeps the events in order.
LEMMA NextFlows ==
    ASSUME IInv, Next, Opened, \A q \in Replicas : Flow(q)
    PROVE  \A q \in Replicas : Flow(q)'
<1> USE DEF source, tap, reading, consumer
<1>1. TypeOK
  BY DEF IInv
<1>2. ASSUME UNCHANGED <<out, got, buffer, accepted, reader, held>>,
             cancelled \subseteq cancelled', running' => running
      PROVE  \A q \in Replicas : Flow(q)'
  BY <1>2, StillFlowsAll DEF Done
<1>3. ASSUME NEW r \in Replicas,
             Spawn(r) \/ Remove(r) \/ Track(r) \/ UntrackRing(r) \/ UntrackSubs(r)
                \/ Sampled(r) \/ LogEnds(r) \/ Unwatch(r) \/ OpenFails(r) \/ Prune(r)
      PROVE  \A q \in Replicas : Flow(q)'
  BY <1>2, <1>3
  DEF Spawn, Remove, Track, UntrackRing, UntrackSubs, Sampled, LogEnds, Unwatch, OpenFails,
      Prune
<1>4. ASSUME List \/ ListFails \/ TearDown \/ Close \/ Leave
      PROVE  \A q \in Replicas : Flow(q)'
  BY <1>2, <1>4 DEF List, ListFails, TearDown, Close, Leave
<1>5. ASSUME NEW r \in Replicas, CheckResult(r) \/ Push(r) \/ LogLine(r)
      PROVE  \A q \in Replicas : Flow(q)'
  <2>1. UNCHANGED <<running, cancelled, reader, held, out, got>>
    BY <1>5 DEF CheckResult, Push, LogLine
  <2>2. Accept(r) \/ UNCHANGED <<accepted, buffer>>
    BY <1>5 DEF CheckResult, Push, LogLine, Offer
  <2> QED BY <1>1, <1>2, <2>1, <2>2, AcceptFlows
<1>6. ASSUME NEW r \in Replicas, Reads(r) \/ Open(r)
      PROVE  \A q \in Replicas : Flow(q)'
  BY <1>1, <1>6, ReceiveFlows, EndFlows, SendFlows, OpenFlows DEF Reads
<1>7. ASSUME Take PROVE \A q \in Replicas : Flow(q)'
  BY <1>1, <1>7, TakeFlows
<1> QED BY <1>3, <1>4, <1>5, <1>6, <1>7 DEF Next, Merges

\* Every step opens only what is not in the map.
LEMMA NextOpened == ASSUME IInv, Next, Opened PROVE Opened'
<1> USE DEF source, tap, reading, consumer
<1>1. TypeOK /\ OnlySyncAdds
  BY DEF IInv
<1>2. ASSUME UNCHANGED <<reader, subs, cancelled, fanin>> PROVE Opened'
  BY <1>2 DEF Opened
<1>3. ASSUME NEW r \in Replicas,
             Spawn(r) \/ Remove(r) \/ Track(r) \/ UntrackRing(r) \/ UntrackSubs(r)
                \/ CheckResult(r) \/ Push(r) \/ LogLine(r) \/ Sampled(r) \/ LogEnds(r)
                \/ Unwatch(r)
      PROVE  Opened'
  BY <1>2, <1>3
  DEF Spawn, Remove, Track, UntrackRing, UntrackSubs, CheckResult, Push, LogLine, Sampled,
      LogEnds, Unwatch
<1>4. ASSUME NEW r \in Replicas, Reads(r) PROVE Opened'
  <2>1. /\ reader[r] # "none"
        /\ \A q \in Replicas \ {r} : reader'[q] = reader[q]
        /\ UNCHANGED <<subs, cancelled, fanin>>
    BY <1>1, <1>4 DEF Reads, Receive, ReaderEnds, Send, Quit, TypeOK
  <2> QED BY <2>1 DEF Opened
<1>5. ASSUME List \/ ListFails \/ TearDown \/ Close \/ \E r \in Replicas : OpenFails(r)
      PROVE  Opened'
  <2>1. UNCHANGED reader /\ subs' \cup cancelled' = subs \cup cancelled
    BY <1>5 DEF List, ListFails, TearDown, Close, OpenFails
  <2>2. fanin'.add \cap subs' = {}
    <3>1. CASE List
      <4>1. PICK A \in SUBSET Replicas, D \in SUBSET Replicas :
               A = Live \ subs /\ D = Stale
        BY <1>1 DEF Live, Stale, TypeOK
      <4>2. fanin'.add = A
        BY <3>1, <4>1, SyncingType DEF List
      <4> QED BY <3>1, <4>1, <4>2 DEF List
    <3>2. CASE \E r \in Replicas : OpenFails(r)
      <4>1. PICK r \in Replicas : OpenFails(r)
        BY <3>2
      <4>2. fanin.add \ {r} \in SUBSET Replicas /\ fanin.drop \in SUBSET Replicas
        BY <1>1 DEF TypeOK
      <4>3. fanin'.add = fanin.add \ {r} /\ subs' = subs
        BY <4>1, <4>2, SyncingType DEF OpenFails
      <4> QED BY <4>3 DEF Opened
    <3>3. CASE ListFails \/ TearDown \/ Close
      <4>1. fanin'.add = {}
        BY <3>3, PlaceType DEF ListFails, TearDown, Close, Stages
      <4> QED BY <4>1
    <3> QED BY <1>5, <3>1, <3>2, <3>3
  <2> QED BY <2>1, <2>2 DEF Opened
<1>6. ASSUME NEW r \in Replicas, Open(r) PROVE Opened'
  <2>1. fanin.add \ {r} \in SUBSET Replicas /\ fanin.drop \in SUBSET Replicas
    BY <1>1 DEF TypeOK
  <2>2. fanin'.add = fanin.add \ {r}
    BY <1>6, <2>1, SyncingType DEF Open
  <2>3. /\ subs' = subs \cup {r} /\ cancelled' = cancelled
        /\ \A q \in Replicas \ {r} : reader'[q] = reader[q]
    BY <1>1, <1>6 DEF Open, TypeOK
  <2> QED BY <2>2, <2>3 DEF Opened
<1>7. ASSUME NEW r \in Replicas, Prune(r) PROVE Opened'
  <2>1. fanin.drop \ {r} \in SUBSET Replicas
    BY <1>1 DEF TypeOK
  <2>2. fanin'.add = {}
    BY <1>7, <2>1, SyncingType DEF Prune
  <2> QED BY <1>7, <2>2 DEF Prune, Opened
<1>8. ASSUME Take \/ Leave PROVE Opened'
  BY <1>2, <1>8 DEF Take, Leave
<1> QED BY <1>3, <1>4, <1>5, <1>6, <1>7, <1>8 DEF Next, Merges

\* The stream starts with nothing on its way.
LEMMA InitFlows == ASSUME Init PROVE FlowInv
<1> USE DEF Init
<1>1. Opened
  BY PlaceType DEF Opened, Stages
<1>2. ASSUME NEW q \in Replicas PROVE Flow(q)
  <2>1. /\ DOMAIN out = {} /\ DOMAIN buffer[q] = {} /\ reader[q] = "none"
        /\ got[q] = 0 /\ accepted[q] = 0
    OBVIOUS
  <2>2. \A n \in Nat : ~OnTheWay(q, n)
    BY <2>1 DEF OnTheWay, InOut, InHand, InBuffer
  <2>3. OutUp(q) /\ BufferUp(q)
    BY <2>1 DEF OutUp, BufferUp
  <2>4. Fresh(q) /\ Whole(q)
    BY <2>1, <2>2 DEF Fresh, Whole
  <2>5. Queued(q)
    BY <2>2 DEF Queued, OnTheWay
  <2> QED BY <2>3, <2>4, <2>5 DEF Flow
<1> QED BY <1>1, <1>2 DEF FlowInv

\* The order on the way holds throughout.
LEMMA FlowHolds == Spec => []FlowInv
<1>1. Init => FlowInv
  BY InitFlows
<1>2. IInv /\ FlowInv /\ [Next]_vars => FlowInv'
  <2>1. ASSUME IInv, FlowInv, Next PROVE FlowInv'
    BY <2>1, NextFlows, NextOpened DEF FlowInv
  <2>2. ASSUME FlowInv, UNCHANGED vars PROVE FlowInv'
    BY <2>2
    DEF FlowInv, Opened, Flow, OutUp, BufferUp, Fresh, Queued, Whole, Done, OnTheWay, InOut,
        InHand, InBuffer, vars, source, tap, reading, consumer
  <2> QED BY <2>1, <2>2
<1> QED BY <1>1, <1>2, Invariance, PTL DEF Spec

\* The positions of two sequences put together.
LEMMA ConcatAt ==
    ASSUME NEW S, NEW s \in Seq(S), NEW t \in Seq(S)
    PROVE  /\ DOMAIN (s \o t) = 1 .. Len(s) + Len(t)
           /\ \A k \in 1 .. Len(s) : (s \o t)[k] = s[k]
           /\ \A k \in 1 .. Len(t) : (s \o t)[Len(s) + k] = t[k]
OBVIOUS

\* Where an event on its way stands on the path, and what stands there: L are in
\* the merged channel, H with the one in the hand, and B in the buffer.
LEMMA PathParts ==
    ASSUME TypeOK, NEW r \in Replicas
    PROVE  \E L, H, B \in Nat :
              /\ H = (IF reader[r] = "holding" THEN L + 1 ELSE L)
              /\ DOMAIN out = 1 .. L
              /\ DOMAIN buffer[r] = 1 .. B
              /\ DOMAIN Path(r) = 1 .. H + B
              /\ \A k \in 1 .. L : Path(r)[k] = out[k]
              /\ reader[r] = "holding" => Path(r)[H] = <<r, held[r]>>
              /\ \A k \in 1 .. B : Path(r)[H + k] = <<r, buffer[r][k]>>
<1>1. out \in Seq(Replicas \X Nat) /\ held[r] \in Nat /\ buffer[r] \in Seq(Nat)
  BY DEF TypeOK
<1> DEFINE E == Replicas \X Nat
           hand == IF reader[r] = "holding" THEN << <<r, held[r]>> >> ELSE << >>
           rest == [k \in DOMAIN buffer[r] |-> <<r, buffer[r][k]>>]
<1>2. PICK L \in Nat, B \in Nat :
         /\ L = Len(out) /\ DOMAIN out = 1 .. L
         /\ B = Len(buffer[r]) /\ DOMAIN buffer[r] = 1 .. B
  BY <1>1
<1>3. rest \in Seq(E) /\ Len(rest) = B /\ \A k \in 1 .. B : rest[k] = <<r, buffer[r][k]>>
  <2>1. rest \in [1 .. B -> E]
    BY <1>1, <1>2
  <2> QED BY <1>2, <2>1
<1>4. Path(r) = out \o hand \o rest
  BY DEF Path
<1>5. PICK y \in Seq(E) : y = rest
  BY <1>3
<1> HIDE DEF rest, hand
<1>6. Len(y) = B
  BY <1>3, <1>5
<1>7. CASE reader[r] = "holding"
  <2>1. PICK x : x = <<r, held[r]>>
    OBVIOUS
  <2>2. x \in E /\ Path(r) = out \o <<x>> \o y
    BY <1>1, <1>4, <1>5, <1>7, <2>1 DEF hand
  <2>3. PICK z : z = out \o <<x>>
    OBVIOUS
  <2>4. /\ z \in Seq(E) /\ Len(z) = L + 1 /\ z[L + 1] = x
        /\ \A k \in 1 .. L : z[k] = out[k]
    BY <1>1, <1>2, <2>2, <2>3
  <2>5. /\ DOMAIN (z \o y) = 1 .. (L + 1) + B
        /\ \A k \in 1 .. L + 1 : (z \o y)[k] = z[k]
        /\ \A k \in 1 .. B : (z \o y)[L + 1 + k] = y[k]
    <3> HIDE DEF E
    <3>1. z \in Seq(E)
      BY <2>4
    <3>2. /\ DOMAIN (z \o y) = 1 .. Len(z) + Len(y)
          /\ \A k \in 1 .. Len(z) : (z \o y)[k] = z[k]
          /\ \A k \in 1 .. Len(y) : (z \o y)[Len(z) + k] = y[k]
      BY <3>1, ConcatAt
    <3> QED BY <1>6, <2>4, <3>2
  <2>6. \A k \in 1 .. L : Path(r)[k] = out[k]
    BY <1>2, <2>2, <2>3, <2>4, <2>5
  <2>7. Path(r)[L + 1] = <<r, held[r]>>
    BY <1>2, <2>1, <2>2, <2>3, <2>4, <2>5
  <2>8. \A k \in 1 .. B : Path(r)[L + 1 + k] = <<r, buffer[r][k]>>
    BY <1>3, <1>5, <2>2, <2>3, <2>5
  <2>9. DOMAIN Path(r) = 1 .. (L + 1) + B
    BY <2>2, <2>3, <2>5
  <2>10. L + 1 \in Nat
    BY <1>2
  <2> WITNESS L \in Nat, L + 1 \in Nat, B \in Nat
  <2> QED BY <1>2, <1>7, <2>6, <2>7, <2>8, <2>9
<1>8. CASE reader[r] # "holding"
  <2>1. Path(r) = out \o y
    <3>1. out \o << >> = out
      BY <1>1
    <3> QED BY <1>4, <1>5, <1>8, <3>1 DEF hand
  <2>2. /\ DOMAIN (out \o y) = 1 .. L + B
        /\ \A k \in 1 .. L : (out \o y)[k] = out[k]
        /\ \A k \in 1 .. B : (out \o y)[L + k] = y[k]
    <3>1. out \in Seq(E)
      BY <1>1
    <3> HIDE DEF E
    <3>2. /\ DOMAIN (out \o y) = 1 .. Len(out) + Len(y)
          /\ \A k \in 1 .. Len(out) : (out \o y)[k] = out[k]
          /\ \A k \in 1 .. Len(y) : (out \o y)[Len(out) + k] = y[k]
      BY <3>1, ConcatAt
    <3> QED BY <1>2, <1>6, <3>2
  <2>3. \A k \in 1 .. B : Path(r)[L + k] = <<r, buffer[r][k]>>
    BY <1>3, <1>5, <2>1, <2>2
  <2> WITNESS L \in Nat, L \in Nat, B \in Nat
  <2> QED BY <1>2, <1>8, <2>1, <2>2, <2>3
<1> QED BY <1>7, <1>8

\* A path that is ordered place by place is ordered as a whole.
LEMMA FlowOrders ==
    ASSUME TypeOK, NEW r \in Replicas, Flow(r),
           NEW mine, mine = {k \in DOMAIN Path(r) : Path(r)[k][1] = r}
    PROVE  /\ \A k \in mine : Path(r)[k][2] \in Nat /\ Path(r)[k][2] > got[r]
           /\ \A j, k \in mine : j < k => Path(r)[j][2] < Path(r)[k][2]
           /\ ~Done(r) => {Path(r)[k][2] : k \in mine} = (got[r] + 1) .. accepted[r]
<1>1. /\ out \in Seq(Replicas \X Nat) /\ held[r] \in Nat /\ buffer[r] \in Seq(Nat)
      /\ got[r] \in Nat /\ accepted[r] \in Nat
  BY DEF TypeOK
<1>2. PICK p : p = Path(r)
  OBVIOUS
<1>3. PICK L \in Nat, H \in Nat, B \in Nat :
              /\ H = (IF reader[r] = "holding" THEN L + 1 ELSE L)
              /\ DOMAIN out = 1 .. L
              /\ DOMAIN buffer[r] = 1 .. B
              /\ DOMAIN p = 1 .. H + B
              /\ \A k \in 1 .. L : p[k] = out[k]
              /\ reader[r] = "holding" => p[H] = <<r, held[r]>>
              /\ \A k \in 1 .. B : p[H + k] = <<r, buffer[r][k]>>
  BY <1>2, PathParts
<1>4. mine = {k \in DOMAIN p : p[k][1] = r}
  BY <1>2
<1>5. ASSUME NEW k \in DOMAIN p
      PROVE  /\ k \in Nat
             /\ \/ k \in 1 .. L
                \/ reader[r] = "holding" /\ k = H
                \/ \E i \in 1 .. B : k = H + i
  <2>1. k \in Nat /\ 1 <= k /\ k <= H + B
    BY <1>3
  <2>2. k <= H => k \in 1 .. L \/ (reader[r] = "holding" /\ k = H)
    BY <1>3, <2>1
  <2>3. k > H => k - H \in 1 .. B /\ k = H + (k - H)
    BY <2>1
  <2> QED BY <2>1, <2>2, <2>3
<1> DEFINE AtOut(k) == k \in 1 .. L /\ p[k] = out[k] /\ InOut(r, p[k][2])
           AtHand(k) == k = H /\ H > L /\ InHand(r, p[k][2])
           AtBuffer(k) == \E i \in 1 .. B : /\ k = H + i
                                            /\ p[k][2] = buffer[r][i]
                                            /\ InBuffer(r, p[k][2])
<1>6. ASSUME NEW k \in mine
      PROVE  /\ k \in Nat /\ k \in DOMAIN p /\ p[k][1] = r /\ p[k][2] \in Nat
             /\ AtOut(k) \/ AtHand(k) \/ AtBuffer(k)
  <2>1. k \in DOMAIN p /\ p[k][1] = r /\ k \in Nat
    BY <1>4, <1>5
  <2>2. CASE k \in 1 .. L
    <3>1. p[k] = out[k] /\ k \in DOMAIN out
      BY <1>3, <2>2
    <3>2. out[k] \in Replicas \X Nat
      BY <1>1, <3>1
    <3>3. p[k][2] \in Nat /\ out[k] = <<r, p[k][2]>>
      BY <2>1, <3>1, <3>2
    <3>4. AtOut(k)
      BY <2>2, <3>1, <3>3 DEF InOut
    <3> QED BY <2>1, <3>3, <3>4
  <2>3. CASE reader[r] = "holding" /\ k = H
    <3>1. p[k] = <<r, held[r]>> /\ H > L
      BY <1>3, <2>3
    <3>2. AtHand(k)
      BY <2>3, <3>1 DEF InHand
    <3> QED BY <1>1, <2>1, <3>1, <3>2
  <2>4. CASE \E i \in 1 .. B : k = H + i
    <3>1. PICK i \in 1 .. B : k = H + i
      BY <2>4
    <3>2. p[k] = <<r, buffer[r][i]>> /\ i \in DOMAIN buffer[r]
      BY <1>3, <3>1
    <3>3. p[k][2] = buffer[r][i] /\ buffer[r][i] \in Nat
      BY <1>1, <3>2
    <3>4. InBuffer(r, p[k][2])
      BY <3>2, <3>3 DEF InBuffer
    <3>5. AtBuffer(k)
      BY <3>1, <3>3, <3>4
    <3> QED BY <2>1, <3>3, <3>5
  <2> QED BY <1>5, <2>1, <2>2, <2>3, <2>4
<1>7. ASSUME NEW k \in mine PROVE OnTheWay(r, p[k][2])
  BY <1>6 DEF OnTheWay
<1>8. ASSUME NEW k \in mine PROVE p[k][2] > got[r] /\ p[k][2] <= accepted[r]
  BY <1>1, <1>6, <1>7 DEF Flow, Fresh
<1>9. ASSUME NEW j \in mine, NEW k \in mine, j < k PROVE p[j][2] < p[k][2]
  <2>1. j \in Nat /\ k \in Nat /\ p[j][2] \in Nat /\ p[k][2] \in Nat
    BY <1>6
  <2>2. CASE AtOut(j) /\ AtOut(k)
    <3>1. out[j][1] = r /\ out[k][1] = r /\ j \in DOMAIN out /\ k \in DOMAIN out
      BY <1>3, <1>6, <2>2
    <3> QED BY <1>9, <2>2, <3>1 DEF Flow, OutUp
  <2>3. CASE AtOut(j) /\ (AtHand(k) \/ AtBuffer(k))
    BY <2>1, <2>3 DEF Flow, Queued
  <2>4. CASE AtHand(j) /\ AtBuffer(k)
    BY <2>1, <2>4 DEF Flow, Queued
  <2>5. CASE AtBuffer(j) /\ AtBuffer(k)
    <3>1. PICK a \in 1 .. B, b \in 1 .. B :
             j = H + a /\ k = H + b /\ p[j][2] = buffer[r][a] /\ p[k][2] = buffer[r][b]
      BY <2>5
    <3>2. a < b /\ a \in DOMAIN buffer[r] /\ b \in DOMAIN buffer[r]
      BY <1>3, <1>9, <3>1
    <3> QED BY <3>1, <3>2 DEF Flow, BufferUp
  <2>6. AtHand(j) \/ AtBuffer(j) => ~AtOut(k) /\ ~AtHand(k)
    <3>1. AtHand(j) \/ AtBuffer(j) => j >= H
      OBVIOUS
    <3>2. AtOut(k) \/ AtHand(k) => k <= H
      BY <1>3
    <3> QED BY <1>9, <2>1, <3>1, <3>2
  <2> QED BY <1>6, <2>2, <2>3, <2>4, <2>5, <2>6
<1>10. ASSUME NEW n \in Nat, OnTheWay(r, n) PROVE \E k \in mine : p[k][2] = n
  <2>1. ASSUME NEW k \in DOMAIN p, p[k] = <<r, n>> PROVE \E i \in mine : p[i][2] = n
    BY <1>4, <2>1
  <2>2. CASE InOut(r, n)
    <3>1. PICK k \in 1 .. L : out[k] = <<r, n>>
      BY <1>3, <2>2 DEF InOut
    <3>2. k \in DOMAIN p /\ p[k] = <<r, n>>
      BY <1>3, <3>1
    <3> QED BY <2>1, <3>2
  <2>3. CASE InHand(r, n)
    <3>1. H \in DOMAIN p /\ p[H] = <<r, n>>
      BY <1>3, <2>3 DEF InHand
    <3> QED BY <2>1, <3>1
  <2>4. CASE InBuffer(r, n)
    <3>1. PICK i \in 1 .. B : buffer[r][i] = n
      BY <1>3, <2>4 DEF InBuffer
    <3>2. H + i \in DOMAIN p /\ p[H + i] = <<r, n>>
      BY <1>3, <3>1
    <3> QED BY <2>1, <3>2
  <2> QED BY <1>10, <2>2, <2>3, <2>4 DEF OnTheWay
<1>11. ASSUME ~Done(r) PROVE {p[k][2] : k \in mine} = (got[r] + 1) .. accepted[r]
  <2>1. ASSUME NEW k \in mine PROVE p[k][2] \in (got[r] + 1) .. accepted[r]
    BY <1>1, <1>6, <1>8
  <2>2. ASSUME NEW n \in (got[r] + 1) .. accepted[r] PROVE \E k \in mine : p[k][2] = n
    <3>1. n \in Nat /\ got[r] < n /\ n <= accepted[r]
      BY <1>1
    <3> QED BY <1>10, <1>11, <3>1 DEF Flow, Whole
  <2> QED BY <2>1, <2>2
<1> QED BY <1>2, <1>6, <1>8, <1>9, <1>11

\* For any replicas, buffers and failures, and however far behind the consumer
\* is: what a source accepted reaches the consumer in the order it was accepted,
\* each event once, and none is missing until the reader is cancelled.
THEOREM DeliversInOrder == Spec => []DeliveredInOrder
<1>1. TypeOK /\ FlowInv => DeliveredInOrder
  <2> SUFFICES ASSUME TypeOK, FlowInv, NEW r \in Replicas,
                      NEW mine, mine = {k \in DOMAIN Path(r) : Path(r)[k][1] = r}
               PROVE  /\ \A k \in mine : Path(r)[k][2] > got[r]
                      /\ \A j, k \in mine : j < k => Path(r)[j][2] < Path(r)[k][2]
                      /\ ~Done(r) => {Path(r)[k][2] : k \in mine} = (got[r] + 1) .. accepted[r]
    BY DEF DeliveredInOrder
  <2> QED BY FlowOrders DEF FlowInv
<1> QED BY <1>1, TypeCorrect, FlowHolds, PTL

=============================================================================
