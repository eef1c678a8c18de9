-------------------------- MODULE ChainSyncClient --------------------------
(***************************************************************************)
(* Client side of ChainSync in dingo (chainsyncClientStart,               *)
(* chainsyncClientRollForward, chainsyncClientRollBackward in             *)
(* src/state/eras/byron.go) on the primary outbound connection, the event *)
(* bus it publishes ChainsyncEvents to (spec 4.1: a bounded subscriber    *)
(* queue, best effort: an event that finds it full is dropped), and the   *)
(* chain-extension consumer that applies them to the local chain (spec    *)
(* 4.3, 4.7: a header is taken only if it links to the local tip).        *)
(*                                                                         *)
(* The upstream peer is a ChainSync server that behaves as ChainFollow    *)
(* says: it answers FindIntersect with the first candidate on its chain,  *)
(* opens with RollBackward to it, and then sends its next block or a      *)
(* RollBackward to the point its chain and the client's still share.      *)
(* Messages reach the handlers in order (TCP; handlers run one at a time). *)
(***************************************************************************)
EXTENDS Naturals, Sequences, SequencesExt

CONSTANTS
    UpInit,         \* the upstream peer's chain at start
    UpBlocks,       \* hashes the upstream appends, in order
    LocalInits,     \* the local chain stores the node may start with
    IntersectTips,  \* the values config intersectTip may have
    ConfigPoints,   \* config intersectPoints (a sequence of points)
    K,              \* upstream rollback depth
    MaxUpRollbacks, \* bound: rollbacks of the upstream chain
    MaxInFlight,    \* bound: replies in flight (stands for the pipeline limit of 50)
    QCap,           \* the chainsync event subscriber's queue capacity
    IntersectPointCount, \* chainsyncIntersectPointCount (100)
    Origin

VARIABLES
    intersectTip,   \* config intersectTip (fixed for the run)
    up,             \* upstream chain
    upAppended,     \* how many of UpBlocks the upstream has appended
    upRbLeft,       \* remaining upstream rollbacks
    seen,           \* history: every <<height, hash>> a chain here ever held
    cphase,         \* "start" | "tipped" | "sync" | "failed"
    points,         \* intersect candidates held between GetCurrentTip and Sync
    sentTo,         \* the chain the upstream has committed the client to
    msgs,           \* replies in flight from the upstream
    queue,          \* the consumer's event-bus queue
    local,          \* the local chain the consumer has built
    anchor,         \* the point the local chain hangs from (Origin, or the
                    \* rollback point a cold start from the tip began at)
    dropped         \* history: the bus has dropped an event

vars == <<intersectTip, up, upAppended, upRbLeft, seen, cphase, points, sentTo, msgs, queue, local,
          anchor, dropped>>

Blocks == Range(UpInit) \cup Range(UpBlocks) \cup UNION {Range(l) : l \in LocalInits}
Points == Blocks \cup {Origin}
Msg == [rollback : BOOLEAN, pt : Points, prev : Points, tip : Points]

TypeOK ==
    /\ intersectTip \in BOOLEAN
    /\ up \in Seq(Blocks) /\ local \in Seq(Blocks) /\ sentTo \in Seq(Blocks)
    /\ upAppended \in 0..Len(UpBlocks) /\ upRbLeft \in 0..MaxUpRollbacks
    /\ cphase \in {"start", "tipped", "sync", "failed"}
    /\ points \in Seq(Points)
    /\ msgs \in Seq(Msg) /\ queue \in Seq(Msg)
    /\ anchor \in Points /\ dropped \in BOOLEAN

LastPt(s) == IF s = <<>> THEN Origin ELSE Last(s)
PtAt(s, i) == IF i = 0 THEN Origin ELSE s[i]
OnChain(s, p) == p = Origin \/ p \in Range(s)
PosOf(s, p) == IF p = Origin THEN 0 ELSE CHOOSE i \in 1..Len(s) : s[i] = p
Heights(s) == {<<i, s[i]>> : i \in 1..Len(s)}

\* The sample offsets back from the tip (spec 4.3): 0, 1, 2, 4, 8, ... below l.
RECURSIVE ExpOffsets(_, _)
ExpOffsets(o, l) ==
    IF o >= l THEN <<>> ELSE <<o>> \o ExpOffsets(IF o = 0 THEN 1 ELSE 2 * o, l)

\* ledgerState.RecentChainPoints(n): exponentially spaced local points from
\* the tip backward, newest first, at most n of them.
RecentChainPoints(n) ==
    LET offs == ExpOffsets(0, Len(local))
        m    == IF Len(offs) < n THEN Len(offs) ELSE n
    IN  [i \in 1..m |-> local[Len(local) - offs[i]]]

-----------------------------------------------------------------------------
(* The upstream peer (environment) *)

UpAppend ==
    /\ upAppended < Len(UpBlocks)
    /\ up' = Append(up, UpBlocks[upAppended + 1])
    /\ upAppended' = upAppended + 1
    /\ seen' = seen \cup {<<Len(up) + 1, UpBlocks[upAppended + 1]>>}
    /\ UNCHANGED <<intersectTip, upRbLeft, cphase, points, sentTo, msgs, queue, local, anchor, dropped>>

UpRollback ==
    /\ upRbLeft > 0
    /\ \E i \in 0..(Len(up) - 1) :
         /\ Len(up) - i <= K
         /\ up' = SubSeq(up, 1, i)
    /\ upRbLeft' = upRbLeft - 1
    /\ UNCHANGED <<intersectTip, upAppended, seen, cphase, points, sentTo, msgs, queue, local, anchor, dropped>>

\* The longest prefix the client's chain shares with the upstream chain.
SharedLen == CHOOSE n \in 0..Len(sentTo) :
    /\ IsPrefix(SubSeq(sentTo, 1, n), up)
    /\ \A m \in (n + 1)..Len(sentTo) : ~IsPrefix(SubSeq(sentTo, 1, m), up)

\* The upstream answers a pipelined RequestNext.
UpReply ==
    /\ cphase = "sync"
    /\ Len(msgs) < MaxInFlight
    /\ IF IsPrefix(sentTo, up)
       THEN /\ Len(sentTo) < Len(up)
            /\ msgs' = Append(msgs, [rollback |-> FALSE, pt |-> up[Len(sentTo) + 1],
                                     prev |-> LastPt(sentTo), tip |-> LastPt(up)])
            /\ sentTo' = SubSeq(up, 1, Len(sentTo) + 1)
       ELSE /\ msgs' = Append(msgs, [rollback |-> TRUE, pt |-> PtAt(sentTo, SharedLen),
                                     prev |-> Origin, tip |-> LastPt(up)])
            /\ sentTo' = SubSeq(sentTo, 1, SharedLen)
    /\ UNCHANGED <<intersectTip, up, upAppended, upRbLeft, seen, cphase, points, queue, local, anchor, dropped>>

-----------------------------------------------------------------------------
(* chainsyncClientStart and the handlers *)

\* Sync(candidates): FindIntersect on the upstream (no candidate means the
\* origin); IntersectNotFound makes Sync, and the start, fail. Found: the
\* upstream opens with RollBackward to the intersection.
Sync(cands) ==
    LET cs == IF cands = <<>> THEN <<Origin>> ELSE cands
        found == {i \in 1..Len(cs) : OnChain(up, cs[i])}
        p == cs[CHOOSE i \in found : \A j \in found : i <= j]
    IN IF found = {}
       THEN /\ cphase' = "failed"
            /\ UNCHANGED <<sentTo, msgs>>
       ELSE /\ cphase' = "sync"
            /\ sentTo' = SubSeq(up, 1, PosOf(up, p))
            /\ msgs' = <<[rollback |-> TRUE, pt |-> p, prev |-> Origin, tip |-> LastPt(up)]>>

\* Fault: the intersect-at-tip start taken whatever points are stored.
StartIgnoresStoredPoints ==
    /\ cphase = "start"
    /\ IF intersectTip
       THEN /\ cphase' = "tipped"
            /\ points' = <<LastPt(up)>>
            /\ UNCHANGED <<sentTo, msgs>>
       ELSE /\ Sync(LET recent == RecentChainPoints(IntersectPointCount) IN
                    IF recent = <<>> THEN ConfigPoints ELSE recent)
            /\ UNCHANGED points
    /\ UNCHANGED <<intersectTip, up, upAppended, upRbLeft, seen, queue, local, anchor, dropped>>

\* chainsyncClientStart: RecentChainPoints; with none stored, either ask the
\* peer's tip first (intersectTip) or use the configured points.
Start ==
    /\ cphase = "start"
    /\ LET recent == RecentChainPoints(IntersectPointCount) IN
       IF recent = <<>> /\ intersectTip
       THEN /\ cphase' = "tipped"
            /\ points' = <<LastPt(up)>>
            /\ UNCHANGED <<sentTo, msgs>>
       ELSE /\ Sync(IF recent = <<>> THEN ConfigPoints ELSE recent)
            /\ UNCHANGED points
    /\ UNCHANGED <<intersectTip, up, upAppended, upRbLeft, seen, queue, local, anchor, dropped>>

\* chainsyncClientStart's error returns before Sync: the connection is gone
\* from the connection manager, RecentChainPoints fails, or GetCurrentTip
\* fails.
StartFails ==
    /\ cphase = "start"
    /\ cphase' = "failed"
    /\ UNCHANGED <<intersectTip, up, upAppended, upRbLeft, seen, points, sentTo, msgs, queue, local, anchor, dropped>>

\* The Sync after GetCurrentTip, with the tip read in the step before.
SyncFromTip ==
    /\ cphase = "tipped"
    /\ Sync(points)
    /\ UNCHANGED <<intersectTip, up, upAppended, upRbLeft, seen, points, queue, local, anchor, dropped>>

\* eventBus.Publish: best effort, an event that finds the queue full is lost.
Publish(ev) ==
    /\ queue' = IF Len(queue) < QCap THEN Append(queue, ev) ELSE queue
    /\ dropped' = (dropped \/ Len(queue) >= QCap)

\* Fault: the RollForward event's point built from the tip, not the header.
HandleReplyTipPoint ==
    /\ msgs # <<>>
    /\ Publish(IF Head(msgs).rollback THEN Head(msgs) ELSE [Head(msgs) EXCEPT !.pt = Head(msgs).tip])
    /\ msgs' = Tail(msgs)
    /\ UNCHANGED <<intersectTip, up, upAppended, upRbLeft, seen, cphase, points, sentTo, local, anchor>>

\* chainsyncClientRollForward / chainsyncClientRollBackward for the next
\* reply: publish a ChainsyncEvent for it.
HandleReply ==
    /\ msgs # <<>>
    /\ Publish(Head(msgs))
    /\ msgs' = Tail(msgs)
    /\ UNCHANGED <<intersectTip, up, upAppended, upRbLeft, seen, cphase, points, sentTo, local, anchor>>

-----------------------------------------------------------------------------
(* The chain-extension consumer (spec 4.3, 4.7) *)

LocalTip == IF local = <<>> THEN anchor ELSE Last(local)

\* A header whose parent is not the local tip is rejected. A rollback cuts
\* the local chain back to the point; an empty chain hangs from the point
\* instead (a cold start from the peer's tip); any other point is rejected.
ApplyEvent ==
    /\ queue # <<>>
    /\ LET ev == Head(queue) IN
       IF ev.rollback
       THEN \/ /\ ev.pt \in Range(local)
               /\ local' = SubSeq(local, 1, PosOf(local, ev.pt))
               /\ UNCHANGED anchor
            \/ /\ ev.pt = anchor
               /\ local' = <<>>
               /\ UNCHANGED anchor
            \/ /\ local = <<>> /\ ev.pt # anchor
               /\ anchor' = ev.pt
               /\ UNCHANGED local
            \/ /\ local # <<>> /\ ev.pt \notin Range(local) \cup {anchor}
               /\ UNCHANGED <<local, anchor>>
       ELSE /\ local' = IF ev.prev = LocalTip THEN Append(local, ev.pt) ELSE local
            /\ UNCHANGED anchor
    /\ queue' = Tail(queue)
    /\ UNCHANGED <<intersectTip, up, upAppended, upRbLeft, seen, cphase, points, sentTo, msgs, dropped>>

Init ==
    /\ intersectTip \in IntersectTips
    /\ local \in LocalInits
    /\ up = UpInit /\ upAppended = 0 /\ upRbLeft = MaxUpRollbacks
    /\ seen = Heights(UpInit) \cup Heights(local)
    /\ cphase = "start" /\ points = <<>>
    /\ sentTo = <<>> /\ msgs = <<>> /\ queue = <<>>
    /\ anchor = Origin
    /\ dropped = FALSE

Next ==
    \/ UpAppend \/ UpRollback \/ UpReply
    \/ Start \/ StartFails \/ SyncFromTip \/ HandleReply \/ ApplyEvent

\* The handler and consumer goroutines run, and the upstream keeps answering
\* the client's pipelined requests; the upstream's own chain is environment.
Fairness ==
    WF_vars(UpReply) /\ WF_vars(Start) /\ WF_vars(SyncFromTip)
    /\ WF_vars(HandleReply) /\ WF_vars(ApplyEvent)

Spec == Init /\ [][Next]_vars /\ Fairness

-----------------------------------------------------------------------------
(* Properties *)

\* The height of the anchor: where the upstream (or the store) held it.
AnchorHeight == IF anchor = Origin THEN 0 ELSE CHOOSE h \in {x[1] : x \in seen} : <<h, anchor>> \in seen

\* Every block of the local chain sits at the height at which the upstream
\* (or the local store at start) held it: the handlers publish each header
\* under its own point and in order, and the consumer's linkage check keeps
\* a lost or stale event from putting a block at the wrong height.
LocalFromUpstream == \A i \in 1..Len(local) : <<AnchorHeight + i, local[i]>> \in seen

\* The local chain is the upstream's above its anchor, or sync has ended in a
\* way it cannot recover from on this connection: the start failed (the
\* outbound manager then reconnects) or the upstream rolled back past the
\* point a cold start from its tip hung the local chain from (the store
\* holds nothing to roll back to, and spec 4.3 gives no rule for it).
CaughtUp ==
    \/ cphase = "failed"
    \/ ~OnChain(up, anchor)
    \/ /\ AnchorHeight <= Len(up) /\ PtAt(up, AnchorHeight) = anchor
       /\ local = SubSeq(up, AnchorHeight + 1, Len(up))

\* Once the upstream chain stops changing, the local chain catches up with
\* it: the handlers' events, applied in order by the consumer, carry every
\* block the upstream sends (spec 5: in-order delivery per topic).
LocalCatchesUp == <>[]CaughtUp

\* The same, except in runs where the bus has dropped an event: a drop is
\* the only way chainsyncClientStart and the handlers can leave the local
\* chain behind for good.
LocalCatchesUpUnlessDropped == <>[](dropped \/ CaughtUp)
=============================================================================
