-------------------------- MODULE ChainSyncServer --------------------------
(***************************************************************************)
(* Server side of the ChainSync mini-protocol in dingo                     *)
(* (chainsyncServerFindIntersect and chainsyncServerRequestNext in         *)
(* src/state/eras/byron.go, the chainsync.go part), against the chain      *)
(* store the chain-extension worker appends to and rolls back.             *)
(*                                                                         *)
(* Per downstream connection the server keeps a ChainSyncClientState       *)
(* (cursor, NeedsInitialRollback, chain iterator). The chain store, its    *)
(* iterator and chainsyncState.AddClient live outside src/ and are         *)
(* modelled from spec sections 4.3-4.5. Each downstream peer is a client   *)
(* that follows the protocol; "view" is the chain it has built from the    *)
(* messages the server sent it (TCP delivers them in order, so applying    *)
(* them as they are sent is exact).                                        *)
(***************************************************************************)
EXTENDS Naturals, Sequences, SequencesExt

CONSTANTS
    Conns,          \* downstream connection ids
    InitChain,      \* the node's chain at start (sequence of block hashes)
    InitView,       \* [Conns -> Seq]: each downstream peer's own chain at start
    NewBlocks,      \* hashes the chain-extension worker may append, in order
    K,              \* rollback depth the chain store allows (volatile suffix)
    MaxRollbacks,   \* bound: rollbacks the chain-extension worker performs
    ReIntersect,    \* whether a peer may send FindIntersect again from idle
    Origin,         \* the point before any block
    None            \* sentinel: no client state / no pending rollback

VARIABLES
    chain,          \* ledger state chain: sequence of block hashes
    appended,       \* how many of NewBlocks have been appended
    rollbacksLeft,  \* remaining rollback budget
    clientState,    \* chainsyncState: conn -> [cursor, needsInitialRollback, pos, rb] or None
    phase,          \* protocol state of each session
    reqTip,         \* tip read at the top of chainsyncServerRequestNext
    waiter,         \* the AwaitReply goroutine: [st: "none" | "blocked" | "holding", item]
    view,           \* the chain each downstream peer has built from the replies
    lastFwd         \* last RollForward sent: [blockNo, tipNo] (history, for the tip check)

vars == <<chain, appended, rollbacksLeft, clientState, phase, reqTip, waiter,
          view, lastFwd>>

Blocks == Range(InitChain) \cup Range(NewBlocks) \cup UNION {Range(InitView[c]) : c \in Conns}
Points == Blocks \cup {Origin}

Tip == [pt |-> IF chain = <<>> THEN Origin ELSE Last(chain), no |-> Len(chain)]

NoTip == [pt |-> Origin, no |-> 0]

Phases == {"init", "idle", "busy", "await", "done"}

Item == [rollback : BOOLEAN, pt : Points, pos : Nat]

NoWaiter == [st |-> "none", item |-> [rollback |-> FALSE, pt |-> Origin, pos |-> 0]]

TypeOK ==
    /\ chain \in Seq(Blocks)
    /\ appended \in 0..Len(NewBlocks)
    /\ rollbacksLeft \in 0..MaxRollbacks
    /\ \A c \in Conns :
          clientState[c] = None \/
          clientState[c] \in [cursor : Points, needsRb : BOOLEAN, pos : Nat, rb : Nat \cup {None}]
    /\ phase \in [Conns -> Phases]
    /\ reqTip \in [Conns -> [pt : Points, no : Nat]]
    /\ waiter \in [Conns -> [st : {"none", "blocked", "holding"}, item : Item]]
    /\ view \in [Conns -> Seq(Blocks)]
    /\ lastFwd \in [Conns -> [blockNo : Nat, tipNo : Nat]]

-----------------------------------------------------------------------------
(* Points and chains *)

\* Position of point p on chain s (0 for Origin); p must be on s.
PosOf(s, p) == IF p = Origin THEN 0 ELSE CHOOSE i \in 1..Len(s) : s[i] = p

OnChain(s, p) == p = Origin \/ p \in Range(s)

PointAt(s, i) == IF i = 0 THEN Origin ELSE s[i]

\* What a following client does with RollBackward(p): drop everything after p.
\* A point it does not have leaves its chain as it is.
RollBackTo(s, p) == IF OnChain(s, p) THEN SubSeq(s, 1, PosOf(s, p)) ELSE s

\* The candidates a client offers in FindIntersect: its points newest first,
\* optionally followed by Origin.
Candidates(s, withOrigin) ==
    Reverse([i \in 1..Len(s) |-> s[i]]) \o (IF withOrigin THEN <<Origin>> ELSE <<>>)

\* ledgerState.GetIntersectPoint: the first candidate on the current chain.
GetIntersectPoint(cands) ==
    LET found == {i \in 1..Len(cands) : OnChain(chain, cands[i])} IN
    IF found = {} THEN None ELSE cands[CHOOSE i \in found : \A j \in found : i <= j]

-----------------------------------------------------------------------------
(* Chain store and iterator (spec 4.3, 4.4) *)

\* Chain iterator Next: a pending rollback first, else the next block after
\* the cursor, else nothing (IteratorChainTip).
HasNext(st) == st.rb # None \/ st.pos < Len(chain)

NextItem(st) ==
    IF st.rb # None
    THEN [rollback |-> TRUE, pt |-> PointAt(chain, st.rb), pos |-> st.rb]
    ELSE [rollback |-> FALSE, pt |-> chain[st.pos + 1], pos |-> st.pos + 1]

AdvanceIter(st) == [st EXCEPT !.pos = NextItem(st).pos, !.rb = None]

\* chainsyncState.AddClient: create the state with an iterator from the point
\* if the connection has none; an existing state is returned unchanged.
AddClient(c, p) ==
    IF clientState[c] = None
    THEN [clientState EXCEPT ![c] =
            [cursor |-> p, needsRb |-> TRUE, pos |-> PosOf(chain, p), rb |-> None]]
    ELSE clientState

\* Chain extension appends the next block (spec 4.3 AppendBlock).
AppendBlock ==
    /\ appended < Len(NewBlocks)
    /\ chain' = Append(chain, NewBlocks[appended + 1])
    /\ appended' = appended + 1
    /\ UNCHANGED <<rollbacksLeft, clientState, phase, reqTip, waiter, view, lastFwd>>

\* Chain extension rolls back to position i within the volatile suffix; every
\* iterator whose cursor is past i is told to roll back (keeping the earlier
\* target if one is already pending).
Rollback(i) ==
    /\ rollbacksLeft > 0
    /\ i < Len(chain) /\ Len(chain) - i <= K
    /\ rollbacksLeft' = rollbacksLeft - 1
    /\ chain' = SubSeq(chain, 1, i)
    /\ clientState' = [c \in Conns |->
          IF clientState[c] # None /\ clientState[c].pos > i
          THEN [clientState[c] EXCEPT !.rb = IF @ = None \/ @ > i THEN i ELSE @]
          ELSE clientState[c]]
    /\ UNCHANGED <<appended, phase, reqTip, waiter, view, lastFwd>>

-----------------------------------------------------------------------------
(* The ChainSync server handlers *)

\* Fault: the Rollback test inverted when choosing the reply.
SendInverted(c, item, tip) ==
    /\ view' = [view EXCEPT ![c] = IF ~item.rollback THEN RollBackTo(@, item.pt)
                                   ELSE Append(@, item.pt)]
    /\ lastFwd' = IF ~item.rollback THEN lastFwd
                  ELSE [lastFwd EXCEPT ![c] = [blockNo |-> item.pos, tipNo |-> tip.no]]

\* Reply RollForward / RollBackward to connection c with the given tip.
Send(c, item, tip) ==
    /\ view' = [view EXCEPT ![c] = IF item.rollback THEN RollBackTo(@, item.pt)
                                   ELSE Append(@, item.pt)]
    /\ lastFwd' = IF item.rollback THEN lastFwd
                  ELSE [lastFwd EXCEPT ![c] = [blockNo |-> item.pos, tipNo |-> tip.no]]

\* Fault: the client registered at the tip returned with the intersection
\* instead of at the intersect point.
RegisterIntersectAtTip(c, p, tip) == AddClient(c, tip.pt)

\* IntersectFound: add the caller to the chainsync state at the intersect point.
RegisterIntersect(c, p, tip) == AddClient(c, p)

\* How far back a peer's candidates start: a new session offers its whole
\* chain; a peer intersecting again (a node-to-client follower asked to
\* restart from an earlier point) may start from any point of its chain.
Offer(c) == IF phase[c] = "init" THEN {Len(view[c])} ELSE 0..Len(view[c])

\* A downstream peer sends FindIntersect; chainsyncServerFindIntersect runs
\* under the ledger read lock: intersect, read the tip, register the client.
\* On IntersectFound(p) the peer's read pointer is p: its chain after p is
\* dropped.
FindIntersect(c) ==
    /\ phase[c] = "init" \/ (ReIntersect /\ phase[c] = "idle")
    /\ \E withOrigin \in BOOLEAN, k \in Offer(c) :
         LET p == GetIntersectPoint(Candidates(SubSeq(view[c], 1, k), withOrigin)) IN
         IF p = None
         THEN \* IntersectNotFound: the peer gives up the session
              /\ phase' = [phase EXCEPT ![c] = "done"]
              /\ UNCHANGED <<clientState, view>>
         ELSE /\ clientState' = RegisterIntersect(c, p, Tip)
              /\ phase' = [phase EXCEPT ![c] = "idle"]
              /\ view' = [view EXCEPT ![c] = RollBackTo(@, p)]
    /\ UNCHANGED <<chain, appended, rollbacksLeft, reqTip, waiter, lastFwd>>

\* A downstream peer sends RequestNext; the handler starts by reading the
\* ledger tip, without any lock.
RequestNext(c) ==
    /\ phase[c] = "idle"
    /\ phase' = [phase EXCEPT ![c] = "busy"]
    /\ reqTip' = [reqTip EXCEPT ![c] = Tip]
    /\ UNCHANGED <<chain, appended, rollbacksLeft, clientState, waiter, view, lastFwd>>

\* Fault: NeedsInitialRollback never cleared after the initial RollBackward.
InitialRollbackKeepsFlag(c, cs, tip) ==
    /\ Send(c, [rollback |-> TRUE, pt |-> cs[c].cursor, pos |-> 0], tip)
    /\ clientState' = cs
    /\ phase' = [phase EXCEPT ![c] = "idle"]
    /\ UNCHANGED waiter

\* Fault: the initial RollBackward names the tip instead of the cursor.
InitialRollbackToTip(c, cs, tip) ==
    /\ Send(c, [rollback |-> TRUE, pt |-> tip.pt, pos |-> 0], tip)
    /\ clientState' = [cs EXCEPT ![c].needsRb = FALSE]
    /\ phase' = [phase EXCEPT ![c] = "idle"]
    /\ UNCHANGED waiter

\* The first reply after the intersection: RollBackward to the cursor, then
\* clear NeedsInitialRollback.
InitialRollback(c, cs, tip) ==
    /\ Send(c, [rollback |-> TRUE, pt |-> cs[c].cursor, pos |-> 0], tip)
    /\ clientState' = [cs EXCEPT ![c].needsRb = FALSE]
    /\ phase' = [phase EXCEPT ![c] = "idle"]
    /\ UNCHANGED waiter

\* The rest of chainsyncServerRequestNext: AddClient with the tip read before,
\* the initial rollback if pending, else a non-blocking iterator Next whose
\* item is sent with the tip read before; with no item, AwaitReply and spawn
\* the waiter goroutine.
ServeRequestNext(c) ==
    LET tip == reqTip[c]
        cs  == AddClient(c, tip.pt)
        st  == cs[c]
    IN
    /\ phase[c] = "busy"
    /\ IF st.needsRb
       THEN InitialRollback(c, cs, tip)
       ELSE IF HasNext(st)
       THEN /\ Send(c, NextItem(st), tip)
            /\ clientState' = [cs EXCEPT ![c] = AdvanceIter(st)]
            /\ phase' = [phase EXCEPT ![c] = "idle"]
            /\ UNCHANGED waiter
       ELSE /\ clientState' = cs
            /\ phase' = [phase EXCEPT ![c] = "await"]
            /\ waiter' = [waiter EXCEPT ![c].st = "blocked"]
            /\ UNCHANGED <<view, lastFwd>>
    /\ reqTip' = [reqTip EXCEPT ![c] = NoTip]   \* the handler's local is dead
    /\ UNCHANGED <<chain, appended, rollbacksLeft>>

\* The waiter's ChainIter.Next(true) returns once the chain has moved.
WaiterNext(c) ==
    /\ waiter[c].st = "blocked"
    /\ clientState[c] # None
    /\ HasNext(clientState[c])
    /\ waiter' = [waiter EXCEPT ![c] = [st |-> "holding", item |-> NextItem(clientState[c])]]
    /\ clientState' = [clientState EXCEPT ![c] = AdvanceIter(@)]
    /\ UNCHANGED <<chain, appended, rollbacksLeft, phase, reqTip, view, lastFwd>>

\* The waiter reads the tip afresh and sends the item; the session is back in
\* the client's hands.
WaiterSend(c) ==
    /\ waiter[c].st = "holding"
    /\ Send(c, waiter[c].item, Tip)
    /\ waiter' = [waiter EXCEPT ![c] = NoWaiter]
    /\ phase' = [phase EXCEPT ![c] = "idle"]
    /\ UNCHANGED <<chain, appended, rollbacksLeft, clientState, reqTip>>

\* The downstream peer disconnects; the connection-closed handling drops its
\* client state and cancels the waiter (spec 5, Cancellation).
Disconnect(c) ==
    /\ phase[c] # "done"
    /\ phase' = [phase EXCEPT ![c] = "done"]
    /\ clientState' = [clientState EXCEPT ![c] = None]
    /\ waiter' = [waiter EXCEPT ![c] = NoWaiter]
    /\ UNCHANGED <<chain, appended, rollbacksLeft, reqTip, view, lastFwd>>

-----------------------------------------------------------------------------

Init ==
    /\ chain = InitChain
    /\ appended = 0
    /\ rollbacksLeft = MaxRollbacks
    /\ clientState = [c \in Conns |-> None]
    /\ phase = [c \in Conns |-> "init"]
    /\ reqTip = [c \in Conns |-> NoTip]
    /\ waiter = [c \in Conns |-> NoWaiter]
    /\ view = InitView
    /\ lastFwd = [c \in Conns |-> [blockNo |-> 0, tipNo |-> 0]]

Next ==
    \/ AppendBlock
    \/ \E i \in 0..Len(chain) : Rollback(i)
    \/ \E c \in Conns :
          \/ FindIntersect(c) \/ RequestNext(c)
          \/ ServeRequestNext(c)
          \/ WaiterNext(c) \/ WaiterSend(c)
          \/ Disconnect(c)

\* The server's handlers and the waiter goroutine always run; the downstream
\* peers keep following (they ask again whenever they may). The chain
\* extension worker and disconnects are the environment.
Fairness ==
    \A c \in Conns :
        /\ WF_vars(FindIntersect(c)) /\ WF_vars(RequestNext(c))
        /\ WF_vars(ServeRequestNext(c))
        /\ WF_vars(WaiterNext(c)) /\ WF_vars(WaiterSend(c))

Spec == Init /\ [][Next]_vars /\ Fairness

-----------------------------------------------------------------------------
(* Properties *)

\* The chain a downstream peer will hold once the replies already decided
\* for it are delivered: the pending initial rollback, then the waiter's item.
Settled(c) ==
    LET st == clientState[c]
        v0 == IF st.needsRb THEN RollBackTo(view[c], st.cursor) ELSE view[c]
        w  == waiter[c].item
    IN IF waiter[c].st = "holding"
       THEN IF w.rollback THEN RollBackTo(v0, w.pt) ELSE Append(v0, w.pt)
       ELSE v0

\* Every downstream peer that is being served follows the node's chain: its
\* settled chain is the node's chain up to the iterator's cursor or, when a
\* rollback is pending for it, agrees with the node's chain up to the rollback
\* point. This is what FindIntersect's initial rollback, the iterator and the
\* AwaitReply waiter must achieve together across rollbacks.
ClientFollowsChain ==
    \A c \in Conns :
        (phase[c] # "done" /\ clientState[c] # None) =>
            LET st == clientState[c] IN
            IF st.rb # None
            THEN /\ Len(Settled(c)) >= st.rb
                 /\ SubSeq(Settled(c), 1, st.rb) = SubSeq(chain, 1, st.rb)
            ELSE Settled(c) = SubSeq(chain, 1, st.pos)

\* A RollForward never announces a tip behind the block it carries (the tip
\* in a ChainSync reply is the server's current chain tip).
TipNotBehindBlock ==
    \A c \in Conns : lastFwd[c].blockNo <= lastFwd[c].tipNo

\* The chain follower c is committed to: nothing once it has left, its own
\* chain before it is registered, its settled chain afterwards.
Committed(c) ==
    IF phase[c] = "done" THEN <<>>
    ELSE IF clientState[c] = None THEN view[c]
    ELSE Settled(c)

Follow == INSTANCE ChainFollow WITH
    fv <- [c \in Conns |-> Committed(c)],
    active <- [c \in Conns |-> phase[c] # "done"]

\* The server implements ChainFollow: whatever the interleaving of the
\* handlers, the waiter goroutine and the chain-extension worker, every
\* change to what a peer is committed to is either the node's next block on
\* top of a prefix of the node's current chain, or a cut back to a prefix of
\* it (FindIntersect's point, a pending iterator rollback).
FollowsChainSpec == Follow!Spec

\* A downstream peer that stays connected ends up holding the node's chain once
\* the chain stops changing.
ClientsCatchUp ==
    \A c \in Conns : <>[](phase[c] = "done" \/ view[c] = chain)

=============================================================================
