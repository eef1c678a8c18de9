--------------------------- MODULE OutboundPeers ---------------------------
(***************************************************************************)
(* The outbound peer manager of dingo (src/outbound.go): one worker        *)
(* goroutine per topology peer dials it, registers the ouroboros           *)
(* connection with the connection manager and the outbound tracking table, *)
(* claims the single primary chainsync-client slot if it is vacant, starts *)
(* the txsubmission client, and on any failure loops in                    *)
(* reconnectOutboundConnection with exponential backoff.                   *)
(*                                                                         *)
(* The connection-closed handler that releases the primary slot and the    *)
(* tracking entry and spawns a reconnect worker lives outside src/ and is  *)
(* modelled from the spec (sections 4.10 and 5).                           *)
(***************************************************************************)
EXTENDS Naturals, FiniteSets, Sequences

CONSTANTS
    PeerSeq,        \* topology peers in dial order (bootstrap, local roots, public roots)
    ConnIds,        \* connection identifiers (a finite set of naturals)
    NoConn,         \* sentinel: no connection
    NoPeer,         \* sentinel: worker slot not bound to a peer
    MaxWorkers,     \* bound: number of worker goroutine slots
    MaxFailures,    \* bound: I/O failures the environment may inject
    MaxCloses       \* bound: connection closes the environment may inject

Peers == {PeerSeq[i] : i \in 1..Len(PeerSeq)}
Workers == 1..MaxWorkers

ASSUME Len(PeerSeq) <= MaxWorkers /\ NoConn \notin ConnIds /\ NoPeer \notin Peers

\* Source constants initialReconnectDelay, maxReconnectDelay,
\* reconnectBackoffFactor, in seconds.
initialReconnectDelay == 1
maxReconnectDelay == 128
reconnectBackoffFactor == 2

VARIABLES
    started,        \* startOutboundConnections has run
    worker,         \* worker goroutines: pc, the outboundPeer copy they hold, their connection
    connManager,    \* ids registered with the connection manager (live sessions)
    connPeer,       \* remote peer of each live connection id
    outboundConns,  \* n.outboundConns: connection id -> outboundPeer record
    primary,        \* chainsyncState client conn id (the primary chainsync client)
    failuresLeft,   \* remaining failure budget of the environment
    closesLeft      \* remaining close budget of the environment

vars == <<started, worker, connManager, connPeer, outboundConns, primary,
          failuresLeft, closesLeft>>

\* The values ReconnectDelay can take: 0 (never waited), then 1, 2, 4, ..., 128.
Delays == {0} \cup {2^i : i \in 0..7}

PeerRec == [peer : Peers, delay : Delays, count : Nat]

Idle == [pc |-> "idle", peer |-> NoPeer, delay |-> 0, count |-> 0, conn |-> NoConn]

TypeOK ==
    /\ started \in BOOLEAN
    /\ worker \in [Workers -> [pc : {"idle", "dial", "track", "primary", "backoff"},
                               peer : Peers \cup {NoPeer}, delay : Delays,
                               count : Nat, conn : ConnIds \cup {NoConn}]]
    /\ connManager \subseteq ConnIds
    /\ connPeer \in [ConnIds -> Peers \cup {NoPeer}]
    /\ DOMAIN outboundConns \subseteq ConnIds
    /\ \A c \in DOMAIN outboundConns : outboundConns[c] \in PeerRec
    /\ primary \in ConnIds \cup {NoConn}
    /\ failuresLeft \in 0..MaxFailures /\ closesLeft \in 0..MaxCloses

-----------------------------------------------------------------------------
(* Helpers *)

\* An id nothing refers to any more; reusing it is indistinguishable from
\* minting a fresh one, which is what the ouroboros library does. Ids are
\* only compared for equality, so the least free one stands for any.
FreeIds ==
    {c \in ConnIds : /\ c \notin connManager
                     /\ c \notin DOMAIN outboundConns
                     /\ c # primary
                     /\ \A w \in Workers : worker[w].conn # c}

\* An I/O step either succeeds or, while the budget lasts, fails.
Outcomes == IF failuresLeft > 0 THEN {TRUE, FALSE} ELSE {TRUE}

Spend(ok) == failuresLeft' = IF ok THEN failuresLeft ELSE failuresLeft - 1

\* Fault: a failed attempt ends the goroutine instead of looping
\* ('return' in place of 'continue' in reconnectOutboundConnection).
ToBackoffGiveUp(w) == Idle

\* The worker gives up on this attempt and enters the reconnect loop with its
\* own (unreset) copy of the outboundPeer.
ToBackoff(w) == [worker[w] EXCEPT !.pc = "backoff", !.conn = NoConn]

\* Fault: the cap test written with <=, doubling once past the cap.
NextDelayCapInclusive(d) ==
    IF d = 0 THEN initialReconnectDelay
    ELSE IF d <= maxReconnectDelay THEN d * reconnectBackoffFactor
    ELSE d

\* The delay update at the top of the reconnect loop.
NextDelay(d) ==
    IF d = 0 THEN initialReconnectDelay
    ELSE IF d < maxReconnectDelay THEN d * reconnectBackoffFactor
    ELSE d

\* Map put / delete on outboundConns.
PutConn(f, c, r) == [x \in DOMAIN f \cup {c} |-> IF x = c THEN r ELSE f[x]]
DelConn(f, c) == [x \in DOMAIN f \ {c} |-> f[x]]

-----------------------------------------------------------------------------
(* Actions *)

Init ==
    /\ started = FALSE
    /\ worker = [w \in Workers |-> Idle]
    /\ connManager = {}
    /\ connPeer = [c \in ConnIds |-> NoPeer]
    /\ outboundConns = <<>>
    /\ primary = NoConn
    /\ failuresLeft = MaxFailures
    /\ closesLeft = MaxCloses

\* startOutboundConnections: one goroutine per topology peer, each holding a
\* fresh outboundPeer (ReconnectCount 0, ReconnectDelay 0).
startOutboundConnections ==
    /\ ~started
    /\ started' = TRUE
    /\ worker' = [w \in Workers |->
                    IF w <= Len(PeerSeq)
                    THEN [Idle EXCEPT !.pc = "dial", !.peer = PeerSeq[w]]
                    ELSE worker[w]]
    /\ UNCHANGED <<connManager, connPeer, outboundConns, primary,
                   failuresLeft, closesLeft>>

\* createOutboundConnection up to AddConnection: TCP dial and ouroboros
\* handshake (either may fail), then registration with the connection manager.
Dial(w) ==
    /\ worker[w].pc = "dial"
    /\ \E ok \in Outcomes :
         /\ Spend(ok)
         /\ IF ok
            THEN \E c \in FreeIds :
                   /\ \A d \in FreeIds : c <= d
                   /\ worker' = [worker EXCEPT ![w].pc = "track", ![w].conn = c]
                   /\ connManager' = connManager \cup {c}
                   /\ connPeer' = [connPeer EXCEPT ![c] = worker[w].peer]
            ELSE /\ worker' = [worker EXCEPT ![w] = ToBackoff(w)]
                 /\ UNCHANGED <<connManager, connPeer>>
    /\ UNCHANGED <<started, outboundConns, primary, closesLeft>>

\* Outbound tracking: n.outboundConns[id] = peer, where peer is the copy whose
\* ReconnectCount and ReconnectDelay createOutboundConnection has reset to 0.
Track(w) ==
    /\ worker[w].pc = "track"
    /\ outboundConns' = PutConn(outboundConns, worker[w].conn,
                                [peer |-> worker[w].peer, delay |-> 0, count |-> 0])
    /\ worker' = [worker EXCEPT ![w].pc = "primary"]
    /\ UNCHANGED <<started, connManager, connPeer, primary, failuresLeft, closesLeft>>

\* Result of the network part of one createOutboundConnection tail: all
\* calls succeed, or (while the budget lasts) one of them returns an error.
Results == {"ok"} \cup (IF failuresLeft > 0 THEN {"chainsyncErr", "txErr"} ELSE {})

\* Fault: chainsyncClientStart without the GetConnectionById nil check.
ChainsyncStartOkNoLookup(c, r) == r # "chainsyncErr"

\* chainsyncClientStart: GetConnectionById (fails if the connection is gone),
\* then GetCurrentTip / Sync over the network.
ChainsyncStartOk(c, r) == c \in connManager /\ r # "chainsyncErr"

\* txsubmissionClientStart, likewise failing for a vanished connection.
TxSubmissionStartOk(c, r) == c \in connManager /\ r # "txErr"

\* The rest of createOutboundConnection, all under n.chainsyncState.Lock()
\* (released by the deferred Unlock only at return): claim the primary
\* chainsync slot if vacant, then start the txsubmission client. A failure
\* returns an error with the connection still registered and tracked.
ClaimPrimary(w) ==
    LET c == worker[w].conn IN
    /\ worker[w].pc = "primary"
    /\ \E r \in Results :
         /\ r = "chainsyncErr" => primary = NoConn
         /\ failuresLeft' = IF r = "ok" THEN failuresLeft ELSE failuresLeft - 1
         /\ IF primary = NoConn /\ ~ChainsyncStartOk(c, r)
            THEN /\ worker' = [worker EXCEPT ![w] = ToBackoff(w)]
                 /\ UNCHANGED primary
            ELSE /\ primary' = IF primary = NoConn THEN c ELSE primary
                 /\ worker' = [worker EXCEPT ![w] =
                                 IF TxSubmissionStartOk(c, r) THEN Idle
                                 ELSE ToBackoff(w)]
    /\ UNCHANGED <<started, connManager, connPeer, outboundConns, closesLeft>>

\* reconnectOutboundConnection, top of the loop: grow the delay, count the
\* retry, sleep, then createOutboundConnection again.
Backoff(w) ==
    /\ worker[w].pc = "backoff"
    /\ worker' = [worker EXCEPT ![w].delay = NextDelay(@),
                                ![w].count = @ + 1,
                                ![w].pc = "dial"]
    /\ UNCHANGED <<started, connManager, connPeer, outboundConns, primary,
                   failuresLeft, closesLeft>>

\* Connection-closed handling (spec 4.10 / 5): the connection manager drops
\* the session, the primary slot is released if this connection held it, and
\* an outbound connection's tracking entry is removed and a reconnect worker
\* is spawned with the stored outboundPeer.
ConnectionClosed(c) ==
    /\ c \in connManager
    /\ closesLeft > 0
    /\ closesLeft' = closesLeft - 1
    /\ connManager' = connManager \ {c}
    /\ connPeer' = [connPeer EXCEPT ![c] = NoPeer]
    /\ primary' = IF primary = c THEN NoConn ELSE primary
    /\ IF c \in DOMAIN outboundConns
       THEN \E w \in Workers :
              /\ worker[w].pc = "idle"
              /\ worker' = [worker EXCEPT ![w] =
                              [pc |-> "backoff", peer |-> outboundConns[c].peer,
                               delay |-> outboundConns[c].delay,
                               count |-> outboundConns[c].count, conn |-> NoConn]]
              /\ outboundConns' = DelConn(outboundConns, c)
       ELSE UNCHANGED <<worker, outboundConns>>
    /\ UNCHANGED <<started, failuresLeft>>

Next ==
    \/ startOutboundConnections
    \/ \E w \in Workers : Dial(w) \/ Track(w) \/ ClaimPrimary(w) \/ Backoff(w)
    \/ \E c \in ConnIds : ConnectionClosed(c)

\* Every goroutine of the node keeps running; the environment (failures,
\* closes) is not fair.
Fairness ==
    /\ WF_vars(startOutboundConnections)
    /\ \A w \in Workers : WF_vars(Dial(w) \/ Track(w) \/ ClaimPrimary(w) \/ Backoff(w))

Spec == Init /\ [][Next]_vars /\ Fairness

-----------------------------------------------------------------------------
(* Properties *)

\* The reconnect delays spec 8 invariant 6 and scenario 5 list for the first
\* ten retries.
SpecBackoff == <<1, 2, 4, 8, 16, 32, 64, 128, 128, 128>>

\* The delay after n turns of the reconnect loop from a fresh outboundPeer.
RECURSIVE DelayAfter(_)
DelayAfter(n) == IF n = 0 THEN 0 ELSE NextDelay(DelayAfter(n - 1))

\* Reconnect backoff: the loop's delay update yields the spec's schedule over
\* ten consecutive failures (the 128 s cap included), and every reconnect
\* worker sleeps the delay of the schedule for the retries it has counted,
\* whatever copies of the outboundPeer record it was spawned from.
BackoffSchedule ==
    /\ \A n \in 1..Len(SpecBackoff) : DelayAfter(n) = SpecBackoff[n]
    /\ \A w \in Workers :
          worker[w].pc # "idle" => worker[w].delay = DelayAfter(worker[w].count)

\* The primary chainsync client is always a live, tracked outbound session:
\* createOutboundConnection never hands the slot to a connection that the
\* connection manager has already dropped, and the close handler frees it.
PrimaryIsLiveOutbound ==
    primary # NoConn =>
        /\ primary \in connManager
        /\ primary \in DOMAIN outboundConns

\* Each topology peer has at most one live session (spec 4.10: one worker per
\* configured peer).
AtMostOneSessionPerPeer ==
    \A p \in Peers : Cardinality({c \in connManager : connPeer[c] = p}) <= 1

\* Once started, the node always regains a primary chainsync client: after the
\* environment stops failing and closing connections, the slot is held for good.
PrimaryEventuallyHeld == <>[](primary # NoConn)

=============================================================================
