---------------------------- MODULE ChainFollow -----------------------------
(***************************************************************************)
(* What the ChainSync server promises a downstream peer, with no iterator, *)
(* tip, lock or goroutine in sight: the node's chain grows by one block or *)
(* is cut back, and the chain each connected follower is committed to only *)
(* changes by taking the node's next block, when it holds a prefix of the  *)
(* node's chain, or by being cut back to a prefix shared with the node's   *)
(* chain.  A follower that leaves is forgotten.                            *)
(***************************************************************************)
EXTENDS Naturals, Sequences, SequencesExt

CONSTANTS
    Conns,      \* downstream connections
    Blocks,     \* block hashes
    InitChain,  \* the node's chain at start
    InitView    \* [Conns -> Seq(Blocks)]: each follower's chain at start

VARIABLES
    chain,      \* the node's chain
    fv,         \* fv[c]: the chain follower c is committed to
    active      \* active[c]: follower c is still connected

vars == <<chain, fv, active>>

Init ==
    /\ chain = InitChain
    /\ fv = InitView
    /\ active = [c \in Conns |-> TRUE]

Grow ==
    /\ \E b \in Blocks : chain' = Append(chain, b)
    /\ UNCHANGED <<fv, active>>

Shrink ==
    /\ \E n \in 0..(Len(chain) - 1) : chain' = SubSeq(chain, 1, n)
    /\ UNCHANGED <<fv, active>>

\* The follower holds a strict prefix of the node's chain and takes its next block.
Extend(c) ==
    /\ active[c]
    /\ IsStrictPrefix(fv[c], chain)
    /\ fv' = [fv EXCEPT ![c] = SubSeq(chain, 1, Len(fv[c]) + 1)]
    /\ UNCHANGED <<chain, active>>

\* The follower drops its blocks back to a point it shares with the node's chain.
CutBack(c) ==
    /\ active[c]
    /\ \E n \in 0..Len(fv[c]) :
         /\ IsPrefix(SubSeq(fv[c], 1, n), chain)
         /\ fv' = [fv EXCEPT ![c] = SubSeq(fv[c], 1, n)]
    /\ UNCHANGED <<chain, active>>

Leave(c) ==
    /\ active[c]
    /\ active' = [active EXCEPT ![c] = FALSE]
    /\ fv' = [fv EXCEPT ![c] = <<>>]
    /\ UNCHANGED chain

Next ==
    \/ Grow \/ Shrink
    \/ \E c \in Conns : Extend(c) \/ CutBack(c) \/ Leave(c)

Spec == Init /\ [][Next]_vars
=============================================================================
