------------------------ MODULE MCChainSyncServer --------------------------
(* Model-checking instance of ChainSyncServer: two downstream peers, one   *)
(* holding a prefix of the node's chain and one on a fork.                 *)
EXTENDS ChainSyncServer

CONSTANTS a, b

MCInitChain == <<1, 2>>

MCNewBlocks == <<3, 4, 5>>

MCNewBlocksLive == <<3, 4>>

MCInitView == (a :> <<1, 2>>) @@ (b :> <<8, 9>>)
=============================================================================
