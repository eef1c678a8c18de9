------------------------- MODULE MCChainSyncClient -------------------------
(* Model-checking instance of ChainSyncClient: the upstream holds two      *)
(* blocks and appends three more; the node starts empty, behind it, or on a  *)
(* block the upstream rolls away.                                          *)
EXTENDS ChainSyncClient

MCUpInit == <<1, 2>>

MCUpBlocks == <<3, 4, 5>>

MCLocalInits == {<<>>, <<1>>, <<1, 2>>}

MCConfigPoints == <<>>
=============================================================================
