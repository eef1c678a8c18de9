-------------------------------- MODULE Eras --------------------------------
(***************************************************************************)
(* The Alonzo era descriptor of src/state/eras (the part of byron.go from  *)
(* the Alonzo package on): PParamsUpdateAlonzo, HardForkAlonzo and         *)
(* CalculateEtaVAlonzo as operators, driven by a ledger (spec 4.11, not in *)
(* src/) that forks from Mary into Alonzo, applies parameter updates and   *)
(* rolls the VRF nonce block by block.                                     *)
(*                                                                         *)
(* Data: a byte string is Raw(s) with s a sequence of 0..255, a nil slice  *)
(* is NilBytes, and a Blake2b-256 digest is Hash(prev, vrf), a constructor *)
(* with no collisions.  The genesis hash in the node configuration is a    *)
(* string of hex digits 0..15, -1 standing for a character that is not one.*)
(***************************************************************************)
EXTENDS Naturals, Integers, Sequences, SequencesExt

CONSTANTS
    GenesisHashes,  \* candidate ShelleyGenesisHash strings of the node config
    InitNonces,     \* nonces the ledger may hold when Alonzo starts
    Vrfs,           \* VRF nonce outputs of block headers
    BadVrfs,        \* those of them CalculateRollingNonce rejects (bad length)
    GenesisBytes,   \* [valid ShelleyGenesisHash strings -> the bytes they denote]
    Updates,        \* parameter updates: [era : {"mary", "alonzo"}]
    MaxBlocks,      \* bound: blocks applied
    MaxUpdates      \* bound: parameter updates applied

VARIABLES
    cfgHex,     \* nodeConfig.ShelleyGenesisHash
    era,        \* the ledger's current era
    pparams,    \* the ledger's protocol parameters: [era, upd, genesis]
    nonce,      \* the ledger's previous block nonce (ηV)
    initNonce,  \* history: nonce when the ledger started
    vrfs        \* history: VRF outputs of the blocks whose nonce was rolled in

vars == <<cfgHex, era, pparams, nonce, initNonce, vrfs>>

NilBytes == [k |-> "nil", bytes |-> <<>>]
Raw(s) == [k |-> "raw", bytes |-> s]
Hash(p, v) == [k |-> "hash", prev |-> p, vrf |-> v]

\* len() of a []byte: a digest's Bytes() are 32 long.
ByteLen(b) == IF b.k = "hash" THEN 32 ELSE Len(b.bytes)

\* hex.DecodeString: an odd length or a non-hex character is an error;
\* each pair of digits is one byte.
HexDecode(s) ==
    IF Len(s) % 2 = 0 /\ \A i \in 1..Len(s) : s[i] \in 0..15
    THEN [ok |-> TRUE, bytes |-> [i \in 1..(Len(s) \div 2) |-> 16 * s[2*i - 1] + s[2*i]]]
    ELSE [ok |-> FALSE, bytes |-> <<>>]

Fail == [ok |-> FALSE]

\* lcommon.CalculateRollingNonce (spec 4.11): the digest of the previous nonce
\* and the VRF output; an output of the wrong length is an error.
CalculateRollingNonce(prev, v) ==
    IF v \in BadVrfs THEN Fail ELSE [ok |-> TRUE, nonce |-> Hash(prev, v)]

-----------------------------------------------------------------------------
(* The Alonzo descriptor's functions *)

\* PParamsUpdateAlonzo: both values must be the Alonzo types, else an error.
PParamsUpdateAlonzo(cur, upd) ==
    IF cur.era = "alonzo" /\ upd.era = "alonzo"
    THEN [ok |-> TRUE, pp |-> [cur EXCEPT !.upd = @ + 1]]
    ELSE Fail

\* HardForkAlonzo: the previous parameters must be Mary's; UpgradePParams
\* then UpdateFromGenesis with the Alonzo genesis.
HardForkAlonzo(prev) ==
    IF prev.era = "mary"
    THEN [ok |-> TRUE, pp |-> [era |-> "alonzo", upd |-> prev.upd, genesis |-> TRUE]]
    ELSE Fail

\* The decode error not checked: the bytes decoded so far seed the nonce.
CalculateEtaVIgnoreDecodeErr(cfg, prev, blk) ==
    LET seed == IF ByteLen(prev) = 0 THEN Raw(HexDecode(cfg).bytes) ELSE prev
    IN  IF blk.era # "alonzo" THEN Fail
        ELSE CalculateRollingNonce(seed, blk.vrf)

\* CalculateEtaVAlonzo: an empty previous nonce is replaced by the decoded
\* genesis hash (a decode error is returned); a header that is not an Alonzo
\* header is an error; the result, or the error, of CalculateRollingNonce.
CalculateEtaVAlonzo(cfg, prev, blk) ==
    LET dec  == HexDecode(cfg)
        seed == IF ByteLen(prev) = 0 THEN Raw(dec.bytes) ELSE prev
    IN  IF (ByteLen(prev) = 0 /\ ~dec.ok) \/ blk.era # "alonzo" THEN Fail
        ELSE CalculateRollingNonce(seed, blk.vrf)

-----------------------------------------------------------------------------
(* The ledger driving the descriptor (spec 4.11) *)

\* The hard fork into Alonzo: an error leaves the ledger in Mary.
HardFork ==
    /\ era = "mary"
    /\ LET r == HardForkAlonzo(pparams) IN
         /\ r.ok
         /\ era' = "alonzo"
         /\ pparams' = r.pp
    /\ UNCHANGED <<cfgHex, nonce, initNonce, vrfs>>

\* A parameter update proposal of either era; a rejected one changes nothing.
PParamsUpdate(u) ==
    /\ era = "alonzo"
    /\ pparams.upd < MaxUpdates
    /\ LET r == PParamsUpdateAlonzo(pparams, u) IN
         /\ r.ok
         /\ pparams' = r.pp
    /\ UNCHANGED <<cfgHex, era, nonce, initNonce, vrfs>>

\* A block of the Alonzo era: its nonce is rolled in, or the block rejected.
ApplyBlock(b) ==
    /\ era = "alonzo"
    /\ Len(vrfs) < MaxBlocks
    /\ LET r == CalculateEtaVAlonzo(cfgHex, nonce, b) IN
         /\ r.ok
         /\ nonce' = r.nonce
         /\ vrfs' = Append(vrfs, b.vrf)
    /\ UNCHANGED <<cfgHex, era, pparams, initNonce>>

Blocks == [era : {"mary", "alonzo"}, vrf : Vrfs]

Init ==
    /\ cfgHex \in GenesisHashes
    /\ era = "mary"
    /\ pparams = [era |-> "mary", upd |-> 0, genesis |-> FALSE]
    /\ nonce \in InitNonces
    /\ initNonce = nonce
    /\ vrfs = <<>>

Next ==
    \/ HardFork
    \/ \E u \in Updates : PParamsUpdate(u)
    \/ \E b \in Blocks : ApplyBlock(b)

Spec == Init /\ [][Next]_vars

-----------------------------------------------------------------------------
(* Properties *)

\* Reference (spec 4.11): the nonce after blocks with VRF outputs v1..vn is
\* H(...H(H(s, v1), v2)..., vn), where s is the nonce the ledger started
\* with or, when that nonce is empty, the bytes the configured Shelley
\* genesis hash denotes (GenesisBytes, given literally by the instance).
RefNonce ==
    LET s == IF ByteLen(initNonce) = 0 THEN Raw(GenesisBytes[cfgHex]) ELSE initNonce
    IN  FoldLeft(Hash, s, vrfs)

\* Only Alonzo blocks whose nonce can be computed are applied: none with a
\* malformed VRF output, and none at all when the nonce must be seeded from
\* a genesis hash that is not a hex string; and the ledger's nonce is then
\* the rolling hash of every block applied, seeded as the spec says, for a
\* nil and an empty previous nonce alike (spec 8, invariant 7).
NonceIsRollingHash ==
    vrfs # <<>> =>
        /\ Range(vrfs) \cap BadVrfs = {}
        /\ ByteLen(initNonce) > 0 \/ cfgHex \in DOMAIN GenesisBytes
        /\ nonce = RefNonce
=============================================================================
