------------------------------- MODULE MCEras -------------------------------
EXTENDS Eras, TLC

\* A valid 2-digit hash, the empty string (decodes to no bytes), an odd
\* length and a non-hex character.
MCGenesisHashes == {<<10, 11>>, <<>>, <<10>>, <<-1, 3>>}

\* A nil slice, an empty slice, and a Mary nonce carried over the fork.
MCInitNonces == {NilBytes, Raw(<<>>), Raw(<<7>>)}

\* What the two valid strings denote: "ab" is the byte 171, "" no bytes.
MCGenesisBytes == (<<10, 11>> :> <<171>>) @@ (<<>> :> <<>>)

MCUpdates == {[era |-> "mary"], [era |-> "alonzo"]}
=============================================================================
