--------------------------- MODULE MCCryptoRuntime ---------------------------
EXTENDS CryptoRuntime, TLC

\* Two policies that change places, one that is removed, one whose keys change.
E(p, i) == [pol |-> p, id |-> i]
MCConfigs == {<<E(2, 1), E(1, 2)>>, <<E(2, 1)>>}
MCFirst == <<E(1, 1), E(2, 1)>>
MCPolicy == {1, 2}
=============================================================================
