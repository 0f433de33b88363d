------------------------- MODULE MCTpmCommEmulator -------------------------
(* Model-checking instance of TpmCommEmulator.                             *)
EXTENDS TpmCommEmulator

MCWordBytes      == 2             \* a word is split across deliveries as soon as it has 2 bytes
MCServerVersions == {1, 2}        \* the client's version, and one other
MCTpmInfos       == {0}
MCHandshakeAcks  == {0}
MCRespLens       == {1, 2}        \* fits, and exceeds MCCapacity
MCCmdAcks        == {0}
MCPlatAcks       == {0, 1}        \* accepted, refused
MCWordValues     == {0, 1, 2}
MCCapacity       == 1
=============================================================================
