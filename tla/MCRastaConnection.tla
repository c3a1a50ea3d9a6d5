------------------------- MODULE MCRastaConnection -------------------------
(* Constants of RastaConnection that a .cfg cannot express.                 *)
EXTENDS RastaConnection

MCInitialSn   == [client |-> 13, server |-> 14]
MCOneOfServer == [client |-> 0, server |-> 1]
MCOneEach     == [client |-> 1, server |-> 1]
MCTwoAndOne   == [client |-> 2, server |-> 1]
MCEmptyPacket == {<<>>}
=============================================================================
