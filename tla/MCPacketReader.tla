--------------------------- MODULE MCPacketReader ---------------------------
(* Instances of the packet reader for TLC.  With Base = 2 a body of 3      *)
(* bytes has a length of two non-zero digits, as one of 257 has with       *)
(* Base = 256.  Three packets: one to lose, one to lose step in, and one   *)
(* that would show two halves taken for a packet.                          *)
EXTENDS PacketReader

=============================================================================
