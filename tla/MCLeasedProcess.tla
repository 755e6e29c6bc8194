--------------------------- MODULE MCLeasedProcess ---------------------------
(***************************************************************************)
(* LeasedProcess with frames of one byte and a bounded channel.            *)
(***************************************************************************)
EXTENDS LeasedProcess

OneByte == {"n"}
OneByteFrame == <<"n">>
=============================================================================
