--------------------------- MODULE MCBleResponder ---------------------------
(* Instances of BleResponder for TLC. The checksum is taken to be perfect: *)
(* it is the pair it was made from.                                        *)
EXTENDS BleResponder

MCCrc(head, data) == <<head, data>>

(* A bound: a client that is not patient asks for register 0 only. *)
MCNext == Next /\ (~patient /\ asked' # asked => asked'.head.regID = 0)

MCSpec ==
    /\ Init
    /\ [][MCNext]_vars
    /\ WF_vars(SSCP_process)
    /\ WF_vars(ReadResponse)
=============================================================================
