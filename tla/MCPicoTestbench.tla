--------------------------- MODULE MCPicoTestbench ---------------------------
(* Small instances of PicoTestbench for TLC. *)
EXTENDS PicoTestbench

MCByte     == {0, 1}
MCFirmware == <<[l \in Lanes |-> 1]>>

(* The one word there is, a stray word, and the exit. *)
MCAddr      == {0, 4, ExitAddr}
MCLoadAddr  == {0, 4}
MCStoreAddr == {0, ExitAddr}

(* A full store of zeros, and a store of one byte. *)
MCStoreData == {[data |-> [l \in Lanes |-> 0], strb |-> Lanes],
                [data |-> [l \in Lanes |-> 1 - l], strb |-> {0}]}
=============================================================================
