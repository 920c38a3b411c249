------------------------------ MODULE MCAxiLoop ------------------------------
(* Small instances of AxiLoop for TLC. *)
EXTENDS AxiLoop

MCByte == {0, 1}

(* A firmware that fills the first word. *)
MCFirmware == <<[l \in Lanes |-> 1]>>

(* A full write of zeros, and a write of one lane only. *)
MCPayload == {[data |-> [l \in Lanes |-> 0], strb |-> Lanes],
              [data |-> [l \in Lanes |-> 1 - l], strb |-> {0}]}

(* One location and one payload, when only the counts matter. *)
MCAddrOne    == {0}
MCPayloadOne == {[data |-> [l \in Lanes |-> 0], strb |-> {0}]}

(* A word, the console, the exit and a stray address. *)
MCAddrAll == {0, 4, ConsoleAddr, ExitAddr}

(* The last word of two, and the word after it. *)
MCAddrEnd == {4, 8}
=============================================================================
