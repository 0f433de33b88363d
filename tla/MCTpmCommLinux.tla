--------------------------- MODULE MCTpmCommLinux ---------------------------
EXTENDS TpmCommLinux

(* TPM 2.0 responses are at least 10 bytes (the response header); one     *)
(* command's answer fits the capacity and one does not.                    *)
MCCommands == {"c1", "c2"}
MCCapacities == {12}
MCAnswerLen == [c \in MCCommands |-> IF c = "c1" THEN 10 ELSE 14]
=============================================================================
