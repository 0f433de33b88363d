--------------------------- MODULE MCTpmCommWin32 ---------------------------
EXTENDS TpmCommWin32

(* Two commands whose answers differ in length, and a capacity that only  *)
(* one of them fits.                                                       *)
MCCommands == {"c1", "c2"}
MCCapacities == {10}
MCAnswerLen == [c \in MCCommands |-> IF c = "c1" THEN 10 ELSE 12]
MCTpmVersions == {"1.2", "2.0"}
=============================================================================
