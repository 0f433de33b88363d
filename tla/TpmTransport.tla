---------------------------- MODULE TpmTransport ----------------------------
(***************************************************************************)
(* What every TPM transport of azure-utpm-c promises its caller, through   *)
(* the interface of inc/azure_utpm_c/tpm_comm.h: tpm_comm_create,          *)
(* tpm_comm_submit_command and tpm_comm_destroy, one call at a time.       *)
(*                                                                         *)
(* A create either returns a usable handle or fails leaving none.  A       *)
(* submit on a live handle either fails (the response buffer is then       *)
(* undefined) or succeeds with the TPM's whole response to that command,   *)
(* no longer than the capacity *resp_len the caller gave.  A TPM response  *)
(* is abstracted to the command it answers and its length.                 *)
(***************************************************************************)
EXTENDS Naturals

CONSTANTS
    Commands,    \* commands a caller submits
    Capacities,  \* values of *resp_len a caller passes
    AnswerLen,   \* AnswerLen[c]: length of the TPM's response to c
    NoResp,      \* model value: no response was handed back
    Kind         \* the TPM_COMM_TYPE the transport reports

ASSUME /\ AnswerLen \in [Commands -> Nat]
       /\ Capacities \subseteq Nat

Response(c, n) == [cmd |-> c, len |-> n]
Answer(c) == Response(c, AnswerLen[c])

VARIABLES
    handle,   \* "none" or "live": the caller holds a usable TPM_COMM_HANDLE
    outcome   \* the result of the last call

vars == <<handle, outcome>>

Outcome(op, ok, c, r) == [op |-> op, ok |-> ok, cmd |-> c, resp |-> r]
Failed(op) == Outcome(op, FALSE, NoResp, NoResp)

Init == handle = "none" /\ outcome = Failed("none")

Create ==
    /\ handle = "none"
    /\ \/ handle' = "live" /\ outcome' = Outcome("create", TRUE, NoResp, NoResp)
       \/ UNCHANGED handle /\ outcome' = Failed("create")

(* A successful submit returns the TPM's answer to the command submitted. *)
Submit ==
    /\ handle = "live"
    /\ \E c \in Commands, cap \in Capacities :
          \/ /\ AnswerLen[c] <= cap
             /\ outcome' = Outcome("submit", TRUE, c, Answer(c))
          \/ outcome' = Failed("submit")
    /\ UNCHANGED handle

(* Every API call rejects a NULL handle. *)
SubmitInvalid ==
    /\ handle = "none"
    /\ outcome' = Failed("submit")
    /\ UNCHANGED handle

(* tpm_comm_get_type reports the transport's kind, whatever the handle. *)
GetType ==
    /\ outcome' = Outcome("get_type", TRUE, NoResp, Kind)
    /\ UNCHANGED handle

Destroy ==
    /\ handle = "live"
    /\ handle' = "none"
    /\ outcome' = Outcome("destroy", TRUE, NoResp, NoResp)

Next == Create \/ Submit \/ SubmitInvalid \/ GetType \/ Destroy

Spec == Init /\ [][Next]_vars
=============================================================================
