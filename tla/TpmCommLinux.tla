---------------------------- MODULE TpmCommLinux ----------------------------
(***************************************************************************)
(* The Linux backend, src/src/tpm_comm_linux.c: tpm_comm_submit_command    *)
(* writes the command with write_data_to_tpm (open /dev/tpm0, write,       *)
(* close) and then reads the response with read_data_from_tpm (open,       *)
(* read, close).  Each of the two is one blocking step; another process    *)
(* may use the device between them.                                        *)
(*                                                                         *)
(* The file does not compile as written: both helpers assign the           *)
(* descriptor to result->tpm_device (result is an int) and close           *)
(* handle->tpm_device (no such variable).  The model reads both as         *)
(* tpm_info->tpm_device, the evident intent.                               *)
(*                                                                         *)
(* The device is the Linux TPM character driver: one opener at a time     *)
(* (open fails with EBUSY otherwise), write transmits a command and keeps  *)
(* its response for that open file, read returns up to size bytes of it or *)
(* 0 when none is kept, and release discards a response not yet read.     *)
(***************************************************************************)
EXTENDS Integers

CONSTANTS
    Commands, Capacities, AnswerLen, NoResp,  \* as in TpmTransport
    OtherUser,     \* another process may open /dev/tpm0
    MaxCalls,      \* bound on API calls
    MaxDevErrors   \* bound on failing write or read system calls

ASSUME OtherUser \in BOOLEAN

MIN_TPM_RESPONSE_LENGTH == 10

VARIABLES
    handle,    \* "none" or "live": the TPM_COMM_HANDLE returned
    pc,        \* "Idle", or "read" once write_data_to_tpm succeeded
    cmd,       \* the command being submitted
    respLen,   \* the caller's *resp_len (uint32_t)
    devOwner,  \* "other" while another process has /dev/tpm0 open
    outcome,   \* the result of the last call
    calls, devErrs,
    faulted    \* the current submit met EBUSY or an I/O error

vars == <<handle, pc, cmd, respLen, devOwner, outcome, calls, devErrs, faulted>>

(* The outcome records of the contract; the success branch of            *)
(* read_data_from_tpm is unreachable (ReadOnFreshOpen), so the contract is *)
(* not checked as a refinement here: it would hold vacuously.              *)
Transport == INSTANCE TpmTransport WITH Kind <- "TPM_COMM_TYPE_LINUX"

Call == calls < MaxCalls /\ calls' = calls + 1
DevError == devErrs < MaxDevErrors /\ devErrs' = devErrs + 1

Init == /\ handle = "none" /\ pc = "Idle" /\ cmd = NoResp /\ respLen = 0
        /\ devOwner = "none" /\ outcome = Transport!Failed("none")
        /\ calls = 0 /\ devErrs = 0 /\ faulted = FALSE

(* tpm_comm_create: malloc and memset; the device is not touched. *)
tpm_comm_create ==
    /\ pc = "Idle" /\ handle = "none" /\ Call
    /\ \/ outcome' = Transport!Failed("create") /\ UNCHANGED handle
       \/ handle' = "live"
          /\ outcome' = Transport!Outcome("create", TRUE, NoResp, NoResp)
    /\ UNCHANGED <<pc, cmd, respLen, devOwner, devErrs, faulted>>

tpm_comm_destroy ==
    /\ pc = "Idle" /\ handle = "live" /\ Call
    /\ handle' = "none"
    /\ outcome' = Transport!Outcome("destroy", TRUE, NoResp, NoResp)
    /\ UNCHANGED <<pc, cmd, respLen, devOwner, devErrs, faulted>>

(* tpm_comm_get_type: TPM_COMM_TYPE_LINUX, the handle unused. *)
tpm_comm_get_type ==
    /\ pc = "Idle" /\ Call
    /\ outcome' = Transport!Outcome("get_type", TRUE, NoResp,
                                    "TPM_COMM_TYPE_LINUX")
    /\ UNCHANGED <<handle, pc, cmd, respLen, devOwner, devErrs, faulted>>

SubmitFails(isFault) ==
    /\ pc' = "Idle" /\ faulted' = (faulted \/ isFault)
    /\ outcome' = Transport!Failed("submit")

(* tpm_comm_submit_command up to write_data_to_tpm: a NULL handle fails;  *)
(* open fails with EBUSY while another process has the device; write      *)
(* returning anything but bytes_len fails; then the device is closed, and *)
(* the driver discards the response the write produced.                    *)
write_data_to_tpm ==
    /\ pc = "Idle" /\ Call
    /\ \E c \in Commands, cap \in Capacities :
          /\ cmd' = c /\ respLen' = cap
          /\ \/ handle = "none" /\ SubmitFails(FALSE) /\ UNCHANGED devErrs
             \/ /\ handle = "live" /\ devOwner # "none"
                /\ SubmitFails(TRUE) /\ UNCHANGED devErrs
             \/ /\ handle = "live" /\ devOwner = "none"
                /\ \/ DevError /\ SubmitFails(TRUE)
                   \/ /\ pc' = "read" /\ faulted' = FALSE
                      /\ UNCHANGED <<outcome, devErrs>>
    /\ UNCHANGED <<handle, devOwner>>

(* The bytes read() returns on a freshly opened /dev/tpm0, whatever size  *)
(* cap it is given: the driver keeps no response for a new file.           *)
ReadOnFreshOpen(cap) == 0

(* read_data_from_tpm: open (EBUSY while another process has the device), *)
(* read up to *bytes_len bytes, fail when fewer than                       *)
(* MIN_TPM_RESPONSE_LENGTH came back, else *bytes_len = len_read; close.   *)
read_data_from_tpm ==
    /\ pc = "read" /\ Call
    /\ \/ /\ devOwner # "none"
          /\ SubmitFails(TRUE) /\ UNCHANGED <<respLen, devErrs>>
       \/ /\ devOwner = "none"
          /\ \/ DevError /\ SubmitFails(TRUE) /\ UNCHANGED respLen
             \/ LET lenRead == ReadOnFreshOpen(respLen) IN
                /\ UNCHANGED devErrs
                /\ IF lenRead < MIN_TPM_RESPONSE_LENGTH
                     THEN SubmitFails(FALSE) /\ UNCHANGED respLen
                     ELSE /\ respLen' = lenRead /\ pc' = "Idle"
                          /\ outcome' = Transport!Outcome("submit", TRUE, cmd,
                                            Transport!Response(cmd, lenRead))
                          /\ UNCHANGED faulted
    /\ UNCHANGED <<handle, cmd, devOwner>>

(* Another process opens or closes /dev/tpm0. *)
OtherOpen == OtherUser /\ devOwner = "none" /\ devOwner' = "other"
             /\ UNCHANGED <<handle, pc, cmd, respLen, outcome, calls, devErrs,
                            faulted>>
OtherClose == devOwner = "other" /\ devOwner' = "none"
              /\ UNCHANGED <<handle, pc, cmd, respLen, outcome, calls, devErrs,
                             faulted>>

Next == \/ tpm_comm_create \/ tpm_comm_destroy \/ tpm_comm_get_type
        \/ write_data_to_tpm \/ read_data_from_tpm
        \/ OtherOpen \/ OtherClose

Spec == Init /\ [][Next]_vars

-----------------------------------------------------------------------------
(* A submit that met no busy device and no I/O error returns the TPM's     *)
(* response (spec 1: the hardware backend sends a command and receives    *)
(* its response).                                                          *)
SubmitSucceedsOnIdleDevice ==
    /\ pc = "Idle" /\ outcome.op = "submit" /\ handle = "live" /\ ~faulted
    => outcome.ok
=============================================================================
