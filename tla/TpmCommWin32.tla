---------------------------- MODULE TpmCommWin32 ----------------------------
(***************************************************************************)
(* The Windows backend, src/src/tpm_comm_win32.c: a TPM_COMM_INFO holding  *)
(* a TPM Base Services context.  Each API call is one blocking step.       *)
(*                                                                         *)
(* TBS is the environment: tbsOpen counts the contexts it holds open for   *)
(* this process.  TBS_HCONTEXT is a pointer-sized handle, and the code     *)
(* closes a context with Tbsip_Context_Close(&info->tbs_context), the      *)
(* address of the field holding the handle; TBS finds no context under     *)
(* that value (TBS_E_INVALID_CONTEXT, ignored by the code) and closes      *)
(* nothing.                                                                *)
(***************************************************************************)
EXTENDS Naturals

CONSTANTS
    Commands, Capacities, AnswerLen, NoResp,  \* as in TpmTransport
    TpmVersions,  \* versions Tbsi_GetDeviceInfo may report
    MaxCalls      \* bound on API calls

ASSUME "2.0" \in TpmVersions

VARIABLES
    handle,   \* "none" or "live": the TPM_COMM_HANDLE returned
    ctx,      \* "none" or "open": the handle's tbs_context
    tbsOpen,  \* contexts TBS holds open for the process
    outcome,  \* the result of the last call
    calls     \* API calls made

vars == <<handle, ctx, tbsOpen, outcome, calls>>

Transport == INSTANCE TpmTransport WITH Kind <- "TPM_COMM_TYPE_WINDOW"

Call == calls < MaxCalls /\ calls' = calls + 1

Init == /\ handle = "none" /\ ctx = "none" /\ tbsOpen = 0
        /\ outcome = Transport!Failed("none") /\ calls = 0

(* The contexts TBS holds open after Tbsip_Context_Close(&info->tbs_context) *)
(* with n open: no context is closed.                                       *)
CloseContextByAddress(n) == n

(* What Tbsi_GetDeviceInfo may yield: a version, or failure. *)
DeviceInfo == TpmVersions \cup {"GetDeviceInfo fails"}

(* tpm_comm_create: malloc, memset, Tbsi_Context_Create for TPM 2.0, then  *)
(* Tbsi_GetDeviceInfo, which must report version 2.0.  The two later       *)
(* failures close the context and free the info.                           *)
tpm_comm_create ==
    /\ handle = "none" /\ Call
    /\ \/ \* malloc or Tbsi_Context_Create fails
          /\ outcome' = Transport!Failed("create")
          /\ UNCHANGED <<handle, ctx, tbsOpen>>
       \/ \* the context is created; device info fails or is not 2.0
          /\ \E v \in DeviceInfo : v # "2.0"
          /\ tbsOpen' = CloseContextByAddress(tbsOpen + 1)
          /\ outcome' = Transport!Failed("create")
          /\ UNCHANGED <<handle, ctx>>
       \/ /\ tbsOpen' = tbsOpen + 1
          /\ handle' = "live" /\ ctx' = "open"
          /\ outcome' = Transport!Outcome("create", TRUE, NoResp, NoResp)

(* tpm_comm_destroy: Tbsip_Context_Close(&handle->tbs_context), free. *)
tpm_comm_destroy ==
    /\ handle = "live" /\ Call
    /\ tbsOpen' = CloseContextByAddress(tbsOpen)
    /\ handle' = "none" /\ ctx' = "none"
    /\ outcome' = Transport!Outcome("destroy", TRUE, NoResp, NoResp)

(* tpm_comm_get_type: TPM_COMM_TYPE_WINDOW, the handle unused. *)
tpm_comm_get_type ==
    /\ Call
    /\ outcome' = Transport!Outcome("get_type", TRUE, NoResp,
                                    "TPM_COMM_TYPE_WINDOW")
    /\ UNCHANGED <<handle, ctx, tbsOpen>>

tpm_comm_submit_command ==
    /\ Call
    /\ \/ /\ handle = "none"
          /\ outcome' = Transport!Failed("submit")
       \/ /\ handle = "live"
          /\ \E c \in Commands, cap \in Capacities :
                \/ /\ AnswerLen[c] <= cap
                   /\ outcome' = Transport!Outcome("submit", TRUE, c,
                                                   Transport!Answer(c))
                \/ outcome' = Transport!Failed("submit")
    /\ UNCHANGED <<handle, ctx, tbsOpen>>

Next == \/ tpm_comm_create \/ tpm_comm_destroy \/ tpm_comm_submit_command
        \/ tpm_comm_get_type

Spec == Init /\ [][Next]_vars

-----------------------------------------------------------------------------
ContextsReleased == handle = "none" => tbsOpen = 0
=============================================================================
