-------------------------- MODULE TpmCommEmulator --------------------------
(***************************************************************************)
(* The simulator transport of azure-utpm-c, src/src/tpm_comm_emulator.c.   *)
(*                                                                         *)
(* One caller thread runs tpm_comm_create, tpm_comm_submit_command and     *)
(* tpm_comm_destroy.  Every blocking call is built from two primitives,    *)
(* send_xio_sync_bytes and read_sync_bytes, which spin in                  *)
(* wait_to_complete pumping xio_dowork; the xio callbacks                  *)
(* (on_send_complete, on_bytes_recieved, on_error, platform_bytes_received,*)
(* platform_on_error) run only inside that pump.  The TPM simulator on the *)
(* command port and on the platform port are separate processes that      *)
(* answer whatever reaches them.                                           *)
(*                                                                         *)
(* Data is abstracted to tagged bytes: a uint32 on the wire is WordBytes   *)
(* bytes, each tagged with the field, the request and its position, so a  *)
(* read that takes the 4 bytes of one word decodes its value (htonl on     *)
(* send and on receive cancel out) and a read that takes any other 4 bytes *)
(* decodes an arbitrary value.  A response payload byte is tagged with the *)
(* request it answers.  Time is abstracted away: a wait may time out at    *)
(* any check at which its flag is still clear.                             *)
(***************************************************************************)
EXTENDS Naturals, Sequences, SequencesExt

CONSTANTS
    WordBytes,        \* sizeof(uint32_t)
    ServerVersions,   \* protocol versions the simulator may answer with
    TpmInfos,         \* values of the tpm info word of the handshake
    HandshakeAcks,    \* values of the handshake's trailing ack word
    RespLens,         \* response lengths the simulator may report
    CmdAcks,          \* values of a command's trailing ack word
    PlatAcks,         \* values the platform port acks a signal with
    WordValues,       \* values a garbled or uninitialised uint32 may hold
    Capacity,         \* *resp_len passed to tpm_comm_submit_command
    MaxCreates,       \* calls of tpm_comm_create
    MaxSubmits,       \* calls of tpm_comm_submit_command
    MaxSocketErrors,  \* on_error / platform_on_error callbacks
    MaxAllocFails,    \* malloc/realloc failures inside receive callbacks
    Undef             \* model value: a variable that was never written

ASSUME /\ WordBytes \in Nat \ {0}
       /\ ServerVersions \cup TpmInfos \cup HandshakeAcks \cup RespLens
            \cup CmdAcks \cup PlatAcks \subseteq WordValues
       /\ WordValues \subseteq Nat /\ Capacity \in Nat

ClientVersion == 1          \* tmp_client_version in execute_simulator_setup
ReadAttempts  == 2          \* the loop bound of read_sync_bytes

(* Units the client hands to xio_send, named after the source's constants *)
SendUnits == {"Remote_Handshake", "ClientVersion", "Remote_SendCommand",
              "Locality", "CmdLen", "CmdBytes",
              "Remote_SignalPowerOn", "Remote_SignalNvOn"}
(* Fields of the simulator's answers *)
Fields == {"ServerVersion", "TpmInfo", "HsAck", "RespLen", "RespBytes",
           "CmdAck", "PlatAck"}

Word(f, k, v) == [i \in 1..WordBytes |-> [f |-> f, k |-> k, i |-> i, v |-> v]]
RespBytes(k, n) == [i \in 1..n |-> [f |-> "RespBytes", k |-> k, i |-> i, v |-> 0]]

(* The values a uint32 read from bytes bs may hold after the htonl of      *)
(* read_sync_cmd: the word's value when bs are the bytes of one word in    *)
(* order, anything otherwise.                                              *)
IsWord(bs) == /\ Len(bs) = WordBytes
              /\ bs[1].f # "RespBytes"
              /\ \A i \in 1..WordBytes : /\ bs[i].f = bs[1].f
                                         /\ bs[i].k = bs[1].k
                                         /\ bs[i].i = i
Decode(bs) == IF IsWord(bs) THEN {bs[1].v} ELSE WordValues
(* The values of a local that may still be uninitialised. *)
ValueOf(w) == IF w = Undef THEN WordValues ELSE {w}

VARIABLES
    \* the caller's thread: call site, primitive state, locals
    pc, sub, res, rdLen, rdIdx, waitOn, io, sendDone,
    word, resp, respLen,
    \* TPM_COMM_INFO and the command-port xio
    handle, tick, connXio, outQ, recvBuf, recvFlag, errorState,
    socketConnected,
    \* power_on_simulator: plat_xio and its SOCKET_CMD_INFO cmd_info
    platXio, platOut, platFlag, platErr, platCapture,
    \* the simulator: command-port parser, and bytes in flight both ways
    srv, srvK, srvIn, cmdWire, psrvIn, platWire,
    \* bounds and history
    creates, submits, sockErrs, allocFails, srvLen, platAckVals, outcome, failedBefore, dangling,
    \* the bytes the simulator wrote on the command port since the connection
    \* was made, and how many of them read_sync_bytes has copied out
    sent, consumed

prim   == <<sub, res, rdLen, rdIdx, waitOn, io, sendDone>>
locals == <<word, resp, respLen>>
conn   == <<handle, tick, connXio, outQ, recvBuf, recvFlag, errorState,
            socketConnected>>
plat   == <<platXio, platOut, platFlag, platErr, platCapture>>
sim    == <<srv, srvK, srvIn, cmdWire, psrvIn, platWire>>
ghost  == <<creates, submits, sockErrs, allocFails, srvLen, platAckVals, outcome, failedBefore, dangling, sent, consumed>>
vars   == <<pc, prim, locals, conn, plat, sim, ghost>>

(* Call sites of the caller's thread; "Idle" is between API calls. *)
Sites == {"Idle", "crashed", "hs_send_cmd", "hs_send_ver", "hs_read_ver", "hs_read_info",
          "hs_read_ack", "po_open", "po_wait_open", "po_send_on",
          "po_wait_on_ack", "po_send_nv", "po_wait_nv_ack",
          "sub_send_cmd", "sub_send_loc", "sub_send_len", "sub_send_data",
          "sub_read_len", "sub_read_resp", "sub_read_ack"}
Flags == {"none", "sendDone", "recvFlag", "socketConnected", "platFlag"}
SrvStates == {"hs", "ver", "idle", "loc", "len", "data", "desync", "closed"}
Byte == [f : Fields, k : Nat, i : Nat, v : WordValues]
Unit == [m : SendUnits, k : 0..MaxSubmits]
XioStates == {"none", "open", "error"}

TypeOK ==
    /\ pc \in Sites
    /\ sub \in {"idle", "read", "wait", "done"}
    /\ res \in BOOLEAN /\ rdLen \in Nat /\ rdIdx \in 0..(ReadAttempts - 1)
    /\ waitOn \in Flags /\ io \in {"none", "conn", "plat"}
    /\ sendDone \in BOOLEAN
    /\ word \in WordValues \cup {Undef}
    /\ resp \in Seq(Byte) \cup {Undef} /\ respLen \in Nat
    /\ handle \in {"none", "live"} /\ tick \in {"none", "live"}
    /\ connXio \in XioStates /\ platXio \in XioStates
    /\ outQ \in Seq(Unit) /\ platOut \in Seq(Unit)
    /\ recvBuf \in Seq(Byte) /\ platCapture \in Seq(Byte)
    /\ {recvFlag, errorState, socketConnected, platFlag, platErr} \subseteq BOOLEAN
    /\ srv \in SrvStates /\ srvK \in 0..MaxSubmits
    /\ srvIn \in Seq(Unit) /\ psrvIn \in Seq(Unit)
    /\ cmdWire \in Seq(Byte) /\ platWire \in Seq(Byte)
    /\ srvLen \in [1..MaxSubmits -> RespLens \cup {Undef}]
    /\ platAckVals \in Seq(PlatAcks)
    /\ outcome \in [op : {"none", "create", "submit", "destroy"},
                    ok : BOOLEAN, k : 0..MaxSubmits]
    /\ {failedBefore, dangling} \subseteq BOOLEAN
    /\ sent \in Seq(Byte) /\ consumed \in Nat

(* The program before its first call: no handle, nothing allocated. *)
Init ==
    /\ pc = "Idle" /\ sub = "idle" /\ res = FALSE /\ rdLen = 0 /\ rdIdx = 0
    /\ waitOn = "none" /\ io = "none" /\ sendDone = FALSE
    /\ word = Undef /\ resp = Undef /\ respLen = 0
    /\ handle = "none" /\ tick = "none" /\ connXio = "none" /\ outQ = <<>>
    /\ recvBuf = <<>> /\ recvFlag = FALSE /\ errorState = FALSE
    /\ socketConnected = FALSE
    /\ platXio = "none" /\ platOut = <<>> /\ platFlag = FALSE
    /\ platErr = FALSE /\ platCapture = <<>>
    /\ srv = "closed" /\ srvK = 0 /\ srvIn = <<>> /\ cmdWire = <<>>
    /\ psrvIn = <<>> /\ platWire = <<>>
    /\ creates = 0 /\ submits = 0 /\ sockErrs = 0 /\ allocFails = 0
    /\ srvLen = [k \in 1..MaxSubmits |-> Undef]
    /\ platAckVals = <<>>
    /\ outcome = [op |-> "none", ok |-> FALSE, k |-> 0]
    /\ failedBefore = FALSE /\ dangling = FALSE
    /\ sent = <<>> /\ consumed = 0

-----------------------------------------------------------------------------
(***************************************************************************)
(* The primitives: send_xio_sync_bytes, read_sync_bytes, wait_to_complete. *)
(* A call site starts one and the next call site continues when            *)
(* sub = "done", reading its result from res.                              *)
(***************************************************************************)
Flag(f) == CASE f = "sendDone"        -> sendDone
             [] f = "recvFlag"        -> recvFlag
             [] f = "socketConnected" -> socketConnected
             [] f = "platFlag"        -> platFlag

(* A primitive returns result r; the frames of send_xio_sync_bytes,        *)
(* read_sync_bytes and wait_to_complete, and their locals, are gone.       *)
PrimReturns(r) ==
    /\ sub' = "done" /\ res' = r
    /\ rdLen' = 0 /\ rdIdx' = 0 /\ waitOn' = "none" /\ io' = "none"
    /\ sendDone' = FALSE

(* The API call returns to the caller: its locals are gone. *)
CallReturns ==
    /\ pc' = "Idle" /\ sub' = "idle" /\ res' = FALSE /\ word' = Undef
    /\ rdLen' = 0 /\ rdIdx' = 0 /\ waitOn' = "none" /\ io' = "none"
    /\ sendDone' = FALSE

(* wait_to_complete(xio x, ..., flag f) is entered. *)
StartWait(f, x) ==
    /\ sub' = "wait" /\ waitOn' = f /\ io' = x
    /\ UNCHANGED <<res, rdLen, rdIdx, sendDone>>

(* send_xio_sync_bytes on xio x: a fresh cmd_info.send_completed, then     *)
(* xio_send, which queues the unit unless the socket is not open, then     *)
(* wait_to_complete on send_completed.  Assigns outQ and platOut.          *)
StartSend(x, m, k, isOpen) ==
    IF isOpen
      THEN /\ sub' = "wait" /\ waitOn' = "sendDone" /\ io' = x
           /\ sendDone' = FALSE
           /\ UNCHANGED <<res, rdLen, rdIdx>>
           /\ IF x = "conn"
                THEN outQ' = Append(outQ, [m |-> m, k |-> k]) /\ UNCHANGED platOut
                ELSE platOut' = Append(platOut, [m |-> m, k |-> k]) /\ UNCHANGED outQ
      ELSE /\ PrimReturns(FALSE)
           /\ UNCHANGED <<outQ, platOut>>

(* read_sync_bytes(comm_info, dst, n) is entered with index = 0. *)
StartRead(n) ==
    /\ sub' = "read" /\ rdLen' = n /\ rdIdx' = 0
    /\ UNCHANGED <<res, waitOn, io, sendDone>>

(* Mutant of remove_from_buffer: the remainder is copied from             *)
(* &recv_bytes[length - 1], one byte too early.                            *)
RemoveFromBufferOffByOne(n) ==
    /\ \/ n = Len(recvBuf) /\ recvBuf' = <<>>
       \/ n < Len(recvBuf) /\ recvBuf' = SubSeq(recvBuf, n, Len(recvBuf) - 1)
    /\ UNCHANGED <<pc, allocFails>>

(* remove_from_buffer: taking the whole buffer frees it; taking less       *)
(* mallocs the remainder and copies it there without checking the malloc,  *)
(* so an allocation failure is a memcpy to NULL, which ends the process.   *)
remove_from_buffer(n) ==
    \/ /\ recvBuf' = SubSeq(recvBuf, n + 1, Len(recvBuf))
       /\ UNCHANGED <<pc, allocFails>>
    \/ /\ n < Len(recvBuf) /\ allocFails < MaxAllocFails
       /\ allocFails' = allocFails + 1
       /\ pc' = "crashed"
       /\ UNCHANGED recvBuf

(* One pass of read_sync_bytes' loop body, index < 2: take the bytes if   *)
(* enough are buffered, otherwise wait for bytes_recv_complete.            *)
ReadCheck ==
    /\ sub = "read"
    /\ IF Len(recvBuf) >= rdLen
         THEN LET got == SubSeq(recvBuf, 1, rdLen) IN
              /\ IF pc = "sub_read_resp"
                   THEN resp' = got /\ UNCHANGED word
                   ELSE (\E v \in Decode(got) : word' = v) /\ UNCHANGED resp
              /\ remove_from_buffer(rdLen)
              /\ consumed' = consumed + rdLen
              /\ PrimReturns(TRUE)
         ELSE /\ StartWait("recvFlag", "conn")
              /\ UNCHANGED <<pc, word, resp, recvBuf, allocFails, consumed>>
    /\ UNCHANGED <<respLen, handle, tick, connXio, outQ, recvFlag,
                   errorState, socketConnected>>
    /\ UNCHANGED <<plat, sim, creates, submits, sockErrs, srvLen, platAckVals, outcome, failedBefore, dangling, sent>>

(* Mutants of WaitExit: the loop of read_sync_bytes running while          *)
(* index <= 2, and a wait_to_complete loop without its timeout.            *)
WaitExitIndexLE ==
    /\ sub = "wait"
    /\ IF waitOn = "recvFlag" /\ rdIdx + 1 <= ReadAttempts
         THEN /\ sub' = "read" /\ res' = recvFlag /\ rdIdx' = rdIdx + 1
              /\ waitOn' = "none" /\ io' = "none"
              /\ UNCHANGED <<rdLen, sendDone>>
         ELSE PrimReturns(Flag(waitOn))
    /\ recvFlag' = IF waitOn = "recvFlag" THEN FALSE ELSE recvFlag
    /\ UNCHANGED <<pc, locals>>
    /\ UNCHANGED <<handle, tick, connXio, outQ, recvBuf, errorState,
                   socketConnected>>
    /\ UNCHANGED <<plat, sim, ghost>>

WaitExitNoTimeout ==
    /\ sub = "wait" /\ Flag(waitOn)
    /\ IF waitOn = "recvFlag" /\ rdIdx + 1 < ReadAttempts
         THEN /\ sub' = "read" /\ res' = recvFlag /\ rdIdx' = rdIdx + 1
              /\ waitOn' = "none" /\ io' = "none"
              /\ UNCHANGED <<rdLen, sendDone>>
         ELSE PrimReturns(Flag(waitOn))
    /\ recvFlag' = IF waitOn = "recvFlag" THEN FALSE ELSE recvFlag
    /\ UNCHANGED <<pc, locals>>
    /\ UNCHANGED <<handle, tick, connXio, outQ, recvBuf, errorState,
                   socketConnected>>
    /\ UNCHANGED <<plat, sim, ghost>>

(* The check of wait_to_complete's do-while after an xio_dowork.  It       *)
(* returns *wait_complete.  The loop also stops once the error flag is set *)
(* or the timeout has elapsed; time is not modelled, so the check may stop *)
(* the loop at any point, and the error flag only makes that sooner.  In   *)
(* read_sync_bytes the wait is followed by clearing bytes_recv_complete    *)
(* and by the next iteration, or by the end of the loop at index 2, which  *)
(* returns the last wait's result without copying anything.                *)
WaitExit ==
    /\ sub = "wait"
    /\ IF waitOn = "recvFlag" /\ rdIdx + 1 < ReadAttempts
         THEN /\ sub' = "read" /\ res' = recvFlag /\ rdIdx' = rdIdx + 1
              /\ waitOn' = "none" /\ io' = "none"
              /\ UNCHANGED <<rdLen, sendDone>>
         ELSE PrimReturns(Flag(waitOn))
    /\ recvFlag' = IF waitOn = "recvFlag" THEN FALSE ELSE recvFlag
    /\ UNCHANGED <<pc, locals>>
    /\ UNCHANGED <<handle, tick, connXio, outQ, recvBuf, errorState,
                   socketConnected>>
    /\ UNCHANGED <<plat, sim, ghost>>

-----------------------------------------------------------------------------
(***************************************************************************)
(* The xio callbacks.  They run inside xio_dowork, so only while the       *)
(* caller waits on the xio they belong to.                                 *)
(***************************************************************************)
Pumping(x) == sub = "wait" /\ io = x

(* on_send_complete(&cmd_info, IO_SEND_OK) of the send at the head of the *)
(* queue.  Its cmd_info lives on the stack of send_xio_sync_bytes; it is  *)
(* the waiting call's only while that call is still waiting for it (the   *)
(* head is then the last unit queued).  Otherwise the call has returned   *)
(* and the callback writes into a dead stack frame.                       *)
SendComplete(q, toSim) ==
    /\ q # <<>>
    /\ toSim' = Append(toSim, Head(q))
    /\ IF waitOn = "sendDone" /\ Len(q) = 1
         THEN sendDone' = TRUE /\ UNCHANGED dangling
         ELSE dangling' = TRUE /\ UNCHANGED sendDone

on_send_complete ==
    /\ Pumping("conn") /\ connXio = "open"
    /\ SendComplete(outQ, srvIn)
    /\ outQ' = Tail(outQ)
    /\ UNCHANGED <<pc, sub, res, rdLen, rdIdx, waitOn, io, locals>>
    /\ UNCHANGED <<handle, tick, connXio, recvBuf, recvFlag, errorState,
                   socketConnected, plat, srv, srvK, cmdWire, psrvIn,
                   platWire>>
    /\ UNCHANGED <<creates, submits, sockErrs, allocFails, srvLen,
                   platAckVals, outcome, failedBefore, sent, consumed>>

platform_on_send_complete ==
    /\ Pumping("plat") /\ platXio = "open"
    /\ SendComplete(platOut, psrvIn)
    /\ platOut' = Tail(platOut)
    /\ UNCHANGED <<pc, sub, res, rdLen, rdIdx, waitOn, io, locals, conn>>
    /\ UNCHANGED <<platXio, platFlag, platErr, platCapture>>
    /\ UNCHANGED <<srv, srvK, srvIn, cmdWire, platWire>>
    /\ UNCHANGED <<creates, submits, sockErrs, allocFails, srvLen,
                   platAckVals, outcome, failedBefore, sent, consumed>>

(* add_to_buffer: realloc the buffer and append, setting                   *)
(* bytes_recv_complete; on allocation failure the chunk is dropped and     *)
(* error_state is set.                                                     *)
add_to_buffer(bs) ==
    \/ /\ recvBuf' = recvBuf \o bs
       /\ recvFlag' = TRUE
       /\ UNCHANGED <<errorState, allocFails>>
    \/ /\ allocFails < MaxAllocFails
       /\ allocFails' = allocFails + 1
       /\ errorState' = TRUE
       /\ UNCHANGED <<recvBuf, recvFlag>>

(* on_bytes_recieved: the socket hands over the next n bytes in flight. *)
on_bytes_recieved ==
    /\ Pumping("conn") /\ connXio = "open" /\ cmdWire # <<>>
    /\ \E n \in 1..Len(cmdWire) :
          /\ cmdWire' = SubSeq(cmdWire, n + 1, Len(cmdWire))
          /\ add_to_buffer(SubSeq(cmdWire, 1, n))
    /\ UNCHANGED <<pc, prim, locals, handle, tick, connXio, outQ,
                   socketConnected, plat>>
    /\ UNCHANGED <<srv, srvK, srvIn, psrvIn, platWire>>
    /\ UNCHANGED <<creates, submits, sockErrs, srvLen, platAckVals, outcome, failedBefore, dangling, sent, consumed>>

(* on_error: the socket fails; socketio rejects every later xio_send. *)
on_error ==
    /\ Pumping("conn") /\ connXio = "open" /\ sockErrs < MaxSocketErrors
    /\ sockErrs' = sockErrs + 1
    /\ connXio' = "error" /\ errorState' = TRUE
    /\ UNCHANGED <<pc, prim, locals, handle, tick, outQ, recvBuf, recvFlag,
                   socketConnected, plat, sim>>
    /\ UNCHANGED <<creates, submits, allocFails, srvLen, platAckVals, outcome, failedBefore, dangling, sent, consumed>>

(* platform_bytes_received: free the previous capture and malloc a copy   *)
(* of this chunk alone, setting send_completed; on allocation failure the *)
(* capture is left NULL and error_encountered is set.                      *)
platform_bytes_received ==
    /\ Pumping("plat") /\ platXio = "open" /\ platWire # <<>>
    /\ \E n \in 1..Len(platWire) :
          /\ platWire' = SubSeq(platWire, n + 1, Len(platWire))
          /\ \/ /\ platCapture' = SubSeq(platWire, 1, n)
                /\ platFlag' = TRUE
                /\ UNCHANGED <<platErr, allocFails>>
             \/ /\ allocFails < MaxAllocFails
                /\ allocFails' = allocFails + 1
                /\ platCapture' = <<>>
                /\ platErr' = TRUE
                /\ UNCHANGED platFlag
    /\ UNCHANGED <<pc, prim, locals, conn, platXio, platOut>>
    /\ UNCHANGED <<srv, srvK, srvIn, cmdWire, psrvIn>>
    /\ UNCHANGED <<creates, submits, sockErrs, srvLen, platAckVals, outcome, failedBefore, dangling, sent, consumed>>

(* platform_on_error *)
platform_on_error ==
    /\ Pumping("plat") /\ platXio = "open" /\ sockErrs < MaxSocketErrors
    /\ sockErrs' = sockErrs + 1
    /\ platXio' = "error" /\ platErr' = TRUE
    /\ UNCHANGED <<pc, prim, locals, conn, platOut, platFlag, platCapture,
                   sim>>
    /\ UNCHANGED <<creates, submits, allocFails, srvLen, platAckVals, outcome, failedBefore, dangling, sent, consumed>>

-----------------------------------------------------------------------------
(***************************************************************************)
(* The TPM simulator (outside this repository): on the command port it     *)
(* reads the handshake and then one request after another and answers     *)
(* each as the wire protocol of the client's code expects; on the platform *)
(* port it acks every signal with one word.                                *)
(***************************************************************************)
Expect   == [hs |-> "Remote_Handshake", ver |-> "ClientVersion",
             idle |-> "Remote_SendCommand", loc |-> "Locality",
             len |-> "CmdLen", data |-> "CmdBytes"]
SrvAfter == [hs |-> "ver", ver |-> "idle", idle |-> "loc", loc |-> "len",
             len |-> "data", data |-> "idle"]

(* The head unit is the one the simulator's parser expects next. *)
InOrder(u) == /\ srv \in DOMAIN Expect
              /\ u.m = Expect[srv]
              /\ srv \in {"loc", "len", "data"} => u.k = srvK

(* The simulator writes bytes bs on the command port. *)
Write(bs) == cmdWire' = cmdWire \o bs /\ sent' = sent \o bs

SimUnchanged == UNCHANGED <<pc, prim, locals, conn, plat, psrvIn, platWire>>

(* A unit that needs no answer: the handshake opcode or a request's first *)
(* three units.                                                           *)
SimulatorParse ==
    /\ srvIn # <<>>
    /\ InOrder(Head(srvIn)) /\ srv \in {"hs", "idle", "loc", "len"}
    /\ srvIn' = Tail(srvIn)
    /\ srv' = SrvAfter[srv]
    /\ srvK' = IF srv = "idle" THEN Head(srvIn).k ELSE srvK
    /\ SimUnchanged
    /\ UNCHANGED <<cmdWire, ghost>>

(* The client version completes the handshake: version, info, ack. *)
SimulatorHandshake ==
    /\ srvIn # <<>>
    /\ InOrder(Head(srvIn)) /\ srv = "ver"
    /\ srvIn' = Tail(srvIn) /\ srv' = "idle"
    /\ \E v \in ServerVersions, i \in TpmInfos, a \in HandshakeAcks :
          Write(Word("ServerVersion", 0, v) \o Word("TpmInfo", 0, i)
                  \o Word("HsAck", 0, a))
    /\ SimUnchanged
    /\ UNCHANGED <<srvK, creates, submits, sockErrs, allocFails, srvLen,
                   platAckVals, outcome, failedBefore, dangling, consumed>>

(* The command bytes complete request srvK: length, response, ack. *)
SimulatorRespond ==
    /\ srvIn # <<>>
    /\ InOrder(Head(srvIn)) /\ srv = "data"
    /\ srvIn' = Tail(srvIn) /\ srv' = "idle"
    /\ \E n \in RespLens, a \in CmdAcks :
          /\ Write(Word("RespLen", srvK, n) \o RespBytes(srvK, n)
                    \o Word("CmdAck", srvK, a))
          /\ srvLen' = [srvLen EXCEPT ![srvK] = n]
    /\ SimUnchanged
    /\ UNCHANGED <<srvK, creates, submits, sockErrs, allocFails, platAckVals, outcome, failedBefore, dangling, consumed>>

(* A unit out of place: a request was abandoned after part of it had been *)
(* queued, so the simulator parses the next request's bytes as the rest of *)
(* the old one.  From then on it may answer with responses that belong to *)
(* no request of the client (tagged 0), or with nothing.                  *)
SimulatorDesync ==
    /\ srvIn # <<>>
    /\ ~InOrder(Head(srvIn)) \/ srv = "desync"
    /\ srvIn' = Tail(srvIn) /\ srv' = "desync"
    /\ \/ UNCHANGED <<cmdWire, sent>>
       \/ \E n \in RespLens :
             Write(Word("RespLen", 0, n) \o RespBytes(0, n) \o Word("CmdAck", 0, 0))
    /\ SimUnchanged
    /\ UNCHANGED <<srvK, creates, submits, sockErrs, allocFails, srvLen,
                   platAckVals, outcome, failedBefore, dangling, consumed>>

(* The platform port acks Remote_SignalPowerOn (tag 1) and                 *)
(* Remote_SignalNvOn (tag 2).                                              *)
PlatformSimulator ==
    /\ psrvIn # <<>>
    /\ psrvIn' = Tail(psrvIn)
    /\ \E a \in PlatAcks :
          /\ platWire' = platWire \o Word("PlatAck",
                   IF Head(psrvIn).m = "Remote_SignalPowerOn" THEN 1 ELSE 2, a)
          /\ platAckVals' = Append(platAckVals, a)
    /\ UNCHANGED <<pc, prim, locals, conn, plat, srv, srvK, srvIn, cmdWire>>
    /\ UNCHANGED <<creates, submits, sockErrs, allocFails, srvLen, outcome, failedBefore, dangling, sent, consumed>>

-----------------------------------------------------------------------------
(***************************************************************************)
(* tpm_comm_create: allocation, execute_simulator_setup (handshake) and    *)
(* power_on_simulator.                                                     *)
(***************************************************************************)
At(s) == pc = s /\ sub = "done"

(* disconnect_from_simulator: xio_close and xio_destroy of the command    *)
(* xio.  socketio drops the sends still queued and the simulator's session *)
(* ends with the bytes in flight.                                          *)
disconnect_from_simulator ==
    /\ connXio' = "none" /\ outQ' = <<>>
    /\ srv' = "closed" /\ srvIn' = <<>> /\ cmdWire' = <<>>

(* The TPM_COMM_INFO is freed after tickcounter_destroy, xio_close and     *)
(* xio_destroy; socketio drops the queued sends, the simulator session    *)
(* ends.  recv_bytes is not freed.                                         *)
CreateFail ==
    /\ CallReturns
    /\ tick' = "none" /\ disconnect_from_simulator
    /\ outcome' = [op |-> "create", ok |-> FALSE, k |-> 0]
    /\ UNCHANGED <<resp, respLen, handle, recvBuf, recvFlag, errorState, srvK>>
    /\ UNCHANGED <<creates, submits, sockErrs, allocFails, srvLen, platAckVals, failedBefore, dangling, sent, consumed>>

Create ==
    /\ pc = "Idle" /\ sub = "idle" /\ handle = "none" /\ creates < MaxCreates
    /\ creates' = creates + 1
    /\ \/ \* malloc, tickcounter_create, xio_create or xio_open fails and
          \* what was allocated before it is released
          /\ outcome' = [op |-> "create", ok |-> FALSE, k |-> 0]
          /\ UNCHANGED <<pc, prim, conn, sim, failedBefore, sent, consumed>>
       \/ \* memset to 0, connected, then the handshake opcode is sent
          /\ tick' = "live" /\ connXio' = "open" /\ socketConnected' = TRUE
          /\ recvBuf' = <<>> /\ recvFlag' = FALSE /\ errorState' = FALSE
          /\ srv' = "hs" /\ failedBefore' = FALSE
          /\ sent' = <<>> /\ consumed' = 0
          /\ pc' = "hs_send_cmd"
          /\ StartSend("conn", "Remote_Handshake", 0, TRUE)
          /\ UNCHANGED <<handle, srvK, srvIn, cmdWire, outcome>>
    /\ UNCHANGED <<locals, plat, psrvIn, platWire>>
    /\ UNCHANGED <<submits, sockErrs, allocFails, srvLen, platAckVals, dangling>>

(* A handshake step succeeded and the next one starts. *)
HsUnchanged == UNCHANGED <<resp, respLen, handle, tick, connXio, recvBuf,
                           recvFlag, errorState, socketConnected, plat, sim,
                           ghost>>

HsSendVersion ==
    /\ At("hs_send_cmd") /\ res
    /\ pc' = "hs_send_ver"
    /\ StartSend("conn", "ClientVersion", 0, connXio = "open")
    /\ HsUnchanged /\ UNCHANGED word

HsReadVersion ==
    /\ At("hs_send_ver") /\ res
    /\ pc' = "hs_read_ver"
    /\ word' = ClientVersion           \* tmp_server_version = 1
    /\ StartRead(WordBytes)
    /\ HsUnchanged /\ UNCHANGED outQ

HsReadInfo ==
    /\ At("hs_read_ver") /\ res /\ ClientVersion \in ValueOf(word)
    /\ pc' = "hs_read_info" /\ word' = Undef
    /\ StartRead(WordBytes)
    /\ HsUnchanged /\ UNCHANGED outQ

HsReadAck ==
    /\ At("hs_read_info") /\ res
    /\ pc' = "hs_read_ack" /\ word' = Undef
    /\ StartRead(WordBytes)
    /\ HsUnchanged /\ UNCHANGED outQ

(* is_ack_ok: the end tag read_sync_cmd read is 0 (ok) or not (~ok); an   *)
(* end_tag the read did not write may be either.                           *)
is_ack_ok(w, ok) == \E v \in ValueOf(w) : (v = 0) = ok

(* Any handshake step fails: a send or read fails, the versions differ,   *)
(* or is_ack_ok finds a non-zero ack.                                     *)
HandshakeFailed ==
    /\ pc \in {"hs_send_cmd", "hs_send_ver", "hs_read_ver", "hs_read_info",
               "hs_read_ack"}
    /\ sub = "done"
    /\ \/ ~res
       \/ pc = "hs_read_ver" /\ \E v \in ValueOf(word) : v # ClientVersion
       \/ pc = "hs_read_ack" /\ is_ack_ok(word, FALSE)
    /\ CreateFail
    /\ UNCHANGED <<socketConnected, plat, psrvIn, platWire>>

(* The ack power_on_simulator memcpy's out of cmd_info.recv_buff: the     *)
(* first 4 bytes of the last chunk captured.  A chunk shorter than a word *)
(* makes the copy read past it: any value.  A NULL recv_buff (<<>>) gives  *)
(* no value: the copy faults (PowerOnAckNull).                             *)
AckOf(cap) == CASE Len(cap) >= WordBytes -> Decode(SubSeq(cap, 1, WordBytes))
                [] Len(cap) = 0         -> {}
                [] OTHER                -> WordValues

(* free(cmd_info.recv_buff), xio_close, xio_dowork, xio_destroy: the      *)
(* platform socket and what is in flight on it are gone.                   *)
PlatRelease ==
    /\ platXio' = "none" /\ platOut' = <<>> /\ platFlag' = FALSE
    /\ platErr' = FALSE /\ platCapture' = <<>>
    /\ psrvIn' = <<>> /\ platWire' = <<>>

PoUnchanged == UNCHANGED <<locals, handle, tick, connXio, recvBuf, recvFlag,
                           errorState, sim, ghost>>

(* The handshake acked with 0: power_on_simulator creates and opens the    *)
(* platform xio with on_open_complete bound to comm_info, then waits for   *)
(* comm_info->socket_connected.                                            *)
PowerOnOpen ==
    /\ At("hs_read_ack") /\ res /\ is_ack_ok(word, TRUE)
    /\ pc' = "po_wait_open"
    /\ platXio' = "open" /\ platFlag' = FALSE /\ platErr' = FALSE
    /\ platCapture' = <<>>
    /\ StartWait("socketConnected", "plat")
    /\ UNCHANGED <<locals, conn, platOut, sim>>
    /\ UNCHANGED <<creates, submits, sockErrs, allocFails, srvLen, outcome, failedBefore, dangling, sent, consumed>>
    /\ platAckVals' = <<>>

(* xio_create of the platform xio fails, or xio_open fails, reporting     *)
(* IO_OPEN_ERROR to comm_info: the command socket's socket_connected is   *)
(* cleared.  Creation fails.                                               *)
PowerOnOpenFailed ==
    /\ At("hs_read_ack") /\ res /\ is_ack_ok(word, TRUE)
    /\ socketConnected' \in {socketConnected, FALSE}
    /\ CreateFail
    /\ UNCHANGED <<plat, psrvIn, platWire>>

PoSendPowerOn ==
    /\ At("po_wait_open") /\ res
    /\ pc' = "po_send_on"
    /\ StartSend("plat", "Remote_SignalPowerOn", 0, platXio = "open")
    /\ PoUnchanged
    /\ UNCHANGED <<socketConnected, platXio, platFlag, platErr, platCapture>>

PoWaitPowerOnAck ==
    /\ At("po_send_on") /\ res
    /\ pc' = "po_wait_on_ack"
    /\ StartWait("platFlag", "plat")
    /\ PoUnchanged /\ UNCHANGED <<outQ, socketConnected, plat>>

(* send_completed is cleared, the power-on ack read as 0, NV-on is sent. *)
PoSendNvOn ==
    /\ At("po_wait_on_ack") /\ res /\ 0 \in AckOf(platCapture)
    /\ pc' = "po_send_nv"
    /\ platFlag' = FALSE
    /\ StartSend("plat", "Remote_SignalNvOn", 0, platXio = "open")
    /\ PoUnchanged
    /\ UNCHANGED <<socketConnected, platXio, platErr, platCapture>>

PoWaitNvOnAck ==
    /\ At("po_send_nv") /\ res
    /\ pc' = "po_wait_nv_ack"
    /\ StartWait("platFlag", "plat")
    /\ PoUnchanged /\ UNCHANGED <<outQ, socketConnected, plat>>

(* The NV-on ack read as 0: the platform socket is released and           *)
(* tpm_comm_create returns the handle.                                     *)
PowerOnDone ==
    /\ At("po_wait_nv_ack") /\ res /\ 0 \in AckOf(platCapture)
    /\ PlatRelease
    /\ CallReturns
    /\ handle' = "live"
    /\ outcome' = [op |-> "create", ok |-> TRUE, k |-> 0]
    /\ UNCHANGED <<resp, respLen, tick, connXio, outQ, recvBuf, recvFlag, errorState,
                   socketConnected, srv, srvK, srvIn, cmdWire>>
    /\ UNCHANGED <<creates, submits, sockErrs, allocFails, srvLen, platAckVals, failedBefore, dangling, sent, consumed>>

(* A platform wait returned on send_completed set by an earlier chunk     *)
(* while the capture of a later chunk failed to allocate: recv_buff is     *)
(* NULL, and the memcpy of the ack reads address 0, ending the process.    *)
PowerOnAckNull ==
    /\ At("po_wait_on_ack") \/ At("po_wait_nv_ack")
    /\ res /\ platCapture = <<>>
    /\ pc' = "crashed"
    /\ UNCHANGED <<prim, locals, conn, plat, sim, ghost>>

(* Mutant of PowerOnFailed: a failure path that returns without the       *)
(* xio_destroy of plat_xio.                                                *)
PowerOnFailedKeepsPlat ==
    /\ pc \in {"po_wait_open", "po_send_on", "po_wait_on_ack", "po_send_nv",
               "po_wait_nv_ack"}
    /\ sub = "done"
    /\ \/ ~res
       \/ /\ pc \in {"po_wait_on_ack", "po_wait_nv_ack"}
          /\ \E a \in AckOf(platCapture) : a # 0
    /\ CreateFail
    /\ UNCHANGED <<socketConnected, plat, psrvIn, platWire>>

(* A power-on step fails (a wait or send fails, or an ack read is not 0): *)
(* the platform socket is released and creation fails.                     *)
PowerOnFailed ==
    /\ pc \in {"po_wait_open", "po_send_on", "po_wait_on_ack", "po_send_nv",
               "po_wait_nv_ack"}
    /\ sub = "done"
    /\ \/ ~res
       \/ /\ pc \in {"po_wait_on_ack", "po_wait_nv_ack"}
          /\ \E a \in AckOf(platCapture) : a # 0
    /\ PlatRelease
    /\ CreateFail
    /\ UNCHANGED socketConnected

-----------------------------------------------------------------------------
(***************************************************************************)
(* tpm_comm_submit_command and tpm_comm_destroy.                           *)
(***************************************************************************)
SubUnchanged == UNCHANGED <<handle, tick, connXio, recvBuf, recvFlag,
                            errorState, socketConnected, plat, sim, ghost>>

(* Request k = submits + 1 starts with Remote_SendCommand; resp_len holds *)
(* the caller's capacity and the response buffer is not written yet.     *)
Submit ==
    /\ pc = "Idle" /\ sub = "idle" /\ handle = "live"
    /\ submits < MaxSubmits
    /\ submits' = submits + 1
    /\ pc' = "sub_send_cmd"
    /\ resp' = Undef /\ respLen' = Capacity
    /\ StartSend("conn", "Remote_SendCommand", submits + 1, connXio = "open")
    /\ UNCHANGED <<word, handle, tick, connXio, recvBuf, recvFlag, errorState,
                   socketConnected, plat, sim>>
    /\ UNCHANGED <<creates, sockErrs, allocFails, srvLen, platAckVals, outcome, failedBefore, dangling, sent, consumed>>

(* The locality byte, the command length and the command bytes follow. *)
SubSendNext(from, to, m) ==
    /\ At(from) /\ res
    /\ pc' = to
    /\ StartSend("conn", m, submits, connXio = "open")
    /\ SubUnchanged /\ UNCHANGED locals

SubSendLocality == SubSendNext("sub_send_cmd", "sub_send_loc", "Locality")
SubSendLength   == SubSendNext("sub_send_loc", "sub_send_len", "CmdLen")
SubSendBytes    == SubSendNext("sub_send_len", "sub_send_data", "CmdBytes")

SubReadLength ==
    /\ At("sub_send_data") /\ res
    /\ pc' = "sub_read_len" /\ word' = Undef      \* uint32_t length_byte;
    /\ StartRead(WordBytes)
    /\ SubUnchanged /\ UNCHANGED <<resp, respLen, outQ>>

(* length_byte <= *resp_len: *resp_len = length_byte and that many bytes   *)
(* are read straight into the caller's response buffer.                    *)
SubReadResponse ==
    /\ At("sub_read_len") /\ res
    /\ \E v \in ValueOf(word) :
          /\ v <= respLen
          /\ respLen' = v
          /\ StartRead(v)
    /\ pc' = "sub_read_resp"
    /\ SubUnchanged /\ UNCHANGED <<word, resp, outQ>>

SubReadAck ==
    /\ At("sub_read_resp") /\ res
    /\ pc' = "sub_read_ack" /\ word' = Undef      \* uint32_t ack_cmd;
    /\ StartRead(WordBytes)
    /\ SubUnchanged /\ UNCHANGED <<resp, respLen, outQ>>

SubmitDone ==
    /\ At("sub_read_ack") /\ res /\ 0 \in ValueOf(word)
    /\ CallReturns
    /\ outcome' = [op |-> "submit", ok |-> TRUE, k |-> submits]
    /\ UNCHANGED <<resp, respLen, conn, plat, sim>>
    /\ UNCHANGED <<creates, submits, sockErrs, allocFails, srvLen, platAckVals, failedBefore, dangling, sent, consumed>>

(* Any step fails: a send or read fails, the reported length exceeds     *)
(* *resp_len, or the ack is not 0.  Nothing is reset on the connection.   *)
SubmitFailed ==
    /\ pc \in {"sub_send_cmd", "sub_send_loc", "sub_send_len", "sub_send_data",
               "sub_read_len", "sub_read_resp", "sub_read_ack"}
    /\ sub = "done"
    /\ \/ ~res
       \/ pc = "sub_read_len" /\ \E v \in ValueOf(word) : v > respLen
       \/ pc = "sub_read_ack" /\ \E v \in ValueOf(word) : v # 0
    /\ CallReturns
    /\ failedBefore' = TRUE
    /\ outcome' = [op |-> "submit", ok |-> FALSE, k |-> submits]
    /\ UNCHANGED <<resp, respLen, conn, plat, sim>>
    /\ UNCHANGED <<creates, submits, sockErrs, allocFails, srvLen, platAckVals, dangling, sent, consumed>>

(* tickcounter_destroy, disconnect_from_simulator (xio_close, xio_destroy) *)
(* and free(handle).  close_simulator, which would send                    *)
(* Remote_SessionEnd, is never called; recv_bytes is not freed.            *)
Destroy ==
    /\ pc = "Idle" /\ sub = "idle" /\ handle = "live"
    /\ handle' = "none" /\ tick' = "none" /\ disconnect_from_simulator
    /\ outcome' = [op |-> "destroy", ok |-> TRUE, k |-> 0]
    /\ UNCHANGED <<pc, prim, locals, recvBuf, recvFlag, errorState,
                   socketConnected, plat, srvK, psrvIn, platWire>>
    /\ UNCHANGED <<creates, submits, sockErrs, allocFails, srvLen, platAckVals, failedBefore, dangling, sent, consumed>>

-----------------------------------------------------------------------------
(* The steps of a call in progress, on the caller's thread. *)
CallStep ==
    \/ ReadCheck \/ WaitExit
    \/ HsSendVersion \/ HsReadVersion \/ HsReadInfo \/ HsReadAck
    \/ HandshakeFailed
    \/ PowerOnOpen \/ PowerOnOpenFailed \/ PoSendPowerOn \/ PoWaitPowerOnAck
    \/ PoSendNvOn \/ PoWaitNvOnAck \/ PowerOnDone \/ PowerOnFailed
    \/ PowerOnAckNull
    \/ SubSendLocality \/ SubSendLength \/ SubSendBytes \/ SubReadLength
    \/ SubReadResponse \/ SubReadAck \/ SubmitDone \/ SubmitFailed

(* The caller's API calls. *)
ApiCall == Create \/ Submit \/ Destroy

(* Callbacks inside xio_dowork, and the two simulator ports. *)
Environment ==
    \/ on_send_complete \/ platform_on_send_complete
    \/ on_bytes_recieved \/ on_error
    \/ platform_bytes_received \/ platform_on_error
    \/ SimulatorParse \/ SimulatorHandshake \/ SimulatorRespond
    \/ SimulatorDesync \/ PlatformSimulator

Next == ApiCall \/ CallStep \/ Environment

(* The caller's thread runs a call to its end: every step of a call in    *)
(* progress is weakly fair.  Neither the caller's choice to call nor the  *)
(* network nor the simulator is assumed to make progress.                  *)
Spec == Init /\ [][Next]_vars /\ WF_vars(CallStep)

-----------------------------------------------------------------------------
(***************************************************************************)
(* Properties.                                                             *)
(***************************************************************************)

(* Between API calls the platform socket of power_on_simulator has been    *)
(* destroyed, and without a live handle no command socket and no tick      *)
(* counter is left: every failure path of tpm_comm_create and              *)
(* power_on_simulator releases what it allocated.                          *)
SocketsReleased ==
    pc = "Idle" => /\ platXio = "none"
                   /\ handle = "none" => tick = "none" /\ connXio = "none"

(* Every API call returns, unless the process has crashed: each           *)
(* wait_to_complete ends (at the latest by its timeout) and               *)
(* read_sync_bytes makes at most two waits.                                *)
CallsReturn == (pc \notin {"Idle", "crashed"}) ~> (pc \in {"Idle", "crashed"})

(* A successful tpm_comm_submit_command hands the caller exactly the       *)
(* response the simulator sent for this command, and *resp_len its        *)
(* length (spec 4.3: a read must tolerate several partial deliveries).     *)
ResponseIntegrity ==
    outcome.op = "submit" /\ outcome.ok =>
        /\ srvLen[outcome.k] # Undef
        /\ resp = RespBytes(outcome.k, srvLen[outcome.k])
        /\ respLen = Len(resp)

(* Once a submit has failed on a connection, no later submit on it         *)
(* succeeds until it is recreated (spec 7: a failed submit sets the error  *)
(* flag and all later waits fail fast).                                    *)
FailedSubmitPoisons == outcome.op = "submit" /\ outcome.ok => ~failedBefore

PowerOnAcked == handle = "live" => platAckVals = <<0, 0>>

(* Once no handle is live, the receive buffer recv_bytes has been freed,   *)
(* after a failed tpm_comm_create as after tpm_comm_destroy (spec 8).      *)
ReceiveBufferReleased == pc = "Idle" /\ handle = "none" => recvBuf = <<>>

(* No on_send_complete runs for a send_xio_sync_bytes call that has        *)
(* already returned: its cmd_info is a dead stack frame by then.           *)
NoDanglingSendCallback == ~dangling

(* The receive buffer is the command-port byte stream, in order: on a      *)
(* connection that has not reported an error, the bytes buffered in        *)
(* recv_bytes followed by those still in flight are exactly the bytes the  *)
(* simulator sent after the ones read_sync_bytes has already copied out.   *)
(* add_to_buffer appends each chunk and remove_from_buffer keeps the       *)
(* remainder after a partial read, so no byte is lost, repeated or         *)
(* reordered when a chunk straddles two reads (spec 3).                    *)
ReceiveStreamInOrder ==
    connXio # "none" /\ ~errorState /\ pc # "crashed" =>
        recvBuf \o cmdWire = SubSeq(sent, consumed + 1, Len(sent))

(* The transport never brings the process down: every allocation whose    *)
(* result it uses is checked, the malloc of remove_from_buffer during a    *)
(* read (line 104) as the capture platform_bytes_received allocates and   *)
(* the power-on ack memcpy reads (line 363).                               *)
NoCrash == pc # "crashed"

=============================================================================
