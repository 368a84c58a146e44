---------------------------- MODULE PsReqMngrIpc ----------------------------
(***************************************************************************)
(* The Protected Storage partition in IPC mode (tfm_ps_req_mngr.c, with    *)
(* TFM_PSA_API): tfm_ps_init, then a loop that waits for any signal and    *)
(* serves the first asserted one in a fixed order, SET before GET before   *)
(* GET_INFO before REMOVE before GET_SUPPORT.  Clients connect to one      *)
(* service, call it, and close; each psa_connect, psa_call and psa_close   *)
(* blocks until the partition replies.  The SPM keeps one FIFO of messages *)
(* per service and asserts a service's signal while its FIFO is not empty. *)
(* A client may open connections again and again.  psa_call passes its     *)
(* type argument through as msg.type (any type >= PSA_IPC_CALL is a valid  *)
(* call under FF-M); another partition may psa_notify this one, which      *)
(* asserts PSA_DOORBELL until the partition calls psa_clear (it never      *)
(* does).                                                                *)
(*                                                                         *)
(* The storage back end (tfm_ps_set, tfm_ps_get, ...) is not in this       *)
(* repository; its status is a choice among StorageResults.  A message's   *)
(* in_size/out_size are abstracted to whether they are the sizes the       *)
(* handler checks for (wellFormed).  The call types are PSA_IPC_CALL and   *)
(* one user type above it.                                                 *)
(***************************************************************************)
EXTENDS Integers, Sequences

CONSTANTS
    Clients,         \* client partitions / NS threads
    MaxCalls,        \* psa_call per connection
    InitResults,     \* what tfm_ps_init can return (psa_status_t)
    StorageResults   \* what the storage functions can return

\* The if-chain of tfm_ps_req_mngr_init, in order.
SignalOrder == <<"SET", "GET", "GET_INFO", "REMOVE", "GET_SUPPORT">>
Signals == {SignalOrder[i] : i \in 1..Len(SignalOrder)}

\* psa_status_t values.
PSA_SUCCESS == 0
PSA_ERROR_PROGRAMMER_ERROR == -129
NoReply == -1   \* not a psa_status_t: no reply received yet

\* msg.type: the FF-M values of PSA_IPC_CONNECT, PSA_IPC_CALL and
\* PSA_IPC_DISCONNECT, and a call type above PSA_IPC_CALL.
PSA_IPC_CONNECT == -1
PSA_IPC_CALL == 0
PSA_IPC_DISCONNECT == -2
CallTypes == {PSA_IPC_CALL, PSA_IPC_CALL + 1}
MsgTypes == {PSA_IPC_CONNECT, PSA_IPC_DISCONNECT} \cup CallTypes
Msg == [client: Clients, type: MsgTypes, wellFormed: BOOLEAN]

\* The signal the loop serves for psa_wait's result (the service signals
\* and PSA_DOORBELL), or psa_panic().
ChosenSignal(asserted) ==
    IF "SET" \in asserted THEN "SET"
    ELSE IF "GET" \in asserted THEN "GET"
    ELSE IF "GET_INFO" \in asserted THEN "GET_INFO"
    ELSE IF "REMOVE" \in asserted THEN "REMOVE"
    ELSE IF "GET_SUPPORT" \in asserted THEN "GET_SUPPORT"
    ELSE "PANIC"

\* A plausible slip: tfm_ps_get_support_ipc returns the support flags
\* (PSA_STORAGE_SUPPORT_SET_EXTENDED = 1) as its status.
IpcStatusSupportFlags(sig, m) ==
    IF ~m.wellFormed THEN {PSA_ERROR_PROGRAMMER_ERROR}
    ELSE IF sig = "GET_SUPPORT" THEN {1}
    ELSE StorageResults

\* tfm_ps_{set,get,get_info,remove,get_support}_ipc: a size check, then
\* the storage call; get_support only writes the support flags.
IpcStatus(sig, m) ==
    IF ~m.wellFormed THEN {PSA_ERROR_PROGRAMMER_ERROR}
    ELSE IF sig = "GET_SUPPORT" THEN {PSA_SUCCESS}
    ELSE StorageResults

\* A plausible slip: the DISCONNECT case has no psa_reply (the partition
\* thread then never returns to psa_wait in this model).
ReplyStatusNoDisconnectReply(sig, m) ==
    CASE m.type = PSA_IPC_CONNECT    -> {PSA_SUCCESS}
      [] m.type = PSA_IPC_CALL       -> IpcStatus(sig, m)
      [] m.type = PSA_IPC_DISCONNECT -> {}

\* The cases of the switch of ps_signal_handle; any other msg.type goes to
\* its default, psa_panic().
SwitchCases == {PSA_IPC_CONNECT, PSA_IPC_CALL, PSA_IPC_DISCONNECT}

\* The statuses ps_signal_handle can psa_reply to message m.
ReplyStatus(sig, m) ==
    CASE m.type = PSA_IPC_CONNECT    -> {PSA_SUCCESS}
      [] m.type = PSA_IPC_CALL       -> IpcStatus(sig, m)
      [] m.type = PSA_IPC_DISCONNECT -> {PSA_SUCCESS}

-----------------------------------------------------------------------------
VARIABLES
    part,    \* "init", "running" or "panicked"
    queue,   \* queue[s]: the SPM's messages for service s, oldest first
    cl,      \* cl[c]: the client's state, service and calls made
    reply,   \* reply[c]: the status of the last reply c received
    doorbell \* PSA_DOORBELL of this partition is asserted

vars == <<part, queue, cl, reply, doorbell>>

ClientStates == {"idle", "connecting", "connected", "calling", "closing", "closed"}
Waiting == {"connecting", "calling", "closing"}

\* What psa_wait(PSA_WAIT_ANY, ...) returns.
Asserted == {s \in Signals : queue[s] # <<>>} \cup (IF doorbell THEN {"DOORBELL"} ELSE {})

Init ==
    /\ part = "init"
    /\ queue = [s \in Signals |-> <<>>]
    /\ cl = [c \in Clients |-> [st |-> "idle", svc |-> "SET", calls |-> 0]]
    /\ reply = [c \in Clients |-> NoReply]
    /\ doorbell = FALSE

\* tfm_ps_init at the top of tfm_ps_req_mngr_init; psa_panic on failure.
PsInit ==
    /\ part = "init"
    /\ \E r \in InitResults : part' = IF r = PSA_SUCCESS THEN "running" ELSE "panicked"
    /\ UNCHANGED <<queue, cl, reply, doorbell>>

\* The SPM queues a message for service svc.
Send(c, svc, type, wf) ==
    queue' = [queue EXCEPT ![svc] = Append(@, [client |-> c, type |-> type,
                                              wellFormed |-> wf])]

\* psa_connect(sid) by client c, first or after a psa_close.
Connect(c) ==
    /\ cl[c].st \in {"idle", "closed"}
    /\ \E svc \in Signals :
          /\ Send(c, svc, PSA_IPC_CONNECT, TRUE)
          /\ cl' = [cl EXCEPT ![c] = [st |-> "connecting", svc |-> svc, calls |-> 0]]
    /\ UNCHANGED <<part, reply, doorbell>>

\* psa_call(handle, type, ...) on the connection, with argument sizes
\* right or wrong.
Call(c) ==
    /\ cl[c].st = "connected"
    /\ cl[c].calls < MaxCalls
    /\ \E type \in CallTypes, wf \in BOOLEAN : Send(c, cl[c].svc, type, wf)
    /\ cl' = [cl EXCEPT ![c].st = "calling", ![c].calls = @ + 1]
    /\ UNCHANGED <<part, reply, doorbell>>

\* psa_close on the connection.
Close(c) ==
    /\ cl[c].st = "connected"
    /\ Send(c, cl[c].svc, PSA_IPC_DISCONNECT, TRUE)
    /\ cl' = [cl EXCEPT ![c].st = "closing"]
    /\ UNCHANGED <<part, reply, doorbell>>

\* The client state a reply to a message of this type leads to.
AfterReply(type) ==
    IF type = PSA_IPC_DISCONNECT THEN "closed" ELSE "connected"

\* psa_notify of this partition by another partition.
Notify ==
    /\ ~doorbell
    /\ doorbell' = TRUE
    /\ UNCHANGED <<part, queue, cl, reply>>

\* One iteration of the loop: psa_wait(PSA_WAIT_ANY, PSA_BLOCK) returns
\* the asserted signals, the if-chain picks one (or panics), and
\* ps_signal_handle does psa_get, runs the handler and psa_reply.
PsSignalHandle ==
    /\ part = "running"
    /\ Asserted # {}
    /\ LET sig == ChosenSignal(Asserted) IN
       IF sig = "PANIC"
       THEN /\ part' = "panicked"
            /\ UNCHANGED <<queue, cl, reply, doorbell>>
       ELSE LET m == Head(queue[sig]) IN
            /\ queue' = [queue EXCEPT ![sig] = Tail(@)]
            /\ IF m.type \in SwitchCases
               THEN \E st \in ReplyStatus(sig, m) :
                       /\ reply' = [reply EXCEPT ![m.client] = st]
                       /\ cl' = [cl EXCEPT ![m.client].st = AfterReply(m.type)]
                       /\ UNCHANGED part
               ELSE /\ part' = "panicked"
                    /\ UNCHANGED <<cl, reply>>
            /\ UNCHANGED doorbell

Next ==
    \/ PsInit
    \/ PsSignalHandle
    \/ Notify
    \/ \E c \in Clients : Connect(c) \/ Call(c) \/ Close(c)

\* The SPM runs the partition thread whenever one of its signals is
\* asserted; clients need no fairness.
Spec == Init /\ [][Next]_vars /\ WF_vars(PsInit) /\ WF_vars(PsSignalHandle)

-----------------------------------------------------------------------------
TypeOK ==
    /\ part \in {"init", "running", "panicked"}
    /\ queue \in [Signals -> Seq(Msg)]
    /\ cl \in [Clients -> [st: ClientStates, svc: Signals, calls: 0..MaxCalls]]
    /\ reply \in [Clients -> {NoReply, PSA_SUCCESS, PSA_ERROR_PROGRAMMER_ERROR} \cup StorageResults]
    /\ doorbell \in BOOLEAN

\* Service s is outranked: the if-chain of tfm_ps_req_mngr_init tests an
\* asserted signal before it.
Outranked(s) ==
    \E i, j \in 1..Len(SignalOrder) :
        i < j /\ SignalOrder[i] \in Asserted /\ SignalOrder[j] = s

\* A blocked psa_connect, psa_call or psa_close can stay blocked for ever
\* only by starvation through the fixed priority of the loop: in every
\* behaviour, a waiting client is eventually replied to, or the partition
\* panics, or the client's service is outranked again and again by
\* clients that keep sending to services the chain tests first.
OnlyPriorityStarves ==
    \A c \in Clients :
        []<>(cl[c].st \notin Waiting \/ part = "panicked" \/ Outranked(cl[c].svc))

====
