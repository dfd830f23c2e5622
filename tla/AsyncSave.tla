------------------------------ MODULE AsyncSave ------------------------------
(* res::AsyncSaveManager: one file request at a time, handed by its caller to
   the save thread through the members of the manager.  A request is [op, id, device]:
   id stands for its buffer and its paths, what a device does is FileDevices'. *)
EXTENDS Naturals, Sequences, FiniteSets

CONSTANTS Clients, Devices, None,
          Ops,           \* a set of "read", "size", "save", "commit", "copy"
          MaxRequests    \* bound: the requests a client makes

VARIABLES m_request_flags, request, m_user_file_device,
          messages,      \* the thread's queue
          thread,        \* [pc, op]
          client,        \* [pc, request, count]
          accepted, performed

vars == <<m_request_flags, request, m_user_file_device, messages, thread, client, accepted, performed>>

NoRequest == [op |-> None, id |-> None, device |-> None]

Init == /\ m_request_flags = {} /\ request = NoRequest /\ m_user_file_device = None
        /\ messages = <<>> /\ thread = [pc |-> "wait", op |-> None]
        /\ client = [c \in Clients |-> [pc |-> "idle", request |-> NoRequest, count |-> 0]]
        /\ accepted = <<>> /\ performed = <<>>
-----------------------------------------------------------------------------
\* RequestRead, RequestSize, RequestSave, RequestCommit and RequestCopy: the flag
\* of a refused request stays set.
Accepts(flags) == flags = {}

Request(c) ==
    \E op \in Ops, device \in Devices \cup {None} :
        LET r == [op |-> op, id |-> <<c, client[c].count>>, device |-> device]
        IN /\ client[c].pc = "idle" /\ client[c].count < MaxRequests
           /\ m_request_flags' = m_request_flags \cup {op}
           /\ client' = [client EXCEPT ![c] = [pc |-> IF Accepts(m_request_flags) THEN "set" ELSE "idle",
                                               request |-> r, count |-> @.count + 1]]
           /\ UNCHANGED <<request, m_user_file_device, messages, thread, accepted, performed>>

SetRequest(c) ==
    /\ client[c].pc = "set"
    /\ request' = client[c].request
    /\ m_user_file_device' = client[c].request.device
    /\ client' = [client EXCEPT ![c].pc = "send"]
    /\ UNCHANGED <<m_request_flags, messages, thread, accepted, performed>>

SendMessage(c) ==
    /\ client[c].pc = "send"
    /\ messages' = Append(messages, client[c].request.op)
    /\ accepted' = Append(accepted, client[c].request)
    /\ client' = [client EXCEPT ![c].pc = "idle"]
    /\ UNCHANGED <<m_request_flags, request, m_user_file_device, thread, performed>>

Pause ==
    /\ m_request_flags' = m_request_flags \cup {"pause"}
    /\ UNCHANGED <<request, m_user_file_device, messages, thread, client, accepted, performed>>

Unpause ==
    /\ m_request_flags' = m_request_flags \ {"pause"}
    /\ UNCHANGED <<request, m_user_file_device, messages, thread, client, accepted, performed>>
-----------------------------------------------------------------------------
Receive ==
    /\ thread.pc = "wait" /\ messages # <<>>
    /\ messages' = Tail(messages)
    /\ thread' = [pc |-> "begin", op |-> Head(messages)]
    /\ UNCHANGED <<m_request_flags, request, m_user_file_device, client, accepted, performed>>

ClearsRequests_First(pc) == pc = "begin"
ClearsRequests(pc) == pc = "clear"

FlagsAt(pc) == IF ClearsRequests(pc) THEN m_request_flags \cap {"pause"} ELSE m_request_flags

\* Read, Size, Save, Commit and Copy: nothing while paused, else with the
\* arguments that are set, and the request flags are cleared on exit.
Begin ==
    /\ thread.pc = "begin"
    /\ thread' = [thread EXCEPT !.pc = IF "pause" \in m_request_flags THEN "clear" ELSE "perform"]
    /\ m_request_flags' = FlagsAt("begin")
    /\ UNCHANGED <<request, m_user_file_device, messages, client, accepted, performed>>

Perform ==
    /\ thread.pc = "perform"
    /\ performed' = Append(performed, [request EXCEPT !.op = thread.op, !.device = m_user_file_device])
    /\ thread' = [thread EXCEPT !.pc = "clear"]
    /\ UNCHANGED <<m_request_flags, request, m_user_file_device, messages, client, accepted>>

ClearRequests ==
    /\ thread.pc = "clear"
    /\ m_request_flags' = FlagsAt("clear")
    /\ thread' = [thread EXCEPT !.pc = "forget"]
    /\ UNCHANGED <<request, m_user_file_device, messages, client, accepted, performed>>

\* ThreadMain: after the flags are cleared, when another request may have set
\* its device.
ForgetDevice ==
    /\ thread.pc = "forget"
    /\ m_user_file_device' = None
    /\ thread' = [thread EXCEPT !.pc = "wait"]
    /\ UNCHANGED <<m_request_flags, request, messages, client, accepted, performed>>

Next == \/ \E c \in Clients : Request(c) \/ SetRequest(c) \/ SendMessage(c)
        \/ Pause \/ Unpause \/ Receive \/ Begin \/ Perform \/ ClearRequests \/ ForgetDevice
Spec == Init /\ [][Next]_vars
-----------------------------------------------------------------------------
Same(r, s) == r.op = s.op /\ r.id = s.id

\* Each request that was accepted is carried out at most once, in the order of
\* the requests and with its own operation, buffer and paths, and nothing else is
\* carried out.  (With its own device, or with the save device instead.)
RequestsAreTheirOwn ==
    /\ \A i \in DOMAIN performed : \E j \in DOMAIN accepted :
         /\ Same(performed[i], accepted[j])
         /\ performed[i].device \in {accepted[j].device, None}
         /\ \A k \in 1 .. i - 1 : \E l \in 1 .. j - 1 : Same(performed[k], accepted[l])
    /\ \A i, j \in DOMAIN performed : i # j => ~Same(performed[i], performed[j])

\* Once IsRequestPending is false nobody is going to touch the buffer.
NotPendingIsDone ==
    m_request_flags \ {"pause"} = {} =>
        messages = <<>> /\ thread.pc \notin {"begin", "perform"} /\ \A c \in Clients : client[c].pc = "idle"
=============================================================================
