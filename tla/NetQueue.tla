------------------------------ MODULE NetQueue ------------------------------
(***************************************************************************)
(* NetQueue (src/src/netqueue/netqueue.cpp): the epoll loop under the      *)
(* conductor, the switches and the agents.  It cuts the byte stream of     *)
(* each socket into packets for the handler, and buffers what a full       *)
(* socket does not take.                                                   *)
(*                                                                         *)
(* One thread runs the loop.  The peers and the kernel act between any two *)
(* of its system calls, so every read() is a step of its own.  A byte is   *)
(* the pair <<k, i>>: byte i of packet k of its direction.  A TUN device   *)
(* gives one packet per read(), here a single byte, and gets none, since   *)
(* nobody writes to one.  Handlers may also write to a socket past the     *)
(* queue, as onAgentMIP does.  Left out: close reasons, and descriptors    *)
(* that are used again.                                                    *)
(***************************************************************************)
EXTENDS Naturals, Sequences, FiniteSets

CONSTANTS
    Fds,                \* the descriptors: sockets and TUN devices
    Tuns,               \* the TUN devices
    None,               \* an absent element
    PACKET_HEADER_SIZE,
    WRITE_BUFFER_MAX,
    EPOLL_MAX_EVENTS,
    SndBuf,             \* bytes the kernel takes per socket before EAGAIN
    Payloads,           \* payload sizes that peers and handlers send
    MaxIn,              \* bound: packets a peer sends
    MaxOut,             \* bound: packets sent to a peer
    Abrupt,             \* sockets whose peer may go away in the middle of a packet
    Closers,            \* sockets whose handler may call queue->close
    Direct,             \* sockets that a handler may write to past the queue
    Failing             \* sockets for which epoll_ctl may fail

ASSUME SizeAssumption ==
    /\ PACKET_HEADER_SIZE \in Nat \ {0} /\ EPOLL_MAX_EVENTS \in Nat \ {0}
    /\ SndBuf \in Nat \ {0} /\ WRITE_BUFFER_MAX \in Nat /\ Payloads \subseteq Nat
    /\ MaxIn \in Nat /\ MaxOut \in Nat
    /\ Tuns \subseteq Fds /\ Direct \subseteq Fds \ Tuns

VARIABLES
    element,    \* fd_to_network_element
    armed,      \* epoll: the events a socket waits for, {} once reported (EPOLLONESHOT)
    peer,       \* the other end: "open", "closed" or "reset"
    rcv,        \* bytes received by the kernel, not read
    snd,        \* bytes written to the kernel, not read by the peer
    pc,         \* where the loop is
    cur,        \* current_element
    batch,      \* the events of this epoll_wait that are still to be handled
    failed,     \* flush_write_buffer returned false
    direct,     \* send_protobuf_packet: the socket and the bytes to write, or None
    used,       \* sockets that were put into the queue
    in_size,    \* history: payload sizes of the packets the peer sent ...
    in_sent,    \* ... and the bytes of the last one that it wrote
    delivered,  \* history: the buffers handed to onSocketReady
    got,        \* history: the bytes the peer read
    out_size,   \* history: payload sizes of the packets sent to the peer
    refused,    \* history: those of them for which send returned false
    overtaken   \* history: a handler wrote past bytes that were buffered

net_vars   == <<peer, rcv, snd, in_size, in_sent, got>>
queue_vars == <<element, armed, used>>
loop_vars  == <<pc, cur, batch, failed, direct>>
user_vars  == <<delivered, out_size, refused, overtaken>>
vars == <<net_vars, queue_vars, loop_vars, user_vars>>

Events == {"IN", "OUT", "ERR"}
Byte == Nat \X Nat
SckState == {"SCK_HEADER", "SCK_PAYLOAD", "SCK_READY", "SCK_ERROR", "SCK_EOF"}
TunState == {"TUN_RECEIVE", "TUN_READY", "TUN_ERROR", "TUN_EOF"}
NetworkElement ==
    [state : SckState \cup TunState, net_buffer : Seq(Byte), write_buffer : Seq(Byte)]
Writing == [fd : Fds, rest : Seq(Byte)]

ASSUME NoneAssumption == None \notin Fds \cup NetworkElement \cup Writing

TypeOK ==
    /\ element \in [Fds -> NetworkElement \cup {None}]
    /\ \A f \in Fds : element[f] # None => (element[f].state \in TunState <=> f \in Tuns)
    /\ armed \in [Fds -> SUBSET Events]
    /\ peer \in [Fds -> {"open", "closed", "reset"}]
    /\ rcv \in [Fds -> Seq(Byte)] /\ snd \in [Fds -> Seq(Byte)]
    /\ pc \in {"idle", "event", "process", "flush", "finish", "direct", "crashed"}
    /\ cur \in Fds \cup {None}
    /\ batch \in [Fds -> SUBSET Events]
    /\ failed \in BOOLEAN
    /\ direct \in Writing \cup {None}
    /\ used \in [Fds -> BOOLEAN]
    /\ in_size \in [Fds -> Seq(Payloads)] /\ in_sent \in [Fds -> Nat]
    /\ delivered \in [Fds -> Seq(Seq(Byte))]
    /\ got \in [Fds -> Seq(Byte)]
    /\ out_size \in [Fds -> Seq(Payloads \cup {0})]
    /\ refused \in [Fds -> SUBSET (1 .. MaxOut)]
    /\ overtaken \in [Fds -> BOOLEAN]

Init ==
    /\ element = [f \in Fds |-> None] /\ armed = [f \in Fds |-> {}]
    /\ peer = [f \in Fds |-> "open"]
    /\ rcv = [f \in Fds |-> <<>>] /\ snd = [f \in Fds |-> <<>>]
    /\ pc = "idle" /\ cur = None /\ batch = [f \in Fds |-> {}] /\ failed = FALSE
    /\ direct = None /\ overtaken = [f \in Fds |-> FALSE]
    /\ used = [f \in Fds |-> FALSE]
    /\ in_size = [f \in Fds |-> <<>>] /\ in_sent = [f \in Fds |-> 0]
    /\ delivered = [f \in Fds |-> <<>>] /\ got = [f \in Fds |-> <<>>]
    /\ out_size = [f \in Fds |-> <<>>] /\ refused = [f \in Fds |-> {}]

-----------------------------------------------------------------------------
(***************************************************************************)
(* The peers and the kernel.                                               *)
(***************************************************************************)
InBytes(f, k) == IF f \in Tuns THEN 1 ELSE PACKET_HEADER_SIZE + in_size[f][k]
InPackets(f)  == Len(in_size[f])
MidPacket(f)  == InPackets(f) > 0 /\ in_sent[f] < InBytes(f, InPackets(f))

\* The peer writes the next byte of its packet, or the first of a new one.
PeerWrites(f) ==
    /\ peer[f] = "open"
    /\ IF MidPacket(f)
       THEN /\ UNCHANGED in_size
            /\ in_sent' = [in_sent EXCEPT ![f] = @ + 1]
       ELSE /\ InPackets(f) < MaxIn
            /\ \E n \in Payloads : in_size' = [in_size EXCEPT ![f] = Append(@, n)]
            /\ in_sent' = [in_sent EXCEPT ![f] = 1]
    /\ rcv' = [rcv EXCEPT ![f] =
                  IF element[f] = None /\ used[f] THEN @
                  ELSE Append(@, <<Len(in_size'[f]), in_sent'[f]>>)]
    /\ UNCHANGED <<peer, snd, got, queue_vars, loop_vars, user_vars>>

PeerReads(f) ==
    /\ peer[f] = "open" /\ snd[f] # <<>>
    /\ got' = [got EXCEPT ![f] = Append(@, Head(snd[f]))]
    /\ snd' = [snd EXCEPT ![f] = Tail(@)]
    /\ UNCHANGED <<peer, rcv, in_size, in_sent, queue_vars, loop_vars, user_vars>>

PeerCloses(f) ==
    /\ peer[f] = "open"
    /\ MidPacket(f) => f \in Abrupt
    /\ peer' = [peer EXCEPT ![f] = "closed"]
    /\ UNCHANGED <<rcv, snd, in_size, in_sent, got, queue_vars, loop_vars, user_vars>>

\* Every later read and write fails; what was not read is lost.
PeerResets(f) ==
    /\ peer[f] # "reset"
    /\ peer' = [peer EXCEPT ![f] = "reset"]
    /\ rcv' = [rcv EXCEPT ![f] = <<>>]
    /\ snd' = [snd EXCEPT ![f] = <<>>]
    /\ UNCHANGED <<in_size, in_sent, got, queue_vars, loop_vars, user_vars>>

Room(s) == SndBuf - Len(s)

\* The events of an armed socket.
Ready(f) ==
    IF armed[f] = {} THEN {}
    ELSE {e \in armed[f] : \/ e = "IN"  /\ (rcv[f] # <<>> \/ peer[f] # "open")
                           \/ e = "OUT" /\ (Room(snd[f]) > 0 \/ peer[f] = "reset")}
         \cup (IF peer[f] = "reset" THEN {"ERR"} ELSE {})

-----------------------------------------------------------------------------
(***************************************************************************)
(* send: what it makes of the element, its armed events and the kernel's   *)
(* buffer, and whether it returns true.  A socket that was reset takes     *)
(* nothing.                                                                *)
(***************************************************************************)
Sent(ok, e, a, s) == [ok |-> ok, element |-> e, armed |-> a, snd |-> s]

\* Something is buffered already: b goes behind it.
Buffer(r, b) ==
    LET e == r.element
    IN  IF Len(e.write_buffer) + Len(b) > WRITE_BUFFER_MAX
        THEN Sent(FALSE, [e EXCEPT !.state = "SCK_ERROR"], r.armed, r.snd)
        ELSE Sent(TRUE, [e EXCEPT !.write_buffer = @ \o b], r.armed, r.snd)

\* The kernel takes what it has room for, the rest is buffered.
WriteThrough(r, b, reset) ==
    LET e    == r.element
        n    == IF Len(b) <= Room(r.snd) THEN Len(b) ELSE Room(r.snd)
        rest == SubSeq(b, n + 1, Len(b))
        s    == r.snd \o SubSeq(b, 1, n)
    IN  CASE reset -> Sent(FALSE, e, r.armed, r.snd)
          [] ~reset /\ rest = <<>> -> Sent(TRUE, e, r.armed, s)
          [] ~reset /\ Len(rest) > WRITE_BUFFER_MAX ->
                Sent(FALSE, [e EXCEPT !.state = "SCK_ERROR"], r.armed, s)
          [] OTHER -> Sent(TRUE, [e EXCEPT !.write_buffer = rest], {"IN", "OUT"}, s)

SendBytes_Unordered(r, b, reset) == WriteThrough(r, b, reset)   \* mutant of SendBytes
SendBytes(r, b, reset) ==
    IF r.element.write_buffer # <<>> THEN Buffer(r, b) ELSE WriteThrough(r, b, reset)

\* A packet is sent as its header, then its payload.
Header(k)     == [i \in 1 .. PACKET_HEADER_SIZE |-> <<k, i>>]
Payload(k, n) == [i \in 1 .. n |-> <<k, PACKET_HEADER_SIZE + i>>]
SendPacket(f, k, n) ==
    LET r == SendBytes(Sent(TRUE, element[f], armed[f], snd[f]), Header(k), peer[f] = "reset")
    IN  IF ~r.ok \/ n = 0 THEN r ELSE SendBytes(r, Payload(k, n), peer[f] = "reset")

\* The effects of sending a packet of payload n to f, but those on the elements.
Sends(f, n, r) ==
    /\ Len(out_size[f]) < MaxOut
    /\ armed' = [armed EXCEPT ![f] = r.armed]
    /\ snd' = [snd EXCEPT ![f] = r.snd]
    /\ out_size' = [out_size EXCEPT ![f] = Append(@, n)]
    /\ refused' = [refused EXCEPT ![f] = IF r.ok THEN @ ELSE @ \cup {Len(out_size[f]) + 1}]

\* send_heartbeat, between two calls of wait_and_process.
SendHeartbeat(f) ==
    /\ pc = "idle" /\ f \notin Tuns /\ element[f] # None
    /\ LET r == SendPacket(f, Len(out_size[f]) + 1, 0)
       IN  Sends(f, 0, r) /\ element' = [element EXCEPT ![f] = r.element]
    /\ UNCHANGED <<used, peer, rcv, in_size, in_sent, got, loop_vars, delivered, overtaken>>

\* put_sck and put_tun, between two calls of wait_and_process.
PutWith(f, start, events) ==
    /\ pc = "idle" /\ ~used[f]
    /\ used' = [used EXCEPT ![f] = TRUE]
    /\ element' = [element EXCEPT ![f] =
          [state |-> start, net_buffer |-> <<>>, write_buffer |-> <<>>]]
    /\ armed' = [armed EXCEPT ![f] = events]
    /\ UNCHANGED <<net_vars, loop_vars, user_vars>>
Put_AsTun(f)   == PutWith(f, "TUN_RECEIVE", {"IN"})     \* mutants of Put
Put_Unarmed(f) == PutWith(f, IF f \in Tuns THEN "TUN_RECEIVE" ELSE "SCK_HEADER", {})
Put(f) == PutWith(f, IF f \in Tuns THEN "TUN_RECEIVE" ELSE "SCK_HEADER", {"IN"})

\* put fails, and its caller closes the socket.
PutFails(f) ==
    /\ pc = "idle" /\ ~used[f] /\ f \in Failing
    /\ used' = [used EXCEPT ![f] = TRUE]
    /\ rcv' = [rcv EXCEPT ![f] = <<>>]
    /\ UNCHANGED <<element, armed, peer, snd, in_size, in_sent, got, loop_vars, user_vars>>

-----------------------------------------------------------------------------
(***************************************************************************)
(* wait_and_process.                                                       *)
(***************************************************************************)
EpollWait ==
    /\ pc = "idle"
    /\ \E E \in SUBSET {f \in Fds : Ready(f) # {}} :
         /\ E # {} /\ Cardinality(E) <= EPOLL_MAX_EVENTS
         /\ batch' = [f \in Fds |-> IF f \in E THEN Ready(f) ELSE {}]
         /\ armed' = [f \in Fds |-> IF f \in E THEN {} ELSE armed[f]]
    /\ pc' = "event"
    /\ UNCHANGED <<cur, failed, direct, element, used, net_vars, user_vars>>

\* The next event, in the order epoll reported them.
TakeEvent(f) ==
    /\ pc = "event" /\ batch[f] # {}
    /\ cur' = f
    /\ pc' = IF "IN" \in batch[f] THEN "process" ELSE "flush"
    /\ UNCHANGED <<batch, failed, direct, net_vars, queue_vars, user_vars>>

Processes(f, state) == pc = "process" /\ cur = f /\ element[f].state = state

\* process: what is left to read of the header or of the packet it announces.
Wanted(f) ==
    LET buf == element[f].net_buffer
    IN  (IF element[f].state = "SCK_HEADER" THEN PACKET_HEADER_SIZE
         ELSE InBytes(f, buf[1][1])) - Len(buf)

\* process calls read() for at least one byte.
ReadsBytes(f) ==
    \/ Processes(f, "SCK_HEADER") \/ Processes(f, "TUN_RECEIVE")
    \/ Processes(f, "SCK_PAYLOAD") /\ Wanted(f) > 0

\* read() returns bytes, as many as are there and wanted.  If none is wanted it returns 0,
\* whatever the state of the socket.
ReadSome(f, state, next) ==
    /\ Processes(f, state)
    /\ Wanted(f) = 0 \/ (peer[f] # "reset" /\ rcv[f] # <<>>)
    /\ LET n == IF Wanted(f) <= Len(rcv[f]) THEN Wanted(f) ELSE Len(rcv[f])
       IN  /\ element' = [element EXCEPT
                  ![f].net_buffer = @ \o SubSeq(rcv[f], 1, n),
                  ![f].state = IF n = Wanted(f) THEN next ELSE @]
           /\ rcv' = [rcv EXCEPT ![f] = SubSeq(@, n + 1, Len(@))]
    /\ UNCHANGED <<armed, used, peer, snd, in_size, in_sent, got, loop_vars, user_vars>>

ReadHeader_Only(f) == ReadSome(f, "SCK_HEADER", "SCK_READY")    \* mutant of ReadHeader
ReadHeader(f)  == ReadSome(f, "SCK_HEADER", "SCK_PAYLOAD")
ReadPayload(f) == ReadSome(f, "SCK_PAYLOAD", "SCK_READY")

\* A TUN device gives the next packet, over what is in the buffer.
ReadTun(f) ==
    /\ Processes(f, "TUN_RECEIVE") /\ peer[f] # "reset" /\ rcv[f] # <<>>
    /\ element' = [element EXCEPT ![f].net_buffer = <<Head(rcv[f])>>, ![f].state = "TUN_READY"]
    /\ rcv' = [rcv EXCEPT ![f] = Tail(@)]
    /\ UNCHANGED <<armed, used, peer, snd, in_size, in_sent, got, loop_vars, user_vars>>

\* read() fails with EAGAIN: process returns.
ReadAgain(f) ==
    /\ ReadsBytes(f) /\ peer[f] = "open" /\ rcv[f] = <<>>
    /\ pc' = "flush"
    /\ UNCHANGED <<cur, batch, failed, direct, net_vars, queue_vars, user_vars>>

(***************************************************************************)
(* read() returns 0 at end-of-file.  SCK_PAYLOAD does not look for it:     *)
(* nothing changes and process reads again, for ever, which is no step at  *)
(* all.  Any other failure is an error in every state.                     *)
(***************************************************************************)
ReadEOF(f) ==
    /\ Processes(f, "SCK_HEADER") \/ Processes(f, "TUN_RECEIVE")
    /\ peer[f] = "closed" /\ rcv[f] = <<>>
    /\ element' = [element EXCEPT ![f].state = IF f \in Tuns THEN "TUN_EOF" ELSE "SCK_EOF"]
    /\ UNCHANGED <<armed, used, net_vars, loop_vars, user_vars>>
ReadError(f) ==
    /\ ReadsBytes(f) /\ peer[f] = "reset"
    /\ element' = [element EXCEPT ![f].state = IF f \in Tuns THEN "TUN_ERROR" ELSE "SCK_ERROR"]
    /\ UNCHANGED <<armed, used, net_vars, loop_vars, user_vars>>

Deliver(f) == delivered' = [delivered EXCEPT ![f] = Append(@, element[f].net_buffer)]

\* What process makes of an element whose packet has been handled.
Handled(e) == IF e.state = "TUN_READY" THEN [e EXCEPT !.state = "TUN_RECEIVE"]
              ELSE [e EXCEPT !.net_buffer = <<>>, !.state = "SCK_HEADER"]

\* onSocketReady or onTunReady, which may send to a socket of the queue.
IsReady(f) == Processes(f, "SCK_READY") \/ Processes(f, "TUN_READY")
OnReady(f) ==
    /\ IsReady(f)
    /\ Deliver(f)
    /\ element' = [element EXCEPT ![f] = Handled(@)]
    /\ UNCHANGED <<armed, used, net_vars, loop_vars, out_size, refused, overtaken>>
OnReadySends(f, g, n) ==
    /\ IsReady(f) /\ g \notin Tuns /\ element[g] # None
    /\ Deliver(f)
    /\ LET r == SendPacket(g, Len(out_size[g]) + 1, n)
       IN  /\ Sends(g, n, r)
           /\ element' = [[element EXCEPT ![g] = r.element] EXCEPT ![f] = Handled(@)]
    /\ UNCHANGED <<used, peer, rcv, in_size, in_sent, got, loop_vars, overtaken>>

(***************************************************************************)
(* onSocketReady writes a packet to the socket itself (send_protobuf_      *)
(* packet): write_n_bytes writes what there is room for, and tries again   *)
(* until all is written or the socket fails.  Nobody looks at the element  *)
(* of f meanwhile.                                                         *)
(***************************************************************************)
OnSocketReadyWrites(f, g, n) ==
    /\ Processes(f, "SCK_READY") /\ g \in Direct /\ element[g] # None
    /\ Len(out_size[g]) < MaxOut
    /\ Deliver(f)
    /\ pc' = "direct"
    /\ direct' = LET k == Len(out_size[g]) + 1 IN [fd |-> g, rest |-> Header(k) \o Payload(k, n)]
    /\ out_size' = [out_size EXCEPT ![g] = Append(@, n)]
    /\ overtaken' = [overtaken EXCEPT ![g] = @ \/ element[g].write_buffer # <<>>]
    /\ element' = [element EXCEPT ![f] = Handled(@)]
    /\ UNCHANGED <<cur, batch, failed, armed, used, net_vars, refused>>
WriteSome ==
    /\ pc = "direct" /\ peer[direct.fd] # "reset" /\ Room(snd[direct.fd]) > 0
    /\ LET n == IF Len(direct.rest) <= Room(snd[direct.fd]) THEN Len(direct.rest)
                ELSE Room(snd[direct.fd])
       IN  /\ snd' = [snd EXCEPT ![direct.fd] = @ \o SubSeq(direct.rest, 1, n)]
           /\ IF n = Len(direct.rest)
              THEN direct' = None /\ pc' = "process"
              ELSE /\ direct' = [direct EXCEPT !.rest = SubSeq(@, n + 1, Len(@))]
                   /\ UNCHANGED pc
    /\ UNCHANGED <<cur, batch, failed, queue_vars, peer, rcv, in_size, in_sent, got, user_vars>>
WriteFails ==
    /\ pc = "direct" /\ peer[direct.fd] = "reset"
    /\ direct' = None /\ pc' = "process"
    /\ refused' = [refused EXCEPT ![direct.fd] = @ \cup {Len(out_size[direct.fd])}]
    /\ UNCHANGED <<cur, batch, failed, queue_vars, net_vars, delivered, out_size, overtaken>>

(***************************************************************************)
(* onSocketReady calls queue->close on its own socket: the element is      *)
(* freed and process goes on with it.  Either the memory is still what it  *)
(* was, and reading the closed descriptor makes it SCK_ERROR, or the       *)
(* process crashes.                                                        *)
(***************************************************************************)
OnSocketReadyCloses(f) ==
    /\ Processes(f, "SCK_READY") /\ f \in Closers
    /\ Deliver(f)
    /\ element' = [element EXCEPT ![f].net_buffer = <<>>, ![f].write_buffer = <<>>,
                                  ![f].state = "SCK_ERROR"]
    /\ rcv' = [rcv EXCEPT ![f] = <<>>]
    /\ pc' \in {"process", "crashed"}
    /\ UNCHANGED <<cur, batch, failed, direct, armed, used, peer, snd, in_size, in_sent, got,
                   out_size, refused, overtaken>>

Failed == {"SCK_ERROR", "TUN_ERROR"}
AtEnd  == {"SCK_EOF", "TUN_EOF"}

\* process returns when there is nothing more to read.
ProcessReturns(f) ==
    /\ \E state \in Failed \cup AtEnd : Processes(f, state)
    /\ pc' = "flush"
    /\ UNCHANGED <<cur, batch, failed, direct, net_vars, queue_vars, user_vars>>

\* flush_write_buffer, on EPOLLOUT.
FlushWriteBuffer(f) ==
    /\ pc = "flush" /\ cur = f /\ "OUT" \in batch[f]
    /\ pc' = "finish"
    /\ LET buf == element[f].write_buffer
           n   == IF Len(buf) <= Room(snd[f]) THEN Len(buf) ELSE Room(snd[f])
       IN  IF peer[f] = "reset" /\ buf # <<>>
           THEN failed' = TRUE /\ UNCHANGED <<element, armed, snd>>
           ELSE /\ snd' = [snd EXCEPT ![f] = @ \o SubSeq(buf, 1, n)]
                /\ element' = [element EXCEPT ![f].write_buffer = SubSeq(@, n + 1, Len(@))]
                /\ armed' = IF n = Len(buf) THEN [armed EXCEPT ![f] = {"IN"}] ELSE armed
                /\ UNCHANGED failed
    /\ UNCHANGED <<cur, batch, direct, used, peer, rcv, in_size, in_sent, got, user_vars>>
FlushNothing(f) ==
    /\ pc = "flush" /\ cur = f /\ "OUT" \notin batch[f]
    /\ pc' = "finish"
    /\ UNCHANGED <<cur, batch, failed, direct, net_vars, queue_vars, user_vars>>

ShouldClose_NotAtEOF(f) ==      \* mutant of ShouldClose
    \/ "IN" \in batch[f] /\ element[f].state \in Failed
    \/ failed
    \/ "ERR" \in batch[f]
ShouldClose(f) ==
    \/ "IN" \in batch[f] /\ element[f].state \in Failed \cup AtEnd
    \/ failed
    \/ "ERR" \in batch[f]

\* The end of the loop's body: on to the next event or back to epoll_wait.
EventDone(f) ==
    /\ batch' = [batch EXCEPT ![f] = {}]
    /\ pc' = IF \E g \in Fds \ {f} : batch[g] # {} THEN "event" ELSE "idle"
    /\ cur' = None /\ failed' = FALSE /\ UNCHANGED direct

\* EPOLL_CTL_MOD arms the one-shot event again.
Awaited_Input(f) == {"IN"}      \* mutant of Awaited
Awaited(f) == IF element[f].write_buffer = <<>> THEN {"IN"} ELSE {"IN", "OUT"}
Rearm(f) ==
    /\ pc = "finish" /\ cur = f /\ ~ShouldClose(f)
    /\ armed' = [armed EXCEPT ![f] = Awaited(f)]
    /\ EventDone(f)
    /\ UNCHANGED <<element, used, net_vars, user_vars>>

\* onClose, then the element is closed and freed; also when EPOLL_CTL_MOD fails.
Close(f) ==
    /\ pc = "finish" /\ cur = f /\ (ShouldClose(f) \/ f \in Failing)
    /\ element' = [element EXCEPT ![f] = None]
    /\ armed' = [armed EXCEPT ![f] = {}]
    /\ rcv' = [rcv EXCEPT ![f] = <<>>]
    /\ EventDone(f)
    /\ UNCHANGED <<used, peer, snd, in_size, in_sent, got, user_vars>>

-----------------------------------------------------------------------------
Loop ==
    \/ EpollWait
    \/ WriteSome \/ WriteFails
    \/ \E f \in Fds :
         \/ TakeEvent(f)
         \/ ReadHeader(f) \/ ReadPayload(f) \/ ReadTun(f)
         \/ ReadAgain(f) \/ ReadEOF(f) \/ ReadError(f)
         \/ OnReady(f)
         \/ \E g \in Fds, n \in Payloads : OnReadySends(f, g, n) \/ OnSocketReadyWrites(f, g, n)
         \/ OnSocketReadyCloses(f)
         \/ ProcessReturns(f)
         \/ FlushWriteBuffer(f) \/ FlushNothing(f)
         \/ Rearm(f) \/ Close(f)
Peers == \E f \in Fds : PeerWrites(f) \/ PeerReads(f) \/ PeerCloses(f) \/ PeerResets(f)

Next ==
    \/ Loop
    \/ Peers
    \/ \E f \in Fds : Put(f) \/ PutFails(f) \/ SendHeartbeat(f)

Spec == Init /\ [][Next]_vars

\* The loop goes on, and peers read what they are sent.
Fairness == WF_vars(Loop) /\ \A f \in Fds : WF_vars(PeerReads(f))
FairSpec == Spec /\ Fairness

-----------------------------------------------------------------------------
\* The byte that follows b in a stream of packets of the given sizes, header included.
After(size(_), b) == IF b[2] < size(b[1]) THEN <<b[1], b[2] + 1>> ELSE <<b[1] + 1, 1>>

\* What is read and not delivered, and what is not read.  A TUN packet is delivered once
\* and stays in the buffer.
Undelivered(f) ==
    (IF element[f].state \in {"TUN_RECEIVE", "TUN_EOF"} THEN <<>> ELSE element[f].net_buffer)
        \o rcv[f]

(***************************************************************************)
(* The packets handed to onSocketReady and onTunReady are the packets of   *)
(* the peer, whole, in order and without a gap, however the stream was cut *)
(* into reads, and what is buffered is exactly what follows.               *)
(***************************************************************************)
InputFraming ==
    \A f \in Fds :
        LET size(k) == InBytes(f, k) IN
        /\ \A k \in 1 .. Len(delivered[f]) :
              delivered[f][k] = [i \in 1 .. size(k) |-> <<k, i>>]
        /\ element[f] # None /\ element[f].state \notin Failed /\ peer[f] # "reset" =>
              LET s == Undelivered(f) IN
                /\ s # <<>> => /\ s[1] = <<Len(delivered[f]) + 1, 1>>
                               /\ s[Len(s)] = <<InPackets(f), in_sent[f]>>
                /\ s = <<>> => Len(delivered[f]) = InPackets(f)
                /\ \A i \in 1 .. Len(s) - 1 : s[i + 1] = After(size, s[i])

(***************************************************************************)
(* What a peer reads, what the kernel holds and what is still to be        *)
(* written make up the packets sent, in order and none torn, up to the     *)
(* first one that send refused (it returned false), and as long as no      *)
(* handler has written to the socket itself while bytes were buffered.     *)
(***************************************************************************)
ToWrite(f) ==
    (IF direct # None /\ direct.fd = f THEN direct.rest ELSE <<>>) \o
    (IF element[f] = None THEN <<>> ELSE element[f].write_buffer)
OutputFraming ==
    \A f \in Fds : ~overtaken[f] =>
        LET size(k) == PACKET_HEADER_SIZE + out_size[f][k]
            s    == got[f] \o snd[f] \o (IF peer[f] = "reset" THEN <<>> ELSE ToWrite(f))
            good == {i \in 1 .. Len(s) : \A k \in refused[f] : s[i][1] < k}
        IN  /\ \A i \in good : s[i] = IF i = 1 THEN <<1, 1>> ELSE After(size, s[i - 1])
            /\ /\ element[f] # None /\ element[f].state # "SCK_ERROR" /\ peer[f] # "reset"
               /\ refused[f] = {} /\ out_size[f] # <<>>
               => s # <<>> /\ After(size, s[Len(s)]) = <<Len(out_size[f]) + 1, 1>>

(***************************************************************************)
(* No wakeup is lost: an element that the loop is not about to handle      *)
(* waits for input, and for room if it has something to write.             *)
(***************************************************************************)
WakeupArmed ==
    \A f \in Fds : element[f] # None /\ batch[f] = {} =>
        /\ "IN" \in armed[f]
        /\ element[f].write_buffer # <<>> => "OUT" \in armed[f]

-----------------------------------------------------------------------------
\* A packet that has arrived reaches the handler, unless its connection ends.
InputServed ==
    \A f \in Fds : \A k \in 1 .. MaxIn :
        (element[f] # None /\ (k < InPackets(f) \/ (k = InPackets(f) /\ ~MidPacket(f))))
            ~> (Len(delivered[f]) >= k \/ element[f] = None)

\* What was buffered is written, unless the connection ends.
OutputServed ==
    \A f \in Fds :
        (element[f] # None /\ element[f].write_buffer # <<>>)
            ~> (element[f] = None \/ element[f].write_buffer = <<>> \/ peer[f] # "open")

(***************************************************************************)
(* A peer that goes away is noticed and its element closed, as the test    *)
(* NetQueueSocket.ProcessEOF expects.                                      *)
(***************************************************************************)
ClosedPeerLeaves ==
    \A f \in Fds : (element[f] # None /\ peer[f] # "open") ~> element[f] = None

(***************************************************************************)
(* The contract of send: "If the write buffer exceeds WRITE_BUFFER_MAX the *)
(* connection is closed and onClose is fired".                             *)
(***************************************************************************)
OverflowCloses ==
    \A f \in Fds :
        (element[f] # None /\ refused[f] # {} /\ peer[f] = "open") ~> element[f] = None
=============================================================================
