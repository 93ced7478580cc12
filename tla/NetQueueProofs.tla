--------------------------- MODULE NetQueueProofs ---------------------------
(***************************************************************************)
(* Proofs about NetQueue, for every number of sockets and TUN devices,     *)
(* every packet and every buffer size: no wakeup is lost; the packets      *)
(* handed to the handlers are the packets of the peers; and what a peer    *)
(* reads is what was sent to it.                                           *)
(***************************************************************************)
EXTENDS NetQueue, SequenceTheorems, WellFoundedInduction, TLAPS


-----------------------------------------------------------------------------
(***************************************************************************)
(* Wakeups.  The inductive invariant says no more of an element than that it    *)
(* has its three fields, since what is in its buffers does not matter:     *)
(*   - epoll knows, and reports, only descriptors with an element;         *)
(*   - epoll_wait is called with no event left over, so a descriptor that  *)
(*     it does not report has been armed by somebody else;                 *)
(*   - while an event is handled, its descriptor is disarmed but counts as *)
(*     being handled, whatever sends to it from a handler do meanwhile.    *)
(***************************************************************************)
IsElement(e) ==
    e = [state |-> e.state, net_buffer |-> e.net_buffer, write_buffer |-> e.write_buffer]
Armed(e, a) == "IN" \in a /\ (e.write_buffer # <<>> => "OUT" \in a)

Domains == DOMAIN element = Fds /\ DOMAIN armed = Fds /\ DOMAIN batch = Fds
Elements ==
    \A f \in Fds : element[f] # None \/ armed[f] # {} \/ batch[f] # {} => IsElement(element[f])
Waits == \A f \in Fds : element[f] # None /\ batch[f] = {} => Armed(element[f], armed[f])
Handling ==
    /\ pc = "idle" => \A f \in Fds : batch[f] = {}
    /\ pc \in {"process", "flush", "finish", "direct", "crashed"} => batch[cur] # {}

IInv == Domains /\ Elements /\ Waits /\ Handling

-----------------------------------------------------------------------------
\* The assignments to the fields of an element.
WithState(e, x)  == [e EXCEPT !.state = x]
WithInput(e, x)  == [e EXCEPT !.net_buffer = x]
WithOutput(e, x) == [e EXCEPT !.write_buffer = x]

\* Elements keep their fields when one of them is assigned.
LEMMA Fields ==
    ASSUME NEW e, IsElement(e), NEW x
    PROVE  /\ IsElement(WithState(e, x)) /\ WithState(e, x).write_buffer = e.write_buffer
           /\ IsElement(WithInput(e, x)) /\ WithInput(e, x).write_buffer = e.write_buffer
           /\ IsElement(WithOutput(e, x))
<1> DEFINE s == e.state
           n == e.net_buffer
           w == e.write_buffer
<1>1. e = [state |-> s, net_buffer |-> n, write_buffer |-> w]
  BY DEF IsElement
<1> HIDE DEF s, n, w
<1>2. WithState(e, x) = [state |-> x, net_buffer |-> n, write_buffer |-> w]
  BY <1>1 DEF WithState
<1>3. WithInput(e, x) = [state |-> s, net_buffer |-> x, write_buffer |-> w]
  BY <1>1 DEF WithInput
<1>4. WithOutput(e, x) = [state |-> s, net_buffer |-> n, write_buffer |-> x]
  BY <1>1 DEF WithOutput
<1> QED BY <1>2, <1>3, <1>4 DEF IsElement, w

\* send keeps the fields, and arms the socket when it starts to buffer.
LEMMA SendBytesArms ==
    ASSUME NEW r, IsElement(r.element), NEW b, NEW reset \in BOOLEAN
    PROVE  LET q == SendBytes(r, b, reset) IN
             /\ IsElement(q.element)
             /\ Armed(r.element, r.armed) => Armed(q.element, q.armed)
<1> DEFINE e == r.element
           q == SendBytes(r, b, reset)
           n == IF Len(b) <= Room(r.snd) THEN Len(b) ELSE Room(r.snd)
           rest == SubSeq(b, n + 1, Len(b))
           s == r.snd \o SubSeq(b, 1, n)
<1>1. ASSUME e.write_buffer # <<>>
      PROVE  q.armed = r.armed /\ (\/ q.element = WithState(e, "SCK_ERROR")
                                   \/ q.element = WithOutput(e, e.write_buffer \o b))
  <2>1. q = Buffer(r, b)
    BY <1>1 DEF SendBytes
  <2> QED BY <2>1 DEF Buffer, Sent, WithState, WithOutput
<1>2. ASSUME e.write_buffer = <<>>
      PROVE  \/ q.element = e /\ q.armed = r.armed
             \/ q.element = WithState(e, "SCK_ERROR") /\ q.armed = r.armed
             \/ q.element = WithOutput(e, rest) /\ q.armed = {"IN", "OUT"}
  <2>1. q = WriteThrough(r, b, reset)
    BY <1>2 DEF SendBytes
  <2>2. CASE reset
    <3>1. q = Sent(FALSE, e, r.armed, r.snd)
      BY <2>1, <2>2 DEF WriteThrough
    <3> QED BY <3>1 DEF Sent
  <2>3. CASE ~reset /\ rest = <<>>
    <3>1. ~(Len(rest) > WRITE_BUFFER_MAX)
      <4> HIDE DEF rest
      <4> QED BY <2>3, SizeAssumption
    <3>2. q = Sent(TRUE, e, r.armed, s)
      BY <2>1, <2>3, <3>1 DEF WriteThrough
    <3> QED BY <3>2 DEF Sent
  <2>4. CASE ~reset /\ rest # <<>> /\ Len(rest) > WRITE_BUFFER_MAX
    <3>1. q = Sent(FALSE, WithState(e, "SCK_ERROR"), r.armed, s)
      BY <2>1, <2>4 DEF WriteThrough, WithState
    <3> QED BY <3>1 DEF Sent
  <2>5. CASE ~reset /\ rest # <<>> /\ ~(Len(rest) > WRITE_BUFFER_MAX)
    <3>1. q = Sent(TRUE, WithOutput(e, rest), {"IN", "OUT"}, s)
      BY <2>1, <2>5 DEF WriteThrough, WithOutput
    <3> QED BY <3>1 DEF Sent
  <2> QED BY <2>2, <2>3, <2>4, <2>5
<1> HIDE DEF q, rest
<1>3. IsElement(q.element)
  BY <1>1, <1>2, Fields
<1>4. Armed(e, r.armed) => Armed(q.element, q.armed)
  <2>1. CASE e.write_buffer # <<>>
    BY <1>1, <2>1 DEF Armed
  <2>2. CASE e.write_buffer = <<>>
    BY <1>2, <2>2, Fields DEF Armed
  <2> QED BY <2>1, <2>2
<1> QED BY <1>3, <1>4 DEF q

\* A packet: its header, then its payload.
LEMMA SendPacketArms ==
    ASSUME NEW f, IsElement(element[f]), NEW k, NEW n
    PROVE  LET r == SendPacket(f, k, n) IN
             /\ IsElement(r.element)
             /\ Armed(element[f], armed[f]) => Armed(r.element, r.armed)
<1> DEFINE start == Sent(TRUE, element[f], armed[f], snd[f])
           reset == peer[f] = "reset"
           first == SendBytes(start, Header(k), reset)
<1>1. start.element = element[f] /\ start.armed = armed[f] /\ reset \in BOOLEAN
  BY DEF Sent
<1> HIDE DEF start, reset
<1>2. /\ IsElement(first.element)
      /\ Armed(element[f], armed[f]) => Armed(first.element, first.armed)
  BY <1>1, SendBytesArms
<1> HIDE DEF first
<1>3. \/ SendPacket(f, k, n) = first
      \/ SendPacket(f, k, n) = SendBytes(first, Payload(k, n), reset)
  BY DEF SendPacket, first, start, reset
<1> QED BY <1>1, <1>2, <1>3, SendBytesArms

-----------------------------------------------------------------------------
\* What is done to the descriptor at hand: its event is still to be finished.
LEMMA AtHand ==
    ASSUME IInv, NEW f \in Fds, NEW e, IsElement(e), cur = f,
           pc \in {"process", "flush", "finish", "direct", "crashed"},
           pc' \in {"process", "flush", "finish", "direct", "crashed"},
           element' = element \/ element' = [element EXCEPT ![f] = e],
           armed' = armed \/ \E a : armed' = [armed EXCEPT ![f] = a],
           UNCHANGED <<cur, batch>>
    PROVE  IInv'
<1> USE DEF IInv
<1>1. batch[f] # {}
  BY DEF Handling
<1>2. Domains'
  BY DEF Domains
<1>3. \A g \in Fds : g # f => element'[g] = element[g] /\ armed'[g] = armed[g]
  BY DEF Domains
<1>4. element'[f] = e \/ element'[f] = element[f]
  BY DEF Domains
<1>5. Elements'
  BY <1>1, <1>3, <1>4 DEF Elements
<1>6. Waits'
  BY <1>1, <1>3 DEF Waits
<1>7. Handling'
  BY DEF Handling
<1> QED BY <1>2, <1>5, <1>6, <1>7

\* The element at hand has its fields.
LEMMA HasElement ==
    ASSUME IInv, NEW f \in Fds, cur = f,
           pc \in {"process", "flush", "finish", "direct", "crashed"}
    PROVE  IsElement(element[f]) /\ batch[f] # {}
BY DEF IInv, Handling, Elements

\* Steps that change no element, nothing in epoll and no event.
LEMMA Elsewhere ==
    ASSUME IInv, UNCHANGED <<element, armed, batch>>, Handling'
    PROVE  IInv'
BY DEF IInv, Domains, Elements, Waits

\* A packet is sent to g, which is idle or has an event to be handled.
LEMMA SendStep ==
    ASSUME IInv, NEW g \in Fds, element[g] # None, NEW k, NEW n,
           element' = [element EXCEPT ![g] = SendPacket(g, k, n).element],
           armed' = [armed EXCEPT ![g] = SendPacket(g, k, n).armed],
           UNCHANGED batch, Handling'
    PROVE  IInv'
<1> DEFINE r == SendPacket(g, k, n)
<1> USE DEF IInv
<1>1. IsElement(element[g])
  BY DEF Elements
<1>2. /\ IsElement(r.element)
      /\ Armed(element[g], armed[g]) => Armed(r.element, r.armed)
  BY <1>1, SendPacketArms
<1> HIDE DEF r
<1>3. Domains'
  BY DEF Domains
<1>4. \A f \in Fds : f # g => element'[f] = element[f] /\ armed'[f] = armed[f]
  BY DEF Domains
<1>5. element'[g] = r.element /\ armed'[g] = r.armed
  BY DEF Domains, r
<1>6. Elements'
  BY <1>2, <1>4, <1>5 DEF Elements
<1>7. Waits'
  BY <1>2, <1>4, <1>5 DEF Waits
<1> QED BY <1>3, <1>6, <1>7

-----------------------------------------------------------------------------
\* After a packet has been handled the element has its fields.
LEMMA HandledFields ==
    ASSUME NEW e, IsElement(e)
    PROVE  IsElement(Handled(e))
<1>1. \/ Handled(e) = WithState(e, "TUN_RECEIVE")
      \/ Handled(e) = WithState(WithInput(e, <<>>), "SCK_HEADER")
  BY DEF Handled, WithState, WithInput, IsElement
<1> QED BY <1>1, Fields

\* put: the new element has nothing to write and waits for input.
LEMMA PutStep ==
    ASSUME IInv, NEW f \in Fds, Put(f)
    PROVE  IInv'
<1> DEFINE e == [state |-> IF f \in Tuns THEN "TUN_RECEIVE" ELSE "SCK_HEADER",
                 net_buffer |-> <<>>, write_buffer |-> <<>>]
<1>1. /\ element' = [element EXCEPT ![f] = e] /\ armed' = [armed EXCEPT ![f] = {"IN"}]
      /\ UNCHANGED <<batch, pc, cur>>
  BY DEF Put, PutWith, loop_vars
<1>2. IsElement(e) /\ Armed(e, {"IN"})
  BY DEF IsElement, Armed
<1> HIDE DEF e
<1> USE DEF IInv
<1>3. Domains' /\ Handling'
  BY <1>1 DEF Domains, Handling
<1>4. \A g \in Fds : IF g = f THEN element'[g] = e /\ armed'[g] = {"IN"}
                     ELSE element'[g] = element[g] /\ armed'[g] = armed[g]
  BY <1>1 DEF Domains
<1>5. Elements' /\ Waits'
  BY <1>1, <1>2, <1>4 DEF Elements, Waits
<1> QED BY <1>3, <1>5

\* epoll_wait: what it reports is disarmed and is to be handled.
LEMMA EpollWaitStep ==
    ASSUME IInv, EpollWait
    PROVE  IInv'
<1> USE DEF IInv
<1>1. PICK E \in SUBSET {f \in Fds : Ready(f) # {}} :
         /\ batch' = [f \in Fds |-> IF f \in E THEN Ready(f) ELSE {}]
         /\ armed' = [f \in Fds |-> IF f \in E THEN {} ELSE armed[f]]
  BY DEF EpollWait
<1>2. pc = "idle" /\ pc' = "event" /\ UNCHANGED <<cur, element>>
  BY DEF EpollWait
<1>3. \A f \in Fds : batch[f] = {}
  BY <1>2 DEF Handling
<1>4. ASSUME NEW f \in Fds, f \in E
      PROVE  batch'[f] # {} /\ armed[f] # {} /\ IsElement(element[f])
  <2>1. batch'[f] = Ready(f) /\ Ready(f) # {}
    BY <1>1, <1>4
  <2>2. armed[f] # {}
    BY <2>1 DEF Ready
  <2> QED BY <2>1, <2>2 DEF Elements
<1>5. ASSUME NEW f \in Fds, f \notin E
      PROVE  batch'[f] = {} /\ armed'[f] = armed[f]
  BY <1>1, <1>5
<1>6. Domains' /\ Handling'
  BY <1>1, <1>2 DEF Domains, Handling
<1>7. Elements'
  BY <1>2, <1>4, <1>5 DEF Elements
<1>8. Waits'
  BY <1>2, <1>3, <1>4, <1>5 DEF Waits
<1> QED BY <1>6, <1>7, <1>8

\* read() and what process makes of it.
LEMMA ReadStep ==
    ASSUME IInv, NEW f \in Fds,
           \/ ReadHeader(f) \/ ReadPayload(f) \/ ReadTun(f) \/ ReadEOF(f) \/ ReadError(f)
           \/ OnReady(f) \/ OnSocketReadyCloses(f)
           \/ \E g \in Fds, n \in Payloads : OnSocketReadyWrites(f, g, n)
    PROVE  IInv'
<1> DEFINE old == element[f]
<1>1. /\ cur = f /\ pc = "process" /\ pc' \in {"process", "direct", "crashed"}
      /\ UNCHANGED <<cur, batch, armed>>
  BY DEF ReadHeader, ReadPayload, ReadSome, ReadTun, ReadEOF, ReadError, ReadsBytes, OnReady,
         IsReady, OnSocketReadyCloses, OnSocketReadyWrites, Processes, loop_vars
<1>2. IsElement(old)
  BY <1>1, HasElement
<1>3. DOMAIN element = Fds
  BY DEF IInv, Domains
<1>4. SUFFICES \E e : IsElement(e) /\ element' = [element EXCEPT ![f] = e]
  BY <1>1, AtHand
<1>5. ASSUME NEW x, NEW y, element' = [element EXCEPT ![f] = WithState(WithInput(old, x), y)]
      PROVE  \E e : IsElement(e) /\ element' = [element EXCEPT ![f] = e]
  BY <1>2, <1>5, Fields
<1>6. CASE ReadHeader(f) \/ ReadPayload(f)
  <2>1. ASSUME NEW state, NEW next, ReadSome(f, state, next)
        PROVE  \E e : IsElement(e) /\ element' = [element EXCEPT ![f] = e]
    <3> DEFINE n == IF Wanted(f) <= Len(rcv[f]) THEN Wanted(f) ELSE Len(rcv[f])
               x == old.net_buffer \o SubSeq(rcv[f], 1, n)
               y == IF n = Wanted(f) THEN next ELSE WithInput(old, x).state
    <3>1. element' = [element EXCEPT ![f].net_buffer = @ \o SubSeq(rcv[f], 1, n),
                                     ![f].state = IF n = Wanted(f) THEN next ELSE @]
      BY <2>1 DEF ReadSome
    <3> HIDE DEF n
    <3>2. element' = [element EXCEPT ![f] = WithState(WithInput(old, x), y)]
      BY <1>3, <3>1 DEF WithState, WithInput
    <3> HIDE DEF x, y
    <3> QED BY <1>5, <3>2
  <2> QED BY <1>6, <2>1 DEF ReadHeader, ReadPayload
<1>7. CASE ReadTun(f)
  <2>1. element' = [element EXCEPT ![f] = WithState(WithInput(old, <<Head(rcv[f])>>), "TUN_READY")]
    BY <1>3, <1>7 DEF ReadTun, WithState, WithInput
  <2> QED BY <1>5, <2>1
<1>8. CASE ReadEOF(f) \/ ReadError(f)
  <2>1. \E y : element' = [element EXCEPT ![f] = WithState(old, y)]
    BY <1>3, <1>8 DEF ReadEOF, ReadError, WithState
  <2> QED BY <1>2, <2>1, Fields
<1>9. CASE OnReady(f) \/ \E g \in Fds, n \in Payloads : OnSocketReadyWrites(f, g, n)
  <2>1. element' = [element EXCEPT ![f] = Handled(old)]
    BY <1>9 DEF OnReady, OnSocketReadyWrites
  <2> QED BY <1>2, <2>1, HandledFields
<1>10. CASE OnSocketReadyCloses(f)
  <2>1. element' = [element EXCEPT
           ![f] = WithState(WithOutput(WithInput(old, <<>>), <<>>), "SCK_ERROR")]
    BY <1>3, <1>10 DEF OnSocketReadyCloses, WithState, WithInput, WithOutput
  <2> QED BY <1>2, <2>1, Fields
<1> QED BY <1>6, <1>7, <1>8, <1>9, <1>10, ZenonT(30)

\* A handler sends through the queue: to a third descriptor, or to the one at hand.
LEMMA ReadySendsStep ==
    ASSUME IInv, NEW f \in Fds, NEW g \in Fds, NEW n \in Payloads, OnReadySends(f, g, n)
    PROVE  IInv'
<1> USE DEF IInv
<1> DEFINE k == Len(out_size[g]) + 1
           r == SendPacket(g, k, n)
           mid == [element EXCEPT ![g] = r.element]
<1>1. /\ cur = f /\ pc = "process" /\ element[g] # None
      /\ UNCHANGED <<cur, batch, pc>>
  BY DEF OnReadySends, IsReady, Processes, loop_vars
<1>2. armed' = [armed EXCEPT ![g] = r.armed]
  BY DEF OnReadySends, Sends
<1>3. element' = [mid EXCEPT ![f] = Handled(@)]
  BY DEF OnReadySends
<1>4. IsElement(element[f]) /\ batch[f] # {}
  BY <1>1, HasElement
<1>5. IsElement(element[g])
  BY <1>1 DEF Elements
<1>6. /\ IsElement(r.element)
      /\ Armed(element[g], armed[g]) => Armed(r.element, r.armed)
  BY <1>5, SendPacketArms
<1> HIDE DEF r
<1>7. \A h \in Fds : mid[h] = IF h = g THEN r.element ELSE element[h]
  BY DEF Domains
<1>8. DOMAIN mid = Fds
  BY DEF Domains
<1> HIDE DEF mid
<1>9. \A h \in Fds : element'[h] = IF h = f THEN Handled(mid[f]) ELSE mid[h]
  BY <1>3, <1>8
<1>10. IsElement(Handled(mid[f]))
  BY <1>4, <1>6, <1>7, HandledFields
<1>11. \A h \in Fds : armed'[h] = IF h = g THEN r.armed ELSE armed[h]
  BY <1>2 DEF Domains
<1>12. Domains' /\ Handling'
  BY <1>1, <1>2, <1>3, <1>8 DEF Domains, Handling
<1>13. Elements'
  BY <1>1, <1>6, <1>7, <1>9, <1>10, <1>11 DEF Elements
<1>14. Waits'
  BY <1>1, <1>4, <1>6, <1>7, <1>9, <1>11 DEF Waits
<1> QED BY <1>12, <1>13, <1>14

\* flush_write_buffer on the descriptor at hand.
LEMMA FlushStep ==
    ASSUME IInv, NEW f \in Fds, FlushWriteBuffer(f)
    PROVE  IInv'
<1> DEFINE old == element[f]
           n == IF Len(old.write_buffer) <= Room(snd[f]) THEN Len(old.write_buffer)
                ELSE Room(snd[f])
           w == SubSeq(old.write_buffer, n + 1, Len(old.write_buffer))
<1>1. /\ cur = f /\ pc = "flush" /\ pc' = "finish"
      /\ UNCHANGED <<cur, batch>>
      /\ armed' = armed \/ armed' = [armed EXCEPT ![f] = {"IN"}]
      /\ element' = element \/ element' = [element EXCEPT ![f].write_buffer = SubSeq(@, n + 1, Len(@))]
  BY DEF FlushWriteBuffer
<1>2. IsElement(old) /\ DOMAIN element = Fds
  BY <1>1, HasElement DEF IInv, Domains
<1>3. CASE element' = element
  BY <1>1, <1>2, <1>3, AtHand
<1>4. CASE element' = [element EXCEPT ![f].write_buffer = SubSeq(@, n + 1, Len(@))]
  <2> HIDE DEF n
  <2>1. element' = [element EXCEPT ![f] = WithOutput(old, w)]
    BY <1>2, <1>4 DEF WithOutput
  <2>2. IsElement(WithOutput(old, w))
    BY <1>2, Fields
  <2> HIDE DEF w, old
  <2> QED BY <1>1, <2>1, <2>2, AtHand
<1> QED BY <1>1, <1>3, <1>4

\* The event at hand is finished: the descriptor is armed again, or its element freed.
LEMMA FinishStep ==
    ASSUME IInv, NEW f \in Fds, Rearm(f) \/ Close(f)
    PROVE  IInv'
<1> USE DEF IInv
<1>1. /\ cur = f /\ pc = "finish" /\ EventDone(f)
      /\ \/ armed' = [armed EXCEPT ![f] = Awaited(f)] /\ element' = element
         \/ armed' = [armed EXCEPT ![f] = {}] /\ element' = [element EXCEPT ![f] = None]
  BY DEF Rearm, Close
<1>2. IsElement(element[f])
  BY <1>1, HasElement
<1>3. /\ DOMAIN batch' = Fds /\ batch'[f] = {}
      /\ \A g \in Fds : g # f => batch'[g] = batch[g]
      /\ pc' = IF \E g \in Fds \ {f} : batch[g] # {} THEN "event" ELSE "idle"
  BY <1>1 DEF EventDone, Domains
<1>4. Handling'
  BY <1>3 DEF Handling
<1>5. Domains'
  BY <1>1, <1>3 DEF Domains
<1>6. \A g \in Fds : g # f => element'[g] = element[g] /\ armed'[g] = armed[g]
  BY <1>1 DEF Domains
<1>7. \/ element'[f] = element[f] /\ armed'[f] = Awaited(f)
      \/ element'[f] = None /\ armed'[f] = {}
  BY <1>1 DEF Domains
<1>8. Elements'
  BY <1>2, <1>3, <1>6, <1>7 DEF Elements
<1>9. Armed(element[f], Awaited(f))
  BY DEF Armed, Awaited
<1>10. Waits'
  BY <1>3, <1>6, <1>7, <1>9 DEF Waits
<1> QED BY <1>4, <1>5, <1>8, <1>10

-----------------------------------------------------------------------------
\* Every step keeps the invariant.
LEMMA NextHolds == IInv /\ [Next]_vars => IInv'
<1> SUFFICES ASSUME IInv, [Next]_vars PROVE IInv'
  OBVIOUS
<1> USE DEF queue_vars, loop_vars
<1>1. ASSUME UNCHANGED <<element, armed, batch, pc, cur>>  PROVE IInv'
  BY <1>1, Elsewhere DEF IInv, Handling
<1>2. CASE Peers
  BY <1>1, <1>2 DEF Peers, PeerWrites, PeerReads, PeerCloses, PeerResets
<1>3. ASSUME NEW f \in Fds, Put(f)  PROVE IInv'
  BY <1>3, PutStep
<1>4. ASSUME NEW f \in Fds, PutFails(f)  PROVE IInv'
  BY <1>1, <1>4 DEF PutFails
<1>5. ASSUME NEW f \in Fds, SendHeartbeat(f)  PROVE IInv'
  <2> DEFINE k == Len(out_size[f]) + 1
  <2>1. /\ element[f] # None /\ UNCHANGED <<batch, pc, cur>>
        /\ element' = [element EXCEPT ![f] = SendPacket(f, k, 0).element]
        /\ armed' = [armed EXCEPT ![f] = SendPacket(f, k, 0).armed]
    BY <1>5 DEF SendHeartbeat, Sends
  <2>2. Handling'
    BY <2>1 DEF IInv, Handling
  <2> HIDE DEF k
  <2> QED BY <2>1, <2>2, SendStep
<1>6. CASE EpollWait
  BY <1>6, EpollWaitStep
<1>7. CASE WriteSome \/ WriteFails
  <2>1. /\ pc = "direct" /\ pc' \in {"direct", "process"}
        /\ UNCHANGED <<element, armed, batch, cur>>
    BY <1>7 DEF WriteSome, WriteFails
  <2>2. Handling'
    BY <2>1 DEF IInv, Handling
  <2> QED BY <2>1, <2>2, Elsewhere
<1>8. ASSUME NEW f \in Fds, TakeEvent(f)  PROVE IInv'
  <2>1. /\ batch[f] # {} /\ cur' = f /\ pc' \in {"process", "flush"}
        /\ UNCHANGED <<element, armed, batch>>
    BY <1>8 DEF TakeEvent
  <2>2. Handling'
    BY <2>1 DEF Handling
  <2> QED BY <2>1, <2>2, Elsewhere
<1>9. ASSUME NEW f \in Fds,
             \/ ReadHeader(f) \/ ReadPayload(f) \/ ReadTun(f) \/ ReadEOF(f) \/ ReadError(f)
             \/ OnReady(f) \/ OnSocketReadyCloses(f)
             \/ \E g \in Fds, n \in Payloads : OnSocketReadyWrites(f, g, n)
      PROVE  IInv'
  BY <1>9, ReadStep
<1>10. ASSUME NEW f \in Fds, NEW g \in Fds, NEW n \in Payloads, OnReadySends(f, g, n)
       PROVE  IInv'
  BY <1>10, ReadySendsStep
<1>11. ASSUME NEW f \in Fds, ReadAgain(f) \/ ProcessReturns(f) \/ FlushNothing(f)  PROVE IInv'
  <2>1. /\ pc \in {"process", "flush"} /\ pc' \in {"flush", "finish"}
        /\ UNCHANGED <<element, armed, batch, cur>>
    BY <1>11 DEF ReadAgain, ReadsBytes, ProcessReturns, FlushNothing, Processes
  <2>2. Handling'
    BY <2>1 DEF IInv, Handling
  <2> QED BY <2>1, <2>2, Elsewhere
<1>12. ASSUME NEW f \in Fds, FlushWriteBuffer(f)  PROVE IInv'
  BY <1>12, FlushStep
<1>13. ASSUME NEW f \in Fds, Rearm(f) \/ Close(f)  PROVE IInv'
  BY <1>13, FinishStep
<1>14. CASE UNCHANGED vars
  BY <1>1, <1>14 DEF vars
<1>15. CASE Loop
  BY <1>15, <1>6, <1>7, <1>8, <1>9, <1>10, <1>11, <1>12, <1>13 DEF Loop
<1> QED BY <1>2, <1>3, <1>4, <1>5, <1>14, <1>15 DEF Next

\* No wakeup is lost, whatever handlers send from inside an event, to whichever
\* descriptor, handled already or still to be handled in the same batch.
THEOREM WakeupArmedHolds == Spec => []WakeupArmed
<1>1. Init => IInv
  BY DEF Init, IInv, Domains, Elements, Waits, Handling
<1>2. IInv => WakeupArmed
  BY DEF IInv, Waits, Armed, WakeupArmed
<1> QED BY <1>1, <1>2, NextHolds, PTL DEF Spec

-----------------------------------------------------------------------------
(***************************************************************************)
(* Framing.  A stream is a run of bytes in which each is the next one      *)
(* after the one before it, in packets of given sizes.  The invariant      *)
(* says, of the input of a descriptor,                                     *)
(*   - that what it holds and has not handed over, and what the kernel     *)
(*     holds, are the stream from the first byte that was not delivered    *)
(*     to the last that the peer wrote;                                    *)
(*   - that the state tells how much of a packet it holds: less than a     *)
(*     header, a header and not more than the packet, or the packet;       *)
(* and of its output,                                                      *)
(*   - that what the peer read, what the kernel holds, what a handler is   *)
(*     writing and what is buffered are bytes of the packets that were     *)
(*     sent, each the next one up to the first refused, and all of them    *)
(*     when none was refused and the element was not freed by its handler; *)
(*   - that a handler writes past the queue only where nothing is          *)
(*     buffered, or the descriptor counts as overtaken.                    *)
(***************************************************************************)
\* The byte after b, and the bytes there are, in packets of the sizes sz.
Nxt(sz, b) == IF b[2] < sz[b[1]] THEN <<b[1], b[2] + 1>> ELSE <<b[1] + 1, 1>>
InRange(sz, b) == b[1] \in DOMAIN sz /\ b[2] \in 1 .. sz[b[1]]

\* s is the bytes of a stream of packets of the sizes sz, from one up to another.
Follows(sz, s, from, i) == s[i] = IF i = 1 THEN from ELSE Nxt(sz, s[i - 1])
Stream(sz, s, from, to) ==
    /\ \A i \in 1 .. Len(s) : InRange(sz, s[i]) /\ Follows(sz, s, from, i)
    /\ to = IF s = <<>> THEN from ELSE Nxt(sz, s[Len(s)])

-----------------------------------------------------------------------------
\* The sizes of the packets of a peer, and the byte it writes next.
InSizes(t, isz) == [k \in 1 .. Len(isz) |-> IF t THEN 1 ELSE PACKET_HEADER_SIZE + isz[k]]
NextIn(sz, isz, ise) == IF isz = <<>> THEN <<1, 1>> ELSE Nxt(sz, <<Len(isz), ise>>)
\* All of packet k; what an element holds of a packet that was not delivered.
Whole(sz, k) == [i \in 1 .. sz[k] |-> <<k, i>>]
Held(e) == IF e.state \in {"TUN_RECEIVE", "TUN_EOF"} THEN <<>> ELSE e.net_buffer
\* e holds the start of packet k, as much as its state says.
HeldOK(sz, e, k) ==
    /\ \A i \in 1 .. Len(Held(e)) : Held(e)[i] = <<k, i>>
    /\ Held(e) # <<>> => k \in DOMAIN sz
    /\ e.state \in {"SCK_HEADER", "SCK_EOF"} => Len(e.net_buffer) < PACKET_HEADER_SIZE
    /\ e.state = "SCK_PAYLOAD" => Len(e.net_buffer) \in PACKET_HEADER_SIZE .. sz[k]
    /\ e.state \in {"SCK_READY", "TUN_READY"} => e.net_buffer # <<>> /\ Len(e.net_buffer) = sz[k]
\* The input of a descriptor, a TUN device if t.
InputOK(t, e, u, p, rc, isz, ise, d) ==
    LET sz == InSizes(t, isz) IN
    /\ \A k \in 1 .. Len(d) : k \in DOMAIN sz /\ d[k] = Whole(sz, k)
    /\ isz # <<>> => ise \in 1 .. sz[Len(isz)]
    /\ p = "reset" => rc = <<>>
    /\ ~u => e = None /\ d = <<>>
    /\ ~u /\ p # "reset" => Stream(sz, rc, <<1, 1>>, NextIn(sz, isz, ise))
    /\ e # None /\ e.state \notin Failed =>
          /\ HeldOK(sz, e, Len(d) + 1)
          /\ p # "reset" => Stream(sz, Held(e) \o rc, <<Len(d) + 1, 1>>, NextIn(sz, isz, ise))
InOK(f) ==
    InputOK(f \in Tuns, element[f], used[f], peer[f], rcv[f], in_size[f], in_sent[f], delivered[f])
Input == \A f \in Fds : InOK(f)

-----------------------------------------------------------------------------
\* The sizes of the packets sent; each byte of s before those of R follows its predecessor.
OutSizes(os) == [k \in 1 .. Len(os) |-> PACKET_HEADER_SIZE + os[k]]
Good(sz, R, s) ==
    \A i \in 1 .. Len(s) :
        InRange(sz, s[i]) /\ ((\A k \in R : s[i][1] < k) => Follows(sz, s, <<1, 1>>, i))
\* What is still to be written, and all that goes to the peer.
Unwritten(e, p, dr) == IF p = "reset" THEN <<>> ELSE dr \o (IF e = None THEN <<>> ELSE e.write_buffer)
Total(e, p, g, sn, dr) == (g \o sn) \o Unwritten(e, p, dr)
\* The output of a descriptor; c says that its element may have been freed by its handler.
OutputOK(e, u, p, g, sn, dr, os, rf, ov, c) ==
    LET sz == OutSizes(os)
        s == Total(e, p, g, sn, dr) IN
    /\ p = "reset" => sn = <<>>
    /\ ~u => os = <<>> /\ s = <<>> /\ ~ov
    /\ ~ov => Good(sz, rf, s)
    /\ ~ov /\ e # None /\ p # "reset" /\ rf = {} =>
          Stream(sz, s, <<1, 1>>, <<Len(os) + 1, 1>>) \/ (c /\ e.state = "SCK_ERROR")
    /\ ~ov /\ dr # <<>> => e # None /\ e.write_buffer = <<>>
Rest(f) == IF direct # None /\ direct.fd = f THEN direct.rest ELSE <<>>
Closing(f) == cur = f /\ "IN" \in batch[f] /\ pc \in {"process", "flush", "finish", "crashed"}
OutOK(f) ==
    OutputOK(element[f], used[f], peer[f], got[f], snd[f], Rest(f), out_size[f], refused[f],
             overtaken[f], Closing(f))
Output == \A f \in Fds : OutOK(f)

-----------------------------------------------------------------------------
\* The limits of the kernel's buffer and of the histories; where the loop is.
Bounds ==
    \A f \in Fds :
        /\ Len(snd[f]) <= SndBuf /\ Len(out_size[f]) <= MaxOut
        /\ refused[f] \subseteq 1 .. Len(out_size[f])
LoopOK ==
    /\ \A f \in Fds : armed[f] # {} \/ batch[f] # {} => element[f] # None
    /\ pc \in {"process", "flush", "finish", "direct", "crashed"} => cur \in Fds /\ batch[cur] # {}
    /\ pc \in {"process", "direct"} => "IN" \in batch[cur]
    /\ pc = "direct" <=> direct # None
    /\ direct # None =>
          direct.fd \in Direct /\ element[direct.fd] # None /\ out_size[direct.fd] # <<>>

Inv == TypeOK /\ Bounds /\ LoopOK /\ Input /\ Output

-----------------------------------------------------------------------------
(***************************************************************************)
(* Sequences of bytes.                                                     *)
(***************************************************************************)

\* A sequence is its first n elements and the others.
LEMMA Cut ==
    ASSUME NEW S, NEW s \in Seq(S), NEW n \in 0 .. Len(s)
    PROVE  /\ SubSeq(s, 1, n) \in Seq(S) /\ SubSeq(s, n + 1, Len(s)) \in Seq(S)
           /\ Len(SubSeq(s, 1, n)) = n /\ Len(SubSeq(s, n + 1, Len(s))) = Len(s) - n
           /\ SubSeq(s, 1, n) \o SubSeq(s, n + 1, Len(s)) = s
<1> DEFINE t == SubSeq(s, 1, n)
           u == SubSeq(s, n + 1, Len(s))
           w == t \o u
<1>1. Len(s) \in Nat /\ n \in Nat /\ n <= Len(s)
  OBVIOUS
<1>2. t \in Seq(S) /\ Len(t) = n /\ \A i \in 1 .. n : t[i] = s[i]
  <2>1. \A i \in 1 .. n : s[i] \in S
    BY <1>1
  <2> QED BY <1>1, <2>1, SubSeqProperties
<1>3. u \in Seq(S) /\ Len(u) = Len(s) - n /\ \A i \in 1 .. Len(s) - n : u[i] = s[n + i]
  <2>1. \A i \in n + 1 .. Len(s) : s[i] \in S
    BY <1>1
  <2>2. /\ SubSeq(s, n + 1, Len(s)) \in Seq(S)
        /\ Len(SubSeq(s, n + 1, Len(s))) = IF n + 1 <= Len(s) THEN Len(s) - (n + 1) + 1 ELSE 0
        /\ \A i \in 1 .. Len(s) - (n + 1) + 1 : SubSeq(s, n + 1, Len(s))[i] = s[n + 1 + i - 1]
    <3>1. n + 1 \in Int /\ Len(s) \in Int
      BY <1>1
    <3> QED BY <2>1, <3>1, SubSeqProperties
  <2> HIDE DEF u
  <2> QED BY <1>1, <2>2 DEF u
<1> HIDE DEF t, u
<1>4. /\ w \in Seq(S) /\ Len(w) = Len(s)
      /\ \A i \in 1 .. Len(s) : w[i] = IF i <= n THEN t[i] ELSE u[i - n]
  <2>1. /\ t \o u \in Seq(S) /\ Len(t \o u) = Len(t) + Len(u)
        /\ \A i \in 1 .. Len(t) + Len(u) : (t \o u)[i] = IF i <= Len(t) THEN t[i] ELSE u[i - Len(t)]
    BY <1>2, <1>3, ConcatProperties
  <2>2. Len(t) + Len(u) = Len(s)
    BY <1>1, <1>2, <1>3
  <2> QED BY <1>2, <2>1, <2>2
<1> HIDE DEF w
<1>5. ASSUME NEW i \in 1 .. Len(s)  PROVE w[i] = s[i]
  <2>0. i \in Int /\ n \in Int
    BY <1>1
  <2>1. CASE i <= n
    BY <1>1, <1>2, <1>4, <2>1
  <2>2. CASE i > n
    <3>1. i - n \in 1 .. Len(s) - n /\ n + (i - n) = i
      BY <1>1, <2>2
    <3> QED BY <1>1, <1>3, <1>4, <2>2, <3>1
  <2> QED BY <2>0, <2>1, <2>2
<1>6. w = s
  BY <1>4, <1>5, SeqEqual
<1> QED BY <1>2, <1>3, <1>6 DEF t, u, w

\* The first n elements of one sequence move to the end of another.
LEMMA Moves ==
    ASSUME NEW S, NEW r \in Seq(S), NEW s \in Seq(S), NEW n \in 0 .. Len(s)
    PROVE  /\ r \o SubSeq(s, 1, n) \in Seq(S) /\ SubSeq(s, n + 1, Len(s)) \in Seq(S)
           /\ Len(r \o SubSeq(s, 1, n)) = Len(r) + n
           /\ (r \o SubSeq(s, 1, n)) \o SubSeq(s, n + 1, Len(s)) = r \o s
<1> DEFINE t == SubSeq(s, 1, n)
           u == SubSeq(s, n + 1, Len(s))
<1>1. t \in Seq(S) /\ u \in Seq(S) /\ Len(t) = n /\ t \o u = s
  BY Cut
<1> HIDE DEF t, u
<1>2. r \o t \in Seq(S) /\ Len(r \o t) = Len(r) + Len(t)
  BY <1>1, ConcatProperties
<1>3. (r \o t) \o u = r \o (t \o u)
  <2>1. t \in Seq(S) /\ u \in Seq(S)
    BY <1>1
  <2> QED BY <2>1, ConcatAssociative
<1> QED BY <1>1, <1>2, <1>3 DEF t, u

\* Bytes that move from the front of one queue to the back of another stay in order.
LEMMA BytesMove ==
    \A r, s \in Seq(Byte) : \A n \in 0 .. Len(s) :
        /\ r \o SubSeq(s, 1, n) \in Seq(Byte) /\ SubSeq(s, n + 1, Len(s)) \in Seq(Byte)
        /\ Len(r \o SubSeq(s, 1, n)) = Len(r) + n
        /\ (r \o SubSeq(s, 1, n)) \o SubSeq(s, n + 1, Len(s)) = r \o s
BY Moves

\* The elements of a sequence of bytes.
LEMMA ByteSeq ==
    ASSUME NEW n \in Nat, NEW s, s \in [1 .. n -> Byte]
    PROVE  s \in Seq(Byte) /\ Len(s) = n
OBVIOUS

\* Empty and first.
LEMMA HeadFirst ==
    ASSUME NEW S, NEW s \in Seq(S), s # <<>>
    PROVE  /\ Head(s) = s[1] /\ Tail(s) \in Seq(S) /\ <<Head(s)>> \o Tail(s) = s
           /\ Len(Tail(s)) = Len(s) - 1
<1>1. Len(s) \in Nat \ {0}
  BY EmptySeq
<1>2. SubSeq(s, 1, 1) = <<s[1]>> /\ Head(s) = s[1]
  <2>1. \A i \in 1 .. 1 : s[i] \in S
    BY <1>1
  <2>2. SubSeq(s, 1, 1) \in Seq(S) /\ Len(SubSeq(s, 1, 1)) = 1 /\ SubSeq(s, 1, 1)[1] = s[1]
    BY <2>1, SubSeqProperties
  <2>3. <<s[1]>> \in Seq(S) /\ Len(<<s[1]>>) = 1 /\ <<s[1]>>[1] = s[1]
    BY <2>1
  <2>4. \A i \in 1 .. 1 : i = 1
    OBVIOUS
  <2>5. SubSeq(s, 1, 1) = <<s[1]>>
    <3> DEFINE t == SubSeq(s, 1, 1)
               u == <<s[1]>>
    <3>1. t \in Seq(S) /\ u \in Seq(S) /\ Len(t) = Len(u) /\ \A i \in 1 .. Len(t) : t[i] = u[i]
      BY <2>2, <2>3, <2>4
    <3> HIDE DEF t, u
    <3>2. t = u
      BY <3>1, SeqEqual
    <3> QED BY <3>2 DEF t, u
  <2>6. Head(s) = s[1]
    BY <1>1
  <2> QED BY <2>5, <2>6
<1>4. Tail(s) = SubSeq(s, 2, Len(s))
  BY TailIsSubSeq
<1>3. 1 \in 0 .. Len(s) /\ 1 + 1 = 2
  BY <1>1
<1> QED BY <1>2, <1>3, <1>4, Cut

-----------------------------------------------------------------------------
(***************************************************************************)
(* Streams of packets.                                                     *)
(***************************************************************************)
IsSizes(sz, n) == n \in Nat /\ sz \in [1 .. n -> Nat \ {0}]

\* The byte after a byte is a byte.
LEMMA NxtByte ==
    ASSUME NEW sz, NEW n, IsSizes(sz, n), NEW b \in Byte, InRange(sz, b)
    PROVE  Nxt(sz, b) \in Byte
BY DEF Byte, Nxt

\* One byte more.
LEMMA StreamAppend ==
    ASSUME NEW sz, NEW s \in Seq(Byte), NEW from, NEW b \in Byte,
           Stream(sz, s, from, b), InRange(sz, b)
    PROVE  Stream(sz, Append(s, b), from, Nxt(sz, b))
<1> DEFINE t == Append(s, b)
<1>1. /\ t \in Seq(Byte) /\ t # <<>> /\ Len(t) = Len(s) + 1 /\ Len(s) \in Nat
      /\ \A i \in 1 .. Len(s) : t[i] = s[i]
      /\ t[Len(s) + 1] = b
  BY AppendProperties
<1> HIDE DEF t
<1>2. ASSUME NEW i \in 1 .. Len(t)  PROVE InRange(sz, t[i]) /\ Follows(sz, t, from, i)
  <2>1. CASE i <= Len(s)
    <3>1. /\ i \in 1 .. Len(s) /\ t[i] = s[i] /\ InRange(sz, s[i])
          /\ s[i] = IF i = 1 THEN from ELSE Nxt(sz, s[i - 1])
      BY <1>1, <2>1 DEF Stream, Follows
    <3>2. i # 1 => t[i - 1] = s[i - 1]
      BY <1>1, <2>1
    <3> QED BY <3>1, <3>2 DEF Follows
  <2>2. CASE i = Len(s) + 1
    <3>1. CASE s = <<>>
      BY <1>1, <2>2, <3>1 DEF Stream, Follows
    <3>2. CASE s # <<>>
      <4>1. Len(s) \in 1 .. Len(s) /\ i # 1 /\ i - 1 = Len(s)
        BY <1>1, <2>2, <3>2, EmptySeq
      <4> QED BY <1>1, <2>2, <3>2, <4>1 DEF Stream, Follows
    <3> QED BY <3>1, <3>2
  <2> QED BY <1>1, <2>1, <2>2
<1> QED BY <1>1, <1>2 DEF Stream, t

\* Two streams, one from where the other ends.
LEMMA StreamConcat ==
    ASSUME NEW sz, NEW s \in Seq(Byte), NEW t \in Seq(Byte), NEW from, NEW b, NEW to,
           Stream(sz, s, from, b), Stream(sz, t, b, to)
    PROVE  Stream(sz, s \o t, from, to)
<1> DEFINE u == s \o t
<1>1. /\ u \in Seq(Byte) /\ Len(u) = Len(s) + Len(t) /\ Len(s) \in Nat /\ Len(t) \in Nat
      /\ \A i \in 1 .. Len(s) + Len(t) : u[i] = IF i <= Len(s) THEN s[i] ELSE t[i - Len(s)]
  BY ConcatProperties
<1>2. (u = <<>> <=> s = <<>> /\ t = <<>>) /\ (s # <<>> <=> Len(s) # 0) /\ (t # <<>> <=> Len(t) # 0)
  BY ConcatEqualIffEmpty, EmptySeq
<1> HIDE DEF u
<1>3. ASSUME NEW i \in 1 .. Len(u)  PROVE InRange(sz, u[i]) /\ Follows(sz, u, from, i)
  <2>1. CASE i <= Len(s)
    <3>1. i \in 1 .. Len(s) /\ u[i] = s[i] /\ (i # 1 => u[i - 1] = s[i - 1])
      BY <1>1, <2>1
    <3> QED BY <3>1 DEF Stream, Follows
  <2>2. CASE i > Len(s)
    <3> DEFINE j == i - Len(s)
    <3>1. j \in 1 .. Len(t) /\ u[i] = t[j] /\ i \in Nat /\ i # 0
      BY <1>1, <2>2
    <3>2. CASE j = 1
      <4>1. t[j] = b /\ InRange(sz, t[j])
        BY <3>1, <3>2 DEF Stream, Follows
      <4>2. CASE Len(s) = 0
        BY <1>1, <1>2, <3>1, <3>2, <4>1, <4>2 DEF Stream, Follows
      <4>3. CASE Len(s) # 0
        <5>1. i # 1 /\ i - 1 = Len(s) /\ u[i - 1] = s[Len(s)]
          BY <1>1, <2>2, <3>1, <3>2, <4>3
        <5> QED BY <1>2, <3>1, <4>1, <4>3, <5>1 DEF Stream, Follows
      <4> QED BY <4>2, <4>3
    <3>3. CASE j # 1
      <4>1. i # 1 /\ i - 1 \in 1 .. Len(s) + Len(t) /\ i - 1 > Len(s) /\ (i - 1) - Len(s) = j - 1
        BY <1>1, <2>2, <3>1, <3>3
      <4>2. u[i - 1] = t[j - 1]
        BY <1>1, <4>1
      <4> HIDE DEF j
      <4> QED BY <3>1, <3>3, <4>1, <4>2 DEF Stream, Follows
    <3> QED BY <3>2, <3>3
  <2> QED BY <1>1, <2>1, <2>2
<1>4. to = IF u = <<>> THEN from ELSE Nxt(sz, u[Len(u)])
  <2>1. CASE Len(t) = 0
    <3>1. u = s
      BY <1>2, <2>1, ConcatEmptySeq DEF u
    <3> QED BY <1>2, <2>1, <3>1 DEF Stream
  <2>2. CASE Len(t) # 0
    <3>1. u[Len(u)] = t[Len(t)]
      BY <1>1, <2>2
    <3> QED BY <1>2, <2>2, <3>1 DEF Stream
  <2> QED BY <2>1, <2>2
<1> QED BY <1>3, <1>4 DEF Stream, u

\* A stream cut in two.
LEMMA StreamCut ==
    ASSUME NEW sz, NEW s \in Seq(Byte), NEW t \in Seq(Byte), NEW from, NEW to,
           Stream(sz, s \o t, from, to)
    PROVE  \E b : Stream(sz, s, from, b) /\ Stream(sz, t, b, to)
<1> DEFINE u == s \o t
           b == IF s = <<>> THEN from ELSE Nxt(sz, s[Len(s)])
<1>1. /\ u \in Seq(Byte) /\ Len(u) = Len(s) + Len(t) /\ Len(s) \in Nat /\ Len(t) \in Nat
      /\ \A i \in 1 .. Len(s) + Len(t) : u[i] = IF i <= Len(s) THEN s[i] ELSE t[i - Len(s)]
  BY ConcatProperties
<1>2. (u = <<>> <=> s = <<>> /\ t = <<>>) /\ (s # <<>> <=> Len(s) # 0) /\ (t # <<>> <=> Len(t) # 0)
  BY ConcatEqualIffEmpty, EmptySeq
<1>3. \A i \in 1 .. Len(u) : InRange(sz, u[i]) /\ Follows(sz, u, from, i)
  BY DEF Stream
<1>4. to = IF u = <<>> THEN from ELSE Nxt(sz, u[Len(u)])
  BY DEF Stream
<1> HIDE DEF u, b
<1>5. ASSUME NEW i \in 1 .. Len(s)  PROVE InRange(sz, s[i]) /\ Follows(sz, s, from, i)
  <2>1. i \in 1 .. Len(u) /\ u[i] = s[i] /\ (i # 1 => u[i - 1] = s[i - 1])
    BY <1>1
  <2> QED BY <1>3, <2>1 DEF Follows
<1>6. ASSUME NEW j \in 1 .. Len(t)  PROVE InRange(sz, t[j]) /\ Follows(sz, t, b, j)
  <2> DEFINE i == Len(s) + j
  <2>1. i \in 1 .. Len(u) /\ i \in Nat /\ u[i] = t[j]
    <3>1. i \in 1 .. Len(s) + Len(t) /\ ~(i <= Len(s)) /\ i - Len(s) = j
      BY <1>1
    <3> HIDE DEF i
    <3> QED BY <1>1, <3>1
  <2>2. CASE j = 1
    <3>1. CASE Len(s) = 0
      BY <1>2, <1>3, <2>1, <2>2, <3>1 DEF Follows, b
    <3>2. CASE Len(s) # 0
      <4>1. i # 1 /\ i - 1 = Len(s) /\ u[i - 1] = s[Len(s)]
        BY <1>1, <2>2, <3>2
      <4> QED BY <1>2, <1>3, <2>1, <2>2, <3>2, <4>1 DEF Follows, b
    <3> QED BY <3>1, <3>2
  <2>3. CASE j # 1
    <3>1. i # 1 /\ i - 1 \in 1 .. Len(s) + Len(t) /\ i - 1 > Len(s) /\ (i - 1) - Len(s) = j - 1
      BY <1>1, <2>3
    <3>2. u[i - 1] = t[j - 1]
      BY <1>1, <3>1
    <3> HIDE DEF i
    <3> QED BY <1>3, <2>1, <2>3, <3>1, <3>2 DEF Follows
  <2> QED BY <2>2, <2>3
<1>7. Stream(sz, s, from, b)
  BY <1>5 DEF Stream, b
<1>8. to = IF t = <<>> THEN b ELSE Nxt(sz, t[Len(t)])
  <2>1. CASE Len(t) = 0
    <3>1. u = s
      BY <1>2, <2>1, ConcatEmptySeq DEF u
    <3> QED BY <1>2, <1>4, <2>1, <3>1 DEF b
  <2>2. CASE Len(t) # 0
    <3>1. u[Len(u)] = t[Len(t)]
      <4>1. /\ Len(u) \in 1 .. Len(s) + Len(t) /\ ~(Len(u) <= Len(s))
            /\ Len(u) - Len(s) = Len(t)
        BY <1>1, <2>2
      <4> QED BY <1>1, <4>1
    <3> QED BY <1>2, <1>4, <2>2, <3>1
  <2> QED BY <2>1, <2>2
<1>9. Stream(sz, t, b, to)
  BY <1>6, <1>8 DEF Stream
<1> QED BY <1>7, <1>9

\* The sizes of the packets so far do not change.
Extends(more, sz) == \A k \in DOMAIN sz : k \in DOMAIN more /\ more[k] = sz[k]

\* What comes next does not depend on packets sent later.
LEMMA SameNext ==
    ASSUME NEW sz, NEW more, Extends(more, sz), NEW b, InRange(sz, b)
    PROVE  InRange(more, b) /\ Nxt(more, b) = Nxt(sz, b)
BY DEF Extends, InRange, Nxt

\* A stream stays one when more packets are sent.
LEMMA StreamGrows ==
    ASSUME NEW sz, NEW more, Extends(more, sz), NEW s \in Seq(Byte), NEW from, NEW to,
           Stream(sz, s, from, to)
    PROVE  Stream(more, s, from, to)
<1>1. Len(s) \in Nat /\ (s # <<>> => Len(s) \in 1 .. Len(s))
  BY EmptySeq
<1>2. \A i \in 1 .. Len(s) : InRange(sz, s[i]) /\ Follows(sz, s, from, i)
  BY DEF Stream
<1>3. \A i \in 1 .. Len(s) : InRange(more, s[i]) /\ Nxt(more, s[i]) = Nxt(sz, s[i])
  BY <1>2, SameNext
<1>4. \A i \in 1 .. Len(s) : i # 1 => i - 1 \in 1 .. Len(s)
  BY <1>1
<1>5. \A i \in 1 .. Len(s) : Follows(more, s, from, i)
  BY <1>2, <1>3, <1>4 DEF Follows
<1> QED BY <1>1, <1>3, <1>5 DEF Stream

\* The start of a stream is a packet, byte by byte.
LEMMA NaturalMinimum ==
    ASSUME NEW T \in SUBSET Nat, T # {}
    PROVE  \E k \in T : \A j \in T : k <= j
<1> DEFINE LT == {ss \in Nat \X Nat : ss[1] < ss[2]}
<1>1. IsWellFoundedOn(LT, Nat)
  BY NatLessThanWellFounded DEF OpToRel
<1>2. \A x, y \in Nat : x < y => <<x, y>> \in LT
  OBVIOUS
<1> HIDE DEF LT
<1>3. PICK k \in T : \A j \in T : ~(<<j, k>> \in LT)
  BY <1>1, WFMin
<1>4. ASSUME NEW j \in T  PROVE k <= j
  <2>1. j \in Nat /\ k \in Nat
    OBVIOUS
  <2>2. ~(j < k)
    BY <1>2, <1>3, <2>1
  <2> QED BY <2>1, <2>2
<1> QED BY <1>4

\* A run of bytes from the start of a packet counts up.
LEMMA Run ==
    ASSUME NEW sz, NEW s \in Seq(Byte), NEW k \in Nat, NEW to, sz[k] \in Nat,
           Stream(sz, s, <<k, 1>>, to), NEW n \in 1 .. Len(s), n <= sz[k]
    PROVE  s[n] = <<k, n>>
<1> DEFINE T == {i \in Nat : i \in 1 .. Len(s) /\ i <= sz[k] /\ s[i] # <<k, i>>}
<1> SUFFICES ASSUME s[n] # <<k, n>> PROVE FALSE
  OBVIOUS
<1>1. n \in T
  OBVIOUS
<1>2. PICK i \in T : \A j \in T : i <= j
  <2>1. T \in SUBSET Nat /\ T # {}
    BY <1>1
  <2> HIDE DEF T
  <2> QED BY <2>1, NaturalMinimum
<1>3. i \in 1 .. Len(s) /\ i \in Nat /\ i <= sz[k] /\ s[i] # <<k, i>> /\ Len(s) \in Nat
  BY <1>2
<1>4. Follows(sz, s, <<k, 1>>, i)
  BY <1>3 DEF Stream
<1>5. i # 1
  BY <1>3, <1>4 DEF Follows
<1>6. i - 1 \in 1 .. Len(s) /\ i - 1 \in Nat /\ i - 1 <= sz[k] /\ ~(i <= i - 1)
  BY <1>3, <1>5
<1>7. i - 1 \notin T
  BY <1>2, <1>6
<1>8. s[i - 1] = <<k, i - 1>>
  BY <1>6, <1>7
<1>9. Nxt(sz, s[i - 1]) = <<k, i>>
  BY <1>3, <1>6, <1>8 DEF Nxt
<1> QED BY <1>3, <1>4, <1>5, <1>9 DEF Follows

\* A packet is a stream.
LEMMA WholeStream ==
    ASSUME NEW sz, NEW k \in Nat, k \in DOMAIN sz, sz[k] \in Nat \ {0}
    PROVE  /\ Whole(sz, k) \in Seq(Byte) /\ Len(Whole(sz, k)) = sz[k]
           /\ Stream(sz, Whole(sz, k), <<k, 1>>, <<k + 1, 1>>)
<1> DEFINE w == Whole(sz, k)
           n == sz[k]
<1>1. n \in Nat \ {0} /\ w \in [1 .. n -> Byte] /\ \A i \in 1 .. n : w[i] = <<k, i>>
  BY DEF Whole, Byte
<1>2. w \in Seq(Byte) /\ Len(w) = n
  BY <1>1, ByteSeq
<1> HIDE DEF w
<1>3. ASSUME NEW i \in 1 .. n  PROVE InRange(sz, w[i]) /\ Follows(sz, w, <<k, 1>>, i)
  <2>1. InRange(sz, <<k, i>>)
    BY DEF InRange
  <2>2. CASE i = 1
    BY <1>1, <2>1, <2>2 DEF Follows
  <2>3. CASE i # 1
    <3>1. i - 1 \in 1 .. n /\ i - 1 < n /\ (i - 1) + 1 = i
      BY <1>1, <2>3
    <3>2. w[i - 1] = <<k, i - 1>>
      BY <1>1, <3>1
    <3>3. Nxt(sz, <<k, i - 1>>) = <<k, i>>
      BY <3>1 DEF Nxt
    <3> QED BY <1>1, <2>1, <2>3, <3>2, <3>3 DEF Follows
  <2> QED BY <2>2, <2>3
<1>4. w # <<>> /\ w[Len(w)] = <<k, n>> /\ Nxt(sz, <<k, n>>) = <<k + 1, 1>>
  <2>1. n \in 1 .. n
    BY <1>1
  <2> QED BY <1>1, <1>2, <2>1 DEF Nxt
<1>5. Stream(sz, w, <<k, 1>>, <<k + 1, 1>>)
  BY <1>2, <1>3, <1>4 DEF Stream
<1> QED BY <1>2, <1>5 DEF w

\* A byte has one predecessor.
LEMMA NxtInjective ==
    ASSUME NEW sz, NEW n, IsSizes(sz, n), NEW a \in Byte, NEW b \in Byte,
           InRange(sz, a), InRange(sz, b), Nxt(sz, a) = Nxt(sz, b)
    PROVE  a = b
<1> DEFINE a1 == a[1]
           a2 == a[2]
           b1 == b[1]
           b2 == b[2]
<1>1. /\ a = <<a1, a2>> /\ b = <<b1, b2>> /\ a1 \in Nat /\ a2 \in Nat /\ b1 \in Nat /\ b2 \in Nat
      /\ a2 \in 1 .. sz[a1] /\ b2 \in 1 .. sz[b1] /\ sz[a1] \in Nat /\ sz[b1] \in Nat
  BY DEF Byte, InRange, IsSizes
<1>2. (IF a2 < sz[a1] THEN <<a1, a2 + 1>> ELSE <<a1 + 1, 1>>)
      = (IF b2 < sz[b1] THEN <<b1, b2 + 1>> ELSE <<b1 + 1, 1>>)
  BY DEF Nxt
<1> HIDE DEF a1, a2, b1, b2
<1>3. a1 = b1 /\ a2 = b2
  BY <1>1, <1>2
<1> QED BY <1>1, <1>3

-----------------------------------------------------------------------------
(***************************************************************************)
(* The bytes of packets that were not refused.                             *)
(***************************************************************************)
LEMMA StreamGood ==
    ASSUME NEW sz, NEW R, NEW s, NEW to, Stream(sz, s, <<1, 1>>, to)
    PROVE  Good(sz, R, s)
BY DEF Stream, Good

\* What is left of them when what follows is lost.
LEMMA GoodPrefix ==
    ASSUME NEW sz, NEW R, NEW s \in Seq(Byte), NEW t \in Seq(Byte), Good(sz, R, s \o t)
    PROVE  Good(sz, R, s)
<1> DEFINE u == s \o t
<1>1. /\ u \in Seq(Byte) /\ Len(u) = Len(s) + Len(t) /\ Len(s) \in Nat /\ Len(t) \in Nat
      /\ \A i \in 1 .. Len(s) + Len(t) : u[i] = IF i <= Len(s) THEN s[i] ELSE t[i - Len(s)]
  BY ConcatProperties
<1> HIDE DEF u
<1>2. ASSUME NEW i \in 1 .. Len(s)
      PROVE  InRange(sz, s[i]) /\ ((\A k \in R : s[i][1] < k) => Follows(sz, s, <<1, 1>>, i))
  <2>1. i \in 1 .. Len(u) /\ u[i] = s[i] /\ (i # 1 => u[i - 1] = s[i - 1])
    BY <1>1
  <2>2. InRange(sz, u[i]) /\ ((\A k \in R : u[i][1] < k) => Follows(sz, u, <<1, 1>>, i))
    BY <2>1 DEF Good, u
  <2> QED BY <2>1, <2>2 DEF Follows
<1> QED BY <1>2 DEF Good

\* Behind a refused packet anything may follow.
LEMMA GoodExtend ==
    ASSUME NEW sz, NEW more, Extends(more, sz), NEW R, NEW Q, R \subseteq Q,
           NEW s \in Seq(Byte), NEW t \in Seq(Byte), Good(sz, R, s),
           \A i \in 1 .. Len(t) : InRange(more, t[i]) /\ \E k \in Q : ~(t[i][1] < k)
    PROVE  Good(more, Q, s \o t)
<1> DEFINE u == s \o t
<1>1. /\ u \in Seq(Byte) /\ Len(u) = Len(s) + Len(t) /\ Len(s) \in Nat /\ Len(t) \in Nat
      /\ \A i \in 1 .. Len(s) + Len(t) : u[i] = IF i <= Len(s) THEN s[i] ELSE t[i - Len(s)]
  BY ConcatProperties
<1> HIDE DEF u
<1>2. ASSUME NEW i \in 1 .. Len(u)
      PROVE  InRange(more, u[i]) /\ ((\A k \in Q : u[i][1] < k) => Follows(more, u, <<1, 1>>, i))
  <2>1. CASE i <= Len(s)
    <3>1. /\ i \in 1 .. Len(s) /\ u[i] = s[i]
          /\ i # 1 => i - 1 \in 1 .. Len(s) /\ u[i - 1] = s[i - 1]
      BY <1>1, <2>1
    <3>2. InRange(sz, s[i]) /\ ((\A k \in R : s[i][1] < k) => Follows(sz, s, <<1, 1>>, i))
      BY <3>1 DEF Good
    <3>3. i # 1 => InRange(sz, s[i - 1])
      BY <3>1 DEF Good
    <3>4. InRange(more, s[i]) /\ (i # 1 => Nxt(more, s[i - 1]) = Nxt(sz, s[i - 1]))
      BY <3>2, <3>3, SameNext
    <3> QED BY <3>1, <3>2, <3>4 DEF Follows
  <2>2. CASE i > Len(s)
    <3>1. i - Len(s) \in 1 .. Len(t) /\ u[i] = t[i - Len(s)]
      BY <1>1, <2>2
    <3> QED BY <3>1
  <2>3. i <= Len(s) \/ i > Len(s)
    BY <1>1
  <2> QED BY <2>1, <2>2, <2>3
<1> QED BY <1>2 DEF Good, u

-----------------------------------------------------------------------------
(***************************************************************************)
(* Input, one descriptor at a time.                                        *)
(***************************************************************************)
LEMMA ElementFields ==
    ASSUME NEW e \in NetworkElement
    PROVE  /\ e.state \in SckState \cup TunState
           /\ e.net_buffer \in Seq(Byte) /\ e.write_buffer \in Seq(Byte)
           /\ Held(e) \in Seq(Byte) /\ e # None
BY NoneAssumption DEF NetworkElement, Held

\* The assignments to a field of an element.
LEMMA ElementWith ==
    ASSUME NEW e \in NetworkElement
    PROVE  /\ \A x \in SckState \cup TunState :
                /\ WithState(e, x) \in NetworkElement /\ WithState(e, x).state = x
                /\ WithState(e, x).net_buffer = e.net_buffer
                /\ WithState(e, x).write_buffer = e.write_buffer
           /\ \A x \in Seq(Byte) :
                /\ WithInput(e, x) \in NetworkElement /\ WithInput(e, x).net_buffer = x
                /\ WithInput(e, x).state = e.state
                /\ WithInput(e, x).write_buffer = e.write_buffer
                /\ WithOutput(e, x) \in NetworkElement /\ WithOutput(e, x).write_buffer = x
                /\ WithOutput(e, x).state = e.state
                /\ WithOutput(e, x).net_buffer = e.net_buffer
BY DEF NetworkElement, WithState, WithInput, WithOutput

\* The sizes of the packets that a peer sent.
LEMMA InSizesOK ==
    ASSUME NEW t \in BOOLEAN, NEW isz \in Seq(Payloads)
    PROVE  /\ IsSizes(InSizes(t, isz), Len(isz)) /\ DOMAIN InSizes(t, isz) = 1 .. Len(isz)
           /\ \A k \in 1 .. Len(isz) :
                 /\ InSizes(t, isz)[k] = IF t THEN 1 ELSE PACKET_HEADER_SIZE + isz[k]
                 /\ ~t => PACKET_HEADER_SIZE <= InSizes(t, isz)[k]
           /\ \A n \in Payloads :
                 /\ Extends(InSizes(t, Append(isz, n)), InSizes(t, isz))
                 /\ InRange(InSizes(t, Append(isz, n)), <<Len(isz) + 1, 1>>)
<1>1. Len(isz) \in Nat /\ \A k \in 1 .. Len(isz) : isz[k] \in Nat
  <2>1. \A k \in 1 .. Len(isz) : isz[k] \in Payloads
    OBVIOUS
  <2>2. Len(isz) \in Nat /\ Payloads \subseteq Nat
    BY SizeAssumption
  <2> QED BY <2>1, <2>2
<1>2. /\ IsSizes(InSizes(t, isz), Len(isz)) /\ DOMAIN InSizes(t, isz) = 1 .. Len(isz)
      /\ \A k \in 1 .. Len(isz) :
            /\ InSizes(t, isz)[k] = IF t THEN 1 ELSE PACKET_HEADER_SIZE + isz[k]
            /\ ~t => PACKET_HEADER_SIZE <= InSizes(t, isz)[k]
  BY <1>1, SizeAssumption DEF IsSizes, InSizes
<1>3. ASSUME NEW n \in Payloads
      PROVE  /\ Extends(InSizes(t, Append(isz, n)), InSizes(t, isz))
             /\ InRange(InSizes(t, Append(isz, n)), <<Len(isz) + 1, 1>>)
  <2> DEFINE more == Append(isz, n)
  <2>1. /\ Len(more) = Len(isz) + 1 /\ \A k \in 1 .. Len(isz) : more[k] = isz[k]
        /\ more[Len(isz) + 1] = n /\ n \in Nat
    BY SizeAssumption, AppendProperties
  <2> HIDE DEF more
  <2>2. Extends(InSizes(t, more), InSizes(t, isz))
    BY <1>1, <2>1 DEF InSizes, Extends
  <2>3. InRange(InSizes(t, more), <<Len(isz) + 1, 1>>)
    <3>1. /\ Len(isz) + 1 \in 1 .. Len(more)
          /\ InSizes(t, more)[Len(isz) + 1] = IF t THEN 1 ELSE PACKET_HEADER_SIZE + n
      BY <1>1, <2>1 DEF InSizes
    <3>2. 1 \in 1 .. InSizes(t, more)[Len(isz) + 1]
      BY <2>1, <3>1, SizeAssumption
    <3> QED BY <3>1, <3>2 DEF InRange, InSizes
  <2> QED BY <2>2, <2>3 DEF more
<1> QED BY <1>2, <1>3

\* put: what arrived before waits to be read.
LEMMA InputPut ==
    ASSUME NEW t \in BOOLEAN, NEW p, NEW rc \in Seq(Byte), NEW isz, NEW ise, NEW d, NEW e,
           InputOK(t, None, FALSE, p, rc, isz, ise, d), e \in NetworkElement,
           e.state \in {"TUN_RECEIVE", "SCK_HEADER"}, e.net_buffer = <<>>
    PROVE  InputOK(t, e, TRUE, p, rc, isz, ise, d)
<1> DEFINE sz == InSizes(t, isz)
<1>1. Held(e) = <<>> /\ Held(e) \o rc = rc /\ Len(e.net_buffer) = 0
  BY ConcatEmptySeq DEF Held
<1>2. d = <<>> /\ Len(d) + 1 = 1
  BY DEF InputOK
<1>3. HeldOK(sz, e, Len(d) + 1)
  BY <1>1, SizeAssumption DEF HeldOK
<1>4. p # "reset" => Stream(sz, rc, <<1, 1>>, NextIn(sz, isz, ise))
  BY DEF InputOK
<1> QED BY <1>1, <1>2, <1>3, <1>4 DEF InputOK

\* The element goes, the connection is reset: nothing is left to read.
LEMMA InputGone ==
    ASSUME NEW t, NEW e, NEW u, NEW p, NEW rc, NEW isz, NEW ise, NEW d,
           InputOK(t, e, u, p, rc, isz, ise, d)
    PROVE  /\ InputOK(t, None, TRUE, p, <<>>, isz, ise, d)
           /\ InputOK(t, e, u, "reset", <<>>, isz, ise, d)
BY DEF InputOK

\* The peer closes: what it wrote is still there.
LEMMA InputClosed ==
    ASSUME NEW t, NEW e, NEW u, NEW p, NEW q, NEW rc, NEW isz, NEW ise, NEW d,
           InputOK(t, e, u, p, rc, isz, ise, d), p # "reset", q # "reset"
    PROVE  InputOK(t, e, u, q, rc, isz, ise, d)
BY DEF InputOK

\* The element fails, ends, or gets something to write.
LEMMA InputSame ==
    ASSUME NEW t, NEW e, NEW x, NEW u, NEW p, NEW rc, NEW isz, NEW ise, NEW d,
           InputOK(t, e, u, p, rc, isz, ise, d), e # None, x # None,
           \/ x.state \in Failed
           \/ x.net_buffer = e.net_buffer /\ x.state = e.state
           \/ x.net_buffer = e.net_buffer /\ e.state = "SCK_HEADER" /\ x.state = "SCK_EOF"
           \/ x.net_buffer = e.net_buffer /\ e.state = "TUN_RECEIVE" /\ x.state = "TUN_EOF"
    PROVE  InputOK(t, x, u, p, rc, isz, ise, d)
<1>1. CASE x.state \in Failed
  BY <1>1 DEF InputOK
<1>2. CASE x.net_buffer = e.net_buffer /\ x.state = e.state
  BY <1>2 DEF InputOK, HeldOK, Held
<1>3. CASE x.net_buffer = e.net_buffer /\ e.state = "SCK_HEADER" /\ x.state = "SCK_EOF"
  <2>1. Held(x) = Held(e) /\ e.state \notin Failed
    BY <1>3 DEF Held, Failed
  <2>2. \A sz, k : HeldOK(sz, e, k) => HeldOK(sz, x, k)
    BY <1>3, <2>1 DEF HeldOK
  <2> QED BY <2>1, <2>2 DEF InputOK
<1>4. CASE x.net_buffer = e.net_buffer /\ e.state = "TUN_RECEIVE" /\ x.state = "TUN_EOF"
  <2>1. Held(x) = Held(e) /\ e.state \notin Failed
    BY <1>4 DEF Held, Failed
  <2>2. \A sz, k : HeldOK(sz, e, k) => HeldOK(sz, x, k)
    BY <1>4, <2>1 DEF HeldOK
  <2> QED BY <2>1, <2>2 DEF InputOK
<1> QED BY <1>1, <1>2, <1>3, <1>4

\* A byte appended to the second of two streams is appended to both together.
LEMMA AppendBehind ==
    ASSUME NEW r \in Seq(Byte), NEW t \in Seq(Byte), NEW b \in Byte
    PROVE  Append(r \o t, b) = r \o Append(t, b)
<1>1. <<b>> \in Seq(Byte) /\ r \o t \in Seq(Byte)
  BY ConcatProperties
<1>2. Append(t, b) = t \o <<b>> /\ Append(r \o t, b) = (r \o t) \o <<b>>
  BY <1>1, AppendIsConcat
<1>3. (r \o t) \o <<b>> = r \o (t \o <<b>>)
  BY <1>1, ConcatAssociative
<1> QED BY <1>2, <1>3, Zenon

\* The peer writes one byte.
LEMMA InputWritten ==
    ASSUME NEW t \in BOOLEAN, NEW e \in NetworkElement \cup {None}, NEW u \in BOOLEAN, NEW p,
           NEW rc \in Seq(Byte),
           NEW isz \in Seq(Payloads), NEW ise \in Nat, NEW d \in Seq(Seq(Byte)),
           InputOK(t, e, u, p, rc, isz, ise, d), p # "reset",
           NEW more, NEW sent,
           \/ /\ isz # <<>> /\ ise < InSizes(t, isz)[Len(isz)]
              /\ more = isz /\ sent = ise + 1
           \/ /\ ~(isz # <<>> /\ ise < InSizes(t, isz)[Len(isz)])
              /\ sent = 1 /\ \E n \in Payloads : more = Append(isz, n)
    PROVE  InputOK(t, e, u, p, IF e = None /\ u THEN rc ELSE Append(rc, <<Len(more), sent>>),
                   more, sent, d)
<1> DEFINE sz == InSizes(t, isz)
           big == InSizes(t, more)
           b == <<Len(more), sent>>
           L == Len(isz)
<1>1. /\ L \in Nat /\ IsSizes(sz, L) /\ DOMAIN sz = 1 .. L /\ (isz # <<>> => L \in 1 .. L)
      /\ \A k \in 1 .. L : sz[k] \in Nat
  <2>1. IsSizes(sz, L) /\ DOMAIN sz = 1 .. L
    BY InSizesOK
  <2>2. L \in Nat /\ (isz # <<>> => L \in 1 .. L)
    BY EmptySeq
  <2> QED BY <2>1, <2>2 DEF IsSizes
<1>2. isz # <<>> => ise \in 1 .. sz[L]
  BY DEF InputOK
<1>3. /\ Extends(big, sz) /\ InRange(big, b) /\ b \in Byte /\ b = NextIn(sz, isz, ise)
      /\ more # <<>>
  <2>1. CASE isz # <<>> /\ ise < sz[L] /\ more = isz /\ sent = ise + 1
    <3>1. Extends(big, sz)
      BY <2>1 DEF Extends
    <3>2. sent \in 1 .. sz[L] /\ sent \in Nat
      BY <1>1, <1>2, <2>1
    <3>3. InRange(big, b) /\ b \in Byte
      BY <1>1, <2>1, <3>2 DEF InRange, Byte
    <3>4. b = NextIn(sz, isz, ise)
      BY <2>1 DEF NextIn, Nxt
    <3> QED BY <2>1, <3>1, <3>3, <3>4
  <2>2. ASSUME ~(isz # <<>> /\ ise < sz[L]), sent = 1, NEW n \in Payloads, more = Append(isz, n)
        PROVE  /\ Extends(big, sz) /\ InRange(big, b) /\ b \in Byte /\ b = NextIn(sz, isz, ise)
               /\ more # <<>>
    <3>1. Len(more) = L + 1 /\ more # <<>>
      BY <2>2, AppendProperties
    <3>2. Extends(big, sz) /\ InRange(big, b)
      BY <2>2, <3>1, InSizesOK
    <3>3. b \in Byte /\ b = <<L + 1, 1>>
      BY <1>1, <2>2, <3>1 DEF Byte
    <3>4. NextIn(sz, isz, ise) = <<L + 1, 1>>
      <4>1. CASE isz = <<>>
        BY <4>1 DEF NextIn
      <4>2. CASE isz # <<>>
        BY <2>2, <4>2 DEF NextIn, Nxt
      <4> QED BY <4>1, <4>2
    <3> QED BY <3>1, <3>2, <3>3, <3>4
  <2> QED BY <2>1, <2>2
<1> DEFINE to == NextIn(big, more, sent)
<1>4. to = Nxt(big, b) /\ sent \in 1 .. big[Len(more)]
  BY <1>3 DEF NextIn, InRange
<1> HIDE DEF sz, big, b, to
<1>5. ASSUME NEW s \in Seq(Byte), NEW from, Stream(sz, s, from, NextIn(sz, isz, ise))
      PROVE  Stream(big, Append(s, b), from, to)
  BY <1>3, <1>4, <1>5, StreamGrows, StreamAppend
<1>6. \A k : k \in DOMAIN sz => k \in DOMAIN big /\ big[k] = sz[k]
  BY <1>3 DEF Extends
<1>7. \A k \in 1 .. Len(d) : k \in DOMAIN big /\ d[k] = Whole(big, k)
  BY <1>6 DEF InputOK, Whole, sz
<1>8. ASSUME ~u  PROVE e = None /\ d = <<>> /\ Stream(big, Append(rc, b), <<1, 1>>, to)
  BY <1>5, <1>8 DEF InputOK, sz
<1>9. ASSUME e # None, e.state \notin Failed
      PROVE  /\ HeldOK(big, e, Len(d) + 1)
             /\ Stream(big, Held(e) \o Append(rc, b), <<Len(d) + 1, 1>>, to)
  <2>1. e \in NetworkElement /\ Held(e) \in Seq(Byte)
    BY <1>9, ElementFields
  <2>2. /\ HeldOK(sz, e, Len(d) + 1)
        /\ Stream(sz, Held(e) \o rc, <<Len(d) + 1, 1>>, NextIn(sz, isz, ise))
    BY <1>9 DEF InputOK, sz
  <2>3. Held(e) \o rc \in Seq(Byte)
    BY <2>1, ConcatProperties
  <2>4. Append(Held(e) \o rc, b) = Held(e) \o Append(rc, b)
    <3>1. Held(e) \in Seq(Byte) /\ rc \in Seq(Byte) /\ b \in Byte
      BY <1>3, <2>1
    <3> QED BY <3>1, AppendBehind
  <2>5. Stream(big, Held(e) \o Append(rc, b), <<Len(d) + 1, 1>>, to)
    BY <1>5, <2>2, <2>3, <2>4
  <2>6. Held(e) # <<>> \/ e.state \in {"SCK_PAYLOAD", "SCK_READY", "TUN_READY"} => Len(d) + 1 \in DOMAIN sz
    <3>1. e.state \in {"SCK_READY", "TUN_READY"} => Held(e) # <<>>
      BY <2>2 DEF HeldOK, Held
    <3>2. e.state = "SCK_PAYLOAD" => Held(e) # <<>>
      <4> SUFFICES ASSUME e.state = "SCK_PAYLOAD", Held(e) = <<>> PROVE FALSE
        OBVIOUS
      <4>1. Len(e.net_buffer) = 0
        BY DEF Held
      <4> QED BY <2>2, <4>1, SizeAssumption DEF HeldOK
    <3> QED BY <2>2, <3>1, <3>2 DEF HeldOK
  <2>7. HeldOK(big, e, Len(d) + 1)
    BY <1>6, <2>2, <2>6 DEF HeldOK
  <2> QED BY <2>5, <2>7
<1>10. p # "reset" /\ more # <<>> /\ sent \in 1 .. big[Len(more)]
  BY <1>3, <1>4
<1>11. CASE e = None /\ u
  BY <1>7, <1>10, <1>11 DEF InputOK, big
<1>12. CASE ~(e = None /\ u)
  BY <1>7, <1>8, <1>9, <1>10, <1>12 DEF InputOK, big, to, b
<1> QED BY <1>11, <1>12 DEF b

\* read() takes some of what is wanted.
ReadOK(e, u, p, rc, isz, ise, d, size, next) ==
    LET w == size - Len(e.net_buffer)
        n == IF w <= Len(rc) THEN w ELSE Len(rc)
        x == WithState(WithInput(e, e.net_buffer \o SubSeq(rc, 1, n)),
                       IF n = w THEN next ELSE e.state)
    IN  /\ w \in Nat /\ x \in NetworkElement /\ SubSeq(rc, n + 1, Len(rc)) \in Seq(Byte)
        /\ x.write_buffer = e.write_buffer
        /\ x.state = IF n = w THEN next ELSE e.state
        /\ InputOK(FALSE, x, u, p, SubSeq(rc, n + 1, Len(rc)), isz, ise, d)
\* read().
LEMMA InputRead ==
    ASSUME NEW e \in NetworkElement, NEW u, NEW p, NEW rc \in Seq(Byte),
           NEW isz \in Seq(Payloads), NEW ise \in Nat, NEW d \in Seq(Seq(Byte)),
           InputOK(FALSE, e, u, p, rc, isz, ise, d), NEW size, NEW next,
           \/ e.state = "SCK_HEADER" /\ next = "SCK_PAYLOAD" /\ size = PACKET_HEADER_SIZE
           \/ /\ e.state = "SCK_PAYLOAD" /\ next = "SCK_READY"
              /\ size = InSizes(FALSE, isz)[e.net_buffer[1][1]]
    PROVE  ReadOK(e, u, p, rc, isz, ise, d, size, next)
<1> DEFINE sz == InSizes(FALSE, isz)
           buf == e.net_buffer
           k == Len(d) + 1
           w == size - Len(buf)
           n == IF w <= Len(rc) THEN w ELSE Len(rc)
           new == SubSeq(rc, 1, n)
           left == SubSeq(rc, n + 1, Len(rc))
           all == buf \o new
           y == IF n = w THEN next ELSE e.state
           x == WithState(WithInput(e, all), y)
           to == NextIn(sz, isz, ise)
<1>1. /\ buf \in Seq(Byte) /\ Len(buf) \in Nat /\ Len(rc) \in Nat /\ k \in Nat
      /\ e.state \notin Failed /\ e # None /\ Held(e) = buf
  <2>1. buf \in Seq(Byte) /\ e # None
    BY ElementFields
  <2>2. e.state \notin Failed /\ Held(e) = buf
    BY DEF Failed, Held
  <2>3. Len(d) \in Nat
    OBVIOUS
  <2> QED BY <2>1, <2>2, <2>3
<1>2. /\ HeldOK(sz, e, k)
      /\ p # "reset" => Stream(sz, buf \o rc, <<k, 1>>, to)
      /\ p = "reset" => rc = <<>>
  BY <1>1 DEF InputOK
<1>3. /\ \A j \in DOMAIN sz : sz[j] \in Nat /\ PACKET_HEADER_SIZE <= sz[j]
      /\ PACKET_HEADER_SIZE \in Nat \ {0}
  <2>1. IsSizes(sz, Len(isz)) /\ DOMAIN sz = 1 .. Len(isz)
        /\ \A j \in 1 .. Len(isz) : PACKET_HEADER_SIZE <= sz[j]
    BY InSizesOK
  <2> QED BY <2>1, SizeAssumption DEF IsSizes
<1>17. \/ e.state = "SCK_HEADER" /\ next = "SCK_PAYLOAD" /\ size = PACKET_HEADER_SIZE
       \/ e.state = "SCK_PAYLOAD" /\ next = "SCK_READY" /\ size = sz[buf[1][1]]
  OBVIOUS
<1> HIDE DEF sz
<1>4. buf \o rc # <<>> => k \in DOMAIN sz
  <2> DEFINE s == buf \o rc
  <2>1. s \in Seq(Byte)
    BY <1>1, ConcatProperties
  <2>2. ASSUME s # <<>>, p # "reset"  PROVE k \in DOMAIN sz
    <3>1. 1 \in 1 .. Len(s)
      BY <2>1, <2>2, EmptySeq
    <3>2. InRange(sz, s[1]) /\ s[1] = <<k, 1>>
      BY <1>2, <2>2, <3>1 DEF Stream, Follows
    <3> QED BY <3>2 DEF InRange
  <2>3. ASSUME s # <<>>, p = "reset"  PROVE k \in DOMAIN sz
    <3>1. buf # <<>>
      BY <1>1, <1>2, <2>3
    <3> QED BY <1>1, <1>2, <3>1 DEF HeldOK
  <2> QED BY <2>2, <2>3
<1>5. w \in Nat /\ (k \in DOMAIN sz => size <= sz[k]) /\ size \in Nat \ {0}
  <2>1. CASE e.state = "SCK_HEADER" /\ size = PACKET_HEADER_SIZE
    <3>1. Len(buf) < PACKET_HEADER_SIZE
      BY <1>2, <2>1 DEF HeldOK
    <3> QED BY <1>1, <1>3, <2>1, <3>1
  <2>2. CASE e.state = "SCK_PAYLOAD" /\ size = sz[buf[1][1]]
    <3>1. Len(buf) \in PACKET_HEADER_SIZE .. sz[k]
      BY <1>2, <2>2 DEF HeldOK
    <3>2. Len(buf) # 0
      BY <1>1, <1>3, <3>1
    <3>3. buf # <<>> /\ 1 \in 1 .. Len(buf)
      BY <1>1, <3>2
    <3>4. k \in DOMAIN sz /\ buf[1] = <<k, 1>>
      BY <1>1, <1>2, <3>3 DEF HeldOK
    <3>5. size = sz[k]
      BY <2>2, <3>4
    <3> QED BY <1>1, <1>3, <3>1, <3>4, <3>5
  <2> QED BY <1>17, <2>1, <2>2
<1> HIDE DEF w, to
<1>6. n \in 0 .. Len(rc) /\ n \in Nat /\ n <= w
  BY <1>1, <1>5
<1> HIDE DEF n
<1>7. left \in Seq(Byte) /\ (p = "reset" => left = <<>>)
  <2>1. left \in Seq(Byte)
    BY <1>6, Cut
  <2>2. ASSUME p = "reset"  PROVE left = <<>>
    BY <1>2, <1>6, <2>2
  <2> QED BY <2>1, <2>2
<1>8. all \in Seq(Byte) /\ Len(all) = Len(buf) + n /\ all \o left = buf \o rc
      /\ (p = "reset" => all = buf)
  <2> HIDE DEF buf
  <2>1. buf \in Seq(Byte)
    BY <1>1
  <2>2. /\ buf \o SubSeq(rc, 1, n) \in Seq(Byte)
        /\ Len(buf \o SubSeq(rc, 1, n)) = Len(buf) + n
        /\ (buf \o SubSeq(rc, 1, n)) \o SubSeq(rc, n + 1, Len(rc)) = buf \o rc
    <3>1. n \in 0 .. Len(rc)
      BY <1>6
    <3> QED BY <2>1, <3>1, BytesMove
  <2>3. ASSUME p = "reset"  PROVE all = buf
    <3>1. SubSeq(rc, 1, n) = <<>>
      BY <1>2, <1>6, <2>3
    <3>2. buf \o <<>> = buf
      BY <2>1
    <3> QED BY <3>1, <3>2
  <2> QED BY <2>2, <2>3
<1> HIDE DEF all, new, left
<1>9. y \in SckState \cup TunState
  BY ElementFields DEF SckState
<1>10. /\ x \in NetworkElement /\ x # None /\ x.state = y /\ x.net_buffer = all
       /\ x.write_buffer = e.write_buffer
  <2>1. /\ WithInput(e, all) \in NetworkElement /\ WithInput(e, all).net_buffer = all
        /\ WithInput(e, all).write_buffer = e.write_buffer
    BY <1>8, ElementWith
  <2>2. PICK z, next_state : z = WithInput(e, all) /\ next_state = y
    OBVIOUS
  <2>3. z \in NetworkElement /\ next_state \in SckState \cup TunState
    BY <1>9, <2>1, <2>2
  <2>4. /\ WithState(z, next_state) \in NetworkElement
        /\ WithState(z, next_state).state = next_state
        /\ WithState(z, next_state).net_buffer = z.net_buffer
        /\ WithState(z, next_state).write_buffer = z.write_buffer
    BY <2>3, ElementWith
  <2>5. WithState(z, next_state) # None
    BY <2>4, ElementFields
  <2>6. x = WithState(z, next_state)
    BY <2>2
  <2> HIDE DEF x, y
  <2> QED BY <2>1, <2>2, <2>4, <2>5, <2>6
<1> HIDE DEF x
<1>11. Held(x) = all /\ x.state \notin Failed
  <2>1. y \in {"SCK_HEADER", "SCK_PAYLOAD", "SCK_READY"}
    OBVIOUS
  <2> QED BY <1>10, <2>1 DEF Held, Failed
<1>12. p # "reset" => Stream(sz, Held(x) \o left, <<k, 1>>, to)
  BY <1>2, <1>8, <1>11
<1>13. Len(all) <= size /\ Len(all) \in Nat /\ (n = w <=> Len(all) = size)
  <2>1. w = size - Len(buf)
    BY DEF w
  <2> QED BY <1>1, <1>5, <1>6, <1>8, <2>1
<1>14. all # <<>> => k \in DOMAIN sz
  <2>1. all # <<>> => buf \o rc # <<>>
    BY <1>7, <1>8, ConcatEqualIffEmpty
  <2> QED BY <1>4, <2>1
<1>15. HeldOK(sz, x, k)
  <2>1. ASSUME NEW i \in 1 .. Len(all)  PROVE all[i] = <<k, i>>
    <3>1. all # <<>> /\ k \in DOMAIN sz
      BY <1>13, <1>14, <2>1
    <3>2. CASE p = "reset"
      BY <1>1, <1>2, <1>8, <2>1, <3>2 DEF HeldOK
    <3>3. sz[k] \in Nat /\ size <= sz[k]
      BY <1>3, <1>5, <3>1
    <3>4. i <= sz[k]
      BY <1>5, <1>13, <3>3
    <3>5. CASE p # "reset"
      <4>1. PICK b : Stream(sz, all, <<k, 1>>, b)
        BY <1>7, <1>8, <1>11, <1>12, <3>5, StreamCut
      <4> QED BY <1>1, <1>8, <3>3, <3>4, <4>1, Run
    <3> QED BY <3>2, <3>5
  <2>2. CASE n # w
    <3>1. x.state = e.state /\ Len(all) < size
      BY <1>5, <1>10, <1>13, <2>2
    <3>2. CASE e.state = "SCK_HEADER"
      <4>1. size = PACKET_HEADER_SIZE
        BY <3>2
      <4> QED BY <1>10, <1>11, <1>14, <2>1, <3>1, <3>2, <4>1 DEF HeldOK
    <3>3. CASE e.state = "SCK_PAYLOAD"
      <4>1. Len(buf) \in PACKET_HEADER_SIZE .. sz[k]
        BY <1>2, <3>3 DEF HeldOK
      <4>2. Len(all) \in Nat \ {0} /\ PACKET_HEADER_SIZE <= Len(all)
        BY <1>1, <1>3, <1>6, <1>8, <4>1
      <4>3. all # <<>> /\ k \in DOMAIN sz
        BY <1>14, <4>2
      <4>4. Len(all) \in PACKET_HEADER_SIZE .. sz[k]
        BY <1>3, <1>5, <3>1, <4>2, <4>3
      <4> QED BY <1>10, <1>11, <1>14, <2>1, <3>1, <3>3, <4>4 DEF HeldOK
    <3> QED BY <3>2, <3>3
  <2>3. CASE n = w
    <3>1. x.state = next /\ Len(all) = size
      BY <1>10, <1>13, <2>3
    <3>2. all # <<>>
      BY <1>5, <3>1
    <3>3. k \in DOMAIN sz
      BY <1>14, <3>2
    <3>4. CASE next = "SCK_PAYLOAD" /\ size = PACKET_HEADER_SIZE
      <4>1. Len(all) \in PACKET_HEADER_SIZE .. sz[k]
        BY <1>3, <3>1, <3>3, <3>4
      <4> QED BY <1>10, <1>11, <2>1, <3>1, <3>3, <3>4, <4>1 DEF HeldOK
    <3>5. CASE e.state = "SCK_PAYLOAD" /\ next = "SCK_READY"
      <4>1. size = sz[k]
        <5>1. Len(buf) \in PACKET_HEADER_SIZE .. sz[k]
          BY <1>2, <3>5 DEF HeldOK
        <5>2. 1 \in 1 .. Len(buf)
          BY <1>1, <1>3, <3>3, <5>1
        <5>3. buf[1] = <<k, 1>>
          BY <1>1, <1>2, <5>2 DEF HeldOK
        <5> QED BY <1>17, <3>5, <5>3
      <4> QED BY <1>10, <1>11, <2>1, <3>1, <3>2, <3>3, <3>5, <4>1 DEF HeldOK
    <3> QED BY <3>4, <3>5
  <2> QED BY <2>2, <2>3
<1>16. InputOK(FALSE, x, u, p, left, isz, ise, d)
  BY <1>1, <1>7, <1>10, <1>12, <1>15 DEF InputOK, sz, to
<1> QED BY <1>5, <1>7, <1>10, <1>16 DEF ReadOK, w, n, x, y, all, new, left

\* A TUN device gives the next packet.
LEMMA InputReadTun ==
    ASSUME NEW e \in NetworkElement, NEW u, NEW p, NEW rc \in Seq(Byte), rc # <<>>,
           NEW isz \in Seq(Payloads), NEW ise \in Nat, NEW d \in Seq(Seq(Byte)),
           InputOK(TRUE, e, u, p, rc, isz, ise, d), p # "reset", e.state = "TUN_RECEIVE",
           NEW x, x \in NetworkElement, x.state = "TUN_READY", x.net_buffer = <<Head(rc)>>
    PROVE  InputOK(TRUE, x, u, p, Tail(rc), isz, ise, d)
<1> DEFINE sz == InSizes(TRUE, isz)
           k == Len(d) + 1
           to == NextIn(sz, isz, ise)
<1>1. Held(e) = <<>> /\ e.state \notin Failed /\ e # None /\ k \in Nat
  BY ElementFields DEF Held, Failed
<1>2. Held(e) \o rc = rc
  BY <1>1, ConcatEmptySeq
<1>3. Stream(sz, rc, <<k, 1>>, to)
  BY <1>1, <1>2 DEF InputOK
<1>4. 1 \in 1 .. Len(rc)
  BY EmptySeq
<1>5. rc[1] = <<k, 1>> /\ InRange(sz, <<k, 1>>)
  BY <1>3, <1>4 DEF Stream, Follows
<1>6. k \in DOMAIN sz /\ sz[k] = 1
  BY <1>5, InSizesOK DEF InRange
<1>7. Head(rc) = <<k, 1>> /\ <<Head(rc)>> \o Tail(rc) = rc
  BY <1>5, HeadFirst
<1>8. Held(x) = <<<<k, 1>>>> /\ Held(x) \o Tail(rc) = rc /\ x.state \notin Failed /\ x # None
  BY <1>7, ElementFields DEF Held, Failed
<1>9. HeldOK(sz, x, k)
  <2>1. Len(Held(x)) = 1 /\ Held(x)[1] = <<k, 1>> /\ Held(x) # <<>> /\ x.net_buffer = Held(x)
    BY <1>7, <1>8
  <2>2. \A i \in 1 .. Len(Held(x)) : Held(x)[i] = <<k, i>>
    BY <2>1
  <2> HIDE DEF sz
  <2> QED BY <1>6, <2>1, <2>2 DEF HeldOK
<1> HIDE DEF sz, to
<1> QED BY <1>1, <1>3, <1>8, <1>9 DEF InputOK, sz, to

\* The packet is handed over: the next one follows, or the connection is given up.
LEMMA InputDelivered ==
    ASSUME NEW t \in BOOLEAN, NEW e \in NetworkElement, NEW u, NEW p, NEW rc \in Seq(Byte),
           NEW isz \in Seq(Payloads), NEW ise \in Nat, NEW d \in Seq(Seq(Byte)),
           InputOK(t, e, u, p, rc, isz, ise, d), e.state \in {"SCK_READY", "TUN_READY"},
           NEW x, x # None, NEW left,
           \/ x.state = "SCK_HEADER" /\ x.net_buffer = <<>> /\ left = rc
           \/ x.state = "TUN_RECEIVE" /\ left = rc
           \/ x.state \in Failed /\ (left = rc \/ left = <<>>)
    PROVE  InputOK(t, x, u, p, left, isz, ise, Append(d, e.net_buffer))
<1> DEFINE sz == InSizes(t, isz)
           buf == e.net_buffer
           k == Len(d) + 1
           to == NextIn(sz, isz, ise)
           more == Append(d, buf)
<1>1. /\ buf \in Seq(Byte) /\ Held(e) = buf /\ e.state \notin Failed /\ e # None /\ k \in Nat
      /\ Len(d) \in Nat
  <2>1. buf \in Seq(Byte) /\ e # None
    BY ElementFields
  <2>2. e.state \notin Failed /\ Held(e) = buf
    BY DEF Failed, Held
  <2>3. Len(d) \in Nat
    OBVIOUS
  <2> QED BY <2>1, <2>2, <2>3
<1>2. HeldOK(sz, e, k) /\ (p # "reset" => Stream(sz, buf \o rc, <<k, 1>>, to))
  BY <1>1 DEF InputOK
<1>3. k \in DOMAIN sz /\ Len(buf) = sz[k] /\ \A i \in 1 .. Len(buf) : buf[i] = <<k, i>>
  <2> HIDE DEF sz
  <2> QED BY <1>1, <1>2 DEF HeldOK
<1>4. sz[k] \in Nat \ {0}
  <2>1. IsSizes(sz, Len(isz)) /\ DOMAIN sz = 1 .. Len(isz)
    BY InSizesOK
  <2> HIDE DEF sz
  <2> QED BY <1>3, <2>1 DEF IsSizes
<1>5. \A j \in 1 .. Len(d) : j \in DOMAIN sz /\ d[j] = Whole(sz, j)
  BY DEF InputOK
<1>6. /\ isz # <<>> => ise \in 1 .. sz[Len(isz)]
      /\ p = "reset" => rc = <<>>
      /\ u \/ e = None
  BY DEF InputOK
<1> HIDE DEF sz, to, buf
<1>7. /\ Whole(sz, k) \in Seq(Byte) /\ Len(Whole(sz, k)) = sz[k]
      /\ Stream(sz, Whole(sz, k), <<k, 1>>, <<k + 1, 1>>)
  BY <1>1, <1>3, <1>4, WholeStream
<1>8. buf = Whole(sz, k)
  <2>1. \A i \in 1 .. Len(buf) : buf[i] = Whole(sz, k)[i]
    BY <1>3 DEF Whole
  <2> QED BY <1>1, <1>3, <1>7, <2>1, SeqEqual
<1>9. /\ Len(more) = k /\ \A j \in 1 .. Len(d) : more[j] = d[j]
      /\ more[k] = buf
  BY <1>1, AppendProperties
<1> HIDE DEF more
<1>10. \A j \in 1 .. Len(more) : j \in DOMAIN sz /\ more[j] = Whole(sz, j)
  <2>1. \A j \in 1 .. Len(more) : j \in 1 .. Len(d) \/ j = k
    BY <1>1, <1>9
  <2> QED BY <1>3, <1>5, <1>8, <1>9, <2>1
<1>11. ASSUME p # "reset"  PROVE Stream(sz, rc, <<k + 1, 1>>, to)
  <2>1. PICK b : Stream(sz, buf, <<k, 1>>, b) /\ Stream(sz, rc, b, to)
    BY <1>1, <1>2, <1>11, StreamCut
  <2>2. b = <<k + 1, 1>>
    BY <1>7, <1>8, <2>1 DEF Stream
  <2> QED BY <2>1, <2>2
<1>12. ASSUME x.state \notin Failed
       PROVE  HeldOK(sz, x, k + 1) /\ Held(x) \o left = rc
  <2>1. Held(x) = <<>> /\ left = rc
    BY <1>12 DEF Held
  <2>2. Held(x) \o left = rc
    BY <2>1, ConcatEmptySeq
  <2>3. HeldOK(sz, x, k + 1)
    BY <1>12, <2>1, SizeAssumption DEF HeldOK, Failed
  <2> QED BY <2>2, <2>3
<1>13. u /\ (p = "reset" => left = <<>>)
  BY <1>1, <1>6
<1>14. InputOK(t, x, u, p, left, isz, ise, more)
  BY <1>6, <1>9, <1>10, <1>11, <1>12, <1>13 DEF InputOK, sz, to
<1> QED BY <1>14 DEF more, buf

-----------------------------------------------------------------------------
(***************************************************************************)
(* send: what it adds to what was written and is still to be written.      *)
(***************************************************************************)
Outgoing(r) == r.snd \o r.element.write_buffer
IsSent(r) ==
    /\ r.ok \in BOOLEAN /\ r.element \in NetworkElement /\ r.armed \in SUBSET Events
    /\ r.snd \in Seq(Byte) /\ Len(r.snd) <= SndBuf
\* q is what a send makes of r.
SentFrom(r, q, reset) ==
    /\ IsSent(q) /\ q.element.net_buffer = r.element.net_buffer
    /\ q.element.state = r.element.state \/ q.element.state = "SCK_ERROR"
    /\ q.ok => q.element.state = r.element.state
    /\ reset => q.snd = r.snd

\* The fields of what a send makes.
LEMMA SentFields ==
    ASSUME NEW ok, NEW e, NEW a, NEW s
    PROVE  /\ Sent(ok, e, a, s).ok = ok /\ Sent(ok, e, a, s).element = e
           /\ Sent(ok, e, a, s).armed = a /\ Sent(ok, e, a, s).snd = s
BY DEF Sent

\* The empty sequence.
LEMMA Empties ==
    /\ <<>> \in Seq(Byte)
    /\ \A s \in Seq(Byte) : s \o <<>> = s /\ <<>> \o s = s /\ Len(s) \in Nat
    /\ \A s \in Seq(Byte) : SubSeq(s, 1, 0) = <<>> /\ SubSeq(s, 1, Len(s)) = s
BY ConcatEmptySeq, SubSeqEmpty, SubSeqFull

\* Sequences of bytes are put together in any order.
Assoc(r, s, t) == (r \o s) \o t = r \o (s \o t)
LEMMA Associates ==
    \A r, s, t \in Seq(Byte) :
        Assoc(r, s, t) /\ r \o s \in Seq(Byte) /\ Len(r \o s) = Len(r) + Len(s)
BY ConcatAssociative, ConcatProperties DEF Assoc

\* q is what is left when the bytes b have been sent: all of them, or some when it is not ok.
Adds(r, b, reset, q) ==
    /\ SentFrom(r, q, reset)
    /\ q.ok /\ ~reset => Outgoing(q) = Outgoing(r) \o b
    /\ ~q.ok /\ ~reset => \E n \in 0 .. Len(b) : Outgoing(q) = Outgoing(r) \o SubSeq(b, 1, n)

\* send, of some bytes.
LEMMA SendBytesAdds ==
    ASSUME NEW r, IsSent(r), NEW b \in Seq(Byte), NEW reset \in BOOLEAN
    PROVE  Adds(r, b, reset, SendBytes(r, b, reset))
<1> SUFFICES ASSUME NEW q, q = SendBytes(r, b, reset)  PROVE Adds(r, b, reset, q)
  OBVIOUS
<1>0. q = SendBytes(r, b, reset)
  OBVIOUS
<1> DEFINE e == r.element
           wb == e.write_buffer
           u == Len(r.snd)
           bad == WithState(e, "SCK_ERROR")
<1>1. /\ e \in NetworkElement /\ wb \in Seq(Byte) /\ r.snd \in Seq(Byte) /\ r.armed \in SUBSET Events
      /\ u \in Nat /\ u <= SndBuf /\ Len(b) \in Nat /\ Len(wb) \in Nat
      /\ "SCK_ERROR" \in SckState \cup TunState
  BY ElementFields DEF IsSent, SckState
<1>2. /\ bad \in NetworkElement /\ bad.state = "SCK_ERROR"
      /\ bad.net_buffer = e.net_buffer /\ bad.write_buffer = wb
  BY <1>1, ElementWith
<1>3. ASSUME NEW x \in Seq(Byte)
      PROVE  /\ WithOutput(e, x) \in NetworkElement /\ WithOutput(e, x).state = e.state
             /\ WithOutput(e, x).net_buffer = e.net_buffer
             /\ WithOutput(e, x).write_buffer = x
  BY <1>1, ElementWith
<1>4. Outgoing(r) \in Seq(Byte) /\ Outgoing(r) = r.snd \o wb
  BY <1>1, Associates DEF Outgoing
<1>5. CASE wb # <<>>
  <2>1. q = Buffer(r, b)
    BY <1>0, <1>5 DEF SendBytes
  <2>2. CASE Len(wb) + Len(b) > WRITE_BUFFER_MAX
    <3>1. q = Sent(FALSE, bad, r.armed, r.snd)
      BY <2>1, <2>2 DEF Buffer, WithState
    <3> HIDE DEF bad
    <3>2. q.ok = FALSE /\ q.element = bad /\ q.armed = r.armed /\ q.snd = r.snd
      BY <3>1 DEF Sent
    <3>3. SentFrom(r, q, reset)
      BY <1>1, <1>2, <3>2 DEF SentFrom, IsSent
    <3>4. Outgoing(q) = Outgoing(r)
      BY <1>2, <1>4, <3>2 DEF Outgoing
    <3>5. SubSeq(b, 1, 0) = <<>> /\ Outgoing(r) \o <<>> = Outgoing(r)
      BY <1>4, Empties
    <3>6. 0 \in 0 .. Len(b)
      BY <1>1
    <3>7. Outgoing(q) = Outgoing(r) \o SubSeq(b, 1, 0)
      BY <3>4, <3>5
    <3> QED BY <3>2, <3>3, <3>6, <3>7 DEF Adds
  <2>3. CASE ~(Len(wb) + Len(b) > WRITE_BUFFER_MAX)
    <3> DEFINE x == wb \o b
               ex == WithOutput(e, x)
    <3>1. q = Sent(TRUE, ex, r.armed, r.snd)
      BY <2>1, <2>3 DEF Buffer, WithOutput
    <3>2. x \in Seq(Byte) /\ r.snd \o x = (r.snd \o wb) \o b
      <4>1. x \in Seq(Byte) /\ Assoc(r.snd, wb, b)
        BY <1>1, Associates
      <4> QED BY <4>1 DEF Assoc
    <3>3. /\ ex \in NetworkElement /\ ex.state = e.state /\ ex.net_buffer = e.net_buffer
          /\ ex.write_buffer = x
      <4> HIDE DEF x
      <4> QED BY <1>3, <3>2
    <3> HIDE DEF x, ex
    <3>4. q.ok = TRUE /\ q.element = ex /\ q.armed = r.armed /\ q.snd = r.snd
      BY <3>1 DEF Sent
    <3>5. SentFrom(r, q, reset)
      BY <1>1, <3>3, <3>4 DEF SentFrom, IsSent
    <3>6. Outgoing(q) = Outgoing(r) \o b
      BY <1>4, <3>2, <3>3, <3>4 DEF Outgoing
    <3> QED BY <3>4, <3>5, <3>6 DEF Adds
  <2> QED BY <2>2, <2>3
<1>6. CASE wb = <<>>
  <2> DEFINE n == IF Len(b) <= Room(r.snd) THEN Len(b) ELSE Room(r.snd)
             first == SubSeq(b, 1, n)
             rest == SubSeq(b, n + 1, Len(b))
             s == r.snd \o first
             ex == WithOutput(e, rest)
  <2>1. q = WriteThrough(r, b, reset)
    BY <1>0, <1>6 DEF SendBytes
  <2>2. n \in 0 .. Len(b) /\ n \in Nat /\ u + n <= SndBuf
    <3> DEFINE lb == Len(b)
    <3>1. lb \in Nat /\ u \in Nat /\ SndBuf \in Nat /\ u <= SndBuf
      BY <1>1, SizeAssumption
    <3>2. Room(r.snd) = SndBuf - u
      BY DEF Room
    <3> HIDE DEF lb, u
    <3>3. n = IF lb <= SndBuf - u THEN lb ELSE SndBuf - u
      BY <3>2 DEF lb
    <3> HIDE DEF n
    <3>4. n \in 0 .. lb /\ n \in Nat /\ u + n <= SndBuf
      BY <3>1, <3>3
    <3> QED BY <3>4 DEF lb
  <2>3. Outgoing(r) = r.snd
    BY <1>1, <1>4, <1>6, Empties
  <2>4. CASE reset
    <3>1. q = Sent(FALSE, e, r.armed, r.snd)
      BY <2>1, <2>4 DEF WriteThrough
    <3>2. q.ok = FALSE /\ q.element = e /\ q.armed = r.armed /\ q.snd = r.snd
      BY <3>1 DEF Sent
    <3>3. SentFrom(r, q, reset)
      BY <1>1, <3>2 DEF SentFrom, IsSent
    <3> QED BY <2>4, <3>3 DEF Adds
  <2>5. /\ s \in Seq(Byte) /\ Len(s) = u + n /\ rest \in Seq(Byte)
        /\ s \o rest = r.snd \o b
    <3> HIDE DEF n
    <3> QED BY <1>1, <2>2, BytesMove
  <2>6. s \in Seq(Byte) /\ Len(s) <= SndBuf /\ rest \in Seq(Byte)
    <3> HIDE DEF s, n, u, rest
    <3> QED BY <2>2, <2>5
  <2>7. CASE ~reset /\ rest = <<>>
    <3>1. ~(Len(rest) > WRITE_BUFFER_MAX)
      <4> HIDE DEF rest
      <4> QED BY <2>7, SizeAssumption
    <3>2. q = Sent(TRUE, e, r.armed, s)
      BY <2>1, <2>7, <3>1 DEF WriteThrough
    <3> HIDE DEF n, s, rest
    <3>3. s = r.snd \o b
      BY <2>5, <2>6, <2>7, Empties
    <3>4. q.ok = TRUE /\ q.element = e /\ q.armed = r.armed /\ q.snd = s
      BY <3>2 DEF Sent
    <3>5. SentFrom(r, q, reset)
      BY <1>1, <2>6, <2>7, <3>4 DEF SentFrom, IsSent
    <3>6. Outgoing(q) = s \o <<>>
      BY <1>6, <3>4 DEF Outgoing
    <3>7. Outgoing(q) = s
      BY <2>6, <3>6, Empties
    <3> QED BY <2>3, <3>3, <3>4, <3>5, <3>7 DEF Adds
  <2>8. CASE ~reset /\ rest # <<>> /\ Len(rest) > WRITE_BUFFER_MAX
    <3>1. q = Sent(FALSE, bad, r.armed, s)
      BY <2>1, <2>8 DEF WriteThrough, WithState
    <3> HIDE DEF n, s, rest, bad
    <3>2. q.ok = FALSE /\ q.element = bad /\ q.armed = r.armed /\ q.snd = s
      BY <3>1 DEF Sent
    <3>3. SentFrom(r, q, reset)
      BY <1>1, <1>2, <2>6, <2>8, <3>2 DEF SentFrom, IsSent
    <3>4. Outgoing(q) = s \o <<>>
      BY <1>2, <1>6, <3>2 DEF Outgoing
    <3>5. Outgoing(q) = s
      BY <2>6, <3>4, Empties
    <3>6. Outgoing(q) = Outgoing(r) \o SubSeq(b, 1, n)
      BY <2>3, <3>5 DEF s
    <3> QED BY <2>2, <3>2, <3>3, <3>6 DEF Adds
  <2>9. CASE ~reset /\ rest # <<>> /\ ~(Len(rest) > WRITE_BUFFER_MAX)
    <3>1. q = Sent(TRUE, ex, {"IN", "OUT"}, s)
      BY <2>1, <2>9 DEF WriteThrough, WithOutput
    <3>2. /\ ex \in NetworkElement /\ ex.state = e.state /\ ex.net_buffer = e.net_buffer
          /\ ex.write_buffer = rest
      <4> HIDE DEF rest
      <4> QED BY <1>3, <2>6
    <3> HIDE DEF n, s, rest, ex
    <3>3. q.ok = TRUE /\ q.element = ex /\ q.armed = {"IN", "OUT"} /\ q.snd = s
      BY <3>1 DEF Sent
    <3>4. SentFrom(r, q, reset)
      BY <1>1, <2>6, <2>9, <3>2, <3>3 DEF SentFrom, IsSent, Events
    <3>5. Outgoing(q) = Outgoing(r) \o b
      BY <2>3, <2>5, <3>2, <3>3 DEF Outgoing
    <3> QED BY <3>3, <3>4, <3>5 DEF Adds
  <2> QED BY <2>4, <2>7, <2>8, <2>9
<1> QED BY <1>5, <1>6

\* c is bytes of packet k, which has m of them.
Of(k, m, c) == c \in Seq(Byte) /\ \A i \in 1 .. Len(c) : c[i][1] = k /\ c[i][2] \in 1 .. m
PacketBytes(k, n) == Header(k) \o Payload(k, n)

\* The bytes of a packet: the header, then the payload.
LEMMA Packets ==
    ASSUME NEW k \in Nat, NEW n \in Nat
    PROVE  /\ Header(k) \in Seq(Byte) /\ Len(Header(k)) = PACKET_HEADER_SIZE
           /\ Payload(k, n) \in Seq(Byte) /\ Len(Payload(k, n)) = n
           /\ PacketBytes(k, n) \in Seq(Byte) /\ Len(PacketBytes(k, n)) = PACKET_HEADER_SIZE + n
           /\ \A i \in 1 .. PACKET_HEADER_SIZE + n : PacketBytes(k, n)[i] = <<k, i>>
           /\ Of(k, PACKET_HEADER_SIZE + n, PacketBytes(k, n))
<1> DEFINE H == PACKET_HEADER_SIZE
           h == Header(k)
           p == Payload(k, n)
           b == PacketBytes(k, n)
<1>1. H \in Nat \ {0}
  BY SizeAssumption
<1>2. h \in [1 .. H -> Byte] /\ \A i \in 1 .. H : h[i] = <<k, i>>
  BY <1>1 DEF Header, Byte
<1>3. p \in [1 .. n -> Byte] /\ \A i \in 1 .. n : p[i] = <<k, H + i>>
  BY <1>1 DEF Payload, Byte
<1>4. h \in Seq(Byte) /\ Len(h) = H /\ p \in Seq(Byte) /\ Len(p) = n
  BY <1>1, <1>2, <1>3, ByteSeq
<1> HIDE DEF h, p
<1>5. /\ b \in Seq(Byte) /\ Len(b) = H + n
      /\ \A i \in 1 .. H + n : b[i] = IF i <= H THEN h[i] ELSE p[i - H]
  <2>1. b = h \o p
    BY DEF PacketBytes, h, p
  <2>2. /\ h \o p \in Seq(Byte) /\ Len(h \o p) = Len(h) + Len(p)
        /\ \A i \in 1 .. Len(h) + Len(p) : (h \o p)[i] = IF i <= Len(h) THEN h[i] ELSE p[i - Len(h)]
    BY <1>4, ConcatProperties
  <2>3. Len(h) = H /\ Len(p) = n
    BY <1>4
  <2> HIDE DEF b
  <2> QED BY <2>1, <2>2, <2>3
<1> HIDE DEF b
<1>6. ASSUME NEW i \in 1 .. H + n  PROVE b[i] = <<k, i>>
  <2>1. CASE i <= H
    <3>1. i \in 1 .. H
      BY <1>1, <2>1
    <3> QED BY <1>2, <1>5, <2>1, <3>1
  <2>2. CASE ~(i <= H)
    <3>1. i - H \in 1 .. n /\ H + (i - H) = i
      BY <1>1, <2>2
    <3>2. b[i] = p[i - H]
      BY <1>5, <2>2
    <3>3. p[i - H] = <<k, H + (i - H)>>
      BY <1>3, <3>1
    <3> QED BY <3>1, <3>2, <3>3
  <2> QED BY <2>1, <2>2
<1>7. Of(k, H + n, b)
  <2>1. \A i \in 1 .. H + n : b[i][1] = k /\ b[i][2] \in 1 .. H + n
    BY <1>6
  <2> QED BY <1>5, <2>1 DEF Of
<1> QED BY <1>4, <1>5, <1>6, <1>7 DEF h, p, b

\* A part of a packet.
LEMMA OfPrefix ==
    ASSUME NEW k, NEW m, NEW c \in Seq(Byte), NEW d \in Seq(Byte), Of(k, m, c \o d)
    PROVE  Of(k, m, c)
<1>1. /\ Len(c \o d) = Len(c) + Len(d) /\ Len(c) \in Nat /\ Len(d) \in Nat
      /\ \A i \in 1 .. Len(c) + Len(d) : (c \o d)[i] = IF i <= Len(c) THEN c[i] ELSE d[i - Len(c)]
  BY ConcatProperties
<1>2. \A i \in 1 .. Len(c) : i \in 1 .. Len(c \o d) /\ (c \o d)[i] = c[i]
  BY <1>1
<1> QED BY <1>2 DEF Of

\* q is what is left of r when packet k has been sent, n bytes long.
AddsPacket(r, k, n, reset, q) ==
    /\ SentFrom(r, q, reset)
    /\ q.ok /\ ~reset => Outgoing(q) = Outgoing(r) \o PacketBytes(k, n)
    /\ ~q.ok /\ ~reset =>
          \E c : Of(k, PACKET_HEADER_SIZE + n, c) /\ Outgoing(q) = Outgoing(r) \o c

\* send, of a packet.
LEMMA SendPacketAdds ==
    ASSUME NEW f, element[f] \in NetworkElement, armed[f] \in SUBSET Events,
           snd[f] \in Seq(Byte), Len(snd[f]) <= SndBuf, NEW k \in Nat, NEW n \in Nat
    PROVE  AddsPacket(Sent(TRUE, element[f], armed[f], snd[f]), k, n, peer[f] = "reset",
                      SendPacket(f, k, n))
<1> SUFFICES ASSUME NEW r, r = Sent(TRUE, element[f], armed[f], snd[f]),
                    NEW q, q = SendPacket(f, k, n), NEW reset, reset = (peer[f] = "reset")
             PROVE  AddsPacket(r, k, n, reset, q)
  OBVIOUS
<1> DEFINE H == PACKET_HEADER_SIZE
<1>0. PICK h, p, m : h = Header(k) /\ p = Payload(k, n) /\ m = SendBytes(r, h, reset)
  OBVIOUS
<1>1. IsSent(r) /\ reset \in BOOLEAN
  BY DEF IsSent, Sent
<1>2. /\ h \in Seq(Byte) /\ p \in Seq(Byte) /\ h \o p \in Seq(Byte) /\ Len(p) = n
      /\ Of(k, H + n, h \o p) /\ h \o p = PacketBytes(k, n)
  BY <1>0, Packets DEF PacketBytes
<1>3. q = IF ~m.ok \/ n = 0 THEN m ELSE SendBytes(m, p, reset)
  BY <1>0 DEF SendPacket
<1>4. Adds(r, h, reset, m)
  BY <1>0, <1>1, <1>2, SendBytesAdds
<1>5. Outgoing(r) \in Seq(Byte)
  BY <1>1, ElementFields, Associates DEF IsSent, Outgoing
<1>6. Of(k, H + n, h)
  BY <1>2, OfPrefix
<1>7. CASE ~m.ok
  <2>1. q = m
    BY <1>3, <1>7
  <2>2. ASSUME ~reset  PROVE \E c : Of(k, H + n, c) /\ Outgoing(m) = Outgoing(r) \o c
    <3>1. PICK i \in 0 .. Len(h) : Outgoing(m) = Outgoing(r) \o SubSeq(h, 1, i)
      BY <1>4, <1>7, <2>2 DEF Adds
    <3>2. /\ SubSeq(h, 1, i) \in Seq(Byte) /\ SubSeq(h, i + 1, Len(h)) \in Seq(Byte)
          /\ SubSeq(h, 1, i) \o SubSeq(h, i + 1, Len(h)) = h
      BY <1>2, Cut
    <3>3. Of(k, H + n, SubSeq(h, 1, i))
      BY <1>6, <3>2, OfPrefix
    <3> QED BY <3>1, <3>3
  <2> QED BY <1>4, <1>7, <2>1, <2>2 DEF Adds, AddsPacket
<1>8. CASE m.ok /\ n = 0
  <2>1. p = <<>>
    BY <1>2, <1>8
  <2>2. q = m /\ h \o p = h
    BY <1>2, <1>3, <1>8, <2>1, Empties
  <2> QED BY <1>2, <1>4, <1>8, <2>2 DEF Adds, AddsPacket
<1>9. CASE m.ok /\ n # 0
  <2>1. q = SendBytes(m, p, reset) /\ IsSent(m)
    BY <1>3, <1>4, <1>9 DEF Adds, SentFrom
  <2>2. Adds(m, p, reset, q)
    BY <1>1, <1>2, <2>1, SendBytesAdds
  <2>3. SentFrom(r, q, reset)
    BY <1>4, <1>9, <2>2 DEF SentFrom, Adds
  <2>4. ~reset => Outgoing(m) = Outgoing(r) \o h
    BY <1>4, <1>9 DEF Adds
  <2>5. \A a \in Seq(Byte) : (Outgoing(r) \o h) \o a = Outgoing(r) \o (h \o a)
    <3> SUFFICES ASSUME NEW a \in Seq(Byte)
                 PROVE  (Outgoing(r) \o h) \o a = Outgoing(r) \o (h \o a)
      OBVIOUS
    <3>1. PICK o : o = Outgoing(r)
      OBVIOUS
    <3>2. o \in Seq(Byte) /\ h \in Seq(Byte) /\ a \in Seq(Byte)
      BY <1>2, <1>5, <3>1
    <3>3. (o \o h) \o a = o \o (h \o a)
      <4>1. Assoc(o, h, a)
        BY <3>2, Associates
      <4> QED BY <4>1 DEF Assoc
    <3> QED BY <3>1, <3>3
  <2>6. q.ok /\ ~reset => Outgoing(q) = Outgoing(m) \o p
    BY <2>2 DEF Adds
  <2>7. q.ok /\ ~reset => Outgoing(q) = Outgoing(r) \o (h \o p)
    BY <1>2, <2>4, <2>5, <2>6
  <2>8. ASSUME ~reset, ~q.ok  PROVE \E c : Of(k, H + n, c) /\ Outgoing(q) = Outgoing(r) \o c
    <3>1. PICK i \in 0 .. Len(p) : Outgoing(q) = Outgoing(m) \o SubSeq(p, 1, i)
      BY <2>2, <2>8 DEF Adds
    <3>2. PICK a, z : a = SubSeq(p, 1, i) /\ z = SubSeq(p, i + 1, Len(p))
      OBVIOUS
    <3>3. a \in Seq(Byte) /\ z \in Seq(Byte) /\ a \o z = p
      BY <1>2, <3>2, Cut
    <3>4. h \in Seq(Byte) /\ a \in Seq(Byte) /\ z \in Seq(Byte)
      BY <1>2, <3>3
    <3>5. (h \o a) \o z = h \o (a \o z) /\ h \o a \in Seq(Byte)
      <4>1. Assoc(h, a, z) /\ h \o a \in Seq(Byte)
        BY <3>4, Associates
      <4> QED BY <4>1 DEF Assoc
    <3>6. PICK ha : ha = h \o a
      OBVIOUS
    <3>7. ha \in Seq(Byte) /\ ha \o z = h \o p
      BY <3>3, <3>5, <3>6
    <3>8. Of(k, H + n, ha \o z)
      BY <1>2, <3>7
    <3>9. Of(k, H + n, ha)
      BY <3>4, <3>7, <3>8, OfPrefix
    <3>10. Outgoing(q) = Outgoing(r) \o ha
      BY <2>4, <2>5, <2>8, <3>1, <3>2, <3>4, <3>6
    <3> QED BY <3>9, <3>10
  <2> QED BY <1>2, <2>3, <2>7, <2>8 DEF AddsPacket
<1> QED BY <1>7, <1>8, <1>9

-----------------------------------------------------------------------------
(***************************************************************************)
(* Output, one descriptor at a time.                                       *)
(***************************************************************************)
LEMMA EmptyConcat == \A s, t \in Seq(Byte) : s \o t = <<>> => s = <<>>
BY ConcatEqualIffEmpty

\* What goes to a peer is a sequence of bytes.
LEMMA TotalBytes ==
    ASSUME NEW e \in NetworkElement \cup {None}, NEW p, NEW g \in Seq(Byte), NEW sn \in Seq(Byte),
           NEW dr \in Seq(Byte)
    PROVE  Unwritten(e, p, dr) \in Seq(Byte) /\ Total(e, p, g, sn, dr) \in Seq(Byte)
<1>1. \A r, s \in Seq(Byte) : r \o s \in Seq(Byte)
  BY ConcatProperties
<1>2. CASE e = None
  BY <1>1, <1>2, Empties DEF Unwritten, Total
<1>3. CASE e \in NetworkElement
  <2>1. e.write_buffer \in Seq(Byte) /\ e # None
    BY <1>3, ElementFields
  <2>2. Unwritten(e, p, dr) \in Seq(Byte)
    BY <1>1, <2>1, Empties DEF Unwritten
  <2> QED BY <1>1, <2>2 DEF Total
<1> QED BY <1>2, <1>3

\* Bytes move towards the peer, or nothing happens to them.
LEMMA OutputSame ==
    ASSUME NEW e, NEW x, NEW u, NEW p, NEW q, NEW g, NEW h, NEW sn, NEW st, NEW dr, NEW ds, NEW os,
           NEW rf, NEW ov, NEW c, NEW d,
           OutputOK(e, u, p, g, sn, dr, os, rf, ov, c), p = "reset" <=> q = "reset",
           Total(x, q, h, st, ds) = Total(e, p, g, sn, dr), p = "reset" => st = <<>>,
           x # None => e # None /\ (c /\ e.state = "SCK_ERROR" => d /\ x.state = "SCK_ERROR"),
           ~ov /\ ds # <<>> => x # None /\ x.write_buffer = <<>>
    PROVE  OutputOK(x, u, q, h, st, ds, os, rf, ov, d)
BY DEF OutputOK

\* put.
LEMMA OutputPut ==
    ASSUME NEW p, NEW g \in Seq(Byte), NEW sn \in Seq(Byte), NEW os, NEW rf, NEW ov, NEW c, NEW d,
           OutputOK(None, FALSE, p, g, sn, <<>>, os, rf, ov, c), NEW x, x # None,
           x.write_buffer = <<>>
    PROVE  OutputOK(x, TRUE, p, g, sn, <<>>, os, rf, ov, d)
<1>1. Unwritten(x, p, <<>>) = Unwritten(None, p, <<>>)
  BY Empties DEF Unwritten
<1>2. Total(x, p, g, sn, <<>>) = Total(None, p, g, sn, <<>>)
  BY <1>1 DEF Total
<1>3. os = <<>> /\ Total(None, p, g, sn, <<>>) = <<>>
  BY DEF OutputOK
<1>4. Stream(OutSizes(os), <<>>, <<1, 1>>, <<Len(os) + 1, 1>>)
  BY <1>3 DEF Stream
<1> QED BY <1>2, <1>3, <1>4 DEF OutputOK

\* What is not written is lost.
LEMMA OutputLost ==
    ASSUME NEW e \in NetworkElement \cup {None}, NEW x \in NetworkElement \cup {None},
           NEW u, NEW p, NEW q, NEW g \in Seq(Byte), NEW sn \in Seq(Byte), NEW st \in Seq(Byte),
           NEW dr \in Seq(Byte), NEW os, NEW rf, NEW ov, NEW c, NEW d,
           OutputOK(e, u, p, g, sn, dr, os, rf, ov, c),
           \/ x = None /\ dr = <<>> /\ st = sn /\ q = p
           \/ q = "reset" /\ st = <<>> /\ x = e
           \/ /\ x # None /\ x.write_buffer = <<>> /\ dr = <<>> /\ st = sn /\ q = p
              /\ d /\ x.state = "SCK_ERROR"
    PROVE  OutputOK(x, u, q, g, st, dr, os, rf, ov, d)
<1> DEFINE s == Total(e, p, g, sn, dr)
           t == Total(x, q, g, st, dr)
<1>1. t \in Seq(Byte) /\ \E l \in Seq(Byte) : s = t \o l
  <2>1. Unwritten(e, p, dr) \in Seq(Byte) /\ g \o sn \in Seq(Byte)
    BY TotalBytes, Associates
  <2>2. s = (g \o sn) \o Unwritten(e, p, dr)
    BY DEF Total
  <2>3. CASE Unwritten(x, q, dr) = <<>> /\ st = sn
    <3>1. t = g \o sn
      BY <2>1, <2>3, Empties DEF Total
    <3> QED BY <2>1, <2>2, <3>1
  <2>4. CASE q = "reset" /\ st = <<>>
    <3>1. Unwritten(x, q, dr) = <<>>
      BY <2>4 DEF Unwritten
    <3>2. t = (g \o <<>>) \o <<>>
      BY <2>4, <3>1 DEF Total
    <3>3. t = g
      BY <3>2, Empties
    <3>4. PICK w : w = Unwritten(e, p, dr)
      OBVIOUS
    <3>5. g \in Seq(Byte) /\ sn \in Seq(Byte) /\ w \in Seq(Byte)
      BY <2>1, <3>4
    <3>6. (g \o sn) \o w = g \o (sn \o w) /\ sn \o w \in Seq(Byte)
      <4>1. Assoc(g, sn, w) /\ sn \o w \in Seq(Byte)
        BY <3>5, Associates
      <4> QED BY <4>1 DEF Assoc
    <3> QED BY <2>2, <3>3, <3>4, <3>6
  <2>5. x = None /\ dr = <<>> => Unwritten(x, q, dr) = <<>>
    BY Empties DEF Unwritten
  <2>6. x # None /\ x.write_buffer = <<>> /\ dr = <<>> => Unwritten(x, q, dr) = <<>>
    BY Empties DEF Unwritten
  <2> QED BY <2>3, <2>4, <2>5, <2>6
<1>2. PICK l \in Seq(Byte) : s = t \o l
  BY <1>1
<1> HIDE DEF s, t
<1>3. ~ov => Good(OutSizes(os), rf, t)
  <2>1. ~ov => Good(OutSizes(os), rf, s)
    BY DEF OutputOK, s
  <2>2. ~ov => Good(OutSizes(os), rf, t \o l)
    BY <1>2, <2>1
  <2> HIDE DEF OutSizes
  <2> QED BY <1>1, <2>2, GoodPrefix
<1>4. ~u => os = <<>> /\ t = <<>> /\ ~ov
  <2>1. ~u => os = <<>> /\ s = <<>> /\ ~ov
    BY DEF OutputOK, s
  <2>2. s = <<>> => t = <<>>
    BY <1>1, <1>2, EmptyConcat
  <2> QED BY <2>1, <2>2
<1>5. p = "reset" => sn = <<>>
  BY DEF OutputOK
<1>6. ~ov /\ dr # <<>> => e # None /\ e.write_buffer = <<>>
  BY DEF OutputOK
<1>7. q = "reset" => st = <<>>
  BY <1>5
<1>8. ~ov /\ dr # <<>> => x # None /\ x.write_buffer = <<>>
  BY <1>6
<1>9. x # None /\ q # "reset" => d /\ x.state = "SCK_ERROR"
  OBVIOUS
<1> QED BY <1>3, <1>4, <1>7, <1>8, <1>9 DEF OutputOK, t

\* A send that fails on a socket that was reset.
LEMMA OutputRefused ==
    ASSUME NEW e, NEW u, NEW g, NEW sn, NEW dr, NEW os, NEW rf, NEW rg, NEW ov, NEW c, NEW d,
           OutputOK(e, u, "reset", g, sn, dr, os, rf, ov, c), rf \subseteq rg
    PROVE  OutputOK(e, u, "reset", g, sn, <<>>, os, rg, ov, d)
<1>1. \A sz, s : Good(sz, rf, s) => Good(sz, rg, s)
  BY DEF Good
<1>2. Total(e, "reset", g, sn, <<>>) = Total(e, "reset", g, sn, dr)
  BY DEF Total, Unwritten
<1> QED BY <1>1, <1>2 DEF OutputOK

\* The sizes of the packets sent, and of one more.
LEMMA OutSizesOK ==
    ASSUME NEW os \in Seq(Payloads \cup {0}), NEW n \in Payloads \cup {0}
    PROVE  LET sz   == OutSizes(os)
               more == OutSizes(Append(os, n))
               k    == Len(os) + 1
           IN  /\ Len(os) \in Nat /\ k \in Nat /\ n \in Nat
               /\ Len(Append(os, n)) = k /\ Append(os, n) # <<>>
               /\ IsSizes(sz, Len(os)) /\ IsSizes(more, k) /\ Extends(more, sz)
               /\ k \in DOMAIN more /\ more[k] = PACKET_HEADER_SIZE + n
               /\ \A j \in 1 .. Len(os) : sz[j] = PACKET_HEADER_SIZE + os[j]
<1> DEFINE all == Append(os, n)
           k == Len(os) + 1
<1>1. /\ Len(os) \in Nat /\ Len(all) = k /\ all # <<>> /\ \A j \in 1 .. Len(os) : all[j] = os[j]
      /\ all[k] = n /\ all \in Seq(Payloads \cup {0})
  BY AppendProperties
<1>2. \A t \in Seq(Payloads \cup {0}) : \A j \in 1 .. Len(t) : t[j] \in Nat
  <2>1. \A t \in Seq(Payloads \cup {0}) : \A j \in 1 .. Len(t) : t[j] \in Payloads \cup {0}
    OBVIOUS
  <2>2. Payloads \cup {0} \subseteq Nat
    BY SizeAssumption
  <2> QED BY <2>1, <2>2
<1>3. n \in Nat /\ PACKET_HEADER_SIZE \in Nat \ {0}
  BY SizeAssumption
<1> HIDE DEF all
<1>4. \A t \in Seq(Payloads \cup {0}) :
         /\ IsSizes(OutSizes(t), Len(t))
         /\ \A j \in 1 .. Len(t) : j \in DOMAIN OutSizes(t) /\ OutSizes(t)[j] = PACKET_HEADER_SIZE + t[j]
  BY <1>2, <1>3 DEF OutSizes, IsSizes
<1>5. Extends(OutSizes(all), OutSizes(os))
  BY <1>1 DEF Extends, OutSizes
<1>6. k \in 1 .. Len(all)
  BY <1>1
<1>7. k \in Nat
  BY <1>1
<1>8. IsSizes(OutSizes(os), Len(os)) /\ IsSizes(OutSizes(all), k)
  BY <1>1, <1>4
<1>9. k \in DOMAIN OutSizes(all) /\ OutSizes(all)[k] = PACKET_HEADER_SIZE + n
  BY <1>1, <1>4, <1>6
<1>10. \A j \in 1 .. Len(os) : OutSizes(os)[j] = PACKET_HEADER_SIZE + os[j]
  BY <1>4
<1> QED BY <1>1, <1>3, <1>5, <1>7, <1>8, <1>9, <1>10 DEF all

\* A packet goes out, whole, or in part and the socket is given up.
Grows(e, x, p, g, sn, st, ds, os, n, rf, rg, ov, ow, c, b) ==
    /\ e \in NetworkElement /\ x # None /\ g \in Seq(Byte) /\ sn \in Seq(Byte)
    /\ os \in Seq(Payloads \cup {0}) /\ n \in Payloads \cup {0} /\ rf \subseteq 1 .. Len(os)
    /\ OutputOK(e, TRUE, p, g, sn, <<>>, os, rf, ov, c) /\ ~(c /\ e.state = "SCK_ERROR")
    /\ (p = "reset" => st = <<>>) /\ (~ow => ~ov)
    /\ ~ow /\ ds # <<>> => x.write_buffer = <<>>
    /\ ~ow => Total(x, p, g, st, ds) = Total(e, p, g, sn, <<>>) \o b
    /\ \/ p = "reset" /\ b = <<>> /\ rf \subseteq rg
       \/ p # "reset" /\ b = PacketBytes(Len(os) + 1, n) /\ rg = rf
       \/ Of(Len(os) + 1, PACKET_HEADER_SIZE + n, b) /\ rg = rf \cup {Len(os) + 1}

LEMMA OutputGrows ==
    ASSUME NEW e, NEW x, NEW p, NEW g, NEW sn, NEW st, NEW ds, NEW os, NEW n, NEW rf, NEW rg,
           NEW ov, NEW ow, NEW c, NEW d, NEW b,
           Grows(e, x, p, g, sn, st, ds, os, n, rf, rg, ov, ow, c, b)
    PROVE  OutputOK(x, TRUE, p, g, st, ds, Append(os, n), rg, ow, d)
<1>0. /\ e \in NetworkElement /\ x # None /\ g \in Seq(Byte) /\ sn \in Seq(Byte)
      /\ os \in Seq(Payloads \cup {0}) /\ n \in Payloads \cup {0} /\ rf \subseteq 1 .. Len(os)
      /\ OutputOK(e, TRUE, p, g, sn, <<>>, os, rf, ov, c) /\ ~(c /\ e.state = "SCK_ERROR")
      /\ (p = "reset" => st = <<>>) /\ (~ow => ~ov)
      /\ ~ow /\ ds # <<>> => x.write_buffer = <<>>
      /\ ~ow => Total(x, p, g, st, ds) = Total(e, p, g, sn, <<>>) \o b
      /\ \/ p = "reset" /\ b = <<>> /\ rf \subseteq rg
         \/ p # "reset" /\ b = PacketBytes(Len(os) + 1, n) /\ rg = rf
         \/ Of(Len(os) + 1, PACKET_HEADER_SIZE + n, b) /\ rg = rf \cup {Len(os) + 1}
  BY DEF Grows
<1> USE <1>0
<1>1. PICK s, t, sz, more, k :
        /\ s = Total(e, p, g, sn, <<>>) /\ t = Total(x, p, g, st, ds)
        /\ sz = OutSizes(os) /\ more = OutSizes(Append(os, n)) /\ k = Len(os) + 1
  OBVIOUS
<1>2. /\ Len(os) \in Nat /\ k \in Nat /\ n \in Nat /\ Len(Append(os, n)) = k
      /\ IsSizes(more, k) /\ Extends(more, sz)
      /\ k \in DOMAIN more /\ more[k] = PACKET_HEADER_SIZE + n
  BY <1>1, OutSizesOK
<1>3. s \in Seq(Byte)
  BY <1>1, TotalBytes, Empties
<1>4. /\ ~ov => Good(sz, rf, s)
      /\ ~ov /\ p # "reset" /\ rf = {} => Stream(sz, s, <<1, 1>>, <<k, 1>>)
  BY <1>1, ElementFields DEF OutputOK
<1>5. PICK w : w = PacketBytes(k, n)
  OBVIOUS
<1>6. /\ w \in Seq(Byte) /\ Len(w) = PACKET_HEADER_SIZE + n /\ Of(k, PACKET_HEADER_SIZE + n, w)
      /\ \A i \in 1 .. PACKET_HEADER_SIZE + n : w[i] = <<k, i>>
  BY <1>2, <1>5, Packets
<1>7. \A a : Of(k, PACKET_HEADER_SIZE + n, a) =>
         /\ a \in Seq(Byte)
         /\ \A i \in 1 .. Len(a) : InRange(more, a[i]) /\ a[i][1] = k
  BY <1>2 DEF Of, InRange
<1>8. ASSUME NEW a, Of(k, PACKET_HEADER_SIZE + n, a), ~ov, rf \subseteq rg,
             \E j \in rg : ~(k < j)
      PROVE  Good(more, rg, s \o a)
  <2>1. a \in Seq(Byte) /\ \A i \in 1 .. Len(a) : InRange(more, a[i]) /\ \E j \in rg : ~(a[i][1] < j)
    BY <1>7, <1>8
  <2>2. Good(sz, rf, s) /\ Extends(more, sz)
    BY <1>2, <1>4, <1>8
  <2> QED BY <1>3, <1>8, <2>1, <2>2, GoodExtend
<1>9. ~ow => t = s \o b
  BY <1>1
<1> DEFINE Done == /\ Good(more, rg, t)
                   /\ p # "reset" /\ rg = {} => Stream(more, t, <<1, 1>>, <<k + 1, 1>>)
<1>10. ASSUME ~ow, p = "reset", b = <<>>, rf \subseteq rg  PROVE Done
  <2>1. /\ <<>> \in Seq(Byte)
        /\ \A i \in 1 .. Len(<<>>) : InRange(more, <<>>[i]) /\ \E j \in rg : ~(<<>>[i][1] < j)
    OBVIOUS
  <2>2. Good(sz, rf, s) /\ Extends(more, sz)
    BY <1>2, <1>4, <1>10
  <2>3. Good(more, rg, s \o <<>>)
    BY <1>3, <1>10, <2>1, <2>2, GoodExtend
  <2> QED BY <1>9, <1>10, <2>3
<1>11. ASSUME ~ow, p # "reset", b = PacketBytes(Len(os) + 1, n), rg = rf  PROVE Done
  <2>1. b = w
    BY <1>1, <1>5, <1>11
  <2>2. CASE rf = {}
    <3>1. Stream(sz, s, <<1, 1>>, <<k, 1>>)
      BY <1>4, <1>11, <2>2
    <3>2. Stream(more, s, <<1, 1>>, <<k, 1>>)
      BY <1>2, <1>3, <3>1, StreamGrows
    <3>3. /\ Whole(more, k) \in Seq(Byte) /\ Len(Whole(more, k)) = more[k]
          /\ Stream(more, Whole(more, k), <<k, 1>>, <<k + 1, 1>>)
      <4>1. more[k] \in Nat \ {0}
        BY <1>2, SizeAssumption
      <4> QED BY <1>2, <4>1, WholeStream
    <3>4. w = Whole(more, k)
      <4>1. Len(w) = Len(Whole(more, k))
        BY <1>2, <1>6, <3>3
      <4>2. \A i \in 1 .. Len(w) : w[i] = Whole(more, k)[i]
        BY <1>2, <1>6 DEF Whole
      <4> QED BY <1>6, <3>3, <4>1, <4>2, SeqEqual
    <3>5. Stream(more, w, <<k, 1>>, <<k + 1, 1>>)
      BY <3>3, <3>4
    <3>6. Stream(more, s \o w, <<1, 1>>, <<k + 1, 1>>)
      BY <1>3, <1>6, <3>2, <3>5, StreamConcat
    <3>7. Good(more, rg, s \o w)
      BY <3>6, StreamGood
    <3> QED BY <1>9, <1>11, <2>1, <3>6, <3>7
  <2>3. CASE rf # {}
    <3>1. \E j \in rg : ~(k < j)
      <4>1. PICK j \in rf : TRUE
        BY <2>3
      <4>2. j \in 1 .. Len(os)
        OBVIOUS
      <4>3. ~(k < j)
        BY <1>1, <1>2, <4>2
      <4> QED BY <1>11, <4>3
    <3>2. Good(more, rg, s \o w)
      BY <1>6, <1>8, <1>11, <3>1
    <3> QED BY <1>9, <1>11, <2>1, <2>3, <3>2
  <2> QED BY <2>2, <2>3
<1>12. ASSUME ~ow, Of(k, PACKET_HEADER_SIZE + n, b), rg = rf \cup {k}  PROVE Done
  <2>1. \E j \in rg : ~(k < j)
    BY <1>2, <1>12
  <2>2. Good(more, rg, s \o b)
    BY <1>8, <1>12, <2>1
  <2> QED BY <1>9, <1>12, <2>2
<1>13. ~ow => Done
  BY <1>1, <1>10, <1>11, <1>12
<1> QED BY <1>1, <1>2, <1>13 DEF OutputOK

-----------------------------------------------------------------------------
(***************************************************************************)
(* A step touches one descriptor or two; the others stay as they are.      *)
(***************************************************************************)
SameIn(g) ==
    /\ element'[g] = element[g] /\ used'[g] = used[g] /\ peer'[g] = peer[g] /\ rcv'[g] = rcv[g]
    /\ in_size'[g] = in_size[g] /\ in_sent'[g] = in_sent[g] /\ delivered'[g] = delivered[g]
SameOut(g) ==
    /\ element'[g] = element[g] /\ used'[g] = used[g] /\ peer'[g] = peer[g] /\ got'[g] = got[g]
    /\ snd'[g] = snd[g] /\ out_size'[g] = out_size[g] /\ refused'[g] = refused[g]
    /\ overtaken'[g] = overtaken[g] /\ Rest(g)' = Rest(g)
    /\ Closing(g) /\ element[g].state = "SCK_ERROR" => Closing(g)'

LEMMA SameInOK == ASSUME NEW g, InOK(g), SameIn(g) PROVE InOK(g)'
BY DEF InOK, SameIn

LEMMA SameOutOK == ASSUME NEW g, OutOK(g), SameOut(g) PROVE OutOK(g)'
<1>1. Total(element'[g], peer'[g], got'[g], snd'[g], Rest(g)')
        = Total(element[g], peer[g], got[g], snd[g], Rest(g))
  BY DEF SameOut
<1>2. OutputOK(element[g], used[g], peer[g], got[g], snd[g], Rest(g), out_size[g], refused[g],
               overtaken[g], Closing(g))
  BY DEF OutOK
<1>3. /\ peer[g] = "reset" => snd[g] = <<>>
      /\ ~overtaken[g] /\ Rest(g) # <<>> => element[g] # None /\ element[g].write_buffer = <<>>
  BY <1>2 DEF OutputOK
<1>4. OutputOK(element[g], used[g], peer[g], got[g], snd[g], Rest(g), out_size[g], refused[g],
               overtaken[g], Closing(g)')
  BY <1>2, <1>3, OutputSame DEF SameOut
<1> QED BY <1>4 DEF OutOK, SameOut

\* The values of the variables.
LEMMA Types ==
    ASSUME Inv, NEW f \in Fds
    PROVE  /\ element[f] \in NetworkElement \cup {None}
           /\ element[f] # None => element[f] \in NetworkElement
           /\ element[f] # None => (element[f].state \in TunState <=> f \in Tuns)
           /\ armed[f] \in SUBSET Events /\ peer[f] \in {"open", "closed", "reset"}
           /\ rcv[f] \in Seq(Byte) /\ snd[f] \in Seq(Byte) /\ got[f] \in Seq(Byte)
           /\ used[f] \in BOOLEAN
           /\ in_size[f] \in Seq(Payloads) /\ in_sent[f] \in Nat
           /\ delivered[f] \in Seq(Seq(Byte)) /\ out_size[f] \in Seq(Payloads \cup {0})
           /\ refused[f] \in SUBSET (1 .. MaxOut) /\ overtaken[f] \in BOOLEAN
           /\ Len(snd[f]) <= SndBuf /\ Len(out_size[f]) <= MaxOut
           /\ refused[f] \subseteq 1 .. Len(out_size[f])
           /\ InOK(f) /\ OutOK(f)
           /\ element[f] # None => used[f]
           /\ direct = None => Rest(f) = <<>>
           /\ Rest(f) \in Seq(Byte)
<1>1. InOK(f) /\ OutOK(f)
  BY DEF Inv, Input, Output
<1>2. element[f] # None => used[f]
  BY <1>1 DEF InOK, InputOK
<1>3. Rest(f) \in Seq(Byte) /\ (direct = None => Rest(f) = <<>>)
  BY Empties DEF Inv, TypeOK, Rest, Writing
<1>4. /\ element[f] \in NetworkElement \cup {None}
      /\ element[f] # None => element[f] \in NetworkElement
      /\ element[f] # None => (element[f].state \in TunState <=> f \in Tuns)
      /\ armed[f] \in SUBSET Events /\ peer[f] \in {"open", "closed", "reset"}
      /\ rcv[f] \in Seq(Byte) /\ snd[f] \in Seq(Byte) /\ got[f] \in Seq(Byte)
      /\ used[f] \in BOOLEAN
      /\ in_size[f] \in Seq(Payloads) /\ in_sent[f] \in Nat
      /\ delivered[f] \in Seq(Seq(Byte)) /\ out_size[f] \in Seq(Payloads \cup {0})
      /\ refused[f] \in SUBSET (1 .. MaxOut) /\ overtaken[f] \in BOOLEAN
  BY DEF Inv, TypeOK
<1>5. /\ Len(snd[f]) <= SndBuf /\ Len(out_size[f]) <= MaxOut
      /\ refused[f] \subseteq 1 .. Len(out_size[f])
  BY DEF Inv, Bounds
<1> QED BY <1>1, <1>2, <1>3, <1>4, <1>5

\* The loop goes on, nothing is read or written.
LEMMA LoopOnly ==
    ASSUME Inv, UNCHANGED <<element, used, net_vars, user_vars, direct>>,
           \A g \in Fds : Closing(g) /\ element[g].state = "SCK_ERROR" => Closing(g)',
           TypeOK', LoopOK'
    PROVE  Inv'
<1>1. ASSUME NEW g \in Fds  PROVE SameIn(g) /\ SameOut(g)
  BY DEF SameIn, SameOut, net_vars, user_vars, Rest
<1>2. Input' /\ Output'
  BY <1>1, SameInOK, SameOutOK DEF Inv, Input, Output
<1>3. Bounds'
  BY DEF Inv, Bounds, net_vars, user_vars
<1> QED BY <1>2, <1>3 DEF Inv

\* epoll_wait and its events.
LEMMA EpollWaitInv == ASSUME Inv, EpollWait PROVE Inv'
<1>1. TypeOK'
  <2>1. \A g \in Fds : Ready(g) \in SUBSET Events /\ armed[g] \in SUBSET Events
    BY Types DEF Ready, Events
  <2>2. batch' \in [Fds -> SUBSET Events] /\ armed' \in [Fds -> SUBSET Events]
    BY <2>1 DEF EpollWait
  <2> QED BY <2>2 DEF Inv, TypeOK, EpollWait, net_vars, user_vars
<1>2. LoopOK'
  BY DEF Inv, LoopOK, EpollWait, Ready, net_vars, user_vars
<1>3. \A g \in Fds : Closing(g) /\ element[g].state = "SCK_ERROR" => Closing(g)'
  BY DEF EpollWait, Closing
<1> QED BY <1>1, <1>2, <1>3, LoopOnly DEF EpollWait

LEMMA TakeEventInv == ASSUME Inv, NEW f \in Fds, TakeEvent(f) PROVE Inv'
<1>1. TypeOK'
  BY DEF Inv, TypeOK, TakeEvent, net_vars, user_vars, queue_vars
<1>2. LoopOK'
  BY DEF Inv, LoopOK, TakeEvent, net_vars, user_vars, queue_vars
<1>3. \A g \in Fds : Closing(g) /\ element[g].state = "SCK_ERROR" => Closing(g)'
  BY DEF TakeEvent, Closing
<1> QED BY <1>1, <1>2, <1>3, LoopOnly DEF TakeEvent, queue_vars

\* process returns, flush_write_buffer has nothing to do.
LEMMA GoesOnInv ==
    ASSUME Inv, NEW f \in Fds, ReadAgain(f) \/ ProcessReturns(f) \/ FlushNothing(f)
    PROVE  Inv'
<1>1. /\ UNCHANGED <<cur, batch, failed, direct, net_vars, queue_vars, user_vars>>
      /\ \/ pc = "process" /\ pc' = "flush"
         \/ pc = "flush" /\ pc' = "finish"
  BY DEF ReadAgain, ReadsBytes, ProcessReturns, FlushNothing, Processes
<1>2. TypeOK'
  BY <1>1 DEF Inv, TypeOK, net_vars, user_vars, queue_vars
<1>3. LoopOK'
  BY <1>1 DEF Inv, LoopOK, net_vars, user_vars, queue_vars
<1>4. \A g \in Fds : Closing(g) /\ element[g].state = "SCK_ERROR" => Closing(g)'
  BY <1>1 DEF Closing
<1> QED BY <1>1, <1>2, <1>3, <1>4, LoopOnly DEF queue_vars

\* EPOLL_CTL_MOD.
LEMMA RearmInv == ASSUME Inv, NEW f \in Fds, Rearm(f) PROVE Inv'
<1>1. TypeOK'
  BY DEF Inv, TypeOK, Rearm, EventDone, Awaited, Events, net_vars, user_vars
<1>2. LoopOK'
  BY DEF Inv, TypeOK, LoopOK, Rearm, EventDone, Awaited, net_vars, user_vars
<1>3. \A g \in Fds : Closing(g) /\ element[g].state = "SCK_ERROR" => Closing(g)'
  BY DEF Rearm, Closing, ShouldClose, Failed
<1> QED BY <1>1, <1>2, <1>3, LoopOnly DEF Rearm, EventDone

\* One value of a function changes.
LEMMA Assigned ==
    ASSUME NEW S, NEW v, v \in [Fds -> S], NEW f \in Fds, NEW x \in S
    PROVE  [v EXCEPT ![f] = x] \in [Fds -> S]
OBVIOUS

\* What a step does to the input and the output of one descriptor.
LEMMA OneDescriptor ==
    ASSUME Inv, NEW f \in Fds, \A g \in Fds \ {f} : SameIn(g) /\ SameOut(g),
           InOK(f)', OutOK(f)', TypeOK', Bounds', LoopOK'
    PROVE  Inv'
<1>1. ASSUME NEW g \in Fds  PROVE InOK(g)' /\ OutOK(g)'
  <2>1. CASE g = f
    BY <2>1
  <2>2. CASE g # f
    <3>1. InOK(g) /\ OutOK(g) /\ SameIn(g) /\ SameOut(g)
      BY <2>2, Types
    <3> QED BY <3>1, SameInOK, SameOutOK
  <2> QED BY <2>1, <2>2
<1> QED BY <1>1 DEF Inv, Input, Output

-----------------------------------------------------------------------------
(***************************************************************************)
(* The peers.                                                              *)
(***************************************************************************)
LEMMA PeerWritesInv == ASSUME Inv, NEW f \in Fds, PeerWrites(f) PROVE Inv'
<1> USE DEF PeerWrites, queue_vars, loop_vars, user_vars
<1> DEFINE t == f \in Tuns
<1>1. PICK e, u, p, rc, isz, ise, d :
        /\ e = element[f] /\ u = used[f] /\ p = peer[f] /\ rc = rcv[f]
        /\ isz = in_size[f] /\ ise = in_sent[f] /\ d = delivered[f]
  OBVIOUS
<1>2. /\ t \in BOOLEAN /\ e \in NetworkElement \cup {None} /\ u \in BOOLEAN /\ rc \in Seq(Byte)
      /\ isz \in Seq(Payloads) /\ ise \in Nat /\ d \in Seq(Seq(Byte)) /\ p = "open"
      /\ InputOK(t, e, u, p, rc, isz, ise, d)
  BY <1>1, Types DEF InOK
<1>3. PICK more, sent, left :
        /\ in_size' = [in_size EXCEPT ![f] = more] /\ in_sent' = [in_sent EXCEPT ![f] = sent]
        /\ left = (IF e = None /\ u THEN rc ELSE Append(rc, <<Len(more), sent>>))
        /\ rcv' = [rcv EXCEPT ![f] = left]
        /\ \/ /\ isz # <<>> /\ ise < InSizes(t, isz)[Len(isz)]
              /\ more = isz /\ sent = ise + 1
           \/ /\ ~(isz # <<>> /\ ise < InSizes(t, isz)[Len(isz)])
              /\ sent = 1 /\ \E n \in Payloads : more = Append(isz, n)
  <2>1. Len(isz) \in Nat /\ (isz # <<>> <=> Len(isz) > 0)
    BY <1>2, EmptySeq
  <2>2. isz # <<>> => InSizes(t, isz)[Len(isz)] = InBytes(f, InPackets(f))
    <3>1. isz # <<>> => Len(isz) \in 1 .. Len(isz)
      BY <2>1
    <3>2. isz # <<>> =>
            InSizes(t, isz)[Len(isz)] = IF t THEN 1 ELSE PACKET_HEADER_SIZE + isz[Len(isz)]
      BY <3>1 DEF InSizes
    <3>3. InBytes(f, InPackets(f)) = IF f \in Tuns THEN 1 ELSE PACKET_HEADER_SIZE + isz[Len(isz)]
      BY <1>1 DEF InBytes, InPackets
    <3> QED BY <3>2, <3>3
  <2>3. MidPacket(f) <=> isz # <<>> /\ ise < InSizes(t, isz)[Len(isz)]
    BY <1>1, <2>1, <2>2 DEF MidPacket, InPackets
  <2>4. /\ in_size \in [Fds -> Seq(Payloads)] /\ in_sent \in [Fds -> Nat]
    BY DEF Inv, TypeOK
  <2>5. CASE MidPacket(f)
    <3>1. in_size' = [in_size EXCEPT ![f] = isz] /\ in_sent' = [in_sent EXCEPT ![f] = ise + 1]
      BY <1>1, <2>4, <2>5
    <3>2. rcv' = [rcv EXCEPT ![f] = IF e = None /\ u THEN rc ELSE Append(rc, <<Len(isz), ise + 1>>)]
      BY <1>1, <2>4, <3>1
    <3> QED BY <2>3, <2>5, <3>1, <3>2
  <2>6. CASE ~MidPacket(f)
    <3>1. PICK n \in Payloads : in_size' = [in_size EXCEPT ![f] = Append(isz, n)]
      BY <1>1, <2>6
    <3>2. in_sent' = [in_sent EXCEPT ![f] = 1]
      BY <2>6
    <3>3. rcv' = [rcv EXCEPT ![f] =
                     IF e = None /\ u THEN rc ELSE Append(rc, <<Len(Append(isz, n)), 1>>)]
      BY <1>1, <2>4, <3>1, <3>2
    <3> QED BY <2>3, <2>6, <3>1, <3>2, <3>3
  <2> QED BY <2>5, <2>6
<1>4. InputOK(t, e, u, p, left, more, sent, d)
  <2>1. \/ /\ isz # <<>> /\ ise < InSizes(t, isz)[Len(isz)]
           /\ more = isz /\ sent = ise + 1
        \/ /\ ~(isz # <<>> /\ ise < InSizes(t, isz)[Len(isz)])
           /\ sent = 1 /\ \E n \in Payloads : more = Append(isz, n)
    BY <1>3
  <2>2. p # "reset"
    BY <1>2
  <2>3. InputOK(t, e, u, p, IF e = None /\ u THEN rc ELSE Append(rc, <<Len(more), sent>>),
                more, sent, d)
    BY <1>2, <2>1, <2>2, InputWritten
  <2> QED BY <1>3, <2>3
<1>5. more \in Seq(Payloads) /\ sent \in Nat /\ left \in Seq(Byte)
  <2>1. more \in Seq(Payloads) /\ sent \in Nat
    <3>1. \/ more = isz /\ sent = ise + 1
          \/ sent = 1 /\ \E n \in Payloads : more = Append(isz, n)
      BY <1>3
    <3>2. sent \in Nat
      BY <1>2, <3>1
    <3>3. more \in Seq(Payloads)
      <4>1. isz \in Seq(Payloads) /\ (more = isz \/ \E n \in Payloads : more = Append(isz, n))
        BY <1>2, <3>1
      <4> QED BY <4>1, AppendProperties
    <3> QED BY <3>2, <3>3
  <2>2. <<Len(more), sent>> \in Byte
    BY <2>1 DEF Byte
  <2> QED BY <1>2, <1>3, <2>1, <2>2
<1>6. TypeOK'
  <2>1. in_size' \in [Fds -> Seq(Payloads)] /\ in_sent' \in [Fds -> Nat] /\ rcv' \in [Fds -> Seq(Byte)]
    <3>1. /\ in_size \in [Fds -> Seq(Payloads)] /\ in_sent \in [Fds -> Nat]
          /\ rcv \in [Fds -> Seq(Byte)]
      BY DEF Inv, TypeOK
    <3>2. /\ in_size' = [in_size EXCEPT ![f] = more] /\ in_sent' = [in_sent EXCEPT ![f] = sent]
          /\ rcv' = [rcv EXCEPT ![f] = left]
      BY <1>3
    <3> HIDE DEF PeerWrites
    <3>3. in_size' \in [Fds -> Seq(Payloads)]
      BY <1>5, <3>1, <3>2, Assigned
    <3>4. in_sent' \in [Fds -> Nat]
      BY <1>5, <3>1, <3>2, Assigned
    <3>5. rcv' \in [Fds -> Seq(Byte)]
      BY <1>5, <3>1, <3>2, Assigned
    <3> QED BY <3>3, <3>4, <3>5
  <2> QED BY <2>1 DEF Inv, TypeOK
<1>7. Bounds' /\ LoopOK'
  BY DEF Inv, Bounds, LoopOK
<1>8. \A g \in Fds : SameOut(g)
  BY DEF SameOut, Rest, Closing
<1>9. \A g \in Fds \ {f} : SameIn(g)
  BY <1>3 DEF SameIn, Inv, TypeOK
<1>10. /\ element'[f] = e /\ used'[f] = u /\ peer'[f] = p /\ rcv'[f] = left /\ in_size'[f] = more
       /\ in_sent'[f] = sent /\ delivered'[f] = d
  BY <1>1, <1>3 DEF Inv, TypeOK
<1>11. InOK(f)'
  BY <1>1, <1>4, <1>10 DEF InOK
<1>12. OutOK(f)'
  BY <1>8, Types, SameOutOK
<1> QED BY <1>6, <1>7, <1>8, <1>9, <1>11, <1>12, OneDescriptor

\* The peer reads.
LEMMA PeerReadsInv == ASSUME Inv, NEW f \in Fds, PeerReads(f) PROVE Inv'
<1> USE DEF PeerReads, queue_vars, loop_vars, user_vars
<1>1. PICK sn, g, a, st : sn = snd[f] /\ g = got[f] /\ a = Head(sn) /\ st = Tail(sn)
  OBVIOUS
<1>2. /\ sn \in Seq(Byte) /\ sn # <<>> /\ g \in Seq(Byte) /\ st \in Seq(Byte) /\ <<a>> \o st = sn
      /\ Len(st) = Len(sn) - 1 /\ a = sn[1] /\ Len(sn) \in Nat /\ Len(sn) <= SndBuf
  BY <1>1, Types, HeadFirst
<1>3. a \in Byte
  <2>1. 1 \in 1 .. Len(sn)
    BY <1>2, EmptySeq
  <2> QED BY <1>2, <2>1
<1>4. PICK h : h = Append(g, a)
  OBVIOUS
<1>5. h \in Seq(Byte) /\ h \o st = g \o sn
  <2>1. <<a>> \in Seq(Byte) /\ h = g \o <<a>>
    BY <1>2, <1>3, <1>4, AppendIsConcat
  <2>2. g \in Seq(Byte) /\ st \in Seq(Byte)
    BY <1>2
  <2>3. (g \o <<a>>) \o st = g \o (<<a>> \o st) /\ g \o <<a>> \in Seq(Byte)
    <3>1. Assoc(g, <<a>>, st) /\ g \o <<a>> \in Seq(Byte)
      BY <2>1, <2>2, Associates
    <3> QED BY <3>1 DEF Assoc
  <2> QED BY <1>2, <2>1, <2>3
<1>6. snd' = [snd EXCEPT ![f] = st] /\ got' = [got EXCEPT ![f] = h]
  BY <1>1, <1>4
<1>7. TypeOK'
  <2>1. snd' \in [Fds -> Seq(Byte)] /\ got' \in [Fds -> Seq(Byte)]
    <3>1. /\ snd \in [Fds -> Seq(Byte)] /\ got \in [Fds -> Seq(Byte)]
          /\ st \in Seq(Byte) /\ h \in Seq(Byte)
      BY <1>2, <1>5 DEF Inv, TypeOK
    <3> QED BY <1>6, <3>1, Assigned
  <2> QED BY <2>1 DEF Inv, TypeOK
<1>8. LoopOK'
  BY DEF Inv, LoopOK
<1>9. \A j \in Fds \ {f} : SameOut(j)
  BY DEF SameOut, Rest, Closing, Inv, TypeOK
<1>10. snd'[f] = st /\ got'[f] = h
  BY <1>6 DEF Inv, TypeOK
<1>11. Bounds'
  <2>1. \A j \in Fds \ {f} : snd'[j] = snd[j]
    BY <1>9 DEF SameOut
  <2>2. Len(st) <= SndBuf
    BY <1>2, SizeAssumption
  <2> QED BY <1>10, <2>1, <2>2 DEF Inv, Bounds
<1>12. \A j \in Fds : SameIn(j)
  BY DEF SameIn
<1>13. InOK(f)'
  BY <1>12, Types, SameInOK
<1>14. OutOK(f)'
  <2>1. OutputOK(element[f], used[f], peer[f], g, sn, Rest(f), out_size[f], refused[f],
                 overtaken[f], Closing(f))
    BY <1>1, Types DEF OutOK
  <2>2. Total(element[f], peer[f], h, st, Rest(f)) = Total(element[f], peer[f], g, sn, Rest(f))
    BY <1>5 DEF Total
  <2>3. peer[f] # "reset"
    OBVIOUS
  <2>4. ~overtaken[f] /\ Rest(f) # <<>> => element[f] # None /\ element[f].write_buffer = <<>>
    BY <2>1 DEF OutputOK
  <2>5. OutputOK(element[f], used[f], peer[f], h, st, Rest(f), out_size[f], refused[f],
                 overtaken[f], Closing(f))
    BY <2>1, <2>2, <2>3, <2>4, OutputSame
  <2>6. Rest(f)' = Rest(f) /\ Closing(f)' = Closing(f)
    BY DEF Rest, Closing
  <2> QED BY <1>10, <2>5, <2>6 DEF OutOK
<1> QED BY <1>7, <1>8, <1>9, <1>11, <1>12, <1>13, <1>14, OneDescriptor

\* The peer closes.
LEMMA PeerClosesInv == ASSUME Inv, NEW f \in Fds, PeerCloses(f) PROVE Inv'
<1> USE DEF PeerCloses, queue_vars, loop_vars, user_vars
<1>1. TypeOK'
  BY DEF Inv, TypeOK
<1>2. Bounds' /\ LoopOK'
  BY DEF Inv, Bounds, LoopOK
<1>3. \A g \in Fds \ {f} : SameIn(g) /\ SameOut(g)
  BY DEF SameIn, SameOut, Rest, Closing, Inv, TypeOK
<1>4. peer'[f] = "closed"
  BY DEF Inv, TypeOK
<1>5. InOK(f)'
  <2>1. InputOK(f \in Tuns, element[f], used[f], "closed", rcv[f], in_size[f], in_sent[f],
                delivered[f])
    BY Types, InputClosed DEF InOK
  <2> QED BY <1>4, <2>1 DEF InOK
<1>6. OutOK(f)'
  <2>1. OutputOK(element[f], used[f], peer[f], got[f], snd[f], Rest(f), out_size[f], refused[f],
                 overtaken[f], Closing(f))
    BY Types DEF OutOK
  <2>2. Total(element[f], "closed", got[f], snd[f], Rest(f))
          = Total(element[f], peer[f], got[f], snd[f], Rest(f))
    BY DEF Total, Unwritten
  <2>3. ~overtaken[f] /\ Rest(f) # <<>> => element[f] # None /\ element[f].write_buffer = <<>>
    BY <2>1 DEF OutputOK
  <2>4. OutputOK(element[f], used[f], "closed", got[f], snd[f], Rest(f), out_size[f], refused[f],
                 overtaken[f], Closing(f))
    BY <2>1, <2>2, <2>3, OutputSame
  <2>5. Rest(f)' = Rest(f) /\ Closing(f)' = Closing(f)
    BY DEF Rest, Closing
  <2> QED BY <1>4, <2>4, <2>5 DEF OutOK
<1> QED BY <1>1, <1>2, <1>3, <1>5, <1>6, OneDescriptor

\* The connection is reset.
LEMMA PeerResetsInv == ASSUME Inv, NEW f \in Fds, PeerResets(f) PROVE Inv'
<1> USE DEF PeerResets, queue_vars, loop_vars, user_vars
<1>1. TypeOK'
  BY Empties DEF Inv, TypeOK
<1>2. \A g \in Fds \ {f} : SameIn(g) /\ SameOut(g)
  BY DEF SameIn, SameOut, Rest, Closing, Inv, TypeOK
<1>3. peer'[f] = "reset" /\ rcv'[f] = <<>> /\ snd'[f] = <<>>
  BY DEF Inv, TypeOK
<1>4. LoopOK'
  BY DEF Inv, LoopOK
<1>5. Bounds'
  <2>1. \A j \in Fds \ {f} : snd'[j] = snd[j]
    BY <1>2 DEF SameOut
  <2>2. Len(<<>>) <= SndBuf
    BY SizeAssumption
  <2> QED BY <1>3, <2>1, <2>2 DEF Inv, Bounds
<1>6. InOK(f)'
  <2>1. InputOK(f \in Tuns, element[f], used[f], "reset", <<>>, in_size[f], in_sent[f],
                delivered[f])
    BY Types, InputGone DEF InOK
  <2> QED BY <1>3, <2>1 DEF InOK
<1>7. OutOK(f)'
  <2>1. OutputOK(element[f], used[f], peer[f], got[f], snd[f], Rest(f), out_size[f], refused[f],
                 overtaken[f], Closing(f))
    BY Types DEF OutOK
  <2>2. /\ element[f] \in NetworkElement \cup {None} /\ got[f] \in Seq(Byte)
        /\ snd[f] \in Seq(Byte) /\ Rest(f) \in Seq(Byte) /\ <<>> \in Seq(Byte)
    BY Types, Empties
  <2>3. OutputOK(element[f], used[f], "reset", got[f], <<>>, Rest(f), out_size[f], refused[f],
                 overtaken[f], Closing(f))
    BY <2>1, <2>2, OutputLost
  <2>4. Rest(f)' = Rest(f) /\ Closing(f)' = Closing(f)
    BY DEF Rest, Closing
  <2> QED BY <1>3, <2>3, <2>4 DEF OutOK
<1> QED BY <1>1, <1>2, <1>4, <1>5, <1>6, <1>7, OneDescriptor

-----------------------------------------------------------------------------
(***************************************************************************)
(* process.                                                                *)
(***************************************************************************)
\* The element at hand.
LEMMA AtHandIs ==
    ASSUME Inv, NEW f \in Fds, cur = f, pc \in {"process", "flush", "finish", "direct", "crashed"}
    PROVE  element[f] \in NetworkElement /\ used[f] /\ (pc # "direct" => direct = None /\ Rest(f) = <<>>)
<1>1. element[f] # None /\ (pc # "direct" => direct = None)
  BY DEF Inv, LoopOK
<1> QED BY <1>1, Types

LEMMA SizesOf ==
    /\ \A f, isz : f \notin Tuns => InSizes(f \in Tuns, isz) = InSizes(FALSE, isz)
    /\ \A f, isz : f \in Tuns => InSizes(f \in Tuns, isz) = InSizes(TRUE, isz)
BY DEF InSizes

\* The input of a socket and of a TUN device.
LEMMA Kinds ==
    ASSUME NEW f, NEW e, NEW u, NEW p, NEW rc, NEW isz, NEW ise, NEW d
    PROVE  /\ f \notin Tuns => (InputOK(f \in Tuns, e, u, p, rc, isz, ise, d)
                                  <=> InputOK(FALSE, e, u, p, rc, isz, ise, d))
           /\ f \in Tuns => (InputOK(f \in Tuns, e, u, p, rc, isz, ise, d)
                                  <=> InputOK(TRUE, e, u, p, rc, isz, ise, d))
<1>1. ASSUME f \notin Tuns
      PROVE  InputOK(f \in Tuns, e, u, p, rc, isz, ise, d)
               <=> InputOK(FALSE, e, u, p, rc, isz, ise, d)
  <2>1. InSizes(f \in Tuns, isz) = InSizes(FALSE, isz)
    BY <1>1, SizesOf
  <2> QED BY <2>1 DEF InputOK
<1>2. ASSUME f \in Tuns
      PROVE  InputOK(f \in Tuns, e, u, p, rc, isz, ise, d)
               <=> InputOK(TRUE, e, u, p, rc, isz, ise, d)
  <2>1. InSizes(f \in Tuns, isz) = InSizes(TRUE, isz)
    BY <1>2, SizesOf
  <2> QED BY <2>1 DEF InputOK
<1> QED BY <1>1, <1>2

\* Something is read into the element at hand or handed over; what it writes stays.
LEMMA ElementChanges ==
    ASSUME Inv, NEW f \in Fds, element[f] \in NetworkElement, element[f].state # "SCK_ERROR",
           NEW x \in NetworkElement, NEW rc \in Seq(Byte), NEW d \in Seq(Seq(Byte)),
           element' = [element EXCEPT ![f] = x], rcv' = [rcv EXCEPT ![f] = rc],
           delivered' = [delivered EXCEPT ![f] = d],
           x.write_buffer = element[f].write_buffer, x.state \in TunState <=> f \in Tuns,
           UNCHANGED <<armed, used, peer, snd, in_size, in_sent, got, loop_vars, out_size, refused,
                       overtaken>>,
           InputOK(f \in Tuns, x, used[f], peer[f], rc, in_size[f], in_sent[f], d)
    PROVE  Inv'
<1> USE DEF loop_vars
<1>0. x # None /\ element[f] # None
  BY ElementFields
<1>1. /\ element' \in [Fds -> NetworkElement \cup {None}] /\ rcv' \in [Fds -> Seq(Byte)]
      /\ delivered' \in [Fds -> Seq(Seq(Byte))]
  BY Assigned DEF Inv, TypeOK
<1>2. element'[f] = x /\ rcv'[f] = rc /\ delivered'[f] = d
  BY DEF Inv, TypeOK
<1>3. \A g \in Fds \ {f} : SameIn(g) /\ SameOut(g)
  BY DEF SameIn, SameOut, Rest, Closing, Inv, TypeOK
<1>4. TypeOK'
  <2>1. \A g \in Fds : element'[g] # None => (element'[g].state \in TunState <=> g \in Tuns)
    <3>1. \A g \in Fds \ {f} : element'[g] = element[g]
      BY <1>3 DEF SameIn
    <3> QED BY <1>2, <3>1 DEF Inv, TypeOK
  <2> QED BY <1>1, <2>1 DEF Inv, TypeOK
<1>5. Bounds'
  BY DEF Inv, Bounds
<1>6. LoopOK'
  <2>1. \A g \in Fds : element[g] # None => element'[g] # None
    BY <1>0, <1>2, <1>3 DEF SameIn
  <2>2. direct # None => direct.fd \in Fds
    BY DEF Inv, TypeOK, Writing
  <2> QED BY <2>1, <2>2 DEF Inv, LoopOK
<1>7. InOK(f)'
  BY <1>2 DEF InOK
<1>8. OutOK(f)'
  <2>1. OutputOK(element[f], used[f], peer[f], got[f], snd[f], Rest(f), out_size[f], refused[f],
                 overtaken[f], Closing(f))
    BY Types DEF OutOK
  <2>2. Total(x, peer[f], got[f], snd[f], Rest(f))
          = Total(element[f], peer[f], got[f], snd[f], Rest(f))
    BY <1>0 DEF Total, Unwritten
  <2>3. /\ ~overtaken[f] /\ Rest(f) # <<>> => x # None /\ x.write_buffer = <<>>
        /\ peer[f] = "reset" => snd[f] = <<>>
    BY <1>0, <2>1 DEF OutputOK
  <2>4. OutputOK(x, used[f], peer[f], got[f], snd[f], Rest(f), out_size[f], refused[f],
                 overtaken[f], Closing(f))
    BY <1>0, <2>1, <2>2, <2>3, OutputSame
  <2>5. Rest(f)' = Rest(f) /\ Closing(f)' = Closing(f)
    BY DEF Rest, Closing
  <2> QED BY <1>2, <2>4, <2>5 DEF OutOK
<1> QED BY <1>3, <1>4, <1>5, <1>6, <1>7, <1>8, OneDescriptor

\* read() in SCK_HEADER and in SCK_PAYLOAD.
Reads(state, next) ==
    \/ state = "SCK_HEADER" /\ next = "SCK_PAYLOAD"
    \/ state = "SCK_PAYLOAD" /\ next = "SCK_READY"
LEMMA ReadSomeInv ==
    ASSUME Inv, NEW f \in Fds, NEW state, NEW next, ReadSome(f, state, next), Reads(state, next)
    PROVE  Inv'
<1>0. PICK e, rc, d, isz : e = element[f] /\ rc = rcv[f] /\ d = delivered[f] /\ isz = in_size[f]
  OBVIOUS
<1>a. PICK size : size = IF state = "SCK_HEADER" THEN PACKET_HEADER_SIZE
                         ELSE InSizes(FALSE, isz)[e.net_buffer[1][1]]
  OBVIOUS
<1>b. PICK w : w = size - Len(e.net_buffer)
  OBVIOUS
<1>c. PICK n : n = IF w <= Len(rc) THEN w ELSE Len(rc)
  OBVIOUS
<1>d. PICK left, more : left = SubSeq(rc, n + 1, Len(rc)) /\ more = e.net_buffer \o SubSeq(rc, 1, n)
  OBVIOUS
<1>1. PICK x : x = WithState(WithInput(e, more), IF n = w THEN next ELSE e.state)
  OBVIOUS
<1>2. pc = "process" /\ cur = f /\ e.state = state
  BY <1>0 DEF ReadSome, Processes
<1>3. /\ e \in NetworkElement /\ used[f] /\ rc \in Seq(Byte) /\ isz \in Seq(Payloads)
      /\ d \in Seq(Seq(Byte)) /\ in_sent[f] \in Nat
  BY <1>0, <1>2, Types, AtHandIs
<1>4. f \notin Tuns
  <2>1. e # None /\ (e.state \in TunState <=> f \in Tuns)
    BY <1>0, <1>3, Types, ElementFields
  <2> QED BY <1>2, <2>1 DEF TunState, Reads
<1>5. InputOK(FALSE, e, used[f], peer[f], rc, isz, in_sent[f], d)
  <2>1. InputOK(f \in Tuns, e, used[f], peer[f], rc, isz, in_sent[f], d)
    BY <1>0, Types DEF InOK
  <2> QED BY <1>4, <2>1, Kinds
<1>6. \/ e.state = "SCK_HEADER" /\ next = "SCK_PAYLOAD" /\ size = PACKET_HEADER_SIZE
      \/ /\ e.state = "SCK_PAYLOAD" /\ next = "SCK_READY"
         /\ size = InSizes(FALSE, isz)[e.net_buffer[1][1]]
  BY <1>2, <1>a DEF Reads
<1>7. /\ w \in Nat /\ x \in NetworkElement /\ left \in Seq(Byte)
      /\ x.write_buffer = e.write_buffer /\ x.state = IF n = w THEN next ELSE e.state
      /\ InputOK(FALSE, x, used[f], peer[f], left, isz, in_sent[f], d)
  <2>2. ReadOK(e, used[f], peer[f], rc, isz, in_sent[f], d, size, next)
    BY <1>3, <1>5, <1>6, InputRead
  <2>3. /\ w = size - Len(e.net_buffer) /\ n = (IF w <= Len(rc) THEN w ELSE Len(rc))
        /\ x = WithState(WithInput(e, e.net_buffer \o SubSeq(rc, 1, n)),
                         IF n = w THEN next ELSE e.state)
        /\ left = SubSeq(rc, n + 1, Len(rc))
    BY <1>1, <1>b, <1>c, <1>d
  <2> QED BY <2>2, <2>3 DEF ReadOK
<1>8. Wanted(f) = w
  <2>1. state = "SCK_PAYLOAD" => e.net_buffer[1][1] \in 1 .. Len(isz)
    <3> SUFFICES ASSUME state = "SCK_PAYLOAD" PROVE e.net_buffer[1][1] \in 1 .. Len(isz)
      OBVIOUS
    <3>1. HeldOK(InSizes(FALSE, isz), e, Len(d) + 1) /\ Held(e) = e.net_buffer
      BY <1>2, <1>3, <1>5, ElementFields DEF InputOK, Held, Failed
    <3>2. Len(e.net_buffer) \in PACKET_HEADER_SIZE .. InSizes(FALSE, isz)[Len(d) + 1]
      BY <1>2, <3>1 DEF HeldOK
    <3>3. e.net_buffer \in Seq(Byte) /\ Len(e.net_buffer) \in Nat
      BY <1>3, ElementFields
    <3>4. Len(e.net_buffer) # 0 /\ 1 \in 1 .. Len(e.net_buffer)
      BY <3>2, <3>3, SizeAssumption
    <3>5. e.net_buffer # <<>>
      BY <3>4
    <3>6. e.net_buffer[1] = <<Len(d) + 1, 1>> /\ Len(d) + 1 \in DOMAIN InSizes(FALSE, isz)
      BY <3>1, <3>4, <3>5 DEF HeldOK
    <3> QED BY <3>6 DEF InSizes
  <2>2. state = "SCK_PAYLOAD" => InBytes(f, e.net_buffer[1][1]) = InSizes(FALSE, isz)[e.net_buffer[1][1]]
    BY <1>0, <1>4, <2>1 DEF InBytes, InSizes
  <2>3. Wanted(f) = (IF state = "SCK_HEADER" THEN PACKET_HEADER_SIZE
                     ELSE InBytes(f, e.net_buffer[1][1])) - Len(e.net_buffer)
    BY <1>0, <1>2 DEF Wanted
  <2>4. w = (IF state = "SCK_HEADER" THEN PACKET_HEADER_SIZE
             ELSE InSizes(FALSE, isz)[e.net_buffer[1][1]]) - Len(e.net_buffer)
    BY <1>a, <1>b
  <2> QED BY <2>2, <2>3, <2>4 DEF Reads
<1>9. n = IF Wanted(f) <= Len(rcv[f]) THEN Wanted(f) ELSE Len(rcv[f])
  BY <1>0, <1>8, <1>c
<1>10. /\ element' = [element EXCEPT ![f].net_buffer = @ \o SubSeq(rcv[f], 1, n),
                                     ![f].state = IF n = w THEN next ELSE @]
       /\ rcv' = [rcv EXCEPT ![f] = SubSeq(@, n + 1, Len(@))]
       /\ UNCHANGED <<armed, used, peer, snd, in_size, in_sent, got, loop_vars, user_vars>>
  BY <1>8, <1>9 DEF ReadSome
<1>11. element' = [element EXCEPT ![f] = x]
  <2>1. element \in [Fds -> NetworkElement \cup {None}]
    BY DEF Inv, TypeOK
  <2>2. element[f].net_buffer \o SubSeq(rcv[f], 1, n) = more
    BY <1>0, <1>d
  <2>3. element' = [element EXCEPT ![f] = WithState(WithInput(element[f], more),
                                                    IF n = w THEN next ELSE element[f].state)]
    <3>1. element' = [element EXCEPT ![f].net_buffer = more,
                                     ![f].state = IF n = w THEN next ELSE @]
      BY <1>10, <2>1, <2>2
    <3>2. element' = [element EXCEPT ![f] = WithState(WithInput(element[f], more),
                              IF n = w THEN next ELSE WithInput(element[f], more).state)]
      BY <2>1, <3>1 DEF WithState, WithInput
    <3>3. WithInput(element[f], more).state = element[f].state
      BY <1>0, <1>3 DEF WithInput, NetworkElement
    <3> QED BY <3>2, <3>3
  <2> QED BY <1>0, <1>1, <2>3
<1>12. rcv' = [rcv EXCEPT ![f] = left]
  BY <1>0, <1>10, <1>d DEF Inv, TypeOK
<1>13. delivered' = [delivered EXCEPT ![f] = d]
  BY <1>0, <1>10 DEF Inv, TypeOK, user_vars
<1>14. x.state \in TunState <=> f \in Tuns
  <2>1. x.state \in {"SCK_HEADER", "SCK_PAYLOAD", "SCK_READY"}
    BY <1>6, <1>7
  <2> QED BY <1>4, <2>1 DEF TunState
<1>15. InputOK(f \in Tuns, x, used[f], peer[f], left, in_size[f], in_sent[f], d)
  BY <1>0, <1>4, <1>7, Kinds
<1>16. element[f] \in NetworkElement /\ element[f].state # "SCK_ERROR"
       /\ x.write_buffer = element[f].write_buffer
  BY <1>0, <1>3, <1>6, <1>7
<1>17. UNCHANGED <<armed, used, peer, snd, in_size, in_sent, got, loop_vars, out_size, refused,
                   overtaken>>
  BY <1>10 DEF user_vars
<1> QED BY <1>3, <1>7, <1>11, <1>12, <1>13, <1>14, <1>15, <1>16, <1>17, ElementChanges

\* What process does to the element at hand.
LEMMA ProcessAt ==
    ASSUME Inv, NEW f \in Fds, NEW state, Processes(f, state)
    PROVE  /\ element[f] \in NetworkElement /\ element[f] # None /\ element[f].state = state
           /\ pc = "process" /\ cur = f /\ used[f] /\ direct = None /\ Rest(f) = <<>>
           /\ state \in TunState <=> f \in Tuns
           /\ element[f].net_buffer \in Seq(Byte)
           /\ Closing(f)
<1>1. pc = "process" /\ cur = f /\ element[f].state = state
  BY DEF Processes
<1>2. element[f] \in NetworkElement /\ used[f] /\ direct = None /\ Rest(f) = <<>>
  BY <1>1, AtHandIs
<1>3. element[f] # None /\ element[f].net_buffer \in Seq(Byte)
  BY <1>2, ElementFields
<1>4. state \in TunState <=> f \in Tuns
  BY <1>1, <1>3, Types
<1>5. "IN" \in batch[f]
  BY <1>1 DEF Inv, LoopOK
<1> QED BY <1>1, <1>2, <1>3, <1>4, <1>5 DEF Closing

\* read() from a TUN device.
LEMMA ReadTunInv == ASSUME Inv, NEW f \in Fds, ReadTun(f) PROVE Inv'
<1> DEFINE e == element[f]
           rc == rcv[f]
           x == WithState(WithInput(e, <<Head(rc)>>), "TUN_READY")
<1>1. Processes(f, "TUN_RECEIVE") /\ peer[f] # "reset" /\ rc # <<>>
  BY DEF ReadTun
<1>2. /\ e \in NetworkElement /\ e.state = "TUN_RECEIVE" /\ f \in Tuns
      /\ rc \in Seq(Byte) /\ in_size[f] \in Seq(Payloads) /\ in_sent[f] \in Nat
      /\ delivered[f] \in Seq(Seq(Byte))
  BY <1>1, ProcessAt, Types DEF TunState
<1>3. Head(rc) \in Byte /\ Tail(rc) \in Seq(Byte)
  BY <1>1, <1>2
<1>4. /\ x \in NetworkElement /\ x.state = "TUN_READY" /\ x.net_buffer = <<Head(rc)>>
      /\ x.write_buffer = e.write_buffer
  <2>1. <<Head(rc)>> \in Seq(Byte) /\ "TUN_READY" \in SckState \cup TunState
    BY <1>3 DEF TunState
  <2>2. /\ WithInput(e, <<Head(rc)>>) \in NetworkElement
        /\ WithInput(e, <<Head(rc)>>).net_buffer = <<Head(rc)>>
        /\ WithInput(e, <<Head(rc)>>).write_buffer = e.write_buffer
    BY <1>2, <2>1, ElementWith
  <2> QED BY <2>1, <2>2, ElementWith
<1>5. element' = [element EXCEPT ![f] = x]
  <2>1. element' = [element EXCEPT ![f].net_buffer = <<Head(rc)>>, ![f].state = "TUN_READY"]
    BY DEF ReadTun
  <2>2. element \in [Fds -> NetworkElement \cup {None}]
    BY DEF Inv, TypeOK
  <2> QED BY <2>1, <2>2 DEF WithState, WithInput
<1> HIDE DEF x
<1>6. InputOK(TRUE, e, used[f], peer[f], rc, in_size[f], in_sent[f], delivered[f])
  <2>1. InputOK(f \in Tuns, e, used[f], peer[f], rc, in_size[f], in_sent[f], delivered[f])
    BY Types DEF InOK
  <2> QED BY <1>2, <2>1, Kinds
<1>7. InputOK(TRUE, x, used[f], peer[f], Tail(rc), in_size[f], in_sent[f], delivered[f])
  BY <1>1, <1>2, <1>4, <1>6, InputReadTun
<1>8. InputOK(f \in Tuns, x, used[f], peer[f], Tail(rc), in_size[f], in_sent[f], delivered[f])
  BY <1>2, <1>7, Kinds
<1>9. rcv' = [rcv EXCEPT ![f] = Tail(rc)] /\ delivered' = [delivered EXCEPT ![f] = delivered[f]]
  BY DEF ReadTun, user_vars, Inv, TypeOK
<1>10. UNCHANGED <<armed, used, peer, snd, in_size, in_sent, got, loop_vars, out_size, refused,
                   overtaken>>
  BY DEF ReadTun, user_vars
<1>11. x.state \in TunState <=> f \in Tuns
  BY <1>2, <1>4 DEF TunState
<1>12. element[f].state # "SCK_ERROR"
  BY <1>2
<1> QED BY <1>2, <1>3, <1>4, <1>5, <1>8, <1>9, <1>10, <1>11, <1>12, ElementChanges

\* read() at end-of-file, and with an error.
LEMMA ReadEndsInv == ASSUME Inv, NEW f \in Fds, ReadEOF(f) \/ ReadError(f) PROVE Inv'
<1> DEFINE e == element[f]
<1>1. PICK state, next :
        /\ Processes(f, state) /\ element' = [element EXCEPT ![f].state = next]
        /\ next \in SckState \cup TunState
        /\ next \in TunState <=> f \in Tuns
        /\ \/ next \in Failed /\ state \in {"SCK_HEADER", "SCK_PAYLOAD", "TUN_RECEIVE"}
           \/ state = "SCK_HEADER" /\ next = "SCK_EOF"
           \/ state = "TUN_RECEIVE" /\ next = "TUN_EOF"
  <2>1. CASE ReadError(f)
    <3>1. PICK state \in {"SCK_HEADER", "SCK_PAYLOAD", "TUN_RECEIVE"} : Processes(f, state)
      BY <2>1 DEF ReadError, ReadsBytes
    <3> DEFINE next == IF f \in Tuns THEN "TUN_ERROR" ELSE "SCK_ERROR"
    <3>2. element' = [element EXCEPT ![f].state = next]
      BY <2>1 DEF ReadError
    <3>3. /\ next \in SckState \cup TunState /\ next \in Failed
          /\ next \in TunState <=> f \in Tuns
      BY DEF SckState, TunState, Failed
    <3> QED BY <3>1, <3>2, <3>3
  <2>2. CASE ReadEOF(f)
    <3>1. PICK state \in {"SCK_HEADER", "TUN_RECEIVE"} : Processes(f, state)
      BY <2>2 DEF ReadEOF
    <3>2. state \in TunState <=> f \in Tuns
      BY <3>1, ProcessAt
    <3> DEFINE next == IF f \in Tuns THEN "TUN_EOF" ELSE "SCK_EOF"
    <3>3. element' = [element EXCEPT ![f].state = next]
      BY <2>2 DEF ReadEOF
    <3>4. /\ next \in SckState \cup TunState
          /\ next \in TunState <=> f \in Tuns
          /\ \/ state = "SCK_HEADER" /\ next = "SCK_EOF"
             \/ state = "TUN_RECEIVE" /\ next = "TUN_EOF"
      BY <3>1, <3>2 DEF SckState, TunState
    <3> QED BY <3>1, <3>3, <3>4
  <2> QED BY <2>1, <2>2
<1>2. /\ e \in NetworkElement /\ e # None /\ e.state = state /\ rcv[f] \in Seq(Byte)
      /\ delivered[f] \in Seq(Seq(Byte))
  BY <1>1, ProcessAt, Types
<1> DEFINE x == WithState(e, next)
<1>3. /\ x \in NetworkElement /\ x.state = next /\ x.net_buffer = e.net_buffer
      /\ x.write_buffer = e.write_buffer
  BY <1>1, <1>2, ElementWith
<1>4. element' = [element EXCEPT ![f] = x]
  <2>1. element \in [Fds -> NetworkElement \cup {None}]
    BY DEF Inv, TypeOK
  <2> QED BY <1>1, <2>1 DEF WithState
<1> HIDE DEF x
<1>5. InputOK(f \in Tuns, x, used[f], peer[f], rcv[f], in_size[f], in_sent[f], delivered[f])
  <2>1. InputOK(f \in Tuns, e, used[f], peer[f], rcv[f], in_size[f], in_sent[f], delivered[f])
    BY Types DEF InOK
  <2>2. \/ x.state \in Failed
        \/ x.net_buffer = e.net_buffer /\ e.state = "SCK_HEADER" /\ x.state = "SCK_EOF"
        \/ x.net_buffer = e.net_buffer /\ e.state = "TUN_RECEIVE" /\ x.state = "TUN_EOF"
    BY <1>1, <1>2, <1>3
  <2>3. x # None
    BY <1>3, ElementFields
  <2> QED BY <1>2, <2>1, <2>2, <2>3, InputSame
<1>6. /\ rcv' = [rcv EXCEPT ![f] = rcv[f]] /\ delivered' = [delivered EXCEPT ![f] = delivered[f]]
  BY DEF ReadEOF, ReadError, user_vars, net_vars, Inv, TypeOK
<1>7. UNCHANGED <<armed, used, peer, snd, in_size, in_sent, got, loop_vars, out_size, refused,
                  overtaken>>
  BY DEF ReadEOF, ReadError, user_vars, net_vars
<1>8. x.state \in TunState <=> f \in Tuns
  BY <1>1, <1>3
<1>9. element[f].state # "SCK_ERROR"
  BY <1>1, <1>2
<1> QED BY <1>2, <1>3, <1>4, <1>5, <1>6, <1>7, <1>8, <1>9, ElementChanges

\* The packet of e has been handled.
LEMMA HandledIs ==
    ASSUME NEW e \in NetworkElement
    PROVE  /\ Handled(e) \in NetworkElement /\ Handled(e).write_buffer = e.write_buffer
           /\ Handled(e).state \in TunState <=> e.state = "TUN_READY"
           /\ e.state = "TUN_READY" => Handled(e).state = "TUN_RECEIVE"
           /\ e.state # "TUN_READY" => Handled(e).state = "SCK_HEADER" /\ Handled(e).net_buffer = <<>>
<1>1. "TUN_RECEIVE" \in SckState \cup TunState /\ "SCK_HEADER" \in SckState \cup TunState
  BY DEF SckState, TunState
<1>2. CASE e.state = "TUN_READY"
  <2>1. Handled(e) = WithState(e, "TUN_RECEIVE")
    BY <1>2 DEF Handled, WithState
  <2> QED BY <1>1, <1>2, <2>1, ElementWith DEF TunState
<1>3. CASE e.state # "TUN_READY"
  <2>1. Handled(e) = WithState(WithInput(e, <<>>), "SCK_HEADER")
    BY <1>3 DEF Handled, WithState, WithInput
  <2>2. /\ WithInput(e, <<>>) \in NetworkElement /\ WithInput(e, <<>>).net_buffer = <<>>
        /\ WithInput(e, <<>>).write_buffer = e.write_buffer
    BY Empties, ElementWith
  <2>3. /\ Handled(e) \in NetworkElement /\ Handled(e).state = "SCK_HEADER"
        /\ Handled(e).net_buffer = <<>> /\ Handled(e).write_buffer = e.write_buffer
    BY <1>1, <2>1, <2>2, ElementWith
  <2> QED BY <1>3, <2>3 DEF TunState
<1> QED BY <1>2, <1>3

\* The packet at hand is handed over, whatever is sent meanwhile.
LEMMA HandedOver ==
    ASSUME Inv, NEW f \in Fds, NEW state \in {"SCK_READY", "TUN_READY"}, Processes(f, state),
           NEW e \in NetworkElement, e.state = "TUN_READY" <=> element[f].state = "TUN_READY"
    PROVE  /\ Handled(e) \in NetworkElement /\ Handled(e).write_buffer = e.write_buffer
           /\ Handled(e).state \in TunState <=> f \in Tuns
           /\ Handled(e).state # "SCK_ERROR"
           /\ Append(delivered[f], element[f].net_buffer) \in Seq(Seq(Byte))
           /\ InputOK(f \in Tuns, Handled(e), used[f], peer[f], rcv[f], in_size[f], in_sent[f],
                      Append(delivered[f], element[f].net_buffer))
<1>1. /\ element[f] \in NetworkElement /\ element[f].state = state
      /\ state \in TunState <=> f \in Tuns
      /\ element[f].net_buffer \in Seq(Byte)
      /\ rcv[f] \in Seq(Byte) /\ in_size[f] \in Seq(Payloads) /\ in_sent[f] \in Nat
      /\ delivered[f] \in Seq(Seq(Byte))
  BY ProcessAt, Types
<1>2. /\ Handled(e) \in NetworkElement /\ Handled(e).write_buffer = e.write_buffer
      /\ Handled(e).state \in TunState <=> f \in Tuns
      /\ \/ Handled(e).state = "SCK_HEADER" /\ Handled(e).net_buffer = <<>>
         \/ Handled(e).state = "TUN_RECEIVE"
  BY <1>1, HandledIs DEF TunState
<1>3. InputOK(f \in Tuns, element[f], used[f], peer[f], rcv[f], in_size[f], in_sent[f], delivered[f])
  BY Types DEF InOK
<1>4. Handled(e) # None /\ (f \in Tuns) \in BOOLEAN
  BY <1>2, ElementFields
<1>5. InputOK(f \in Tuns, Handled(e), used[f], peer[f], rcv[f], in_size[f], in_sent[f],
              Append(delivered[f], element[f].net_buffer))
  BY <1>1, <1>2, <1>3, <1>4, InputDelivered
<1> QED BY <1>1, <1>2, <1>5

\* onSocketReady and onTunReady that send nothing.
LEMMA OnReadyInv == ASSUME Inv, NEW f \in Fds, OnReady(f) PROVE Inv'
<1>1. PICK state \in {"SCK_READY", "TUN_READY"} : Processes(f, state)
  BY DEF OnReady, IsReady
<1> DEFINE x == Handled(element[f])
           d == Append(delivered[f], element[f].net_buffer)
<1>2. element[f] \in NetworkElement /\ element[f].state # "SCK_ERROR" /\ rcv[f] \in Seq(Byte)
  BY <1>1, ProcessAt, Types
<1>3. /\ x \in NetworkElement /\ x.write_buffer = element[f].write_buffer
      /\ x.state \in TunState <=> f \in Tuns
      /\ d \in Seq(Seq(Byte))
      /\ InputOK(f \in Tuns, x, used[f], peer[f], rcv[f], in_size[f], in_sent[f], d)
  BY <1>1, <1>2, HandedOver
<1>4. /\ element' = [element EXCEPT ![f] = x] /\ delivered' = [delivered EXCEPT ![f] = d]
      /\ UNCHANGED <<armed, used, peer, snd, in_size, in_sent, got, loop_vars, out_size, refused,
                     overtaken>>
  BY DEF OnReady, Deliver, net_vars
<1>5. rcv' = [rcv EXCEPT ![f] = rcv[f]]
  BY DEF OnReady, net_vars, Inv, TypeOK
<1> HIDE DEF x, d
<1> QED BY <1>2, <1>3, <1>4, <1>5, ElementChanges

-----------------------------------------------------------------------------
(***************************************************************************)
(* Elements come and go.                                                   *)
(***************************************************************************)
LEMMA PutInv == ASSUME Inv, NEW f \in Fds, Put(f) PROVE Inv'
<1> USE DEF net_vars, loop_vars, user_vars
<1> DEFINE x == [state |-> IF f \in Tuns THEN "TUN_RECEIVE" ELSE "SCK_HEADER",
                 net_buffer |-> <<>>, write_buffer |-> <<>>]
<1>1. /\ pc = "idle" /\ ~used[f] /\ used' = [used EXCEPT ![f] = TRUE]
      /\ element' = [element EXCEPT ![f] = x] /\ armed' = [armed EXCEPT ![f] = {"IN"}]
      /\ UNCHANGED <<net_vars, loop_vars, user_vars>>
  BY DEF Put, PutWith
<1>2. /\ x \in NetworkElement /\ x.state \in {"TUN_RECEIVE", "SCK_HEADER"}
      /\ x.net_buffer = <<>> /\ x.write_buffer = <<>>
      /\ x.state \in TunState <=> f \in Tuns
  BY Empties DEF NetworkElement, SckState, TunState
<1> HIDE DEF x
<1>3. x # None /\ direct = None /\ Rest(f) = <<>> /\ element[f] = None /\ used[f] = FALSE
  <2>1. direct = None
    BY <1>1 DEF Inv, LoopOK
  <2> QED BY <1>1, <1>2, <2>1, Types, ElementFields
<1>4. element'[f] = x /\ used'[f] = TRUE
  BY <1>1 DEF Inv, TypeOK
<1>5. \A g \in Fds \ {f} : SameIn(g) /\ SameOut(g)
  BY <1>1 DEF SameIn, SameOut, Rest, Closing, Inv, TypeOK
<1>6. TypeOK'
  <2>1. \A g \in Fds : element'[g] # None => (element'[g].state \in TunState <=> g \in Tuns)
    <3>1. \A g \in Fds \ {f} : element'[g] = element[g]
      BY <1>5 DEF SameIn
    <3> QED BY <1>2, <1>4, <3>1 DEF Inv, TypeOK
  <2>2. /\ element' \in [Fds -> NetworkElement \cup {None}] /\ used' \in [Fds -> BOOLEAN]
        /\ armed' \in [Fds -> SUBSET Events]
    BY <1>1, <1>2 DEF Inv, TypeOK, Events
  <2> QED BY <1>1, <2>1, <2>2 DEF Inv, TypeOK
<1>7. Bounds'
  BY <1>1 DEF Inv, Bounds
<1>8. LoopOK'
  <2>1. \A g \in Fds : (armed'[g] # {} \/ batch'[g] # {} => element'[g] # None)
    BY <1>1, <1>3, <1>4 DEF Inv, TypeOK, LoopOK
  <2> QED BY <1>1, <1>3, <2>1 DEF Inv, LoopOK
<1>9. InOK(f)'
  <2>1. InputOK(f \in Tuns, None, FALSE, peer[f], rcv[f], in_size[f], in_sent[f], delivered[f])
    BY <1>3, Types DEF InOK
  <2>2. rcv[f] \in Seq(Byte) /\ (f \in Tuns) \in BOOLEAN
    BY Types
  <2>3. InputOK(f \in Tuns, x, TRUE, peer[f], rcv[f], in_size[f], in_sent[f], delivered[f])
    BY <1>2, <2>1, <2>2, InputPut
  <2> QED BY <1>1, <1>4, <2>3 DEF InOK
<1>10. OutOK(f)'
  <2>1. OutputOK(None, FALSE, peer[f], got[f], snd[f], <<>>, out_size[f], refused[f],
                 overtaken[f], Closing(f))
    BY <1>3, Types DEF OutOK
  <2>2. got[f] \in Seq(Byte) /\ snd[f] \in Seq(Byte)
    BY Types
  <2>3. OutputOK(x, TRUE, peer[f], got[f], snd[f], <<>>, out_size[f], refused[f],
                 overtaken[f], Closing(f))
    BY <1>2, <1>3, <2>1, <2>2, OutputPut
  <2>4. Rest(f)' = <<>> /\ Closing(f)' = Closing(f)
    BY <1>1, <1>3 DEF Rest, Closing
  <2> QED BY <1>1, <1>4, <2>3, <2>4 DEF OutOK
<1> QED BY <1>5, <1>6, <1>7, <1>8, <1>9, <1>10, OneDescriptor

\* put that fails.
LEMMA PutFailsInv == ASSUME Inv, NEW f \in Fds, PutFails(f) PROVE Inv'
<1> USE DEF loop_vars, user_vars
<1>1. /\ pc = "idle" /\ ~used[f] /\ used' = [used EXCEPT ![f] = TRUE]
      /\ rcv' = [rcv EXCEPT ![f] = <<>>]
      /\ UNCHANGED <<element, armed, peer, snd, in_size, in_sent, got, loop_vars, user_vars>>
  BY DEF PutFails
<1>2. element[f] = None /\ used[f] = FALSE
  BY <1>1, Types
<1>3. used'[f] = TRUE /\ rcv'[f] = <<>>
  BY <1>1 DEF Inv, TypeOK
<1>4. \A g \in Fds \ {f} : SameIn(g) /\ SameOut(g)
  BY <1>1 DEF SameIn, SameOut, Rest, Closing, Inv, TypeOK
<1>5. TypeOK'
  BY <1>1, Empties DEF Inv, TypeOK
<1>6. Bounds' /\ LoopOK'
  BY <1>1 DEF Inv, Bounds, LoopOK
<1>7. InOK(f)'
  <2>1. InputOK(f \in Tuns, None, TRUE, peer[f], <<>>, in_size[f], in_sent[f], delivered[f])
    BY Types, InputGone DEF InOK
  <2> QED BY <1>1, <1>2, <1>3, <2>1 DEF InOK
<1>8. OutOK(f)'
  <2>1. OutputOK(None, FALSE, peer[f], got[f], snd[f], Rest(f), out_size[f], refused[f],
                 overtaken[f], Closing(f))
    BY <1>2, Types DEF OutOK
  <2>2. OutputOK(None, TRUE, peer[f], got[f], snd[f], Rest(f), out_size[f], refused[f],
                 overtaken[f], Closing(f))
    BY <2>1 DEF OutputOK
  <2>3. Rest(f)' = Rest(f) /\ Closing(f)' = Closing(f)
    BY <1>1 DEF Rest, Closing
  <2> QED BY <1>1, <1>2, <1>3, <2>2, <2>3 DEF OutOK
<1> QED BY <1>4, <1>5, <1>6, <1>7, <1>8, OneDescriptor

\* onClose, and the element is freed.
LEMMA CloseInv == ASSUME Inv, NEW f \in Fds, Close(f) PROVE Inv'
<1> USE DEF user_vars
<1>1. /\ pc = "finish" /\ cur = f /\ element' = [element EXCEPT ![f] = None]
      /\ armed' = [armed EXCEPT ![f] = {}] /\ rcv' = [rcv EXCEPT ![f] = <<>>]
      /\ batch' = [batch EXCEPT ![f] = {}] /\ pc' \in {"event", "idle"}
      /\ cur' = None /\ failed' = FALSE
      /\ UNCHANGED <<direct, used, peer, snd, in_size, in_sent, got, user_vars>>
  BY DEF Close, EventDone
<1>2. element[f] \in NetworkElement /\ used[f] /\ direct = None /\ Rest(f) = <<>> /\ used[f] = TRUE
  BY <1>1, AtHandIs, Types
<1>3. element'[f] = None /\ rcv'[f] = <<>> /\ armed'[f] = {} /\ batch'[f] = {}
  BY <1>1 DEF Inv, TypeOK
<1>4. \A g \in Fds \ {f} : SameIn(g) /\ SameOut(g)
  BY <1>1 DEF SameIn, SameOut, Rest, Closing, Inv, TypeOK
<1>5. TypeOK'
  <2>1. /\ element' \in [Fds -> NetworkElement \cup {None}] /\ rcv' \in [Fds -> Seq(Byte)]
        /\ armed' \in [Fds -> SUBSET Events] /\ batch' \in [Fds -> SUBSET Events]
    BY <1>1, Empties DEF Inv, TypeOK
  <2>2. \A g \in Fds : element'[g] # None => (element'[g].state \in TunState <=> g \in Tuns)
    BY <1>1, <1>3 DEF Inv, TypeOK
  <2> QED BY <1>1, <2>1, <2>2 DEF Inv, TypeOK
<1>6. Bounds'
  BY <1>1 DEF Inv, Bounds
<1>7. LoopOK'
  BY <1>1, <1>2, <1>3 DEF Inv, LoopOK, TypeOK
<1>8. InOK(f)'
  <2>1. InputOK(f \in Tuns, None, TRUE, peer[f], <<>>, in_size[f], in_sent[f], delivered[f])
    BY Types, InputGone DEF InOK
  <2> QED BY <1>1, <1>2, <1>3, <2>1 DEF InOK
<1>9. OutOK(f)'
  <2>1. OutputOK(element[f], used[f], peer[f], got[f], snd[f], <<>>, out_size[f], refused[f],
                 overtaken[f], Closing(f))
    BY <1>2, Types DEF OutOK
  <2>2. /\ element[f] \in NetworkElement \cup {None} /\ None \in NetworkElement \cup {None}
        /\ got[f] \in Seq(Byte) /\ snd[f] \in Seq(Byte) /\ <<>> \in Seq(Byte)
    BY Types, Empties
  <2>3. OutputOK(None, used[f], peer[f], got[f], snd[f], <<>>, out_size[f], refused[f],
                 overtaken[f], FALSE)
    BY <2>1, <2>2, OutputLost
  <2>4. OutputOK(None, used[f], peer[f], got[f], snd[f], <<>>, out_size[f], refused[f],
                 overtaken[f], Closing(f)')
    BY <2>3 DEF OutputOK
  <2>5. Rest(f)' = <<>>
    BY <1>1, <1>2 DEF Rest
  <2> QED BY <1>1, <1>3, <2>4, <2>5 DEF OutOK
<1> QED BY <1>4, <1>5, <1>6, <1>7, <1>8, <1>9, OneDescriptor

\* onSocketReady closes its own socket.
LEMMA OnSocketReadyClosesInv == ASSUME Inv, NEW f \in Fds, OnSocketReadyCloses(f) PROVE Inv'
<1> DEFINE e == element[f]
           d == Append(delivered[f], e.net_buffer)
           x == WithState(WithOutput(WithInput(e, <<>>), <<>>), "SCK_ERROR")
<1>1. /\ Processes(f, "SCK_READY") /\ rcv' = [rcv EXCEPT ![f] = <<>>]
      /\ pc' \in {"process", "crashed"} /\ delivered' = [delivered EXCEPT ![f] = d]
      /\ UNCHANGED <<cur, batch, failed, direct, armed, used, peer, snd, in_size, in_sent, got,
                     out_size, refused, overtaken>>
  BY DEF OnSocketReadyCloses, Deliver
<1>2. /\ e \in NetworkElement /\ e # None /\ e.state = "SCK_READY" /\ pc = "process" /\ cur = f
      /\ direct = None /\ Rest(f) = <<>> /\ f \notin Tuns /\ e.net_buffer \in Seq(Byte)
      /\ Closing(f) /\ rcv[f] \in Seq(Byte) /\ in_size[f] \in Seq(Payloads) /\ in_sent[f] \in Nat
      /\ delivered[f] \in Seq(Seq(Byte))
  <2>1. "SCK_READY" \notin TunState
    BY DEF TunState
  <2>2. /\ e \in NetworkElement /\ e # None /\ e.state = "SCK_READY" /\ pc = "process" /\ cur = f
        /\ direct = None /\ Rest(f) = <<>> /\ f \notin Tuns /\ e.net_buffer \in Seq(Byte)
        /\ Closing(f)
    BY <1>1, <2>1, ProcessAt
  <2> QED BY <2>2, Types
<1>3. element' = [element EXCEPT ![f] = x]
  <2>1. element' = [element EXCEPT ![f].net_buffer = <<>>, ![f].write_buffer = <<>>,
                                   ![f].state = "SCK_ERROR"]
    BY DEF OnSocketReadyCloses
  <2>2. element \in [Fds -> NetworkElement \cup {None}]
    BY DEF Inv, TypeOK
  <2> QED BY <2>1, <2>2 DEF WithState, WithInput, WithOutput
<1>4. x \in NetworkElement /\ x.state = "SCK_ERROR" /\ x.write_buffer = <<>>
  <2> DEFINE y == WithInput(e, <<>>)
             z == WithOutput(y, <<>>)
  <2>1. y \in NetworkElement
    BY <1>2, Empties, ElementWith
  <2>2. z \in NetworkElement /\ z.write_buffer = <<>>
    <3> HIDE DEF y
    <3> QED BY <2>1, Empties, ElementWith
  <2>3. "SCK_ERROR" \in SckState \cup TunState
    BY DEF SckState
  <2> HIDE DEF z
  <2>4. /\ WithState(z, "SCK_ERROR") \in NetworkElement
        /\ WithState(z, "SCK_ERROR").state = "SCK_ERROR"
        /\ WithState(z, "SCK_ERROR").write_buffer = <<>>
    BY <2>2, <2>3, ElementWith
  <2> QED BY <2>4 DEF z
<1> HIDE DEF x
<1>5. x # None /\ d \in Seq(Seq(Byte)) /\ x.state \in Failed /\ x.state \notin TunState
  BY <1>2, <1>4, ElementFields DEF Failed, TunState
<1>6. InputOK(f \in Tuns, x, used[f], peer[f], <<>>, in_size[f], in_sent[f], d)
  <2>1. InputOK(f \in Tuns, e, used[f], peer[f], rcv[f], in_size[f], in_sent[f], delivered[f])
    BY Types DEF InOK
  <2>2. (f \in Tuns) \in BOOLEAN
    OBVIOUS
  <2> QED BY <1>2, <1>5, <2>1, <2>2, InputDelivered
<1> HIDE DEF d
<1>7. element'[f] = x /\ rcv'[f] = <<>> /\ delivered'[f] = d
  BY <1>1, <1>3 DEF Inv, TypeOK
<1>8. \A g \in Fds \ {f} : SameIn(g) /\ SameOut(g)
  BY <1>1, <1>2, <1>3 DEF SameIn, SameOut, Rest, Closing, Inv, TypeOK
<1>9. TypeOK'
  <2>1. /\ element' \in [Fds -> NetworkElement \cup {None}] /\ rcv' \in [Fds -> Seq(Byte)]
        /\ delivered' \in [Fds -> Seq(Seq(Byte))]
    BY <1>1, <1>3, <1>4, <1>5, Empties, Assigned DEF Inv, TypeOK
  <2>2. \A g \in Fds : element'[g] # None => (element'[g].state \in TunState <=> g \in Tuns)
    <3>1. \A g \in Fds \ {f} : element'[g] = element[g]
      BY <1>8 DEF SameIn
    <3> QED BY <1>2, <1>5, <1>7, <3>1 DEF Inv, TypeOK
  <2> QED BY <1>1, <2>1, <2>2 DEF Inv, TypeOK
<1>10. Bounds'
  BY <1>1 DEF Inv, Bounds
<1>11. LoopOK'
  <2>1. \A g \in Fds : element[g] # None => element'[g] # None
    BY <1>5, <1>7, <1>8 DEF SameIn
  <2> QED BY <1>1, <1>2, <2>1 DEF Inv, LoopOK
<1>12. InOK(f)'
  BY <1>1, <1>6, <1>7 DEF InOK
<1>13. OutOK(f)'
  <2>1. OutputOK(e, used[f], peer[f], got[f], snd[f], <<>>, out_size[f], refused[f],
                 overtaken[f], Closing(f))
    BY <1>2, Types DEF OutOK
  <2>2. /\ e \in NetworkElement \cup {None} /\ x \in NetworkElement \cup {None}
        /\ got[f] \in Seq(Byte) /\ snd[f] \in Seq(Byte) /\ <<>> \in Seq(Byte)
    BY <1>4, Types, Empties
  <2>3. Closing(f)' /\ Rest(f)' = <<>>
    BY <1>1, <1>2 DEF Closing, Rest
  <2>4. OutputOK(x, used[f], peer[f], got[f], snd[f], <<>>, out_size[f], refused[f],
                 overtaken[f], Closing(f)')
    BY <1>4, <1>5, <2>1, <2>2, <2>3, OutputLost, ZenonT(30)
  <2> QED BY <1>1, <1>7, <2>3, <2>4 DEF OutOK
<1> QED BY <1>8, <1>9, <1>10, <1>11, <1>12, <1>13, OneDescriptor

-----------------------------------------------------------------------------
(***************************************************************************)
(* Writing.                                                                *)
(***************************************************************************)
\* Of the bytes b, the kernel takes n.
Splits(s, b, n, st, left) ==
    /\ n = IF Len(b) <= Room(s) THEN Len(b) ELSE Room(s)
    /\ st = s \o SubSeq(b, 1, n) /\ left = SubSeq(b, n + 1, Len(b))
Takes(s, b, n, st, left) ==
    /\ st \in Seq(Byte) /\ Len(st) <= SndBuf /\ left \in Seq(Byte) /\ st \o left = s \o b
    /\ n = Len(b) <=> left = <<>>
    /\ b = <<>> => left = <<>>
LEMMA Fits ==
    ASSUME NEW s \in Seq(Byte), NEW b \in Seq(Byte), Len(s) <= SndBuf, NEW n, NEW st, NEW left,
           Splits(s, b, n, st, left)
    PROVE  Takes(s, b, n, st, left)
<1>0. /\ n = IF Len(b) <= Room(s) THEN Len(b) ELSE Room(s)
      /\ st = s \o SubSeq(b, 1, n) /\ left = SubSeq(b, n + 1, Len(b))
  BY DEF Splits
<1>1. PICK u, lb : u = Len(s) /\ lb = Len(b)
  OBVIOUS
<1>2. u \in Nat /\ lb \in Nat /\ SndBuf \in Nat /\ u <= SndBuf
  BY <1>1, SizeAssumption
<1>3. n = IF lb <= SndBuf - u THEN lb ELSE SndBuf - u
  BY <1>0, <1>1 DEF Room
<1>4. n \in 0 .. lb /\ n \in Nat /\ u + n <= SndBuf
  BY <1>2, <1>3
<1>5. n \in 0 .. Len(b)
  BY <1>1, <1>4
<1>6. /\ s \o SubSeq(b, 1, n) \in Seq(Byte) /\ SubSeq(b, n + 1, Len(b)) \in Seq(Byte)
      /\ Len(s \o SubSeq(b, 1, n)) = Len(s) + n
      /\ (s \o SubSeq(b, 1, n)) \o SubSeq(b, n + 1, Len(b)) = s \o b
  BY <1>5, BytesMove
<1>7. Len(SubSeq(b, n + 1, Len(b))) = Len(b) - n
  BY <1>5, Cut
<1>8. PICK rest : rest = SubSeq(b, n + 1, Len(b))
  OBVIOUS
<1>9. rest \in Seq(Byte) /\ Len(rest) = lb - n
  BY <1>1, <1>6, <1>7, <1>8
<1>10. n = lb <=> rest = <<>>
  <2>1. rest = <<>> <=> Len(rest) = 0
    BY <1>9, EmptySeq
  <2> QED BY <1>2, <1>4, <1>9, <2>1
<1>11. Len(s \o SubSeq(b, 1, n)) <= SndBuf
  BY <1>1, <1>4, <1>6
<1>12. b = <<>> => lb = 0 /\ n = Len(b)
  BY <1>1, <1>4
<1>13. s \o SubSeq(b, 1, n) \in Seq(Byte) /\ SubSeq(b, n + 1, Len(b)) \in Seq(Byte)
  BY <1>5, <1>6
<1>14. left = rest /\ st \in Seq(Byte) /\ left \in Seq(Byte) /\ Len(st) <= SndBuf
  BY <1>0, <1>8, <1>11, <1>13, Zenon
<1>15. st \o left = s \o b
  BY <1>0, <1>6, Zenon
<1>16. n = Len(b) <=> left = <<>>
  BY <1>1, <1>10, <1>14, Zenon
<1>17. b = <<>> => left = <<>>
  BY <1>12, <1>16, Zenon
<1> QED BY <1>14, <1>15, <1>16, <1>17, Zenon DEF Takes

\* flush_write_buffer.
LEMMA FlushInv == ASSUME Inv, NEW f \in Fds, FlushWriteBuffer(f) PROVE Inv'
<1> USE DEF user_vars
<1> DEFINE e == element[f]
<1>0. PICK buf, s : buf = e.write_buffer /\ s = snd[f]
  OBVIOUS
<1>a. PICK n, st, left : Splits(s, buf, n, st, left)
  BY DEF Splits
<1>1. /\ pc = "flush" /\ cur = f /\ pc' = "finish"
      /\ UNCHANGED <<cur, batch, direct, used, peer, rcv, in_size, in_sent, got, user_vars>>
  BY DEF FlushWriteBuffer
<1>2. /\ e \in NetworkElement /\ e # None /\ direct = None /\ Rest(f) = <<>> /\ buf \in Seq(Byte)
      /\ s \in Seq(Byte) /\ Len(s) <= SndBuf /\ got[f] \in Seq(Byte)
  BY <1>0, <1>1, AtHandIs, ElementFields, Types
<1>3. /\ st \in Seq(Byte) /\ Len(st) <= SndBuf /\ left \in Seq(Byte) /\ st \o left = s \o buf
      /\ n = Len(buf) <=> left = <<>>
  <2>1. Takes(s, buf, n, st, left)
    BY <1>2, <1>a, Fits
  <2> QED BY <2>1 DEF Takes
<1>4. CASE UNCHANGED <<element, armed, snd>> /\ failed' = TRUE
  <2>1. TypeOK'
    BY <1>1, <1>4 DEF Inv, TypeOK
  <2>2. LoopOK'
    BY <1>1, <1>4 DEF Inv, LoopOK
  <2>3. \A g \in Fds : Closing(g) /\ element[g].state = "SCK_ERROR" => Closing(g)'
    BY <1>1 DEF Closing
  <2>4. UNCHANGED <<element, used, net_vars, user_vars, direct>>
    BY <1>1, <1>4 DEF net_vars
  <2> QED BY <2>1, <2>2, <2>3, <2>4, LoopOnly
<1>5. CASE /\ ~(peer[f] = "reset" /\ buf # <<>>)
           /\ snd' = [snd EXCEPT ![f] = st] /\ element' = [element EXCEPT ![f] = WithOutput(e, left)]
           /\ armed' = armed \/ armed' = [armed EXCEPT ![f] = {"IN"}]
           /\ UNCHANGED failed
  <2> DEFINE x == WithOutput(e, left)
  <2>1. /\ x \in NetworkElement /\ x.write_buffer = left /\ x.state = e.state
        /\ x.net_buffer = e.net_buffer
    BY <1>2, <1>3, ElementWith
  <2>2. x # None
    BY <2>1, ElementFields
  <2> HIDE DEF x
  <2>3. element'[f] = x /\ snd'[f] = st
    BY <1>5 DEF Inv, TypeOK, x
  <2>4. \A g \in Fds \ {f} : SameIn(g) /\ SameOut(g)
    BY <1>1, <1>5 DEF SameIn, SameOut, Rest, Closing, Inv, TypeOK
  <2>5. TypeOK'
    <3>1. /\ element' \in [Fds -> NetworkElement \cup {None}] /\ snd' \in [Fds -> Seq(Byte)]
          /\ armed' \in [Fds -> SUBSET Events]
      <4>1. /\ element \in [Fds -> NetworkElement \cup {None}] /\ snd \in [Fds -> Seq(Byte)]
            /\ armed \in [Fds -> SUBSET Events] /\ {"IN"} \in SUBSET Events
            /\ element' = [element EXCEPT ![f] = x]
        BY <1>5 DEF Inv, TypeOK, Events, x
      <4>2. snd' \in [Fds -> Seq(Byte)]
        BY <1>3, <1>5, <4>1, Assigned
      <4>3. element' \in [Fds -> NetworkElement \cup {None}]
        BY <2>1, <4>1
      <4>4. armed' \in [Fds -> SUBSET Events]
        BY <1>5, <4>1
      <4> QED BY <4>2, <4>3, <4>4
    <3>2. \A g \in Fds : element'[g] # None => (element'[g].state \in TunState <=> g \in Tuns)
      <4>1. \A g \in Fds \ {f} : element'[g] = element[g]
        BY <2>4 DEF SameIn
      <4>2. x.state \in TunState <=> f \in Tuns
        BY <1>2, <2>1, Types
      <4> QED BY <2>3, <4>1, <4>2 DEF Inv, TypeOK
    <3> QED BY <1>1, <1>5, <3>1, <3>2 DEF Inv, TypeOK
  <2>6. Bounds'
    <3>1. \A j \in Fds \ {f} : snd'[j] = snd[j]
      BY <2>4 DEF SameOut
    <3> QED BY <1>1, <1>3, <2>3, <3>1 DEF Inv, Bounds
  <2>7. LoopOK'
    <3>1. \A g \in Fds : element[g] # None => element'[g] # None
      BY <2>2, <2>3, <2>4 DEF SameIn
    <3>2. \A g \in Fds : (armed'[g] # {} \/ batch'[g] # {} => element'[g] # None)
      BY <1>1, <1>2, <1>5, <3>1 DEF Inv, LoopOK, TypeOK
    <3> QED BY <1>1, <1>2, <3>2 DEF Inv, LoopOK
  <2>8. InOK(f)'
    <3>1. InputOK(f \in Tuns, e, used[f], peer[f], rcv[f], in_size[f], in_sent[f], delivered[f])
      BY Types DEF InOK
    <3>2. InputOK(f \in Tuns, x, used[f], peer[f], rcv[f], in_size[f], in_sent[f], delivered[f])
      BY <1>2, <2>1, <2>2, <3>1, InputSame
    <3> QED BY <1>1, <2>3, <3>2 DEF InOK
  <2>9. OutOK(f)'
    <3>1. OutputOK(e, used[f], peer[f], got[f], s, <<>>, out_size[f], refused[f],
                   overtaken[f], Closing(f))
      BY <1>0, <1>2, Types DEF OutOK
    <3>2. peer[f] = "reset" => s = <<>> /\ buf = <<>>
      BY <1>5, <3>1 DEF OutputOK
    <3>3. peer[f] = "reset" => st = <<>>
      BY <1>2, <1>3, <3>2, Empties, EmptyConcat
    <3>4. Total(x, peer[f], got[f], st, <<>>) = Total(e, peer[f], got[f], s, <<>>)
      <4>1. CASE peer[f] = "reset"
        BY <3>2, <3>3, <4>1 DEF Total, Unwritten
      <4>2. CASE peer[f] # "reset"
        <5>1. Unwritten(x, peer[f], <<>>) = left /\ Unwritten(e, peer[f], <<>>) = buf
          BY <1>0, <1>2, <1>3, <2>1, <2>2, <4>2, Empties DEF Unwritten
        <5>2. PICK a : a = got[f]
          OBVIOUS
        <5>3. /\ a \in Seq(Byte) /\ st \in Seq(Byte) /\ left \in Seq(Byte)
              /\ s \in Seq(Byte) /\ buf \in Seq(Byte)
          BY <1>2, <1>3, <5>2
        <5>4. (a \o st) \o left = a \o (st \o left) /\ (a \o s) \o buf = a \o (s \o buf)
          <6>1. Assoc(a, st, left) /\ Assoc(a, s, buf)
            BY <5>3, Associates
          <6> QED BY <6>1 DEF Assoc
        <5>5. (a \o st) \o left = (a \o s) \o buf
          BY <1>3, <5>4
        <5> QED BY <5>1, <5>2, <5>5 DEF Total
      <4> QED BY <4>1, <4>2
    <3>5. Rest(f)' = <<>> /\ Closing(f)' = Closing(f)
      BY <1>1, <1>2 DEF Rest, Closing
    <3>6. OutputOK(x, used[f], peer[f], got[f], st, <<>>, out_size[f], refused[f],
                   overtaken[f], Closing(f))
      BY <1>2, <2>1, <2>2, <3>1, <3>3, <3>4, OutputSame
    <3> QED BY <1>1, <2>3, <3>5, <3>6 DEF OutOK
  <2> QED BY <2>4, <2>5, <2>6, <2>7, <2>8, <2>9, OneDescriptor
<1>6. \/ UNCHANGED <<element, armed, snd>> /\ failed' = TRUE
      \/ /\ ~(peer[f] = "reset" /\ buf # <<>>)
         /\ snd' = [snd EXCEPT ![f] = @ \o SubSeq(buf, 1, n)]
         /\ element' = [element EXCEPT ![f].write_buffer = SubSeq(@, n + 1, Len(@))]
         /\ armed' = armed \/ armed' = [armed EXCEPT ![f] = {"IN"}]
         /\ UNCHANGED failed
  <2>1. n = IF Len(e.write_buffer) <= Room(snd[f]) THEN Len(e.write_buffer) ELSE Room(snd[f])
    BY <1>0, <1>a DEF Splits
  <2> QED BY <1>0, <2>1 DEF FlushWriteBuffer
<1>7. ASSUME element' = [element EXCEPT ![f].write_buffer = SubSeq(@, n + 1, Len(@))],
             snd' = [snd EXCEPT ![f] = @ \o SubSeq(buf, 1, n)]
      PROVE  /\ snd' = [snd EXCEPT ![f] = st]
             /\ element' = [element EXCEPT ![f] = WithOutput(e, left)]
  <2>1. element \in [Fds -> NetworkElement \cup {None}]
    BY DEF Inv, TypeOK
  <2>2. element' = [element EXCEPT ![f] = WithOutput(e, SubSeq(e.write_buffer, n + 1, Len(e.write_buffer)))]
    BY <1>7, <2>1 DEF WithOutput
  <2> QED BY <1>0, <1>7, <1>a, <2>2 DEF Splits
<1> QED BY <1>4, <1>5, <1>6, <1>7

\* write_n_bytes writes some of the packet to the socket.
LEMMA WriteSomeInv == ASSUME Inv, WriteSome PROVE Inv'
<1> USE DEF queue_vars, user_vars
<1>1. PICK f, b, s : f = direct.fd /\ b = direct.rest /\ s = snd[f]
  OBVIOUS
<1>a. PICK n, st, left : Splits(s, b, n, st, left)
  BY DEF Splits
<1>2. /\ pc = "direct" /\ direct # None /\ f \in Fds /\ peer[f] # "reset"
      /\ UNCHANGED <<cur, batch, failed, queue_vars, peer, rcv, in_size, in_sent, got, user_vars>>
      /\ snd' = [snd EXCEPT ![f] = st]
      /\ \/ n = Len(b) /\ direct' = None /\ pc' = "process"
         \/ n # Len(b) /\ direct' = [direct EXCEPT !.rest = SubSeq(@, n + 1, Len(@))] /\ pc' = pc
  BY <1>1, <1>a DEF WriteSome, Inv, LoopOK, TypeOK, Writing, Splits
<1>3. /\ direct \in Writing /\ b \in Seq(Byte) /\ direct = [fd |-> f, rest |-> b] /\ Rest(f) = b
      /\ s \in Seq(Byte) /\ Len(s) <= SndBuf /\ got[f] \in Seq(Byte)
      /\ element[f] \in NetworkElement \cup {None}
  BY <1>1, <1>2, Types DEF Inv, TypeOK, Writing, Rest
<1>4. /\ st \in Seq(Byte) /\ Len(st) <= SndBuf /\ left \in Seq(Byte) /\ st \o left = s \o b
      /\ n = Len(b) <=> left = <<>>
      /\ b = <<>> => left = <<>>
  <2>1. s \in Seq(Byte) /\ b \in Seq(Byte) /\ Len(s) <= SndBuf
    BY <1>3
  <2>2. Takes(s, b, n, st, left)
    BY <1>a, <2>1, Fits
  <2> QED BY <2>2 DEF Takes
<1>5. \/ left = <<>> /\ direct' = None /\ pc' = "process"
      \/ direct' = [fd |-> f, rest |-> left] /\ pc' = "direct"
  <2>1. left = SubSeq(b, n + 1, Len(b))
    BY <1>a DEF Splits
  <2>2. [direct EXCEPT !.rest = SubSeq(@, n + 1, Len(@))] = [fd |-> f, rest |-> left]
    <3>1. direct = [fd |-> f, rest |-> b]
      BY <1>3
    <3>2. direct.rest = b
      BY <3>1
    <3>3. [direct EXCEPT !.rest = SubSeq(@, n + 1, Len(@))] = [direct EXCEPT !.rest = left]
      BY <2>1, <3>2, Zenon
    <3>4. [direct EXCEPT !.rest = left] = [fd |-> f, rest |-> left]
      BY <3>1
    <3> QED BY <3>3, <3>4, Zenon
  <2> QED BY <1>2, <1>4, <2>2
<1>6. Rest(f)' = left
  <2>1. [fd |-> f, rest |-> left] \in Writing
    BY <1>2, <1>4 DEF Writing
  <2>2. [fd |-> f, rest |-> left] # None
    BY <2>1, NoneAssumption
  <2>3. CASE direct' = None /\ left = <<>>
    BY <2>3 DEF Rest
  <2>4. CASE direct' = [fd |-> f, rest |-> left]
    BY <2>2, <2>4 DEF Rest
  <2> QED BY <1>5, <2>3, <2>4
<1>7. \A g \in Fds \ {f} : Rest(g) = <<>> /\ Rest(g)' = <<>>
  <2>1. \A g \in Fds \ {f} : Rest(g) = <<>>
    BY <1>3 DEF Rest
  <2>2. \A g \in Fds \ {f} : Rest(g)' = <<>>
    BY <1>5 DEF Rest
  <2> QED BY <2>1, <2>2
<1>8. snd'[f] = st /\ \A g \in Fds \ {f} : snd'[g] = snd[g]
  BY <1>2 DEF Inv, TypeOK
<1>9. ~Closing(f) /\ \A g \in Fds : ~Closing(g)
  BY <1>2 DEF Closing
<1>10. \A g \in Fds \ {f} : SameIn(g) /\ SameOut(g)
  BY <1>2, <1>7, <1>8, <1>9 DEF SameIn, SameOut
<1>11. TypeOK'
  <2>1. snd' \in [Fds -> Seq(Byte)]
    BY <1>2, <1>4, Assigned DEF Inv, TypeOK
  <2>2. direct' \in Writing \cup {None} /\ pc' \in {"process", "direct"}
    BY <1>2, <1>4, <1>5 DEF Writing
  <2> QED BY <1>2, <2>1, <2>2 DEF Inv, TypeOK
<1>12. Bounds'
  BY <1>2, <1>4, <1>8 DEF Inv, Bounds
<1>13. LoopOK'
  <2>1. [fd |-> f, rest |-> left] # None
    BY <1>2, <1>4, NoneAssumption DEF Writing
  <2>2. /\ f \in Direct /\ element[f] # None /\ out_size[f] # <<>> /\ cur \in Fds /\ batch[cur] # {}
        /\ "IN" \in batch[cur]
    BY <1>1, <1>2 DEF Inv, LoopOK
  <2>3. \A g \in Fds : (armed'[g] # {} \/ batch'[g] # {} => element'[g] # None)
    BY <1>2 DEF Inv, LoopOK
  <2>4. CASE direct' = None /\ pc' = "process"
    BY <1>2, <2>2, <2>3, <2>4 DEF LoopOK
  <2>5. CASE direct' = [fd |-> f, rest |-> left] /\ pc' = "direct"
    BY <1>2, <2>1, <2>2, <2>3, <2>5 DEF LoopOK
  <2> QED BY <1>5, <2>4, <2>5
<1>14. InOK(f)'
  <2>1. SameIn(f)
    BY <1>2 DEF SameIn
  <2> QED BY <1>2, <2>1, Types, SameInOK
<1>15. OutOK(f)'
  <2>1. OutputOK(element[f], used[f], peer[f], got[f], s, b, out_size[f], refused[f],
                 overtaken[f], Closing(f))
    BY <1>1, <1>2, <1>3, Types DEF OutOK
  <2>2. ~overtaken[f] /\ left # <<>> => element[f] # None /\ element[f].write_buffer = <<>>
    <3>1. b = <<>> => left = <<>>
      BY <1>4
    <3> QED BY <2>1, <3>1 DEF OutputOK
  <2>3. Total(element[f], peer[f], got[f], st, left) = Total(element[f], peer[f], got[f], s, b)
    <3>1. PICK a, w : a = got[f] /\ w = (IF element[f] = None THEN <<>> ELSE element[f].write_buffer)
      OBVIOUS
    <3>2. w \in Seq(Byte)
      BY <1>3, <3>1, ElementFields, Empties
    <3>3. Unwritten(element[f], peer[f], left) = left \o w /\ Unwritten(element[f], peer[f], b) = b \o w
      BY <1>2, <3>1 DEF Unwritten
    <3>4. /\ a \in Seq(Byte) /\ st \in Seq(Byte) /\ left \in Seq(Byte)
          /\ s \in Seq(Byte) /\ b \in Seq(Byte) /\ w \in Seq(Byte)
      BY <1>3, <1>4, <3>1, <3>2
    <3>5. \A y, z \in Seq(Byte) : (a \o y) \o (z \o w) = a \o ((y \o z) \o w)
      <4> SUFFICES ASSUME NEW y \in Seq(Byte), NEW z \in Seq(Byte)
                   PROVE  (a \o y) \o (z \o w) = a \o ((y \o z) \o w)
        OBVIOUS
      <4>1. a \in Seq(Byte) /\ w \in Seq(Byte)
        BY <3>4
      <4>2. PICK zw : zw = z \o w
        OBVIOUS
      <4>3. zw \in Seq(Byte)
        BY <4>1, <4>2, Associates
      <4>4. (a \o y) \o zw = a \o (y \o zw)
        <5>1. Assoc(a, y, zw)
          BY <4>1, <4>3, Associates
        <5> QED BY <5>1 DEF Assoc
      <4>5. (y \o z) \o w = y \o (z \o w)
        <5>1. Assoc(y, z, w)
          BY <4>1, Associates
        <5> QED BY <5>1 DEF Assoc
      <4> QED BY <4>2, <4>4, <4>5
    <3>6. (a \o st) \o (left \o w) = (a \o s) \o (b \o w)
      <4>1. (a \o st) \o (left \o w) = a \o ((st \o left) \o w)
        BY <3>4, <3>5
      <4>2. (a \o s) \o (b \o w) = a \o ((s \o b) \o w)
        BY <3>4, <3>5
      <4> QED BY <1>4, <4>1, <4>2
    <3> QED BY <3>1, <3>3, <3>6 DEF Total
  <2>4. OutputOK(element[f], used[f], peer[f], got[f], st, left, out_size[f], refused[f],
                 overtaken[f], Closing(f)')
    BY <1>2, <1>9, <2>1, <2>2, <2>3, OutputSame
  <2> QED BY <1>2, <1>6, <1>8, <2>4 DEF OutOK
<1> QED BY <1>2, <1>10, <1>11, <1>12, <1>13, <1>14, <1>15, OneDescriptor

\* The socket fails meanwhile.
LEMMA WriteFailsInv == ASSUME Inv, WriteFails PROVE Inv'
<1> USE DEF queue_vars, net_vars
<1>1. PICK f, rg : f = direct.fd /\ rg = refused[f] \cup {Len(out_size[f])}
  OBVIOUS
<1>2. /\ pc = "direct" /\ direct # None /\ f \in Fds /\ peer[f] = "reset" /\ pc' = "process"
      /\ direct' = None /\ refused' = [refused EXCEPT ![f] = rg]
      /\ UNCHANGED <<cur, batch, failed, queue_vars, net_vars, delivered, out_size, overtaken>>
  BY <1>1 DEF WriteFails, Inv, LoopOK, TypeOK, Writing
<1>3. /\ out_size[f] # <<>> /\ cur \in Fds /\ batch[cur] # {} /\ "IN" \in batch[cur]
  BY <1>1, <1>2 DEF Inv, LoopOK
<1>4. rg \subseteq 1 .. Len(out_size[f]) /\ rg \in SUBSET (1 .. MaxOut) /\ refused[f] \subseteq rg
  <2>1. /\ out_size[f] \in Seq(Payloads \cup {0}) /\ refused[f] \subseteq 1 .. Len(out_size[f])
        /\ Len(out_size[f]) <= MaxOut
    BY <1>2, Types
  <2>2. Len(out_size[f]) \in Nat \ {0} /\ MaxOut \in Nat
    BY <1>3, <2>1, EmptySeq, SizeAssumption
  <2>3. PICK l : l = Len(out_size[f])
    OBVIOUS
  <2>4. l \in 1 .. l /\ 1 .. l \subseteq 1 .. MaxOut
    BY <2>1, <2>2, <2>3
  <2> QED BY <1>1, <2>1, <2>3, <2>4
<1>5. refused'[f] = rg /\ \A g \in Fds \ {f} : refused'[g] = refused[g]
  BY <1>2 DEF Inv, TypeOK
<1>6. \A g \in Fds \ {f} : Rest(g) = <<>> /\ Rest(g)' = <<>>
  BY <1>1, <1>2 DEF Rest
<1>7. \A g \in Fds : ~Closing(g)
  BY <1>2 DEF Closing
<1>8. \A g \in Fds \ {f} : SameIn(g) /\ SameOut(g)
  BY <1>2, <1>5, <1>6, <1>7 DEF SameIn, SameOut
<1>9. TypeOK'
  <2>1. refused' \in [Fds -> SUBSET (1 .. MaxOut)]
    BY <1>2, <1>4, Assigned DEF Inv, TypeOK
  <2> QED BY <1>2, <2>1 DEF Inv, TypeOK
<1>10. Bounds'
  BY <1>2, <1>4, <1>5 DEF Inv, Bounds
<1>11. LoopOK'
  BY <1>2, <1>3 DEF Inv, LoopOK
<1>12. InOK(f)'
  <2>1. SameIn(f)
    BY <1>2 DEF SameIn
  <2> QED BY <1>2, <2>1, Types, SameInOK
<1>13. OutOK(f)'
  <2>1. OutputOK(element[f], used[f], "reset", got[f], snd[f], Rest(f), out_size[f], refused[f],
                 overtaken[f], Closing(f))
    BY <1>2, Types DEF OutOK
  <2>2. OutputOK(element[f], used[f], "reset", got[f], snd[f], <<>>, out_size[f], rg,
                 overtaken[f], Closing(f)')
    BY <1>4, <2>1, OutputRefused
  <2>3. Rest(f)' = <<>>
    BY <1>2 DEF Rest
  <2> QED BY <1>2, <1>5, <2>2, <2>3 DEF OutOK
<1> QED BY <1>2, <1>8, <1>9, <1>10, <1>11, <1>12, <1>13, OneDescriptor

-----------------------------------------------------------------------------
(***************************************************************************)
(* Sending.                                                                *)
(***************************************************************************)
\* What is added behind what was written and buffered is behind all that was sent.
IsBehind(g, s, w, t, v, b) ==
    /\ g \in Seq(Byte) /\ s \in Seq(Byte) /\ w \in Seq(Byte) /\ t \in Seq(Byte)
    /\ v \in Seq(Byte) /\ b \in Seq(Byte) /\ t \o v = (s \o w) \o b

AllBehind(g, s, w, t, v, b) == (g \o t) \o v = ((g \o s) \o w) \o b

LEMMA Behind ==
    ASSUME NEW g, NEW s, NEW w, NEW t, NEW v, NEW b, IsBehind(g, s, w, t, v, b)
    PROVE  AllBehind(g, s, w, t, v, b)
<1>1. /\ g \in Seq(Byte) /\ s \in Seq(Byte) /\ w \in Seq(Byte) /\ t \in Seq(Byte)
      /\ v \in Seq(Byte) /\ b \in Seq(Byte)
  BY DEF IsBehind
<1>2. Assoc(g, t, v) /\ Assoc(g, s, w) /\ s \o w \in Seq(Byte)
  BY <1>1, Associates
<1>3. Assoc(g, s \o w, b)
  BY <1>1, <1>2, Associates
<1> QED BY <1>2, <1>3 DEF Assoc, IsBehind, AllBehind

\* What sending packet n to g makes, r, has the right types; rg is refused[g] then.
SentOK(g, n, r, rg) ==
    /\ r.element \in NetworkElement /\ r.armed \in SUBSET Events
    /\ r.snd \in Seq(Byte) /\ Len(r.snd) <= SndBuf
    /\ r.element.net_buffer = element[g].net_buffer
    /\ r.element.state \in {element[g].state, "SCK_ERROR"}
    /\ Append(out_size[g], n) \in Seq(Payloads \cup {0}) /\ Append(out_size[g], n) # <<>>
    /\ Len(Append(out_size[g], n)) <= MaxOut
    /\ rg \subseteq 1 .. Len(Append(out_size[g], n)) /\ rg \in SUBSET (1 .. MaxOut)

\* A packet that is sent stays within the types and the bounds.
LEMMA SentTypes ==
    ASSUME Inv, NEW g \in Fds, element[g] \in NetworkElement,
           Len(out_size[g]) < MaxOut, NEW n \in Payloads \cup {0}, NEW r,
           r = SendPacket(g, Len(out_size[g]) + 1, n), NEW rg,
           rg = IF r.ok THEN refused[g] ELSE refused[g] \cup {Len(out_size[g]) + 1}
    PROVE  /\ SentOK(g, n, r, rg)
           /\ AddsPacket(Sent(TRUE, element[g], armed[g], snd[g]), Len(out_size[g]) + 1, n,
                         peer[g] = "reset", r)
<1>1. /\ armed[g] \in SUBSET Events /\ snd[g] \in Seq(Byte) /\ Len(snd[g]) <= SndBuf
      /\ out_size[g] \in Seq(Payloads \cup {0}) /\ refused[g] \subseteq 1 .. Len(out_size[g])
  BY Types
<1>2. PICK os, k : os = out_size[g] /\ k = Len(os) + 1
  OBVIOUS
<1>3. /\ Len(os) \in Nat /\ k \in Nat /\ n \in Nat /\ Len(Append(os, n)) = k
      /\ Append(os, n) # <<>> /\ Append(os, n) \in Seq(Payloads \cup {0})
  BY <1>1, <1>2, OutSizesOK
<1>4. AddsPacket(Sent(TRUE, element[g], armed[g], snd[g]), k, n, peer[g] = "reset", r)
  BY <1>1, <1>2, <1>3, SendPacketAdds
<1>5. SentFrom(Sent(TRUE, element[g], armed[g], snd[g]), r, peer[g] = "reset")
  BY <1>4 DEF AddsPacket
<1>6. /\ r.element \in NetworkElement /\ r.armed \in SUBSET Events
      /\ r.snd \in Seq(Byte) /\ Len(r.snd) <= SndBuf
      /\ r.element.net_buffer = element[g].net_buffer
      /\ r.element.state \in {element[g].state, "SCK_ERROR"}
  <2>1. Sent(TRUE, element[g], armed[g], snd[g]).element = element[g]
    BY DEF Sent
  <2> QED BY <1>5, <2>1 DEF SentFrom, IsSent
<1>7. k <= MaxOut /\ rg \subseteq 1 .. k /\ rg \in SUBSET (1 .. MaxOut)
  <2>1. k <= MaxOut /\ MaxOut \in Nat /\ k \in 1 .. k /\ 1 .. k \subseteq 1 .. MaxOut
        /\ 1 .. Len(os) \subseteq 1 .. k
    BY <1>2, <1>3, SizeAssumption
  <2>2. refused[g] \subseteq 1 .. k
    BY <1>1, <1>2, <2>1
  <2>3. rg \subseteq refused[g] \cup {k}
    BY <1>2
  <2> QED BY <2>1, <2>2, <2>3
<1> QED BY <1>2, <1>3, <1>4, <1>6, <1>7 DEF SentOK

\* A packet that is sent goes behind what was sent before.
LEMMA SentOutput ==
    ASSUME Inv, NEW g \in Fds, element[g] \in NetworkElement, direct = None,
           ~(Closing(g) /\ element[g].state = "SCK_ERROR"),
           Len(out_size[g]) < MaxOut, NEW n \in Payloads \cup {0}, NEW r,
           r = SendPacket(g, Len(out_size[g]) + 1, n), NEW rg,
           rg = IF r.ok THEN refused[g] ELSE refused[g] \cup {Len(out_size[g]) + 1},
           NEW x \in NetworkElement, x.write_buffer = r.element.write_buffer, NEW d
    PROVE  OutputOK(x, used[g], peer[g], got[g], r.snd, <<>>, Append(out_size[g], n), rg,
                    overtaken[g], d)
<1>1. PICK e, p, a, sn, os, rf, ov, k, st, w, v, start :
        /\ e = element[g] /\ p = peer[g] /\ a = got[g] /\ sn = snd[g] /\ os = out_size[g]
        /\ rf = refused[g] /\ ov = overtaken[g] /\ k = Len(os) + 1 /\ st = r.snd
        /\ w = e.write_buffer /\ v = x.write_buffer /\ start = Sent(TRUE, e, armed[g], sn)
  OBVIOUS
<1>2. SentOK(g, n, r, rg) /\ AddsPacket(start, k, n, p = "reset", r)
  BY <1>1, SentTypes
<1>3. /\ e \in NetworkElement /\ e # None /\ x # None /\ a \in Seq(Byte) /\ sn \in Seq(Byte)
      /\ os \in Seq(Payloads \cup {0}) /\ rf \subseteq 1 .. Len(os) /\ used[g] = TRUE
      /\ w \in Seq(Byte) /\ v \in Seq(Byte) /\ Rest(g) = <<>> /\ st \in Seq(Byte)
  BY <1>1, <1>2, Types, ElementFields DEF SentOK
<1>4. OutputOK(e, TRUE, p, a, sn, <<>>, os, rf, ov, Closing(g))
  BY <1>1, <1>3, Types DEF OutOK
<1>5. Outgoing(start) = sn \o w /\ Outgoing(r) = st \o v
  BY <1>1 DEF Outgoing, Sent
<1>6. p = "reset" => sn = <<>> /\ st = sn
  <2>1. start.snd = sn
    BY <1>1 DEF Sent
  <2> QED BY <1>1, <1>2, <1>4, <2>1 DEF AddsPacket, SentFrom, OutputOK
<1>7. /\ p # "reset" => Total(e, p, a, sn, <<>>) = (a \o sn) \o w
      /\ p # "reset" => Total(x, p, a, st, <<>>) = (a \o st) \o v
      /\ p = "reset" => Total(e, p, a, sn, <<>>) = (a \o sn) \o <<>>
      /\ p = "reset" => Total(x, p, a, st, <<>>) = (a \o st) \o <<>>
  BY <1>1, <1>3, Empties DEF Total, Unwritten
<1>8. \E b : /\ Total(x, p, a, st, <<>>) = Total(e, p, a, sn, <<>>) \o b
             /\ \/ p = "reset" /\ b = <<>> /\ rf \subseteq rg
                \/ p # "reset" /\ b = PacketBytes(k, n) /\ rg = rf
                \/ Of(k, PACKET_HEADER_SIZE + n, b) /\ rg = rf \cup {k}
  <2>1. CASE p = "reset"
    <3>1. Total(x, p, a, st, <<>>) = Total(e, p, a, sn, <<>>)
      BY <1>6, <1>7, <2>1
    <3>2. Total(e, p, a, sn, <<>>) \in Seq(Byte)
      BY <1>3, Empties, TotalBytes
    <3>3. Total(e, p, a, sn, <<>>) \o <<>> = Total(e, p, a, sn, <<>>)
      BY <3>2, Empties
    <3>4. rf \subseteq rg
      BY <1>1
    <3> QED BY <2>1, <3>1, <3>3, <3>4
  <2>2. ASSUME p # "reset", NEW b \in Seq(Byte), Outgoing(r) = Outgoing(start) \o b
        PROVE  Total(x, p, a, st, <<>>) = Total(e, p, a, sn, <<>>) \o b
    <3>1. st \o v = (sn \o w) \o b
      BY <1>5, <2>2
    <3>2. (a \o st) \o v = ((a \o sn) \o w) \o b
      <4>1. /\ a \in Seq(Byte) /\ sn \in Seq(Byte) /\ w \in Seq(Byte) /\ st \in Seq(Byte)
            /\ v \in Seq(Byte) /\ b \in Seq(Byte)
        BY <1>3, <2>2
      <4>2. IsBehind(a, sn, w, st, v, b)
        BY <3>1, <4>1 DEF IsBehind
      <4>3. AllBehind(a, sn, w, st, v, b)
        BY <4>2, Behind
      <4> QED BY <4>3 DEF AllBehind
    <3> QED BY <1>7, <2>2, <3>2
  <2>3. CASE p # "reset" /\ r.ok
    <3>1. Outgoing(r) = Outgoing(start) \o PacketBytes(k, n) /\ rg = rf
      BY <1>1, <1>2, <2>3 DEF AddsPacket
    <3>2. PacketBytes(k, n) \in Seq(Byte)
      <4>1. k \in Nat /\ n \in Nat
        BY <1>1, <1>3, OutSizesOK
      <4> QED BY <4>1, Packets
    <3> QED BY <2>2, <2>3, <3>1, <3>2
  <2>4. CASE p # "reset" /\ ~r.ok
    <3>1. PICK b : Of(k, PACKET_HEADER_SIZE + n, b) /\ Outgoing(r) = Outgoing(start) \o b
      BY <1>2, <2>4 DEF AddsPacket
    <3>2. b \in Seq(Byte) /\ rg = rf \cup {k}
      BY <1>1, <2>4, <3>1 DEF Of
    <3> QED BY <2>2, <2>4, <3>1, <3>2
  <2> QED BY <2>1, <2>3, <2>4
<1>9. PICK b : /\ Total(x, p, a, st, <<>>) = Total(e, p, a, sn, <<>>) \o b
               /\ \/ p = "reset" /\ b = <<>> /\ rf \subseteq rg
                  \/ p # "reset" /\ b = PacketBytes(k, n) /\ rg = rf
                  \/ Of(k, PACKET_HEADER_SIZE + n, b) /\ rg = rf \cup {k}
  BY <1>8
<1>10. \/ p = "reset" /\ b = <<>> /\ rf \subseteq rg
       \/ p # "reset" /\ b = PacketBytes(Len(os) + 1, n) /\ rg = rf
       \/ Of(Len(os) + 1, PACKET_HEADER_SIZE + n, b) /\ rg = rf \cup {Len(os) + 1}
  BY <1>1, <1>9
<1>11. ~(Closing(g) /\ e.state = "SCK_ERROR") /\ (p = "reset" => st = <<>>)
  BY <1>1, <1>6
<1>12. OutputOK(x, TRUE, p, a, st, <<>>, Append(os, n), rg, ov, d)
  <2>1. /\ e \in NetworkElement /\ x # None /\ a \in Seq(Byte) /\ sn \in Seq(Byte)
        /\ os \in Seq(Payloads \cup {0}) /\ rf \subseteq 1 .. Len(os)
    BY <1>3
  <2>2. Total(x, p, a, st, <<>>) = Total(e, p, a, sn, <<>>) \o b
    BY <1>9
  <2>3. /\ p = "reset" => st = <<>> 
        /\ ~ov => ~ov
        /\ ~ov /\ <<>> # <<>> => x.write_buffer = <<>>
        /\ ~ov => Total(x, p, a, st, <<>>) = Total(e, p, a, sn, <<>>) \o b
        /\ n \in Payloads \cup {0}
    BY <1>11, <2>2
  <2>4. Grows(e, x, p, a, sn, st, <<>>, os, n, rf, rg, ov, ov, Closing(g), b)
    BY <1>4, <1>10, <1>11, <2>1, <2>3 DEF Grows
  <2> QED BY <2>4, OutputGrows
<1> QED BY <1>1, <1>3, <1>12

\* send_heartbeat.
LEMMA SendHeartbeatInv == ASSUME Inv, NEW f \in Fds, SendHeartbeat(f) PROVE Inv'
<1> USE DEF loop_vars
<1>1. PICK r, rg : /\ r = SendPacket(f, Len(out_size[f]) + 1, 0)
                   /\ rg = IF r.ok THEN refused[f] ELSE refused[f] \cup {Len(out_size[f]) + 1}
  OBVIOUS
<1>2. /\ pc = "idle" /\ f \notin Tuns /\ element[f] # None /\ Len(out_size[f]) < MaxOut
      /\ element' = [element EXCEPT ![f] = r.element] /\ armed' = [armed EXCEPT ![f] = r.armed]
      /\ snd' = [snd EXCEPT ![f] = r.snd]
      /\ out_size' = [out_size EXCEPT ![f] = Append(out_size[f], 0)]
      /\ refused' = [refused EXCEPT ![f] = rg]
      /\ UNCHANGED <<used, peer, rcv, in_size, in_sent, got, loop_vars, delivered, overtaken>>
  BY <1>1 DEF SendHeartbeat, Sends
<1>3. /\ element[f] \in NetworkElement /\ direct = None /\ ~Closing(f)
      /\ 0 \in Payloads \cup {0}
  BY <1>2, Types DEF Inv, LoopOK, Closing
<1>4. SentOK(f, 0, r, rg)
  BY <1>1, <1>2, <1>3, SentTypes
<1>5. OutputOK(r.element, used[f], peer[f], got[f], r.snd, <<>>, Append(out_size[f], 0), rg,
               overtaken[f], Closing(f))
  <2>1. r.element \in NetworkElement
    BY <1>4 DEF SentOK
  <2> QED BY <1>1, <1>2, <1>3, <2>1, SentOutput
<1>6. /\ element'[f] = r.element /\ snd'[f] = r.snd /\ out_size'[f] = Append(out_size[f], 0)
      /\ refused'[f] = rg
  BY <1>2 DEF Inv, TypeOK
<1>7. \A g \in Fds \ {f} : SameIn(g) /\ SameOut(g)
  BY <1>2 DEF SameIn, SameOut, Rest, Closing, Inv, TypeOK
<1>8. r.element # None /\ r.element.state \notin TunState
  <2>1. element[f].state \notin TunState
    BY <1>2, Types
  <2>2. "SCK_ERROR" \notin TunState
    BY DEF TunState
  <2> QED BY <1>4, <2>1, <2>2, ElementFields DEF SentOK
<1>9. TypeOK'
  <2>1. /\ element' \in [Fds -> NetworkElement \cup {None}] /\ armed' \in [Fds -> SUBSET Events]
        /\ snd' \in [Fds -> Seq(Byte)] /\ out_size' \in [Fds -> Seq(Payloads \cup {0})]
        /\ refused' \in [Fds -> SUBSET (1 .. MaxOut)]
    BY <1>2, <1>4, Assigned DEF Inv, TypeOK, SentOK
  <2>2. \A g \in Fds : element'[g] # None => (element'[g].state \in TunState <=> g \in Tuns)
    <3>1. \A g \in Fds \ {f} : element'[g] = element[g]
      BY <1>7 DEF SameIn
    <3> QED BY <1>2, <1>6, <1>8, <3>1 DEF Inv, TypeOK
  <2> QED BY <1>2, <2>1, <2>2 DEF Inv, TypeOK
<1>10. Bounds'
  <2>1. \A g \in Fds \ {f} : snd'[g] = snd[g] /\ out_size'[g] = out_size[g] /\ refused'[g] = refused[g]
    BY <1>7 DEF SameOut
  <2> QED BY <1>4, <1>6, <2>1 DEF Inv, Bounds, SentOK
<1>11. LoopOK'
  <2>1. \A g \in Fds : element[g] # None => element'[g] # None
    BY <1>6, <1>7, <1>8 DEF SameIn
  <2>2. \A g \in Fds : (armed'[g] # {} \/ batch'[g] # {} => element'[g] # None)
    BY <1>2, <1>6, <1>8, <2>1 DEF Inv, LoopOK, TypeOK
  <2> QED BY <1>2, <1>3, <2>2 DEF Inv, LoopOK
<1>12. InOK(f)'
  <2>1. InputOK(f \in Tuns, element[f], used[f], peer[f], rcv[f], in_size[f], in_sent[f],
                delivered[f])
    BY Types DEF InOK
  <2>2. \/ r.element.state \in Failed
        \/ r.element.net_buffer = element[f].net_buffer /\ r.element.state = element[f].state
    BY <1>4 DEF SentOK, Failed
  <2>3. InputOK(f \in Tuns, r.element, used[f], peer[f], rcv[f], in_size[f], in_sent[f],
                delivered[f])
    BY <1>2, <1>8, <2>1, <2>2, InputSame
  <2> QED BY <1>2, <1>6, <2>3 DEF InOK
<1>13. OutOK(f)'
  <2>1. Rest(f)' = <<>> /\ Closing(f)' = Closing(f)
    BY <1>2, <1>3 DEF Rest, Closing
  <2> QED BY <1>2, <1>5, <1>6, <2>1 DEF OutOK
<1> QED BY <1>7, <1>9, <1>10, <1>11, <1>12, <1>13, OneDescriptor

-----------------------------------------------------------------------------
(***************************************************************************)
(* A handler that sends: the input of one descriptor, the output of        *)
(* another, which may be the same.                                         *)
(***************************************************************************)
LEMMA TwoDescriptors ==
    ASSUME Inv, NEW f \in Fds, NEW g \in Fds, \A h \in Fds \ {f, g} : SameIn(h) /\ SameOut(h),
           InOK(f)', InOK(g)', OutOK(f)', OutOK(g)', TypeOK', Bounds', LoopOK'
    PROVE  Inv'
<1>1. ASSUME NEW h \in Fds  PROVE InOK(h)' /\ OutOK(h)'
  <2>1. CASE h = f
    BY <2>1
  <2>2. CASE h = g
    BY <2>2
  <2>3. CASE h \notin {f, g}
    <3>1. InOK(h) /\ OutOK(h) /\ SameIn(h) /\ SameOut(h)
      BY <2>3, Types
    <3> QED BY <3>1, SameInOK, SameOutOK
  <2> QED BY <2>1, <2>2, <2>3
<1> QED BY <1>1 DEF Inv, Input, Output

\* What an element writes does not depend on its input.
LEMMA SameBuffer ==
    ASSUME Inv, NEW f \in Fds, element[f] \in NetworkElement, element[f].state # "SCK_ERROR",
           NEW x \in NetworkElement, x.write_buffer = element[f].write_buffer, NEW d
    PROVE  OutputOK(x, used[f], peer[f], got[f], snd[f], Rest(f), out_size[f], refused[f],
                    overtaken[f], d)
<1>0. x # None /\ element[f] # None
  BY ElementFields
<1>1. OutputOK(element[f], used[f], peer[f], got[f], snd[f], Rest(f), out_size[f], refused[f],
               overtaken[f], Closing(f))
  BY Types DEF OutOK
<1>2. Total(x, peer[f], got[f], snd[f], Rest(f))
        = Total(element[f], peer[f], got[f], snd[f], Rest(f))
  BY <1>0 DEF Total, Unwritten
<1>3. /\ ~overtaken[f] /\ Rest(f) # <<>> => x # None /\ x.write_buffer = <<>>
      /\ peer[f] = "reset" => snd[f] = <<>>
  BY <1>0, <1>1 DEF OutputOK
<1> QED BY <1>0, <1>1, <1>2, <1>3, OutputSame

\* onSocketReady and onTunReady that send a packet.
LEMMA OnReadySendsInv ==
    ASSUME Inv, NEW f \in Fds, NEW g \in Fds, NEW n \in Payloads, OnReadySends(f, g, n)
    PROVE  Inv'
<1> USE DEF loop_vars
<1>1. PICK r, rg, e, x, dl :
        /\ r = SendPacket(g, Len(out_size[g]) + 1, n)
        /\ rg = (IF r.ok THEN refused[g] ELSE refused[g] \cup {Len(out_size[g]) + 1})
        /\ e = (IF f = g THEN r.element ELSE element[f]) /\ x = Handled(e)
        /\ dl = Append(delivered[f], element[f].net_buffer)
  OBVIOUS
<1>2. PICK state \in {"SCK_READY", "TUN_READY"} : Processes(f, state)
  BY DEF OnReadySends, IsReady
<1>3. /\ g \notin Tuns /\ element[g] # None /\ Len(out_size[g]) < MaxOut
      /\ element' = [[element EXCEPT ![g] = r.element] EXCEPT ![f] = Handled(@)]
      /\ armed' = [armed EXCEPT ![g] = r.armed]
      /\ snd' = [snd EXCEPT ![g] = r.snd]
      /\ out_size' = [out_size EXCEPT ![g] = Append(out_size[g], n)]
      /\ refused' = [refused EXCEPT ![g] = rg]
      /\ delivered' = [delivered EXCEPT ![f] = dl]
      /\ UNCHANGED <<used, peer, rcv, in_size, in_sent, got, loop_vars, overtaken>>
  BY <1>1 DEF OnReadySends, Sends, Deliver
<1>4. /\ element[f] \in NetworkElement /\ element[f].state = state /\ pc = "process" /\ cur = f
      /\ direct = None /\ element[g] \in NetworkElement /\ element[g].state \notin TunState
      /\ n \in Payloads \cup {0} /\ Rest(f) = <<>>
  BY <1>2, <1>3, ProcessAt, AtHandIs, Types DEF Processes
<1>5. ~(Closing(g) /\ element[g].state = "SCK_ERROR") /\ element[f].state # "SCK_ERROR"
  BY <1>4 DEF Closing
<1>6. SentOK(g, n, r, rg)
  BY <1>1, <1>3, <1>4, SentTypes
<1>7. e \in NetworkElement /\ (e.state = "TUN_READY" <=> element[f].state = "TUN_READY")
  <2>1. r.element.state # "TUN_READY" /\ element[g].state # "TUN_READY"
    BY <1>4, <1>6 DEF SentOK, TunState
  <2> QED BY <1>1, <1>4, <1>6, <2>1 DEF SentOK
<1>8. /\ x \in NetworkElement /\ x.write_buffer = e.write_buffer
      /\ x.state \in TunState <=> f \in Tuns
      /\ x.state # "SCK_ERROR" /\ dl \in Seq(Seq(Byte))
      /\ InputOK(f \in Tuns, x, used[f], peer[f], rcv[f], in_size[f], in_sent[f], dl)
  BY <1>1, <1>2, <1>7, HandedOver
<1>9. /\ element'[f] = x /\ (f # g => element'[g] = r.element)
      /\ \A h \in Fds \ {f, g} : element'[h] = element[h]
  BY <1>1, <1>3 DEF Inv, TypeOK
<1>10. /\ delivered'[f] = dl /\ snd'[g] = r.snd /\ out_size'[g] = Append(out_size[g], n)
       /\ refused'[g] = rg
       /\ f # g => /\ delivered'[g] = delivered[g] /\ snd'[f] = snd[f]
                   /\ out_size'[f] = out_size[f] /\ refused'[f] = refused[f]
  BY <1>3 DEF Inv, TypeOK
<1>11. \A h \in Fds \ {f, g} : SameIn(h) /\ SameOut(h)
  BY <1>3, <1>9 DEF SameIn, SameOut, Rest, Closing, Inv, TypeOK
<1>12. r.element # None /\ x # None /\ r.element.state \notin TunState
  <2>1. "SCK_ERROR" \notin TunState
    BY DEF TunState
  <2> QED BY <1>4, <1>6, <1>8, <2>1, ElementFields DEF SentOK
<1>13. TypeOK'
  <2>1. /\ armed' \in [Fds -> SUBSET Events]
        /\ snd' \in [Fds -> Seq(Byte)] /\ out_size' \in [Fds -> Seq(Payloads \cup {0})]
        /\ refused' \in [Fds -> SUBSET (1 .. MaxOut)] /\ delivered' \in [Fds -> Seq(Seq(Byte))]
    BY <1>3, <1>6, <1>8, Assigned DEF Inv, TypeOK, SentOK
  <2>2. element' \in [Fds -> NetworkElement \cup {None}]
    <3>1. element' = [[element EXCEPT ![g] = r.element] EXCEPT ![f] = x]
      BY <1>1, <1>3 DEF Inv, TypeOK
    <3>2. [element EXCEPT ![g] = r.element] \in [Fds -> NetworkElement \cup {None}]
      BY <1>6, Assigned DEF Inv, TypeOK, SentOK
    <3> QED BY <1>8, <3>1, <3>2, Assigned
  <2>3. \A h \in Fds : element'[h] # None => (element'[h].state \in TunState <=> h \in Tuns)
    <3>1. element'[f].state \in TunState <=> f \in Tuns
      BY <1>8, <1>9
    <3>2. element'[g].state \in TunState <=> g \in Tuns
      BY <1>3, <1>9, <1>12, <3>1
    <3>3. ASSUME NEW h \in Fds \ {f, g}, element'[h] # None
          PROVE  element'[h].state \in TunState <=> h \in Tuns
      BY <1>9, <3>3, Types
    <3> QED BY <3>1, <3>2, <3>3
  <2> QED BY <1>3, <2>1, <2>2, <2>3 DEF Inv, TypeOK
<1>14. Bounds'
  <2>1. \A h \in Fds \ {g} : snd'[h] = snd[h] /\ out_size'[h] = out_size[h] /\ refused'[h] = refused[h]
    BY <1>3 DEF Inv, TypeOK
  <2> QED BY <1>6, <1>10, <2>1 DEF Inv, Bounds, SentOK
<1>15. LoopOK'
  <2>1. \A h \in Fds : element[h] # None => element'[h] # None
    BY <1>9, <1>12
  <2>2. element'[g] # None /\ \A h \in Fds \ {g} : armed'[h] = armed[h]
    BY <1>3, <1>9, <1>12 DEF Inv, TypeOK
  <2>3. \A h \in Fds : (armed'[h] # {} \/ batch'[h] # {} => element'[h] # None)
    BY <1>3, <2>1, <2>2 DEF Inv, LoopOK
  <2> QED BY <1>3, <1>4, <2>3 DEF Inv, LoopOK
<1>16. InOK(f)'
  BY <1>3, <1>8, <1>9, <1>10 DEF InOK
<1>17. InOK(g)'
  <2>1. CASE f # g
    <3>1. InputOK(g \in Tuns, element[g], used[g], peer[g], rcv[g], in_size[g], in_sent[g],
                  delivered[g])
      BY Types DEF InOK
    <3>2. \/ r.element.state \in Failed
          \/ r.element.net_buffer = element[g].net_buffer /\ r.element.state = element[g].state
      BY <1>6 DEF SentOK, Failed
    <3>3. InputOK(g \in Tuns, r.element, used[g], peer[g], rcv[g], in_size[g], in_sent[g],
                  delivered[g])
      BY <1>3, <1>12, <3>1, <3>2, InputSame
    <3> QED BY <1>3, <1>9, <1>10, <2>1, <3>3 DEF InOK
  <2> QED BY <1>16, <2>1
<1>18. Rest(f)' = <<>> /\ Rest(g)' = <<>>
  BY <1>3, <1>4 DEF Rest
<1>19. OutOK(g)'
  <2>1. PICK y, d : y = element'[g] /\ d = Closing(g)'
    OBVIOUS
  <2>2. y \in NetworkElement /\ y.write_buffer = r.element.write_buffer
    BY <1>1, <1>6, <1>8, <1>9, <2>1 DEF SentOK
  <2>3. OutputOK(y, used[g], peer[g], got[g], r.snd, <<>>, Append(out_size[g], n), rg,
                 overtaken[g], d)
    BY <1>1, <1>3, <1>4, <1>5, <2>2, SentOutput
  <2> QED BY <1>3, <1>10, <1>18, <2>1, <2>3 DEF OutOK
<1>20. OutOK(f)'
  <2>1. CASE f # g
    <3>1. PICK d : d = Closing(f)'
      OBVIOUS
    <3>2. OutputOK(x, used[f], peer[f], got[f], snd[f], Rest(f), out_size[f], refused[f],
                   overtaken[f], d)
      BY <1>1, <1>4, <1>5, <1>8, <2>1, SameBuffer
    <3> QED BY <1>3, <1>4, <1>9, <1>10, <1>18, <2>1, <3>1, <3>2 DEF OutOK
  <2> QED BY <1>19, <2>1
<1> QED BY <1>11, <1>13, <1>14, <1>15, <1>16, <1>17, <1>19, <1>20, TwoDescriptors

-----------------------------------------------------------------------------
\* The whole packet is to be written past the queue.
LEMMA DirectOutput ==
    ASSUME Inv, NEW g \in Fds, element[g] \in NetworkElement, direct = None,
           ~(Closing(g) /\ element[g].state = "SCK_ERROR"),
           NEW n \in Payloads \cup {0}, NEW w, w = PacketBytes(Len(out_size[g]) + 1, n),
           NEW x \in NetworkElement, x.write_buffer = element[g].write_buffer, NEW d
    PROVE  OutputOK(x, used[g], peer[g], got[g], snd[g], w, Append(out_size[g], n), refused[g],
                    overtaken[g] \/ element[g].write_buffer # <<>>, d)
<1>1. PICK e, p, a, sn, os, rf, ov, ow, b :
        /\ e = element[g] /\ p = peer[g] /\ a = got[g] /\ sn = snd[g] /\ os = out_size[g]
        /\ rf = refused[g] /\ ov = overtaken[g] /\ ow = (ov \/ e.write_buffer # <<>>)
        /\ b = IF p = "reset" THEN <<>> ELSE w
  OBVIOUS
<1>2. /\ e \in NetworkElement /\ e # None /\ x # None /\ a \in Seq(Byte) /\ sn \in Seq(Byte)
      /\ os \in Seq(Payloads \cup {0}) /\ rf \subseteq 1 .. Len(os) /\ used[g] = TRUE
      /\ Rest(g) = <<>>
  BY <1>1, Types, ElementFields
<1>3. w \in Seq(Byte)
  <2>1. Len(os) + 1 \in Nat /\ n \in Nat
    BY <1>2, OutSizesOK
  <2> QED BY <1>1, <2>1, Packets
<1>4. OutputOK(e, TRUE, p, a, sn, <<>>, os, rf, ov, Closing(g))
  BY <1>1, <1>2, Types DEF OutOK
<1>5. p = "reset" => sn = <<>>
  BY <1>4 DEF OutputOK
<1>6. ~ow => Total(x, p, a, sn, w) = Total(e, p, a, sn, <<>>) \o b
  <2>1. PICK s : s = a \o sn
    OBVIOUS
  <2>2. s \in Seq(Byte)
    BY <1>2, <2>1, Associates
  <2>3. CASE p = "reset"
    <3>1. Total(x, p, a, sn, w) = s \o <<>> /\ Total(e, p, a, sn, <<>>) = s \o <<>> /\ b = <<>>
      BY <1>1, <2>1, <2>3 DEF Total, Unwritten
    <3> QED BY <2>2, <3>1, Empties
  <2>4. CASE p # "reset"
    <3> SUFFICES ASSUME ~ow  PROVE Total(x, p, a, sn, w) = Total(e, p, a, sn, <<>>) \o b
      OBVIOUS
    <3>1. e.write_buffer = <<>> /\ x.write_buffer = <<>> /\ b = w
      BY <1>1, <2>4
    <3>2. /\ Total(x, p, a, sn, w) = s \o (w \o <<>>)
          /\ Total(e, p, a, sn, <<>>) = s \o (<<>> \o <<>>)
      BY <1>2, <2>1, <2>4, <3>1 DEF Total, Unwritten
    <3> QED BY <1>3, <2>2, <3>1, <3>2, Empties
  <2> QED BY <2>3, <2>4
<1>7. Grows(e, x, p, a, sn, sn, w, os, n, rf, rf, ov, ow, Closing(g), b)
  <2>1. /\ ~ow => ~ov
        /\ ~ow /\ w # <<>> => x.write_buffer = <<>>
        /\ ~(Closing(g) /\ e.state = "SCK_ERROR")
        /\ \/ p = "reset" /\ b = <<>> /\ rf \subseteq rf
           \/ p # "reset" /\ b = PacketBytes(Len(os) + 1, n) /\ rf = rf
    BY <1>1
  <2> QED BY <1>2, <1>4, <1>5, <1>6, <2>1 DEF Grows
<1>8. OutputOK(x, TRUE, p, a, sn, w, Append(os, n), rf, ow, d)
  BY <1>7, OutputGrows
<1> QED BY <1>1, <1>2, <1>8

\* onSocketReady that writes a packet to the socket itself.
LEMMA OnSocketReadyWritesInv ==
    ASSUME Inv, NEW f \in Fds, NEW g \in Fds, NEW n \in Payloads, OnSocketReadyWrites(f, g, n)
    PROVE  Inv'
<1>1. PICK w, x, dl, os, ow :
        /\ w = PacketBytes(Len(out_size[g]) + 1, n) /\ x = Handled(element[f])
        /\ dl = Append(delivered[f], element[f].net_buffer)
        /\ os = Append(out_size[g], n)
        /\ ow = (overtaken[g] \/ element[g].write_buffer # <<>>)
  OBVIOUS
<1>2. Processes(f, "SCK_READY")
  BY DEF OnSocketReadyWrites
<1>3. /\ g \in Direct /\ element[g] # None /\ Len(out_size[g]) < MaxOut
      /\ pc' = "direct" /\ direct' = [fd |-> g, rest |-> w]
      /\ element' = [element EXCEPT ![f] = x]
      /\ out_size' = [out_size EXCEPT ![g] = os]
      /\ overtaken' = [overtaken EXCEPT ![g] = ow]
      /\ delivered' = [delivered EXCEPT ![f] = dl]
      /\ UNCHANGED <<cur, batch, failed, armed, used, peer, rcv, snd, in_size, in_sent, got, refused>>
  BY <1>1 DEF OnSocketReadyWrites, Deliver, PacketBytes, net_vars
<1>4. /\ element[f] \in NetworkElement /\ element[f].state = "SCK_READY" /\ pc = "process" /\ cur = f
      /\ direct = None /\ element[g] \in NetworkElement /\ g \notin Tuns
      /\ n \in Payloads \cup {0} /\ Rest(f) = <<>> /\ Rest(g) = <<>>
  BY <1>2, <1>3, ProcessAt, AtHandIs, Types, SizeAssumption DEF Processes
<1>5. ~(Closing(g) /\ element[g].state = "SCK_ERROR") /\ element[f].state # "SCK_ERROR"
  BY <1>4 DEF Closing
<1>6. /\ x \in NetworkElement /\ x.write_buffer = element[f].write_buffer
      /\ x.state \in TunState <=> f \in Tuns
      /\ x.state # "SCK_ERROR" /\ dl \in Seq(Seq(Byte))
      /\ InputOK(f \in Tuns, x, used[f], peer[f], rcv[f], in_size[f], in_sent[f], dl)
  BY <1>1, <1>2, <1>4, HandedOver
<1>7. /\ os \in Seq(Payloads \cup {0}) /\ os # <<>> /\ Len(os) <= MaxOut
      /\ refused[g] \subseteq 1 .. Len(os) /\ w \in Seq(Byte)
  <2>1. out_size[g] \in Seq(Payloads \cup {0}) /\ refused[g] \subseteq 1 .. Len(out_size[g])
    BY Types
  <2>2. /\ Len(out_size[g]) \in Nat /\ Len(os) = Len(out_size[g]) + 1 /\ os # <<>> /\ n \in Nat
        /\ os \in Seq(Payloads \cup {0})
    BY <1>1, <1>4, <2>1, OutSizesOK, AppendProperties
  <2>3. w \in Seq(Byte)
    <3>1. Len(out_size[g]) + 1 \in Nat
      BY <2>2
    <3> QED BY <1>1, <2>2, <3>1, Packets
  <2>4. Len(os) <= MaxOut /\ 1 .. Len(out_size[g]) \subseteq 1 .. Len(os)
    BY <1>3, <2>2, SizeAssumption
  <2> QED BY <2>1, <2>2, <2>3, <2>4
<1>8. ow \in BOOLEAN /\ direct' \in Writing /\ direct' # None
  BY <1>1, <1>3, <1>7, NoneAssumption DEF Writing
<1>9. /\ element'[f] = x /\ delivered'[f] = dl /\ out_size'[g] = os /\ overtaken'[g] = ow
      /\ \A h \in Fds \ {f} : element'[h] = element[h] /\ delivered'[h] = delivered[h]
      /\ \A h \in Fds \ {g} : out_size'[h] = out_size[h] /\ overtaken'[h] = overtaken[h]
  BY <1>3 DEF Inv, TypeOK
<1>10. Rest(g)' = w /\ \A h \in Fds \ {g} : Rest(h)' = <<>> /\ Rest(h) = <<>>
  BY <1>3, <1>4, <1>8 DEF Rest
<1>11. \A h \in Fds \ {f, g} : SameIn(h) /\ SameOut(h)
  BY <1>3, <1>4, <1>9, <1>10 DEF SameIn, SameOut, Closing
<1>12. x # None
  BY <1>6, ElementFields
<1>13. TypeOK'
  <2>1. /\ element' \in [Fds -> NetworkElement \cup {None}]
        /\ out_size' \in [Fds -> Seq(Payloads \cup {0})]
        /\ overtaken' \in [Fds -> BOOLEAN] /\ delivered' \in [Fds -> Seq(Seq(Byte))]
    BY <1>3, <1>6, <1>7, <1>8, Assigned DEF Inv, TypeOK
  <2>2. \A h \in Fds : element'[h] # None => (element'[h].state \in TunState <=> h \in Tuns)
    BY <1>6, <1>9 DEF Inv, TypeOK
  <2> QED BY <1>3, <1>8, <2>1, <2>2 DEF Inv, TypeOK
<1>14. Bounds'
  BY <1>3, <1>7, <1>9 DEF Inv, Bounds
<1>15. LoopOK'
  <2>1. \A h \in Fds : element[h] # None => element'[h] # None
    BY <1>9, <1>12
  <2>2. direct'.fd = g
    BY <1>3
  <2>3. element'[g] # None /\ out_size'[g] # <<>>
    BY <1>3, <1>7, <1>9, <2>1
  <2>4. cur \in Fds /\ batch[cur] # {} /\ "IN" \in batch[cur]
    BY <1>4 DEF Inv, LoopOK
  <2>5. \A h \in Fds : armed'[h] # {} \/ batch'[h] # {} => element'[h] # None
    BY <1>3, <2>1 DEF Inv, LoopOK
  <2> QED BY <1>3, <1>8, <2>2, <2>3, <2>4, <2>5 DEF LoopOK
<1>16. InOK(f)'
  BY <1>3, <1>6, <1>9 DEF InOK
<1>17. InOK(g)'
  <2>1. CASE f # g
    <3>1. SameIn(g) /\ InOK(g)
      BY <1>3, <1>9, <2>1, Types DEF SameIn
    <3> QED BY <3>1, SameInOK
  <2> QED BY <1>16, <2>1
<1>18. OutOK(g)'
  <2>1. PICK y, d : y = element'[g] /\ d = Closing(g)'
    OBVIOUS
  <2>2. y \in NetworkElement /\ y.write_buffer = element[g].write_buffer
    BY <1>4, <1>6, <1>9, <2>1
  <2>3. OutputOK(y, used[g], peer[g], got[g], snd[g], w, os, refused[g], ow, d)
    BY <1>1, <1>4, <1>5, <2>2, DirectOutput
  <2> QED BY <1>3, <1>9, <1>10, <2>1, <2>3 DEF OutOK
<1>19. OutOK(f)'
  <2>1. CASE f # g
    <3>1. PICK d : d = Closing(f)'
      OBVIOUS
    <3>2. OutputOK(x, used[f], peer[f], got[f], snd[f], Rest(f), out_size[f], refused[f],
                   overtaken[f], d)
      BY <1>4, <1>5, <1>6, SameBuffer
    <3> QED BY <1>3, <1>9, <1>10, <2>1, <3>1, <3>2 DEF OutOK
  <2> QED BY <1>18, <2>1
<1> QED BY <1>11, <1>13, <1>14, <1>15, <1>16, <1>17, <1>18, <1>19, TwoDescriptors

-----------------------------------------------------------------------------
\* The invariant holds initially, in every step, and so always.
LEMMA InitInv == Init => Inv
<1> SUFFICES ASSUME Init  PROVE Inv
  OBVIOUS
<1>1. TypeOK
  <2>1. \A S : [f \in Fds |-> <<>>] \in [Fds -> Seq(S)]
    OBVIOUS
  <2>2. /\ rcv \in [Fds -> Seq(Byte)] /\ snd \in [Fds -> Seq(Byte)] /\ got \in [Fds -> Seq(Byte)]
        /\ in_size \in [Fds -> Seq(Payloads)] /\ delivered \in [Fds -> Seq(Seq(Byte))]
        /\ out_size \in [Fds -> Seq(Payloads \cup {0})]
    BY <2>1 DEF Init
  <2> QED BY <2>2 DEF Init, TypeOK
<1>2. Bounds
  BY SizeAssumption DEF Init, Bounds
<1>3. LoopOK
  BY DEF Init, LoopOK
<1>4. ASSUME NEW f \in Fds  PROVE InOK(f)
  <2>1. /\ element[f] = None /\ ~used[f] /\ peer[f] = "open" /\ rcv[f] = <<>> /\ in_size[f] = <<>>
        /\ delivered[f] = <<>>
    BY DEF Init
  <2> QED BY <2>1 DEF InOK, InputOK, Stream, NextIn
<1>5. ASSUME NEW f \in Fds  PROVE OutOK(f)
  <2>1. /\ element[f] = None /\ ~used[f] /\ peer[f] = "open" /\ got[f] = <<>> /\ snd[f] = <<>>
        /\ Rest(f) = <<>> /\ out_size[f] = <<>> /\ ~overtaken[f]
    BY DEF Init, Rest
  <2>2. Total(element[f], peer[f], got[f], snd[f], Rest(f)) = <<>>
    BY <2>1, Empties DEF Total, Unwritten
  <2> QED BY <2>1, <2>2 DEF OutOK, OutputOK, Good
<1> QED BY <1>1, <1>2, <1>3, <1>4, <1>5 DEF Inv, Input, Output

LEMMA UnchangedInv == ASSUME Inv, UNCHANGED vars PROVE Inv'
<1>1. UNCHANGED <<element, used, net_vars, user_vars, direct, armed, pc, cur, batch, failed>>
  BY DEF vars, queue_vars, loop_vars
<1>2. TypeOK' /\ LoopOK'
  BY <1>1 DEF Inv, TypeOK, LoopOK, net_vars, user_vars
<1>3. \A g \in Fds : Closing(g) /\ element[g].state = "SCK_ERROR" => Closing(g)'
  BY <1>1 DEF Closing
<1> QED BY <1>1, <1>2, <1>3, LoopOnly

LEMMA NextInv == Inv /\ [Next]_vars => Inv'
<1> SUFFICES ASSUME Inv, [Next]_vars  PROVE Inv'
  OBVIOUS
<1>1. ASSUME NEW f \in Fds, PeerWrites(f) \/ PeerReads(f) \/ PeerCloses(f) \/ PeerResets(f)
      PROVE  Inv'
  BY <1>1, PeerWritesInv, PeerReadsInv, PeerClosesInv, PeerResetsInv
<1>2. ASSUME NEW f \in Fds, Put(f) \/ PutFails(f) \/ SendHeartbeat(f)  PROVE Inv'
  BY <1>2, PutInv, PutFailsInv, SendHeartbeatInv
<1>3. ASSUME EpollWait \/ WriteSome \/ WriteFails  PROVE Inv'
  BY <1>3, EpollWaitInv, WriteSomeInv, WriteFailsInv
<1>4. ASSUME NEW f \in Fds, ReadHeader(f) \/ ReadPayload(f)  PROVE Inv'
  BY <1>4, ReadSomeInv DEF ReadHeader, ReadPayload, Reads
<1>5. ASSUME NEW f \in Fds, TakeEvent(f) \/ ReadTun(f) \/ ReadEOF(f) \/ ReadError(f)  PROVE Inv'
  BY <1>5, TakeEventInv, ReadTunInv, ReadEndsInv
<1>6. ASSUME NEW f \in Fds, ReadAgain(f) \/ ProcessReturns(f) \/ FlushNothing(f)  PROVE Inv'
  BY <1>6, GoesOnInv
<1>7. ASSUME NEW f \in Fds, OnReady(f) \/ OnSocketReadyCloses(f)  PROVE Inv'
  BY <1>7, OnReadyInv, OnSocketReadyClosesInv
<1>8. ASSUME NEW f \in Fds, NEW g \in Fds, NEW n \in Payloads,
             OnReadySends(f, g, n) \/ OnSocketReadyWrites(f, g, n)
      PROVE  Inv'
  BY <1>8, OnReadySendsInv, OnSocketReadyWritesInv
<1>9. ASSUME NEW f \in Fds, FlushWriteBuffer(f) \/ Rearm(f) \/ Close(f)  PROVE Inv'
  BY <1>9, FlushInv, RearmInv, CloseInv
<1>10. CASE UNCHANGED vars
  BY <1>10, UnchangedInv
<1>11. CASE Loop
  BY <1>11, <1>3, <1>4, <1>5, <1>6, <1>7, <1>8, <1>9 DEF Loop
<1>12. CASE Peers
  BY <1>12, <1>1 DEF Peers
<1> QED BY <1>2, <1>10, <1>11, <1>12 DEF Next

LEMMA Invariance == Spec => []Inv
BY InitInv, NextInv, PTL DEF Spec

-----------------------------------------------------------------------------
\* Every variable keeps its type: in particular an element is in a state of a socket or of a
\* TUN device as its descriptor is one, whatever failed in between.
THEOREM TypeCorrect == Spec => []TypeOK
<1>1. Inv => TypeOK
  BY DEF Inv
<1> QED BY <1>1, Invariance, PTL

\* What the invariant says of the bytes of one descriptor.
Frames(s, d, isz, ise, sz) ==
    /\ s # <<>> => s[1] = <<Len(d) + 1, 1>> /\ s[Len(s)] = <<Len(isz), ise>>
    /\ s = <<>> => Len(d) = Len(isz)
    /\ \A i \in 1 .. Len(s) - 1 : s[i][1] \in 1 .. Len(isz) /\ s[i + 1] = Nxt(sz, s[i])
LEMMA Framed ==
    ASSUME NEW t \in BOOLEAN, NEW e, NEW u, NEW p, NEW rc \in Seq(Byte), NEW isz \in Seq(Payloads),
           NEW ise \in Nat, NEW d \in Seq(Seq(Byte)), InputOK(t, e, u, p, rc, isz, ise, d),
           e \in NetworkElement, e.state \notin Failed, p # "reset",
           NEW s, s = Held(e) \o rc, NEW sz, sz = InSizes(t, isz)
    PROVE  Frames(s, d, isz, ise, sz)
<1>1. /\ e # None /\ s \in Seq(Byte) /\ Len(s) \in Nat /\ IsSizes(sz, Len(isz))
      /\ DOMAIN sz = 1 .. Len(isz) /\ Len(isz) \in Nat /\ Len(d) \in Nat
  <2>1. e # None /\ Held(e) \in Seq(Byte)
    BY ElementFields
  <2>2. s \in Seq(Byte)
    BY <2>1, Associates
  <2>3. IsSizes(sz, Len(isz)) /\ DOMAIN sz = 1 .. Len(isz)
    BY InSizesOK
  <2> QED BY <2>1, <2>2, <2>3, LenProperties
<1>2. /\ Stream(sz, s, <<Len(d) + 1, 1>>, NextIn(sz, isz, ise))
      /\ isz # <<>> => ise \in 1 .. sz[Len(isz)]
  BY <1>1 DEF InputOK
<1>3. ASSUME s # <<>>
      PROVE  s[1] = <<Len(d) + 1, 1>> /\ s[Len(s)] = <<Len(isz), ise>>
  <2>1. Len(s) \in 1 .. Len(s) /\ 1 \in 1 .. Len(s)
    BY <1>1, <1>3, EmptySeq
  <2>2. s[1] = <<Len(d) + 1, 1>>
    BY <1>2, <2>1 DEF Stream, Follows
  <2>3. PICK b : b = s[Len(s)]
    OBVIOUS
  <2>4. b \in Byte /\ InRange(sz, b) /\ Nxt(sz, b) = NextIn(sz, isz, ise)
    BY <1>1, <1>2, <1>3, <2>1, <2>3 DEF Stream
  <2>5. isz # <<>>
    BY <1>1, <2>4 DEF InRange
  <2>6. <<Len(isz), ise>> \in Byte /\ InRange(sz, <<Len(isz), ise>>)
    <3>1. Len(isz) \in 1 .. Len(isz)
      BY <1>1, <2>4 DEF InRange
    <3> QED BY <1>1, <1>2, <2>5, <3>1 DEF InRange, Byte
  <2>7. Nxt(sz, b) = Nxt(sz, <<Len(isz), ise>>)
    BY <2>4, <2>5 DEF NextIn
  <2>8. b = <<Len(isz), ise>>
    BY <1>1, <2>4, <2>6, <2>7, NxtInjective
  <2> QED BY <2>2, <2>3, <2>8
<1>4. ASSUME s = <<>>  PROVE Len(d) = Len(isz)
  <2>1. NextIn(sz, isz, ise) = <<Len(d) + 1, 1>>
    BY <1>2, <1>4 DEF Stream
  <2>2. CASE isz = <<>>
    BY <1>1, <2>1, <2>2 DEF NextIn
  <2>3. CASE isz # <<>>
    <3>1. Nxt(sz, <<Len(isz), ise>>) = <<Len(d) + 1, 1>> /\ ise \in 1 .. sz[Len(isz)]
      BY <1>2, <2>1, <2>3 DEF NextIn
    <3>2. ise >= 1 /\ ise + 1 # 1
      BY <3>1
    <3> QED BY <1>1, <3>1, <3>2 DEF Nxt
  <2> QED BY <2>2, <2>3
<1>5. ASSUME NEW i \in 1 .. Len(s) - 1
      PROVE  s[i][1] \in 1 .. Len(isz) /\ s[i + 1] = Nxt(sz, s[i])
  <2>1. i \in 1 .. Len(s) /\ i + 1 \in 1 .. Len(s) /\ i + 1 # 1 /\ (i + 1) - 1 = i
    BY <1>1
  <2> QED BY <1>1, <1>2, <2>1 DEF Stream, Follows, InRange
<1> QED BY <1>3, <1>4, <1>5 DEF Frames

\* The bytes of packet k of f.
LEMMA SizeIn ==
    ASSUME Inv, NEW f \in Fds, NEW k \in 1 .. Len(in_size[f])
    PROVE  InBytes(f, k) = InSizes(f \in Tuns, in_size[f])[k]
BY DEF InBytes, InSizes

(***************************************************************************)
(* Whatever way a stream is cut into reads, and whatever happens between   *)
(* them, process hands over the packets of the peer whole, in order and    *)
(* without a gap, and what it holds is what follows.                       *)
(***************************************************************************)
THEOREM InputFramingHolds == Spec => []InputFraming
<1>1. Inv => InputFraming
  <2> SUFFICES ASSUME Inv, NEW f \in Fds
               PROVE  LET size(k) == InBytes(f, k) IN
                      /\ \A k \in 1 .. Len(delivered[f]) :
                            delivered[f][k] = [i \in 1 .. size(k) |-> <<k, i>>]
                      /\ element[f] # None /\ element[f].state \notin Failed /\ peer[f] # "reset" =>
                            LET s == Undelivered(f) IN
                              /\ s # <<>> => /\ s[1] = <<Len(delivered[f]) + 1, 1>>
                                             /\ s[Len(s)] = <<InPackets(f), in_sent[f]>>
                              /\ s = <<>> => Len(delivered[f]) = InPackets(f)
                              /\ \A i \in 1 .. Len(s) - 1 : s[i + 1] = After(size, s[i])
    BY DEF InputFraming
  <2>1. PICK sz, d, s : sz = InSizes(f \in Tuns, in_size[f]) /\ d = delivered[f] /\ s = Undelivered(f)
    OBVIOUS
  <2>2. /\ InputOK(f \in Tuns, element[f], used[f], peer[f], rcv[f], in_size[f], in_sent[f], d)
        /\ rcv[f] \in Seq(Byte) /\ in_size[f] \in Seq(Payloads) /\ in_sent[f] \in Nat
        /\ d \in Seq(Seq(Byte)) /\ (f \in Tuns) \in BOOLEAN
    BY <2>1, Types DEF InOK
  <2>3. \A k \in 1 .. Len(in_size[f]) : InBytes(f, k) = sz[k]
    BY <2>1, SizeIn
  <2>4. DOMAIN sz = 1 .. Len(in_size[f])
    BY <2>1 DEF InSizes
  <2>5. ASSUME NEW k \in 1 .. Len(d)
        PROVE  d[k] = [i \in 1 .. InBytes(f, k) |-> <<k, i>>]
    <3>1. k \in DOMAIN sz /\ d[k] = Whole(sz, k)
      BY <2>1, <2>2 DEF InputOK
    <3> QED BY <2>3, <2>4, <3>1 DEF Whole
  <2>6. ASSUME element[f] # None, element[f].state \notin Failed, peer[f] # "reset"
        PROVE  /\ s # <<>> => /\ s[1] = <<Len(d) + 1, 1>>
                              /\ s[Len(s)] = <<InPackets(f), in_sent[f]>>
               /\ s = <<>> => Len(d) = InPackets(f)
               /\ \A i \in 1 .. Len(s) - 1 :
                     s[i + 1] = IF s[i][2] < InBytes(f, s[i][1]) THEN <<s[i][1], s[i][2] + 1>>
                                ELSE <<s[i][1] + 1, 1>>
    <3>1. s = Held(element[f]) \o rcv[f]
      BY <2>1 DEF Undelivered, Held
    <3>2. element[f] \in NetworkElement
      BY <2>6, Types
    <3>3. Frames(s, d, in_size[f], in_sent[f], sz)
      BY <2>1, <2>2, <2>6, <3>1, <3>2, Framed, Zenon
    <3> QED BY <2>3, <3>3 DEF InPackets, Nxt, Frames
  <2> QED BY <2>1, <2>5, <2>6 DEF After
<1> QED BY <1>1, Invariance, PTL

(***************************************************************************)
(* However send, flush_write_buffer and direct writes share a socket, its  *)
(* peer gets the packets sent in order and none torn, up to the first one  *)
(* that was refused, if no direct write overtook buffered bytes.           *)
(***************************************************************************)
THEOREM OutputFramingHolds == Spec => []OutputFraming
<1>1. Inv => OutputFraming
  <2> SUFFICES ASSUME Inv, NEW f \in Fds, ~overtaken[f]
               PROVE  LET size(k) == PACKET_HEADER_SIZE + out_size[f][k]
                          s    == got[f] \o snd[f] \o
                                    (IF peer[f] = "reset" THEN <<>> ELSE ToWrite(f))
                          good == {i \in 1 .. Len(s) : \A k \in refused[f] : s[i][1] < k}
                      IN  /\ \A i \in good : s[i] = IF i = 1 THEN <<1, 1>> ELSE After(size, s[i - 1])
                          /\ /\ element[f] # None /\ element[f].state # "SCK_ERROR"
                             /\ peer[f] # "reset" /\ refused[f] = {} /\ out_size[f] # <<>>
                             => s # <<>> /\ After(size, s[Len(s)]) = <<Len(out_size[f]) + 1, 1>>
    BY DEF OutputFraming
  <2>1. PICK s, os, sz : /\ s = Total(element[f], peer[f], got[f], snd[f], Rest(f))
                         /\ os = out_size[f] /\ sz = OutSizes(os)
    OBVIOUS
  <2>2. s = got[f] \o snd[f] \o (IF peer[f] = "reset" THEN <<>> ELSE ToWrite(f))
    BY <2>1 DEF Total, Unwritten, ToWrite, Rest
  <2>3. s \in Seq(Byte) /\ Len(s) \in Nat /\ os \in Seq(Payloads \cup {0}) /\ Len(os) \in Nat
    <3>1. /\ element[f] \in NetworkElement \cup {None} /\ got[f] \in Seq(Byte)
          /\ snd[f] \in Seq(Byte) /\ Rest(f) \in Seq(Byte) /\ os \in Seq(Payloads \cup {0})
      BY <2>1, Types
    <3>2. s \in Seq(Byte)
      BY <2>1, <3>1, TotalBytes
    <3> QED BY <3>1, <3>2, LenProperties
  <2>4. OutputOK(element[f], used[f], peer[f], got[f], snd[f], Rest(f), os, refused[f],
                 overtaken[f], Closing(f))
    BY <2>1, Types DEF OutOK
  <2>5. /\ Good(sz, refused[f], s)
        /\ element[f] # None /\ element[f].state # "SCK_ERROR" /\ peer[f] # "reset"
              /\ refused[f] = {}
           => Stream(sz, s, <<1, 1>>, <<Len(os) + 1, 1>>)
    BY <2>1, <2>4 DEF OutputOK
  <2>6. ASSUME NEW i \in 1 .. Len(s)
        PROVE  Nxt(sz, s[i]) = IF s[i][2] < PACKET_HEADER_SIZE + os[s[i][1]]
                               THEN <<s[i][1], s[i][2] + 1>> ELSE <<s[i][1] + 1, 1>>
    <3>1. s[i][1] \in 1 .. Len(os)
      BY <2>1, <2>5 DEF Good, InRange, OutSizes
    <3> QED BY <2>1, <3>1 DEF Nxt, OutSizes
  <2>7. ASSUME NEW i \in 1 .. Len(s), \A k \in refused[f] : s[i][1] < k
        PROVE  s[i] = IF i = 1 THEN <<1, 1>>
                      ELSE IF s[i - 1][2] < PACKET_HEADER_SIZE + os[s[i - 1][1]]
                           THEN <<s[i - 1][1], s[i - 1][2] + 1>> ELSE <<s[i - 1][1] + 1, 1>>
    <3>1. s[i] = IF i = 1 THEN <<1, 1>> ELSE Nxt(sz, s[i - 1])
      BY <2>5, <2>7 DEF Good, Follows
    <3>2. i # 1 => i - 1 \in 1 .. Len(s)
      BY <2>3
    <3> QED BY <2>6, <3>1, <3>2
  <2>8. ASSUME element[f] # None, element[f].state # "SCK_ERROR", peer[f] # "reset",
               refused[f] = {}, os # <<>>
        PROVE  /\ s # <<>>
               /\ (IF s[Len(s)][2] < PACKET_HEADER_SIZE + os[s[Len(s)][1]]
                   THEN <<s[Len(s)][1], s[Len(s)][2] + 1>> ELSE <<s[Len(s)][1] + 1, 1>>)
                    = <<Len(os) + 1, 1>>
    <3>1. Stream(sz, s, <<1, 1>>, <<Len(os) + 1, 1>>)
      BY <2>5, <2>8
    <3>2. s # <<>>
      <4>1. Len(os) # 0
        BY <2>3, <2>8, EmptySeq
      <4> QED BY <2>3, <3>1, <4>1 DEF Stream
    <3>3. Len(s) \in 1 .. Len(s)
      BY <2>3, <3>2, EmptySeq
    <3>4. Nxt(sz, s[Len(s)]) = <<Len(os) + 1, 1>>
      BY <3>1, <3>2 DEF Stream
    <3> QED BY <2>6, <3>2, <3>3, <3>4
  <2> QED BY <2>1, <2>2, <2>7, <2>8, Zenon DEF After
<1> QED BY <1>1, Invariance, PTL
=============================================================================
