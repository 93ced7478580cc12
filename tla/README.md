# vNet: a TLA+ model of its control plane, event loop and packet decisions

vNet is an overlay network: a *conductor* assigns *agents* to *switches*, an
agent then authenticates with its switch, a `NetQueue` (an epoll loop) runs
underneath all three, and a `BlackBox` decides where a switch sends a packet.
This directory models the three processes, the conductor's dump file, the loop
and the black box, checks them with TLC on small instances, and proves every
invariant that a passing run checks, both refinements and the action property of
`pick_switch` with TLAPS, for every value of the constants.

## 1. Inventory

| Component | State | Operations | Hard because |
|---|---|---|---|
| Conductor (`src/src/conductor/setup.cpp`) | rosters of switches and agents (pointers to `ConnInfo`), pending tokens, `rr_index` | accept, `onSwitchMIP`, `onAgentMIP`, `onAgentMRP`, `onClose`, dump, heartbeats | `onAgentMIP` writes to two peers, either write may fail or spin, and the first peer acts before the second one knows |
| Switch (`src/src/switch/setup.cpp`) | pending tokens with their age, roster of authenticated agents, the conductor's connection | connect and register, listen, `onAgentConnectionToken`, `onAuthConnectToSwitch`, `expire_tokens`, `onClose` | tokens arrive on one connection and are presented on another; it registers before it listens; restarts lose everything |
| Agent (`src/src/agent/setup.cpp`) | progress of `main`, two sockets, the assignment | blocking handshake in four steps, then a loop with `onClose` | blocked in a read while its peers die |
| Control-plane sockets (`src/src/common/socket_utils.cpp`) | none | `connect_to`, blocking reads, writes that spin on `EAGAIN` | a full socket stops a single-threaded process |
| NetQueue (`src/src/netqueue/`) | per socket: parser state, read buffer, write buffer; one-shot epoll registrations | `put`, `send`, `flush_write_buffer`, `wait_and_process`, `process`, `close` | streams cut anywhere, lost wakeups, buffer limits, handlers that close the socket being processed |
| Dispatch, packet header (`src/src/protocol/`) | none | decode the type, call the handler | - |
| BlackBox (`src/src/blackbox/blackbox.cpp`) | one registry, one routing table, one `Config` per switch | `process` for packets of agents, switches and the TUN; hooks for agents and switches that come and go, and for routes | a switch trusts what another one has checked; hooks of a descriptor's old and new owner |
| AgentRegistry | an entry per agent under three indexes: address, descriptor, name | register, unregister by descriptor or name | an agent returns on a new descriptor before the old one is closed; an allocation that fails between removing and inserting |
| RoutingTable | next descriptor per address | set, remove, remove all of a switch | routes that outlive a connection |
| Config (`config.cpp`) | names and addresses, rules between agents and to the internet | `load`, lookups | two passes, any order of lines, failures half-way, loading again |
| IPv4 (`ipv4.cpp`) | none | `ipv4_parse` | lengths that a packet claims |
| State dump (`write_dump`) | a temporary file and the dump file, `g_dump_request` | write, close, rename; timer, `SIGUSR1`, last dump | every step may fail, the process may die at any of them, signals come in the middle |

**Interaction.** The processes share nothing but TCP connections. An agent sends
`AGENT_MIP` to the conductor; the conductor picks a switch, draws a token,
answers `CONNECT_TO_SWITCH` to the agent and then sends `AGENT_CONNECTION_TOKEN`
to the switch; the agent dials the switch and sends `AUTH_CONNECT_TO_SWITCH`;
the switch looks the token up, erases it and answers `CONNECTION_ACCEPTED`, or
drops the agent. Every process notices the end of a peer by end-of-file. None of
the processes keeps anything on disk that it reads back, and
`docker/docker-compose.yml` starts a process again when it ends.

**What makes it correct.** A token opens one session, for the agent and the
switch it was drawn for; rosters hold exactly the live, registered connections
and no pointer to a deleted `ConnInfo`; an agent that entered its loop is right
about its switch; nobody waits for ever; packets leave and arrive whole, in
order, and no socket is forgotten by the loop; a packet is delivered only from its
true sender and only with a rule that allows it; the dump is never found half
written and no request for one is lost. `PROJECT.json` lists the places
where this is at risk (`hazards`) and the properties that watch them.

The repository's README also describes route broadcasting, switch-to-switch
traffic and virtual addresses handed to agents. The black box is the library for
that, and no program calls it yet: its environment in the model (which hook is
called when, and what is done with a decision) follows the comments of
`blackbox.hpp` and is marked external.

## 2. Modules

| Module | Models |
|---|---|
| `Net` | the connections: each is used once, has two ends that close separately, and a FIFO of whole packets per direction |
| `Roster` | the vectors of `ConnInfo*` and `erase(remove(..))` |
| `Conductor` | `ConductorState` and its handlers. `onAgentMIP` is two steps: `busy` is the handler between its two sends |
| `Switch` | `SwitchState`, `main` and the handlers |
| `Agent` | `main` of the agent as a program counter, and its `onClose` |
| `Mip` | the three together: the protocol, its faults, its properties |
| `Admission` | the abstract specification of the handshake: grants and sessions |
| `MipInv` | the inductive invariant of `Mip` |
| `Assign` | the conductor alone with clients of any network: what `pick_switch` does as rosters change |
| `Dump` | `write_dump` and `SIGUSR1`, step by step, beside the whole of `Mip` |
| `NetQueue` | the epoll loop on the byte level, for sockets and TUN devices |
| `Endpoints` | the names of the black box: agents, addresses, descriptors |
| `AgentRegistry`, `RoutingTable` | their methods, as operators from the old value to the new one |
| `Config` | `load`, one line of a pass per step, and what a file means |
| `IPv4` | `ipv4_parse` and the bytes it looks at |
| `BlackBox` | all of them together, one per switch, with the connections and the packets around them |
| `Presence` | the abstract specification of a registry: the one descriptor that speaks for an agent |
| `MCMip`, `MCAssign`, `MCDump`, `MCNetQueue`, `MCBlackBox` | instances for TLC |
| `MipLemmas`, `MipPeerProofs`, `MipConductorProofs`, `MipProofs` | proofs about the handshake: facts about sequences and connections, one lemma per action of agents and switches and of the conductor, the theorems and the refinement |
| `AssignProofs`, `DumpProofs` | proofs about `pick_switch` and about the dump file |
| `BlackBoxProofs` | proofs about the black box, its registry and its `Config` |
| `NetQueueProofs` | proofs about the loop: wakeups, types, framing of both streams |

**State and code.** Variables carry the names of the code's members
(`switches`, `agents`, `pending_tokens`, `rr_index`; `sw_` and `ag_` mark those
of a switch and an agent). A connection identifier stands both for the
descriptor and for the `ConnInfo` the server allocates for it, so a roster is a
sequence of identifiers and a dangling pointer is an identifier whose `cdt_info`
or `sw_info` is `None`. `issued` and `admitted` are history variables: for whom a
token was drawn, and which token admitted a connection; no guard of a handler
reads them but `Fresh`, which says that 64 random bits do not repeat.

**Steps.** Every handler runs to its end in one step, because the processes have
one thread. The exception is `onAgentMIP`, split where the agent can overtake the
switch. `CdtAcceptFails` and `SwAcceptFails` are failures of `put_sck`. A crash
can come at any time, in the middle of `onAgentMIP` too, closes every connection
of the process and loses its memory. A write to a peer that is gone may fail, or
be taken by the kernel and be lost: both are modelled. `queue->close` called from
a handler frees the element that `process` goes on to use; this undefined
behaviour is either a clean close (the freed memory is still intact, the next
read fails, `onClose` runs) or a crash. Clients send what the programs of this
repository send: in particular only the conductor sends `AGENT_CONNECTION_TOKEN`,
although `onAgentConnectionToken` does not look who the sender is (`HearsConductor`).
Two things are external. No agent here sends `AGENT_MRP`, which the conductor
handles, so the constant `Reconnecting` names agents that do. And no agent here
presents a token twice, which is what the erasing of used tokens is for, so `Retrying`
names agents that give up waiting for the answer, leave the connection and present
their token on a new one (`AgRetry`), while the first request may have been read or
may still be on its way.

`Net` carries whole packets. `send_protobuf_packet` writes header and payload
separately, so a peer that dies between the two, and the hang of `netqueue_eof` that
follows, are outside `Mip`; its liveness properties hold of peers that end between
packets, as `ClosedPeerLeaves` does in `netqueue_liveness`.

In `NetQueue` a byte is a pair of a packet number and a position, so that order,
loss and tearing show. Peers and kernel act between any two system calls of the
loop. `armed` are the events a socket waits for; `epoll_wait` empties it
(`EPOLLONESHOT`), and re-arming reports what is ready at that time, as
`EPOLL_CTL_MOD` does. End-of-file in `SCK_PAYLOAD` makes `process` read again
without changing anything: a loop that is no step of the model. A `read()` of no
bytes, for an empty payload, returns 0 even on a socket that was reset, and the packet
is delivered. A TUN device
gives one packet per read. Handlers may also write to a socket past the queue
(`send_protobuf_packet`, as `onAgentMIP` does): `direct` is such a write, with its
retries, while the loop stands still.

In `Dump` the steps of `write_dump` are the ones that somebody else can tell
apart: a signal handler (the flag is seen, reset, and the rosters are read later)
or the file system (the temporary file opened, written, renamed). The conductor
takes no other step meanwhile; the switches, the agents, signals and a crash do.

In `BlackBox` the record `registry[s]` is `registry_` with its three maps; an entry
is never changed, so its value stands for its pointer. `conn` is what is really
behind a descriptor. A descriptor is free again as soon as its hook has run, and
the next owner may be an agent or a switch, so late events meet reused numbers.
`on_agent_authenticated_NoMemory` is `new` failing in `register_agent` after the old
entry is gone. A decision is a function of the state, so the properties quantify
over all packets in every state; the only packets that are kept are those between
two switches, because state changes while they travel. In `Config` a line is its
two tokens by kind; `load` may fail on any line and be called again. A route update
names an open connection to a switch: `on_route_update` takes any descriptor, and what
it is given is up to a caller that does not exist yet.

## 3. Runs

| Run | Instance | Shows |
|---|---|---|
| `mip_safety` | 1 agent, 1 switch, 5 connections, 3 tokens, 2 faults, an agent that reconnects and presents its token again; 632 000 states | types, both rosters exact, the agent's view, tokens refer to registered switches, `Mip` implements `Admission` |
| `mip_two_agents` | 2 agents, 1 switch, 5 connections, 3 tokens, 1 fault, tokens presented again; 695 000 states, symmetric | identity and one-time tokens while two handshakes overlap and tokens are presented again; the inductive invariant |
| `mip_two_switches` | 1 agent, 2 switches, 4 connections, 1 token, 1 fault, 1 dump; 1.2 million states, symmetric | a switch that stops and comes back beside another one: the roster loses the right entry, tokens dropped by switch name leave none without a switch; the dump file is whole and consistent whenever the conductor dies; no signal is lost |
| `mip_liveness` | 1 agent, 1 switch, 4 connections, sockets of one packet, 2 faults, tokens presented again; 54 000 states | handshakes and `onAgentMIP` end; the dead leave the rosters |
| `mip_token_first` | 1 agent, 1 switch, no fault | *violated*: the token can arrive after the agent |
| `assign_round_robin` | switches and agents of two networks, 6 connections, 4 tokens, agents that may be gone before they are answered; 1.1 million states | round-robin is fair while the roster stands, a turn that fails included; unreachable switches are a last resort |
| `assign_fallback` | one switch, one agent | *violated*: the last resort is an unreachable switch |
| `netqueue_safety` | 1 socket, payloads of 0, 1 and 4 bytes, header of 2, write buffer of 3, kernel buffer of 2, 2 packets in, 3 out, through the queue and past it; 2.3 million states | packets in and out stay whole and in order |
| `netqueue_liveness` | a socket and a TUN device, 1 packet in each and 2 out; 121 000 states | no lost wakeup; input, output and peers that end are served |
| `netqueue_eof` | 1 socket whose peer may end inside a packet | *violated*: it is never noticed |
| `netqueue_overflow` | 1 socket, 3 packets out | *violated*: an overflowing connection is not closed |
| `blackbox` | 2 agents, 3 addresses, 2 switches, one of them with a TUN, 2 descriptors each, every order of a working file and every file of at most two of nine lines, loaded one after another; 202 000 states, symmetric | `load` accepts what makes sense in the documented order and the maps say what the file says; the registry is exact, routes are live, only what the rules allow is delivered, answers come back; the registry implements `Presence` |

Every property of a passing run has a mutant of the modelled code, defined beside
the original (`Erase_Nothing`, `Idle_Reentrant`, ...), that breaks it.

**Bounds.** `MaxConn`, `MaxToken`, `MaxFaults`, `SockBuf` bound `Mip`. A restart
needs a new connection, so five connections allow a registration, a complete
handshake and two more connections after faults, or two overlapping handshakes;
three tokens are more than the handshakes that fit. `Spare` keeps handshakes from
starting when the connections left would not let them finish, so that no liveness
property fails for lack of identifiers. `SockBuf = 1` makes sockets full as early
as possible. In `NetQueue`, `Payloads` covers an empty packet, one that fits the
write buffer and one that does not; `WRITE_BUFFER_MAX` and `SndBuf` are small, so
that every limit is met in the middle of a header and of a payload.
With two switches, four connections are one for each of them and two for a
handshake; after a fault one of these is used for the switch's return. One token is
enough there, since tokens of two agents are told apart in `mip_two_agents`. One dump
is enough, since a dump leaves nothing to the next one but the file, which only a
rename changes: behaviours end with it, and the file of an earlier process is there
from the start. In `blackbox` the files are long enough for an assignment after the
rule that needs it, a name or an address given twice and an unknown name; what `load`
would keep between two calls shows with any two of them. Two descriptors per
switch let an agent return on the second while the first is open, and let either of
them become a switch's. One packet is under way at a time, since switches do not
remember packets.
`CHECK_DEADLOCK FALSE` everywhere: a system whose agents all run, or whose bounds
are used up, is quiescent.

**Fairness.** `Mip`: weak fairness of each process as a whole (`CdtActs`,
`SwActs(s)`, `AgActs(a)`): its single thread goes on as long as there is anything
to do, epoll reports every ready socket and blocking calls return. Starting,
crashing, reconnecting and ageing are not fair. For the conductor this is enough
even inside `onAgentMIP`, since a full socket is emptied by a switch that is fair
itself, or is reset by its end. `NetQueue`: weak fairness of the loop and of peers
that read; peers owe no input, and no end.

**Findings.** Four runs show the code doing something else than a comment, a
contract or a test says: the token race (`mip_token_first`), the fallback of
`pick_switch` (`assign_fallback`), end-of-file inside a payload (`netqueue_eof`)
and the overflow of the write buffer (`netqueue_overflow`). Each is quoted in
`PROJECT.json`. `netqueue_liveness` checks `ClosedPeerLeaves` for peers that end
between two packets (`Abrupt = {}`), where it holds.

Three smaller observations, each left out of a property by name. A handler that
writes to a socket past the queue while bytes are buffered tears the packet in the
buffer: `OutputFraming` excepts exactly these sockets (`overtaken`) and fails
without the exception. `write_dump` does not look whether `out.close()` succeeded,
so a full disk can replace a good dump by a spoiled one (`Spoiled` in `DumpWhole`).
A peer that never stops sending starves the other sockets, since `process` reads until
`EAGAIN`; `InputServed` is about peers that send at most `MaxIn` packets.

One comment and the code differ in a way that no property depends on: `config.hpp:53`
says that "IP assignments must appear before ACL rules that reference agent names",
while the two passes of `load` accept any order. `LoadExact` promises acceptance only
for files in the documented order (`InOrder`) and exact maps for every file that is
accepted; the theorem `AnyOrderHolds` shows that `load` does more than its comment says.

## 4. Proofs

For all values of the constants that satisfy the named assumptions (`ProcAssumption`:
names are distinct and `None` is none of them; `BoundAssumption`: bounds are
natural numbers; `None` is no record; agents and switches as many as you like):

- `MipProofs!Inductive`: `Spec => []IInv`; from it `TypeCorrect`,
  `AuthenticIdentityHolds`, `OneTimeTokenHolds`, `RosterValidHolds`,
  `SwitchRosterExactHolds`, `AgentViewHolds`, `PendingHasSwitchHolds`.
- `MipProofs!Refinement`: `Spec => AdmissionSpec`: every step of the protocol
  is a step of `Admission` or changes neither grants nor sessions.

None of the properties is inductive. `AuthenticIdentity` speaks of a name in the
switch's memory and needs the whole path of the token: it is granted to an agent and
a switch (`issued`), travels in packets to both (`ToCliInv`), is kept by the agent
(`AgAssignOK`), sent on (`ToSrvInv`) and by the switch (`SwOK`), and at each place
agrees with the grant. That it is used once rests on `TokenInv`: on its way from the
conductor to an agent's `ConnInfo` a token is in one place only: in the hands of
`onAgentMIP`, in one packet to the switch, in the switch's map, or on one admitted
connection. The switch erases it where it admits (`Used`), so a token that is
presented again is no longer in its map; how many requests carry it does not matter,
only that all of them are its agent's. The rosters need `ToSrvInv`'s claim that a
client sends one packet per connection, to a server that has not heard of it yet;
otherwise it could be listed twice.

`MipLemmas` has the facts about `Head`, `Tail`, `Append`, `Erase` and the network
operations; `MipPeerProofs` and `MipConductorProofs` have one lemma per action;
`MipProofs` puts them together.

**Assignments.** `AssignProofs`, for any number of agents, switches, networks,
connections and tokens: `RoundRobinHolds` and the action property
`ReachableFirstHolds`. `RoundRobin` compares picks that are many steps apart and
`rr_index` is never reduced in the fallback, so the invariant `InTurn` says where the
last picks are: there is a position such that the picks since the roster last changed
are the entries from there on, once around the roster and again, and `rr_index`
modulo its size is the next one. A roster holds no connection twice (`Shapes`), so
different positions are different connections; this needs that a client greets once
(`Greeted`) and a registered switch has nothing more to say (`Registered`). The lemmas about
`%` say that counting up to once around from anywhere meets every position.

**Dump.** `DumpProofs`, for any number of processes, faults and dumps.
`DumpKeepsHandshake` (`DumpSpec => Spec`) shows that dumping adds no behaviour to the
handshake, so `[]IInv` carries over, and with it `PendingHasSwitch`, which makes a
snapshot consistent. `DumpInv` then adds what `DumpWhole` lacks: what is about to be
renamed is consistent as well (or `Spoiled`). From it `DumpWholeHolds` and
`RequestKeptHolds`. `FileContentAssumption` says that a torn, a spoiled and a whole
file are told apart.

**Black box.** `BlackBoxProofs`, for every set of agents, switches, addresses,
descriptors, packets and files (`EndpointAssumption`: addresses are positive, `None`
is neither an agent nor a descriptor; `FileAssumption`, `RawAssumption`,
`ArrivingAssumption`: files are made of lines, packets have fields of their width;
`None` is no record): `TypeCorrect`, `MapsAgreeHolds`, `RegistryExactHolds`,
`LoadExactHolds`, `AnyOrderHolds`, `RoutesLiveHolds`, `DeliveryAllowedHolds`, `AnswersReturnHolds`,
`ParsesInsideHolds`, and `PresenceHolds`, the refinement `Spec => PresenceSpec`.
The invariant is `MapsAgree`, `RegistryExact` and `RoutesLive` with two facts more:
nobody is connected before the black boxes are built (`Unbuilt`, so that no entry
has an address of an earlier file), and a packet between two switches was allowed
by the first (`WireOK`, without which the second one's delivery cannot be justified).
`register_agent` overwrites whatever it finds under the new address and descriptor;
that nothing is there is the heart of the argument: another agent has another
address by `MapsAgree`, and a descriptor that authenticates only now is in no entry
by `RegistryExact`. The lemmas about `remove_entry`, `unregister_by_*` and
`register_agent` say what they do to `by_name`; the refinement needs no more. In
`Presence` an authentication concerns the agent behind the descriptor and nobody else:
it is registered, or nothing speaks for it. That a refused agent, one without an
address, had no entry before is `RegistryExact` again.

`AnyOrder`, which is `LoadExact` without `InOrder`, compares the end of two loops
with the whole file. `LoadInv` says it of the lines before `pos`: in the first pass
the maps are the assignments among them and no two of these clash (`Assigned`), in
the second every rule among them is in the maps with names that are assigned
(`Ruled`), and no rule is there without a line. A pass that reaches the end has read
every line, and an error return has just met the line that makes the file senseless.

**Event loop.** `NetQueueProofs`, for any number of descriptors, sockets and TUN
devices, any header, payloads, kernel and write buffers, batch sizes and bounds
(`SizeAssumption`: the header, a batch and the kernel's buffer are not empty, only
sockets are written to directly; `NoneAssumption`: `None` is no record).

`WakeupArmedHolds` needs three facts that the property does not have: epoll knows only
descriptors with an element, `epoll_wait` is called with no event left over, and while
an event is handled its descriptor is still in the batch. It needs nothing about the
contents of the buffers.

`TypeCorrect`, `InputFramingHolds` and `OutputFramingHolds` need them all: how much is
read next comes from the header that was read, so not even the types are inductive
without the framing. The invariant is `Inv`:

- `Input`: what the element holds, followed by what the kernel has received, is the
  peer's stream from the first byte of the next packet to be delivered up to the byte
  the peer writes next (`Stream`), and the parser's state says how much of that packet
  is held (`HeldOK`): less than a header, a header and at most the packet, or all of it.
  Every delivered packet is whole. Then a read moves bytes from one half of the stream
  to the other, and a delivery takes exactly one packet off its front.
- `Output`: what the peer has read, what the kernel holds, what a handler is writing
  itself and what is buffered are, in this order, the bytes of the packets sent, up to
  the first packet that was refused (`Good`), and all of them if none was refused. A
  `write` or a flush moves a cut along this sequence (`Fits`, `BytesMove`), a send
  appends to it (`SendBytesAdds`). A direct write appends in the middle: it must find
  nothing buffered, or the descriptor is `overtaken`.
- `LoopOK` and `Bounds`: where the loop is, and that a handler which freed its own
  element is still inside its event (`Closing`), where bytes may be missing.

`InputOK` and `OutputOK` are about one descriptor and take its state as parameters:
a step changes one or two descriptors, the lemma `OneDescriptor` keeps the others.

**Only model-checked.** Liveness (`HandshakeEnds`, `AssignmentEnds`,
`DeadSwitchLeaves`, `DeadAgentLeaves`, `InputServed`, `OutputServed`,
`ClosedPeerLeaves`), which is beyond the prover, and the four violations.

## 5. Not modelled, and plan

Left out for good: byte order, protobuf encoding, the splitting of configuration
text into tokens and IPv4 text (the same code on both ends, no state), `auth_key`
(stored, never compared), logging, `main.cpp`. `payload_size` is not compared with
`NET_BUFFER_SIZE` by the code; the model's packets fit. `RoutingTable::clear` and
`size`, `Config::has_any_internet_access` and `agents` have no caller. The timers of
heartbeats are left out: a heartbeat may be sent at any time and nobody reacts to
its absence. In `NetQueue`, close reasons are not told apart, and a descriptor is
used once (`Net` and `BlackBox` cover what its reuse does to the users).

Still worth doing:

1. `NetQueue` with descriptors that are used again, and its destructor; the proofs
   about one descriptor's streams would carry over, since a new use starts from the
   state of an unused one.
2. `onAgentMRP` in `Assign`: today its clients only register, so the turns are proved
   for rosters that change by registrations and closes.
