# Verification of Computer_Networks_CPE464

TLA+ models of the networking programs of this repository, the TLC runs that
check them, and TLAPS proofs of their main invariants. The code is read as it
is: where a program crashes, hangs or never reaches a state, so does its model.

- `tlc -config X.cfg M` runs a configuration (`PROJECT.json`, `runs`, pairs them);
- `tlapm M_proofs.tla` checks the proofs of a component.

## 1. The system

Programs of a course on networks, each with its own copy of some shared files.

| Component | State | Operations | Talks to |
|---|---|---|---|
| Window buffer, `Lab7_Windowing/windowing.c`, and its driver `windowing_test.c` | `lower`, `upper`, `current`, `pduArray`; the driver's `seqNum`, `RR` | `create_Window`, `add_PDU_to_Win_Buff`, `process_RR`, `window_status`, `findPDU` | the user at the prompt |
| `Program3/rcopy.c`, file-transfer client | a `STATE`, static counters `retryCount` and `expected_seq_num`, the socket, the window, the output file | `start_state`, `filename`, `file_ok`, `recv_data` | server and child, by UDP |
| `Program3/server.c` | parent: the main port; a child per datagram: `STATE`, client address, static `retryCount` | `process_server`, `filename`, `send_data`, `wait_on_ack`, `timeout_on_ack`, `timeout_on_eof_ack`, `wait_on_eof_ack` | rcopy |
| `Program3/windowing.c` | `pduArray` | `create_Window`, `addPDUtoWindow`, `isWindowEmpty`, `process_RR`, `remove_PDU_data` | called by rcopy and server |
| `Program3/srej.c`, `networks.c` | a sequence number per side | `send_buf`, `recv_buf`, `createHeader`, `retrieveHeader`, `processSelect` | called by rcopy and server |
| `libcpe464`, linked in place of `sendto`, `fork` and `bind` | error rate, seed, standard and random events, number of the message, next child's seed | constructors that read the environment, `sendErr_init`, `forkMod`, `bindMod`, `sendto_Err`, `processEvents` | every UDP program |
| `checksum.c` | none | `in_cksum` | the PDU functions |
| `Lab7_SendToErr` UDP echo (`rcopy.c`, `server.c`, `pdu.c`) | the line, the sequence number; the server keeps nothing | `main`; one line sent and waited for; one datagram echoed | each other, by UDP |
| `Program2_new` chat server (`myServer.c`, `packets.c`, `HandleNode.c`, `pollLib.c`) | poll set, list of handles, open descriptors | `addNewClient`, `processClient`, `removeFromPollSet`, `pollCall` | chat clients, by TCP |
| `Program2_new/myClient.c` | its handle, where it is in `main` or `clientControl` | register, send a `%M` message, leave | chat server |
| `lab3/Lab3_Part1`, `Lab3_Part2`, `partb`: TCP echo | descriptors, a poll set in `Lab3_Part2`, what a buffer on the stack still holds | `tcpServerSetup`, `tcpAccept`, one message answered (`partb`: printed), one line sent | server and clients of the same directory |
| `Program1_Trace/trace.c` | pcap's buffer, `packet_num` | one packet read and printed, header by header | a capture file |

What is hard in it, and what makes it correct:

- **Window arithmetic.** Slots are reused modulo the window size, `process_RR`
  dereferences every slot with no test, and its comparison mixes `int` and
  `uint32_t`. Correct: no dereference of an empty slot, and no unacknowledged
  PDU overwritten, after any sequence of RR numbers.
- **Lost, flipped, duplicated, reordered datagrams** between rcopy, the server's
  main port and the children, with retries that open new sockets and fork new
  children. Correct: the output file is a prefix of the file; success is
  reported only when it is the whole; rcopy always stops.
- **Uninitialised and shared memory**: `malloc`'ed windows, handles in dead
  stack frames, a `NULL` window in every child.
- **One server for many clients** (chat, echo): what one client does must not
  change what another gets, nor end the server. Poll order, descriptors, list of
  handles, clients that are killed with an answer unread.
- **State made before `main` and inherited by `fork`** (libcpe464): environment,
  options and seeds must come out right in every process.
- **Fixed offsets into a reused buffer** (trace): fields of one packet must not be
  told from the bytes of another.
- **8-bit and 16-bit arithmetic**: lengths and results of `send` in a `uint8_t`,
  lengths compared in network order, the checksum.

`PROJECT.json` lists each hazard at its line with the properties that watch it.

## 2. The modules

| Module | Models | Used by |
|---|---|---|
| `SlidingWindow` | abstract: what a sender's window promises | `WindowDriver` refines it |
| `WindowDriver` | `Lab7_Windowing`: buffer and driver | `MCWindowDriver` |
| `WindowDriver_proofs` | lemmas on the index modulo the window size; theorems | |
| `Transfer` | abstract: what a file transfer promises its user | `FileTransfer` refines it |
| `Rcopy` | `rcopy.c` with its window, network left open | `MCRcopy`, `FileTransfer` |
| `Rcopy_proofs` | theorems | |
| `Server` | `server.c`: parent and children, network left open | `FileTransfer` |
| `FileTransfer` | `Rcopy`, `Server` and the UDP network composed | `MCFileTransfer` |
| `FileTransfer_proofs` | theorems | |
| `Chat` | `Program2_new`: server, poll set, handle list, clients, TCP | `MCChat` |
| `Chat_proofs` | theorems | |
| `Checksum` | `in_cksum` on bytes, with 16-bit carries | `UdpEcho`, `Trace` |
| `SendToErr` | libcpe464: how a process is set up and what may leave it when it sends | `UdpEcho` |
| `UdpEcho` | `Lab7_SendToErr` clients and server, composed with the two above and a network | `MCUdpEcho` |
| `UdpEcho_proofs` | theorems | |
| `TcpNet` | what lab3's programs share: TCP connections, the state of the processes, what a user types | the next three |
| `Lab3Part1`, `Lab3Part2`, `Lab3PartB` | server and client of each directory | `Lab3` |
| `Lab3` | the choice of the pair that runs; the properties | `MCLab3` |
| `Lab3_proofs` | theorems | |
| `Cpe464` | libcpe464 in rcopy, in the server and in its children | `MCCpe464` |
| `Cpe464_proofs` | theorems | |
| `Trace` | `Program1_Trace` | `MCTrace`, which builds the frames |
| `Trace_proofs` | theorems | |

The `MC` modules only give constants their values. Definitions whose name ends
in `_<Something>` after a comment "Mutant" are faulty variants that show each
property can fail; the specifications never use them.

### WindowDriver

State: the fields of `Window` under their names; a slot of `pduArray` is the
number of the PDU it points to, `Null`, or `Uninit` (not written since
`malloc`). `SendPDU` is one turn of the driver's loop with the window open,
`EnterRR` one with it closed, `InputEnds` the end of the input. `Unsigned` is
the conversion in `RR > sequenceNum`. Payloads are left out: every `PDU_Data`
points to the driver's single buffer, so `findPDU` can return the right number
with the wrong bytes. That aliasing is noted under hazards and no property is
about it.

Properties: `NeverCrashes`, `UnackedRetained`, `ImplementsSlidingWindow`
(refinement: `Buffered`, the numbers in the slots from `lower` on, stands for
the set of outstanding PDUs), and `SlotsRecent`. A negative RR is outside the
run: it is larger than every number once it is unsigned, so it empties the
buffer, unacknowledged PDUs included, and the next RR dereferences an empty slot.
`SlotsRecent` is proved for negative RRs as well.

### Rcopy, Server, FileTransfer

Every action of `Rcopy` is one pass through the loop of `processFile`; the
branches of `recv_data` are `RecvTimeout`, `RecvCorrupt`, `RecvEof`,
`RecvInOrder`, `RecvSlide` (the loop over the window), `RecvOld`, `RecvAhead`.
Every action of `Server` is one step of the parent or one state of a child's
loop. A datagram is `[src, dst, flag, seq, arg, ok]`; `ok` is the verdict of the
checksum on it. Sockets are addresses of their own, so a late answer to an old
socket goes nowhere, as in the code. `FileTransfer` connects both through a bag
of datagrams: `Fault` loses, flips or duplicates one, delivery is in any order,
and timeouts may expire whenever their process waits.

What the models show about the code as it stands:

- `filename` assigns the new window to its own parameter (`server.c:166`), so every
  child that reads a block sends it and is then killed in `addPDUtoWindow`.
  `wait_on_ack` and `timeout_on_ack` are therefore never reached and have no action;
  only an empty file is ever transferred completely (`CompleteOnlyIfEmpty`).
- rcopy crashes on the first gap: the loop over the window dereferences a slot
  before it tests it for `NULL`. It is then true, and proved, that a buffered
  PDU is never written.
- nothing clears the window that `create_Window` gets from `malloc`: `HeapWords` says
  what may lie there, in `Rcopy` and in `FileTransfer` alike. From a dirty window (a slot
  that is not `NULL`) the first block takes the loop over the window, which crashes,
  or writes whatever the garbage points to, or writes nothing; the block itself is not
  written. What is in the file is then `Junk` only (`damaged`), and its user has a transfer
  that failed: `received` and `result` say so to `Transfer`. So `ImplementsTransfer` says
  that rcopy writes the blocks of the file in order if its window was clean, and if not
  that it writes none of them, that once it has written junk the transfer has failed, and
  that "File done" is then never printed. `NeverGoesBack` is what remains of the order of
  the output against any network.
- rcopy's `filename` takes whatever arrives first for its answer. If an END_OF_FILE
  overtakes FNAME_OK, the late FNAME_OK counts as an old block and is answered with
  an RR: the child meets it where `server.c:265` says "this should never happen" and
  ends, its file untransferred.

`clean` and `unwritten` in `Rcopy` are history variables: whether the window
was all `NULL`, and which writes failed.

### Chat

An action of the server is one turn of `serverControl`'s loop. `pollSet` holds
the descriptors with an entry of their own; the other entries of the array are
for descriptor 0, as `calloc` and `removeFromPollSet` leave them, and are ready
once the server's terminal is hung up (`Hangup`). `fds` are the
server's open descriptors: `accept` takes the lowest free one, and nothing ever
closes one. `list` is the list of handles. Its nodes point into the dead stack
frames of `recieve_packet_one`: a handle in the same place as the one looked
up is that very handle (`LookupMayReturn` excludes it: the lookup then loops
for ever), one elsewhere is bytes of unknown value. Where an array lies depends
on its size alone (`Slot`, a multiple of `VlaAlign`). A client is where `main` or
`clientControl` is; it may be killed, spin on the end of its input, or leave. One that
is killed with an answer unread resets the connection, which exits the server.
`rlimit` is the limit on the server's descriptors: `accept` fails when all below it are
open, and for no other reason.
`ServerOutlives` says that the server goes down only after a hangup; for a connection
that waits while every descriptor is in use; or by the very connection `poll` reports, if
its client was killed with its answer unread or its first packet is larger than the
buffer. A line never ends it: `handleBufLen` counts the rest of the line in a `uint8_t`, and
what is copied and sent by that count fits. A longer text arrives cut, and when the
handles alone do not fit the count the client dies of the length that is left for the
text (`packets.c:56`); no property is about these two, which nothing promises otherwise.

### UdpEcho, SendToErr

PDUs are kept byte by byte, because the checksum is about bytes. Every process
starts from its environment (`SettingsManager`, a constructor) and its arguments
(`StartClient`, `StartServer`: the two `main`s with `checkArgs`, `sendErr_init`, the
look-up of the host, `bind`). `sendto` is `sendto_Err`: the drop list first, then
perhaps one random event. `processEvents` yields the set of buffers that may leave
(`Dropped` for none). `drand48` is a free choice. `sent`, `flips` and `surplus` are
history. `Unreachable` takes what is sent to where no socket is.

What it shows: of a host's addresses only the first is tried; a datagram sent
before the server is bound is lost and its client waits for ever, as it does for
every loss; the server's own stop test, which reads the first byte of the number
and not of the line, never holds, so no client can end it.

### TcpNet, Lab3Part1, Lab3Part2, Lab3PartB, Lab3

A PDU in flight is `[len, text]`; `recv` has `MSG_WAITALL`, so it arrives whole. An
action of a server is one turn of its loop, an action of a client reads and sends a
line or takes an answer. The three framings differ and are each translated:
`sendPDU` keeps `send`'s result in a `uint8_t` (a PDU of 256 bytes looks like none
sent), `recvPDU` of `Lab3_Part1` and `partb` compares a `uint8_t` with a length in
network order, that of `Lab3_Part2` compares lengths and ends the process. `buf` is
what the stack still holds, which decides what the server does after a `recv` that
failed unnoticed. `guilty` is history: a client sent a line the framing cannot take
or was killed while it waited, or the terminal was hung up.

### Cpe464

The process that starts and the children it forks, each with its copy of
PacketManager's settings. `Load` is the constructors, `RcopyMain` and `ServerMain`
the two `main`s up to `sendErr_init`, `forkMod` and `bindMod` are called by the
server, `sendto_Err` by rcopy and the children. `Tick` is the clock: `sendErr_init`
reads it twice. What it shows:

- siblings draw from different seeds, unless `CPE464_OVERRIDE_SEEDRAND` gives all of
  them one; the first child's seed equals main's own when both readings of the
  clock agree;
- a list of which no item is a number counts as "random errors";
- a list of messages to flip is not implemented but counts as set, so it silences
  the flips the program asked for (`FlipListSilences`);
- only the first `bind` is overridden;
- `atoi` lets rcopy's rates between -1 and 1 pass, and nothing checks the server's.

### Trace

A turn of `main`'s loop reads a packet into pcap's buffer, of which only the captured
bytes change, and prints a record of fields. Offsets are those of `buffer.h`, from
the start of the frame, so IP options shift the fields of TCP, UDP and ICMP; the
TCP checksum takes the options into account, the printed fields do not.

## 3. The runs

| Run | Constants | Shows |
|---|---|---|
| `window_driver` | window 4, RR from 0 to 15, 13 PDUs: three laps of the array and a part | with any stale, repeated, exact or too large RR (it may pass `current`): `NeverCrashes`, `UnackedRetained`, `SlotsRecent`, the refinement |
| `rcopy` | window 3, blocks 1..5, 4 sockets, 2 tries, any packet at any time, clean and dirty windows | `OutputInOrder`, `BufferedAhead`, `NeverGoesBack`, `StuckOnceBuffered` |
| `rcopy_unused_slot` | the same with 3 sockets and a clean window only | **violated**: the first gap crashes the client (`rcopy.c:231`) |
| `file_transfer` | files absent, empty, of one and two blocks; clean and dirty windows; 2 children, 2 faults, 1 try, 6 sockets | `ImplementsTransfer`, `SuccessIsMutual`, `OnlyFnameReachesServer`, `OpenedOnlyIfExists`, `CompleteOnlyIfEmpty`, `ClientTerminates` |
| `file_transfer_child` | empty file; 3 children, 1 fault, 4 sockets | **violated**: a child blocks for ever after its last try (`server.c:254`) |
| `chat` | 2 clients, 5 handles, 3 lines, 5 or 6 descriptors, poll set grown by 2 | the invariants of `Chat`, `ServerOutlives`, `ConnectionsAccepted` |
| `chat_lookup_loops` | the same | **violated**: a duplicate handle hangs the server (`HandleNode.c:33`) |
| `udp_echo` | 2 clients with 2 and 1 lines, 2 environments, 6 ways to be started, 1 fault | `FlipsShow`, `ListedNeverLeave`, `StopAndWait`, `EchoArrives` |
| `lab3` | each of the three pairs, 2 clients that may come again, 3 descriptors, PDUs of 5, 7, 256 and 1026 bytes | `Lockstep`, `ServerOutlives`, `EchoArrives`, `ConnectionsTaken` |
| `trace` | captures of 2 packets out of TCP, UDP, ICMP, ARP and other frames, with options, padding, damage, cuts | `TcpVerdict`, `OnlyOwnBytes`, `FieldsRight` |
| `trace_ip_checksum` | the same | **violated**: an intact IP header is called incorrect (`trace.c:224`) |
| `cpe464` | 103 environments, 10 argument vectors, 2 children, 2 messages each, 3 times | `SiblingSeedsDiffer`, `EnvPrecedence`, `FlipListSilences`, `ListedDropped` |

Why the bounds are enough. The window wraps around in every window run, and
the block numbers exceed the window size in `rcopy`. `MaxSockets` in
`file_transfer` is `(MaxTries + 1) * (MaxFaults + 1)`: rcopy opens a socket per try, and
only a flipped reply resets the tries, so the bound never stops it and
`ClientTerminates` is not helped by it. Two faults are what it takes to lose the
answer of one child and corrupt that of the next. A child that sends a block
dies at once, so no file of more than two blocks behaves differently. In
`chat` the second client finds no descriptor when there are 5, and when there are 6
the poll set grows as it is added; the lines lie on both sides of the 255 bytes that a `uint8_t`
counts, and the handles include one that is cut by it (276 is 20 modulo 256),
one that is too long for a PDU and two that share a place. In `udp_echo` the
bytes that may be flipped are limited to the first and the ninth
(`FlipPositions`): the one the server's loop tests, and the one that is the odd
last byte of one PDU and inside the others; `PAYLOAD_MAXBUF` is 10, so that one
PDU just fits the server's buffer and one is cut. In `lab3` a client has at most
one PDU under way unless it is `partb`'s, whose two in flight fill `QueueLen`; the
fourth connection of `Lab3_Part2`, which closes none, finds no descriptor left. In `trace`
two packets are enough for one to leave bytes to the next, and every kind of frame
precedes every other. In `cpe464` two children are enough for siblings, `MaxTime`
lets the two readings of the clock agree or differ, and each list is of random
errors, of numbers, cut by an item that is none, or only such an item.

Fairness. `file_transfer`: weak fairness of the client's and of the server's
steps, that is, the operating system runs each process and `select`'s timers
expire; nothing is assumed of the network. `chat`: weak fairness of the
server's turn only; users and clients may stop. `udp_echo`: weak fairness of the
server's turn, of each client's receive and of `Unreachable` (a datagram that
arrives nowhere is gone); not of starting the server or a client. `lab3`: weak fairness of the
server's turn and of a client that waits for its answer. Weak fairness of the turn
as a whole says nothing of whom it serves: that the lowest client gets its answer
(`EchoArrives`) and that a connection is taken (`ConnectionsTaken`) follow from the
order in which the poll set is searched. Deadlock checking is off where the programs
end or block for good, which is all of them.

## 4. The proofs

All constants arbitrary, under these assumptions only:

- the `ASSUME`s of the modules, which say what kind of values the constants have. Four
  say something of the world: in `EchoAssumption` the address a host's name yields has
  the server's port, so it is no client's socket, at most 255 lines are typed, and the
  buffer is shorter than 2^16 bytes (`PAYLOAD_MAXBUF` is 1400); in
  `ChatAssumption` a `%M` line has less than 150 bytes of handles (as in section 5); in
  `FileTransferAssumption` a file is a sequence of blocks or absent, a word that `malloc`
  leaves is `NULL` or garbage, and what garbage points to is no block; in `TraceAssumption`
  a frame captured whole has the headers it announces (`WellFormed`);
- `NoNegativeRR` in the theorems of the window driver except `Recent`: a negative RR
  refutes them;
- `NumberedBlocks` in those of `Rcopy`: blocks are called by their numbers and a DATA
  carries the block of its number; what a real server sends is `FromChild` in
  `FileTransfer_proofs`.

Every inductive invariant is called `IInv`; why each is needed:

- `WindowDriver_proofs`. `IInv` joins the ranges of the
  fields with: every number in `lower .. current - 1` is in its slot, and each
  slot's number is at most a window old. Alone, `NeverCrashes` is not inductive:
  that all slots are filled when the window is closed (`ClosedIsFull`) follows
  only from the slots being those of the last `WindowSize` numbers, and that
  from the lemma `EverySlotUsed`. `Refinement` maps each step to
  `Transmit`, `Acknowledge` or a stutter.
- `Rcopy_proofs`. `InOrder` alone is not inductive: `RecvSlide` could write from
  the slots. `IInv` adds `CleanPart`: in a window that was all `NULL` at the start
  no slot is garbage and each buffered PDU is ahead of `expected_seq_num`. Then
  `SlideWritesNothing`: the loop of `RecvSlide` crashes or writes nothing, because
  it looks for PDUs below the number just received. The same lemma proves
  `Stuck`. `TypeCorrect` also bounds `retryCount`. `Forward` is about dirty windows
  too, where the loop does write, and with writes that fail in it: `SlideLoop` says what
  is written and by how much the expected number grows, `Blocks` that every block in
  the file lies below `expected_seq_num`, and `WritesAtEnd` that what a step writes
  is junk or the block just received, so it comes after all of them.
- `FileTransfer_proofs`. `NetInv` says of every datagram in flight what it means
  (`FromClient`, `FromChild`): an FNAME_OK is for a file there is, a DATA is its first
  block, an END_OF_FILE is of an empty file, and an EOF_ACK is of a client that is done
  and goes to the child it last heard. Losing, flipping or duplicating keeps that.
  `ClientInv` and `ServerInv` say the same of what either has received; nothing
  is ever put in the window (`WindowAsFound`), since a child sends one block, and that is
  never ahead; and a child past `SEND_DATA` that has not crashed has an empty file.
  Four theorems are then read off. `Refinement` maps the write of a block to `Deliver`,
  END_OF_FILE to `Complete`, giving up to `Fail`, and all other steps, the server's and
  the network's, to stutters (`CleanRefines`). With a dirty window the first block maps to
  `Fail`, if it crashes rcopy or makes it write junk, or to a stutter, and there is never
  anything else written (`SlideWritesJunk`, `DirtyRefines`). `SilentForGood` needs `TryInv`, which says what a child's
  counter can be in each state (`Counted`): where it may send it is at most `MAX_TRIES`, in
  `recvfrom` it is more. A flipped datagram takes the child from there back to
  `WAIT_ON_EOF_ACK`, but only `processSelect` could set the counter to 0 again, and with
  its tries used up it does not look at the socket. The counter itself has no bound: such
  a child counts on.
- `Chat_proofs`. `SocketsInv` (each accepted client has an open descriptor of
  its own above the listening one), `PendingInv` (a client waits once, before it
  has a descriptor), `ListInv` (a node's socket is a client's, and no two nodes
  have the same place), `PollInv`. `Owner` needs all four: a node keeps its
  socket only because `accept` never returns an open descriptor and the server
  never closes one. `Unique` follows from the places being different: handles in
  the same place never pass the lookup. `TalkInv` adds what a client and the server have
  said to each other: a client that waits has one PDU, or one answer, under way, and the
  answer "good" only if its node is in the list. `ConfirmedListed` and `Types` follow from
  it; `Outlives` as well, since a connection is reset only with an answer unread, and
  `TalkInv` leaves none unread but to a client that was killed. That no line makes a PDU
  too large is `MessageSize`: the count is less than 256, so `MAXBUF` is never reached.
- `Cpe464_proofs`. `SeedInv`: every child's seed lies below main's next one, so the
  next child's differs from all. `Obeying`: a process' settings are those of the
  environment, which neither options nor `fork` disturb. `StageInv` describes main's
  list of constant events in each stage and every child's as the same one; from it
  `ListedNeverSent`, by counting the messages numbered so far that are not listed.
- `UdpEcho_proofs`. Counting datagrams needs new ones to be new: `Recorded` says that
  each in flight has a number its sender has reached and a copy number that faults have
  reached, so a message or a duplicate is never equal to one in flight and the set grows
  by one. `Addressed` keeps what a client sends from going to another client.
  `SendCounts` then does the sums for all senders, and `Loss` for what gets lost.
  `FlipsSeen` has an invariant of its own, `FInv`: a PDU in flight is the one its client
  created or that with one byte flipped (`AllFaithful`), and sequence numbers are bytes
  (`Numbered`). The rest is about `in_cksum`: its sum is a fold over the set of places,
  for which there is no induction theorem to cite, so `LeastNumber` and `LeastSubset` take
  a least counterexample instead (of the lengths, of the sets of places). From the value
  of the fold on a set and on the set less one place follow that the sum is bounded
  (`SumBound`), that one byte changes it by the weight of its place (`OneChange`), and
  that the checksum is 0 exactly if the sum is a multiple of 65535 and not 0. A flip
  changes the sum by less than 65535 and not by 0 (`FlipUnbalances`).
- `Lab3_proofs`. The three pairs take steps that have the same shape (`AnyNext`), which
  `EachPart` proves of each program; the invariant is then proved once. `OneConnection`:
  a client is in the queue or among those served, once. `Fresh` and `EchoClients`: what
  is under way on a connection, given where its client is and how its end was closed;
  `Blamed`: a PDU the framing cannot take makes its client guilty while it is still
  under way. `Framing` is the arithmetic: the `uint8_t` looks wrong for the lengths that
  are `Bad` and for no others. `SocketsClosed` (`OneAtATime`) bounds the descriptors of
  `Lab3_Part1` and `partb`, which is why only `Lab3_Part2` exits for want of them.
- `Trace_proofs`. `IInv`: the buffer begins with the packet last read, and what was
  printed is the report on it. `SameReport` says that two buffers that begin with the
  same well-formed frame make the same report, field by field; the hard part is
  `SameChecksum`, where the segment's place and length are computed from the frame and
  must stay inside it. Nothing is said of what lies behind the frame.

Checked by TLC only:

- all liveness (`ClientTerminates`, `ConnectionsAccepted`, `ConnectionsTaken`,
  `EchoArrives` of `UdpEcho` and of `Lab3`), which is out of the prover's reach;
- `TcpVerdict` and `FieldsRight` of `Trace`: what they compare the printed fields with
  is how each frame was built (its options, its padding, whether it was damaged), which is
  a constant of the run; of an arbitrary frame it is not defined.

## 5. Not modelled

- `Lab7_SendToErr/windowing.c` and `windowing_test.c`: a copy of `Lab7_Windowing`'s
  that its Makefile does not build; `Lab7_Windowing/libcpe464` is not linked into
  `windowing_test`.
- `Program3/pdu.c`: linked, never called. `send_Err`, `recvErr`, `recvFromClient` of
  `Lab3_Part2` and `Program2_new`, `gethostbyname_test`: no callers.
- `safeUtil.c` and system calls whose failure ends the process, but for `bind`,
  `accept` (for want of descriptors, no other error), `connect` and the look-up of a host; how
  addresses are printed.
- In `Program3`: the states no child reaches; the byte layout of the header
  (the checksum is a verdict); descriptors and ports that run out.
- In `Program2_new`: malformed `%M` lines, handles of 150 bytes or more in one
  line, PDUs that arrive in parts, `%B`, `%L`, `%E` (they only print).
- In libcpe464: the sequence of `drand48` (a free choice), what `selectMod`,
  `recvfrom_Mod` and the debug levels print.
- In `trace.c`: IP lengths smaller than the IP header, which wrap `TCP_len`,
  and frames shorter than the headers they announce, of which the program prints what is
  not theirs.
- Signed overflow: an RR within a window of `INT_MAX` (`windowing.c:87`).

Comments that differ from the code, without a run of their own:
`Program3/rcopy.c:184`, "only increase the seq number when we send an RR" (it is
increased for the `EOF_ACK` and for no RR); `Program3/windowing.c:92`, "int RR
will prob be seq number + 1" (rcopy passes 0, always). The models follow the code.

## 6. Plan

1. Done: every component of section 1 has a module and a run; the safety invariants and
   action properties of the runs are theorems, but for those listed in section 4.
2. Done: the retries of the server's children (`SilentForGood`) and what `in_cksum`
   makes of a PDU of which one byte changes (`FlipsSeen`).
3. Possible extensions: a detailed layer of PDUs for `Program3` that replaces the verdict
   `ok` by `Checksum`; an abstract registry of handles for `Chat` to implement as far as
   it does.
