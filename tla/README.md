# Verification of the simple router

TLA+ models of the user-space IP router of this repository, checked with TLC on
small instances and, for its safety properties, proved with TLAPS for instances
of any size.

## 1. The system

A process (`sr_main.c`) connects to a VNS server over one TCP stream, receives
the frames that arrive at its virtual interfaces as commands on that stream,
and writes the frames it sends to the same stream.  It has two threads.  *main*
reads commands and handles every frame to the end (`sr_handlepacket`).
*timeout* (`sr_arpcache_timeout`), started by `sr_init`, wakes up every second,
takes the lock of the ARP cache, expires mappings and sweeps the queue of ARP
requests.

| component | state | operations | interacts with |
|---|---|---|---|
| ARP cache, `sr_arpcache.[ch]` | 100 mappings, queue of requests with their packets, recursive lock | lookup, queuereq, insert, destroy, handle_arpreq, sweepreqs, timeout thread | called by main without and by timeout with the lock; sends ARP requests and ICMP errors |
| packet handling, `sr_router.c` | none of its own | echo reply, port/net unreachable, TTL exceeded, forward, ARP request and reply, blacklist | route lookup, ARP cache, sending |
| longest prefix match, `sr_router.c` | routing table, read only | sr_findLPMentry | packet handling, handle_arpreq |
| VNS session, `sr_vns_comm.c` | socket, command buffer | connect and handshake, read a command, carry it out, send a packet | main, interfaces, table files |
| process, `sr_main.c` | options, `sr_instance` | load, connect, load, init, serve | all |
| routing table, `sr_rt.c` | list of routes | load, add | session (verification), route lookup |
| interfaces, `sr_if.c` | list of interfaces | add, set addresses of the last one, find | session, packet handling |
| sending and the log, `sr_vns_comm.c`, `sr_dumper.c` | socket, log file | sr_send_packet, open, dump, close | called by both threads, by timeout with the ARP lock; main closes the log |
| SHA-1, `sha1.c` | a context | reset, input, result | the answer to an authentication request |
| checksum, `sr_utils.c` | none | cksum | packet handling, ICMP errors |
| printing | none | none that changes state | not modelled |

What is hard here:

* main calls `sr_arpcache_handle_arpreq` without the lock on a request that
  the timeout thread may resend, give up and free;
* `handle_arpreq` calls itself for the ICMP errors it makes, inside of a sweep
  over the list it changes;
* the cache is looked up and the packet queued in two critical sections;
* the packets of an answered request are sent without the lock;
* recv returns any part of a command, and nothing at all for ever once the
  peer has gone;
* the order of table, handshake, interfaces and the first frame;
* both threads write the socket and the log, without a lock of their own, in
  portions, and the timeout thread does so with the ARP lock held;
* the boundaries of the arithmetic: a checksum of zero, carries, a message
  that ends where its length does not fit into the block.

What makes it correct: the queue stays well formed; no packet waits for an
address that is cached; no packet is lost, duplicated or both sent and given
up; every packet is sent or given up in time; a freed request is not used; a
packet leaves by its route's link with that interface's address; the blacklist
holds for everything the router makes; the route is the longest prefix; a
frame is handled only in an initialised process whose table fits its
interfaces; commands do not run into each other on the stream; a frame is logged
before it is sent; a blocked write does not stop the router; checksums and
digests are those of the standards.  `PROJECT.json` lists the hazards at their
lines, with the properties that cover each, and says where a property covers only
part of one.

## 2. The modules

### SrArp: the cache, its lock and the two threads

State: `entries`, `requests` (the queue, head first), `heap` and `reqs` (the
allocated `sr_arpreq` and their contents), `lock`, a stack of activations of
`handle_arpreq` for each thread, `job` (what main does outside of
`handle_arpreq`), `cursor` (the sweep's next request), and ghosts: `arrived`,
`fwd`, `settled` for packets and `arps` for ARP requests really sent.

A step is one critical section of `sr_arpcache.c`, or one access to a request
outside of any.  The activation of `handle_arpreq` is split where another thread can come
in: reading `sent` (Check), `times_sent` (CheckTries), writing `sent` and
loading `times_sent` (Resend), storing it (Store), sending (Xmit); every turn
of the discard loop with its lookup (DiscardPacket), queueing the ICMP error
and the recursive call (Enqueue), destroying the request (DiscardDone).  Reading
the clock and `req->sent` (lines 52 and 54) are one step.  main: Submit (look
up, send or go on to queue), MainQueue, Reply, Flush, FlushDone.  timeout:
Wake, Visit, Rest.  Tick lets a second pass.

Abstractions.  Times are ages in seconds, saturated where the code stops to
tell them apart: `difftime > 1.0` on whole seconds is an age of 2.  A packet is
its identity and its source.  A route is `RouterIp`, the router's address on the
interface of the route, or NULL.  The first undefined behaviour (freed request,
null route, stack exhausted) sets `fault` and ends the behaviour, so the safety
properties say what holds up to it.  The address of a freed request is not
handed out again while a thread still points to it: this makes every stale use
visible instead of letting it hit another request.  `arrived` bounds the
traffic to one handover for each packet.

### SrResolve, SrArpResolve: what the ARP cache promises

SrResolve is address resolution as the rest of the router sees it, with neither
threads nor lock nor queue: a packet is new, waits for a hop, is answered, sent
or unreachable; a hop is known or not.  An answer frees all packets of a hop at
one moment, whether it can be remembered or not, and only a packet whose hop is
unknown is given up.  SrArpResolve maps SrArp to it: the state of a packet is read
off `arrived`, `fwd`, `settled`, main's `job` and the requests on the heap, and
a hop is known when a lookup would find it.  `ImplementsResolve` is SrResolve's
specification under this mapping.  Undefined behaviour maps to Fail.

### SrArpSweep: the sweep on its own

SrArp with a history variable, `alone`: whether main was outside of
`handle_arpreq` when the sweep began (it cannot enter while the sweep has the
lock).  A sweep that is alone never frees a request one of its own activations
still uses, however the calls nest; a resend by main in between is what
breaks this.  LoneSweep is the invariant behind it: a chain of discard loops, each
called for the packet the one before took last (SweepDescends), in which a request
that occurs twice is met again further along its list (SweepRevisits).

### SrLpm: sr_findLPMentry

One turn of the loop a step.  A 32-bit word is the set of its bits: `&` is
intersection, unsigned `>` is decided by the highest bit that differs.  The
reference (`InPrefix`, `LongestPrefix`) is stated on bits, not with the code's
tests.  Tables hold netmasks (contiguous); for other masks the comparison
of words is no order of lengths.  A default route never matches, because
`mask > lpmmask` fails for mask 0: `Candidates` says so.

### SrRouter: sr_handlepacket

A frame is what the branches tell apart: its interface, whether it passes the
length, version and checksum tests (`sound`), addresses, TTL, protocol.  TCP or
UDP too short to be quoted counts as unsound, `icmp` is any ICMP that is not an
intact echo request.  Every branch is an action, complete up to sending or
queueing.  The cache is seen from outside, as SrArp shows it to be: a
set of addresses and a set of waiting packets; a reply may or may not be
remembered (the cache may be full), and GiveUp may follow at any time, whether
the sweep or main gives up.  Errors about given-up packets are the same as in
`handle_arpreq`, including those about the router's own packets.  ARP replies go
through the same check of the source address as IP packets and are kept apart in
`arped`, as the blacklist and the routes do not concern them.

### SrSession: process and VNS session

The server's commands form a byte stream, byte k of command n being `<<n, k>>`;
ReadHead and ReadBody take any number of the bytes that are there.  Then come the
check for the expected command, the switch (one action for each command that
changes state), loading and verifying the table, and the interface list.
`Applied` is the loop over the entries of the hardware information, as a recursive
function of the number of entries done.  Failures of the socket, the key file and the file system are nondeterministic.
The server (external) announces the hardware once and sends frames only from
announced interfaces.  EINTR only repeats a call.

### SrSend: sr_send_packet, the socket and the log

The two threads log a frame (two writes, each atomic because stdio locks the
file for one call), check its source address and write the command.  The frames main
receives are logged by the same calls before they are handled.  Byte k of
the command of the n-th frame is `<<n, k>>`.  The send buffer holds `Space` bytes; the kernel
takes a command at once or in portions, between which the other thread's bytes may come
(`waited`), or returns early (`cut`).  The timeout thread sends with the ARP lock held;
main takes that lock for a moment, up to `MaxLocks` times for a frame, before and after
it sends, as its lookups, queuereq, insert and destroy do.  At the end of the session
main closes the log and the process ends some time later; a use of the closed file is a
fault and ends the behaviour.  An ARP request that main sends from `handle_arpreq` is one
of its calls.

### SrSha1: the SHA-1 context

SHA1Input turn by turn, SHA1Result with SHA1PadMessage, in any order a client
may call them.  The octets of a message are their numbers, the length is two
words of `LenMod` values, and the digest is kept as the sequence of the blocks
it was computed from, which tells apart all that the calls around
SHA1ProcessMessageBlock can get wrong; of that function itself only the reset of the
index is modelled.  The reference (`PaddedOctet`) is the
padded message of the standard.

### SrCksum: cksum and its uses

`cksum` as an operator on octets with `Byte` values, its two loops (`Added`, `Folded`)
as recursive functions; lengths are less than `WordMod`, as the 16-bit lengths of the
code are; the check of a header that
arrived (save, zero, compare, restore) and the new checksum of what is forwarded
(the TTL decremented), of the header of an echo reply (the TTL set, the addresses
swapped) and of its ICMP message.  The reference (`Valid`) is the ones' complement sum of a receiver.
What a router sends may arrive at one that runs the same code.

`MCSrArp`, `MCSrArpSweep`, `MCSrRouter`, `MCSrSession`, `MCSrSend` hold the
instances, `MCSrCompute` those of SrSha1, SrCksum and SrLpm, which share a run
and nothing else.  `SrX_proofs` holds the theorems about SrX, for SrArp,
SrArpResolve, SrResolve, SrLpm, SrRouter, SrSend and SrSession; those about
SrArpSweep are in SrArp_proofs, those about SrSha1 and SrCksum in SrDigest_proofs.
A definition commented "Mutant of X" is X with a plausible mistake; it is used by nothing but the check that
the property it belongs to notices the mistake.

## 3. Runs

| run | instance | shows |
|---|---|---|
| arp_safety | 2 packets both ways between 2 hosts, an unroutable hop, the router's own address routable, 4 requests, 1 slot, 1 try, depth 3; 869,945 states | QueueSound, CachedXorPending, FlushOwns, TriesBeforeGivingUp, PacketAccounted, LoneSweepKeepsRequests, ImplementsResolve, and Inv, the inductive invariant |
| arp_live | 2 packets one way, 2 slots, a host that replies again and again; 89,096 states | PacketSettles, SweepEnds, SlotFreed, MainReturns |
| router | 27 frames, up to 6 of them in a behaviour; 278,354 states | NeverRefused, BlacklistSilent, NeverUnrouted, LeavesOnLink |
| session | 14 commands, up to 5 in a behaviour, every split; 134,756 states | Framed, HandledAfterInit, RoutesUsable, AddressesOwn, CommandsCarriedOut |
| send | 3 frames, received and sent by 2 threads, commands of 2 and 3 bytes, a buffer of 2, 2 critical sections of main for a frame, log open or absent; 319,796 states | TornForCause, LoggedBeforeSent, MainComesBack |
| compute | SHA-1: up to 20 octets in pieces of 0 to 3, blocks of 5, overflow at 18; cksum: all headers of 8 octets and messages of 4 or 5 with 3 values an octet; route lookup: all tables of up to 3 entries, 2-bit words; 47,615 states | DigestOfMessage, CorruptedForCause, CheckExact, SentAccepted, BestSoFar, LongestPrefix |
| arp_stale_pointer | violated: ReturnedRequestUsable | main uses a request the sweep has freed |
| arp_stale_next | violated: SavedNextUsable | the saved next is freed by a nested call |
| arp_recursion | violated: GivingUpReturns | giving up recurses without end |
| router_nexthop | violated: WaitsForNextHop | the gateway is ignored |
| session_eof | violated: ConnectReturns | end of stream during the handshake |
| send_log | violated: LogReadable | a record is written into the middle of another |

Bounds.  One try instead of five shortens the time to give up and drops no
case: resending, giving up and both threads counting at once all occur.  Two
packets and one slot are enough for a full cache (two slots in arp_live for a mapping
that is entered twice), two packets on one request,
requests that wait on each other, and a nested call that frees an outer or a
saved request.  Depth 3 reaches a call nested in a nested call, and with it
the return to a request further out; the stack fault stands for all deeper
ones.  Symmetry among request addresses is sound although `Fresh`
is used with CHOOSE: unreferenced free addresses are alike.  The liveness run
uses no symmetry.  Two-bit words have all prefix lengths 0 to 2, and three
entries allow a longer prefix before, between and after shorter and equal ones.
Header and bodies of two bytes can be split inside and across reads; five
commands reach from authentication to a frame.  The TTL wraps at 4 instead of
256.  A buffer that holds one command of main's and not all of one of the timeout
thread's makes writes pass at once, wait, split and mix; three frames let each thread
write before, between and after bytes of the other.  Blocks of 5 octets with a
length of 2 have messages that end before, at and behind the last octet that
leaves room, and cross the carry and the overflow of the length; 8 octets
with 3 values reach a second fold, a sum of zero and a checksum of zero.

Assumptions and exceptions.  NeverUnrouted and LeavesOnLink name their
exceptions: a port, net or TTL error is sent back without a route lookup, so for
a source without a route `handle_arpreq` uses a null entry (`sr_arpcache.c:122`),
and for a source behind another link it leaves by the wrong one
(`sr_router.c:347`); nothing else does either.  CheckExact names one: a valid
header whose checksum is 0 is dropped, since `cksum` never returns 0.
TornForCause speaks of the stream as a whole and names what does tear it: a write
that had to wait for room and one that returned early (`sr_vns_comm.c:601`); the
code does nothing about either.  LoggedBeforeSent says that both parts of a record are in
the file, not that the file can be read; LogReadable, which is violated, says that.
TriesBeforeGivingUp bounds the count by the requests sent; requests that are not
counted are not forbidden.  PacketAccounted does not see a packet that two discard loops
give up both, nor errors that are not sent (`settled` is a set).  The arp_safety run includes the
null route as a fault.

Two more comments of `sr_arpcache` do not describe the code.  A mapping is
"inserted" and marked valid (`sr_arpcache.c:249`), but a full cache takes none
and evicts none (SlotFreed says that it does not stay full).  ARP requests are
sent "until we send 5" (`sr_arpcache.h:51`), but when both threads find a
request due one more goes out for the same count; TriesBeforeGivingUp is the half
that holds, that none is given up after fewer.

Fairness.  Tick and the timeout thread are weakly fair: time passes and the
thread, which holds the lock while it sweeps, is scheduled.  main is strongly
fair once it has a packet in hand: the lock is taken again and again by the
timeout thread, but that thread sleeps a second between two sweeps without it,
so a waiting main gets it.  No fairness is assumed of arriving packets and
replies.  In SrSession the process is weakly fair whenever it can go on; the
server owes nothing.  In SrSend both threads and the server's reading are weakly
fair, and main's critical sections strongly, for the reason given above; that the server
reads without waiting for the router is an assumption, and without it the two
could block each other for good.  A write may always fail instead.

## 4. Proofs

All theorems hold for every value of the constants that satisfies the named
assumptions of the modules, which are those of the code: sizes are positive, the
length words of SHA-1 hold whole octets, lengths fit in a word, what the server
sends is a command.  They
speak of the safety part of each specification, `Init /\ [][Next]_vars`; fairness
adds nothing to them.  Each module of proofs has one lemma for each action, and
under it a step for each conjunct the action can disturb.

**SrArp_proofs**, for all sets of addresses, packets and requests, any
CacheSz, CacheTO, Tries and MaxDepth and any routes.

* `InvHolds`: Spec => []Inv, and from it `TypeCorrect`, `QueueStaysSound`,
  `CachedNeverPending`, `AnsweredRequestOwned`.  QueueSound, CachedXorPending and
  FlushOwns are not inductive.  A thread may queue a packet long after its lookup
  missed; what keeps the address uncached is that only main inserts mappings and
  main is either the one that queues (QueueJobMisses, MainDoesOneThing) or kept
  out by the lock of the sweep (LockCoversSweep, and "~Cached" in ActivationOK).
  The answered request is unreferenced because main cannot insert while the sweep
  is under way, and has no activation of its own then.  CursorQueued makes the
  sweep's next step meaningful, and the bounds of packet loops in ActivationOK
  make every access to a list defined.
* `TriesStayCovered` and from it `NotGivenUpEarly` (TriesBeforeGivingUp).  Both
  threads do `times_sent++` without a common lock, so an update may be lost.  The
  invariant TriesCovered adds that the count, and every count an activation has
  loaded and not yet stored, is at most the ARP requests sent plus those in
  flight: a lost update loses a count and never a request.
* `LoneSweepHolds` and from it `LoneSweepSafe` (LoneSweepKeepsRequests), for any
  depth of recursion.  The danger is that a nested call comes back to a request
  further out and destroys it when it has reached the end of its packets.  It does
  not get there: it is past its tries too (SweepGivesUp: `sent` and `times_sent` of a
  request that is given up do not change while main is out), so it walks the list
  again, and comes to the packet for which the outer loop called down; that packet
  leads down again, as its source is still routable and not cached (LeadsTo: only
  main inserts).  So the inner loop is at or before the place of the outer one
  (SweepRevisits) and never done.  In the code this is the recursion without end
  of arp_recursion, which is why the theorem speaks of use after free alone.

**SrArpResolve_proofs**, with the same generality.

* `LedgerHolds`: every packet is in one place.  PacketAccounted says that a packet is
  not lost, sent twice, or both sent and given up; to keep it, Ledger says where each packet is (new,
  in main's hands, at one place of one request), that it has been sent just when
  main's loop is past it, and unreachable just when some discard loop over that
  request is past it, although two loops may walk one list and the request may be
  freed under one of them.  `NoPacketLost` (PacketAccounted) follows.
* `ArpImplementsResolve` (ImplementsResolve): the refinement.  Initial states map to
  initial states, and each action of SrArp maps to one of SrResolve or to a
  stutter.  Ledger makes StateOf a function of the place of a packet: OnePlace
  makes the CHOOSE of the hop unique, HeldFate says which packets of a list
  are answered or unreachable.  CachedXorPending gives the guards of SrResolve.

**SrResolve_proofs**: `NeverStranded`, no packet of SrResolve waits for a known hop.
Through the refinement this holds of the two threads and their lock.

**SrLpm_proofs**, for words of any width and tables of any length: `LpmTypeCorrect`,
`LoopInvariant` and, from it, `LpmCorrect`.  The key fact is that unsigned
comparison of netmasks is inclusion (`PrefixOrder`).

**SrRouter_proofs**, for any interfaces, routes, blacklist and frames:
`RouterInvHolds`, and from it `RouterTypeCorrect`, `SendNeverRefused`,
`BlacklistHolds`, `NullRouteOnlyByErrors`, `EveryPacketOnLink`.  The properties
speak of what is sent; a packet that is given up later is turned into an error
about its source, so RouterInv says of everything that *waits* too that it
carries the address of its interface, has a route or is a direct error, and has
neither a blacklisted source nor destination.

**SrSend_proofs**, for any commands, any buffer and any number of frames:
`SendInvHolds`, and from it `SendTypeCorrect`, `StreamTornForCause`, `LogComesFirst`.
TornForCause speaks of neighbours on the stream.  What a thread appends next meets
whatever the other thread wrote last, so SendInv says how the stream *ends* (StreamEnds:
in a complete command, or in one that was held up or cut) and that a command that has
begun and is not complete has been held up (InCall).  Dumped says how far the record of a
thread's frame has come, which is what is left of the order of logging and writing when
the parts of other records lie in between.

**SrSession_proofs**, for any commands and lengths: `SessionInvHolds`, and from it
`FramesStayFramed`, `InitComesFirst`, `RoutesStayUsable`.  Framed speaks of the
buffer alone; what keeps it is that the bytes still on the stream are the right
ones.  InStep says that there is a layout of the commands not yet carried out
(where each begins, counted from the one being read) which places every byte of
the stream; a read moves bytes from the stream into the buffer and leaves
the layout, a command carried out shifts it.  Checked follows a frame
back to the hardware information that came before it, and that to the table
verified against the interfaces.

`SessionDataHolds` adds the contents of the variables and of the interface list to
SessionInv; `SessionTypeCorrect` (TypeOK) and `AddressesStayOwn` (AddressesOwn) follow.
sr_set_ether_ip and sr_set_ether_addr take the *last* interface of the list, so that an
interface has only its own addresses is a fact about the order of the entries.  It
is proved by induction over the entries (`AppliedOwn`): after each one, an address
of an interface is one that an entry under its name gave, and the last of the list
is the interface named last.  AnnouncedOnce says that the list is empty before the one hardware
information the server sends, and NextAddresses carries the fact to the states.

**SrDigest_proofs**, SHA-1 for blocks, length fields, length words and messages of any
size: `ShaInvHolds`, and from it `ShaTypeCorrect`, `DigestIsOfMessage`,
`OnlyCorruptedForCause`.  ShaInv says of a context before the result that the octets
taken are in its blocks, in order, and that its two words count their bits
(Collecting), and of one after it that the digest is that of the padded message
(Concluded).  The low word is a multiple of the bits of an octet: without this
the test for a carry, `Length_Low == 0`, could miss it.  `PaddedLenIs` and
`PaddedOctetIs` compute the reference; `PadMessageIs` has the case of one block and
that of two.

cksum for octets of any size and any lengths that fit in a word: `CksumInvHolds`, and
from it `CksumTypeCorrect`, `CheckIsExact`, `SentIsAccepted`.  By induction over the
octets, what the loop adds up is their sum: a word adds what its octets add
(`WordAdds`), an odd last octet included, and less than WordMod words cannot
overflow the accumulator (`AddedIsTotal`).  Folding keeps the sum modulo WordMod - 1 and
makes it zero only if it was, and two turns are enough (`FoldedIs`).  So the word cksum
returns is the one word but 0 that completes the rest to a multiple of WordMod - 1
(`Complement`, `CksumExact`), and the field adds itself to the sum of the rest
(`FieldAdds`).  CksumInv says that the data is what was received until the check has
dropped it, and that what was sent passes the check until it is looked at.

Induction.  The library's induction theorems take an operator, which the installed
provers cannot instantiate.  The proofs about loops over data use `UpTo` instead, whose
parameter is a *set* of numbers: a set with 0 and the successors of its elements
below N has all numbers up to N.  It follows from `LeastNumber`, and that from the
library's well-foundedness of Nat (WFMin), which takes a set as well.  A recursive
function is unfolded by showing first that some function satisfies its equation.

TriesCovered, Ledger, LoneSweep, SendInv, ShaInv and CksumInv were checked with TLC on
the instances of arp_safety, send and compute; SessionInv quantifies over layouts,
which TLC cannot enumerate.

Only model-checked: liveness (arp_live, CommandsCarriedOut, MainComesBack), which is
out of the prover's reach.  Every invariant that a passing run checks is proved.

## 5. Not modelled

Printing (`sr_utils.c`, `sr_if.c`, `sr_rt.c`, `sr_arpcache_dump`) and option
parsing change no state the router uses.  Header layouts are one flag of a frame.
The rounds of SHA1ProcessMessageBlock are arithmetic that no small instance
stands for; test vectors are the tool for it.  Commands too short for their type,
an over-read of a short packet (`sr_router.c:334`) and what happens after any
undefined behaviour have no outcome to model.  `sr_arpcache_destroy` and
`sr_handle_hwinfo`'s unused keys have no effect.

## 6. Plan

Done: all components of section 2, the proofs of section 4, the refinement.  Left:
let SrRouter use SrResolve in place of its own view of the cache.
