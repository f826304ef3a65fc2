------------------------------- MODULE SrSend -------------------------------
(***************************************************************************)
(* sr_send_packet of sr_vns_comm.c, called by the main thread and by the   *)
(* timeout thread, with what the two share behind it: the socket to the    *)
(* server and the packet log (sr_dumper.c), into which main also puts the  *)
(* frames it receives and which it closes at the end of the session        *)
(* (sr_main.c).                                                            *)
(*                                                                         *)
(* The n-th frame is known by n.  A write blocks while the send buffer of  *)
(* the socket is full; the kernel takes the bytes in portions, in between  *)
(* which the other thread may write.  It may return early (a signal, an    *)
(* error): write then reports fewer bytes, and nobody sends the rest.      *)
(* The timeout thread sends with the lock of the ARP cache held; main      *)
(* takes that lock for a moment, several times for one frame, and sends    *)
(* without it.  Every fwrite is atomic: stdio locks the file for one call. *)
(***************************************************************************)
EXTENDS Naturals, Sequences

CONSTANTS
  Calls,      \* who may send what: thread, length of the frame, and whether
              \* its source address is that of the interface
  HeadLen,    \* sizeof(c_packet_header)
  Space,      \* bytes the send buffer of the socket holds
  MaxFrames,  \* bound on the frames received and sent
  MaxLocks    \* bound on the critical sections of main for one frame

Thread == {"main", "timeout"}

\* A frame main has received: it is logged and not written.
Received == [by |-> "main", len |-> 1, match |-> FALSE]

Frame == Calls \cup {Received}

ASSUME SizesAssumption ==
  /\ Calls \subseteq [by : Thread, len : Nat \ {0}, match : BOOLEAN]
  /\ HeadLen \in Nat \ {0} /\ Space \in Nat \ {0}
  /\ MaxFrames \in Nat /\ MaxLocks \in Nat

VARIABLES
  frames,     \* the frames so far
  at,         \* thread -> where it is in sr_log_packet or sr_send_packet
  cur,        \* thread -> its frame
  total_len,  \* thread -> length of its command
  written,    \* thread -> bytes of it the kernel has taken
  stream,     \* the bytes taken: <<frame, position in its command>>
  drained,    \* how many of them the server has read
  waited,     \* frames whose command the kernel did not take at once
  cut,        \* frames whose write returned early
  logfile,    \* sr->logfile: "null", "open" or "closed"
  log,        \* what was written to it: <<frame, "header" or "body">>
  lock,       \* the timeout thread has locked the ARP cache
  main,       \* where the main thread is outside of sr_send_packet
  locks,      \* critical sections main has entered for this frame
  fault       \* a closed FILE was used

socket == <<total_len, written, stream, drained, waited, cut>>
dump   == <<logfile, log, fault>>
around == <<lock, main, locks>>
vars   == <<frames, at, cur, socket, dump, around>>

\* c_packet_header and the frame.
TotalLen(n) == HeadLen + frames[n].len

\* Every variable holds a value of its kind, and what is on the stream are
\* bytes of the buffers sr_send_packet has allocated, none beyond their end.
TypeOK ==
  /\ frames \in Seq(Frame) /\ Len(frames) <= MaxFrames
  /\ at \in [Thread -> {"idle", "header", "body", "write"}]
  /\ cur \in [Thread -> 0..MaxFrames]
  /\ total_len \in [Thread -> Nat] /\ written \in [Thread -> Nat]
  /\ stream \in Seq((1..MaxFrames) \X (Nat \ {0}))
  /\ \A i \in DOMAIN stream : /\ stream[i][1] <= Len(frames)
                              /\ stream[i][2] <= TotalLen(stream[i][1])
  /\ drained \in 0..Len(stream)
  /\ waited \subseteq 1..MaxFrames /\ cut \subseteq 1..MaxFrames
  /\ logfile \in {"null", "open", "closed"}
  /\ log \in Seq((1..MaxFrames) \X {"header", "body"})
  /\ lock \in BOOLEAN /\ fault \in BOOLEAN
  /\ main \in {"read", "handle", "wait", "destroy", "exit"}
  /\ locks \in 0..MaxLocks

-----------------------------------------------------------------------------
(* sr_send_packet and sr_log_packet. *)

Running == ~fault /\ main # "exit"

Goto(t, where) == at' = [at EXCEPT ![t] = where]

\* A frame comes up in thread t and is to be logged.
NewFrame(t, f) ==
  /\ Running /\ at[t] = "idle" /\ Len(frames) < MaxFrames
  /\ frames' = Append(frames, f)
  /\ cur' = [cur EXCEPT ![t] = Len(frames) + 1]
  /\ Goto(t, "header")

\* sr_ether_addrs_match_interface: write, or return -1.  A frame that was
\* received is not sent.
AfterLog(t) == IF frames[cur[t]].match THEN "write" ELSE "idle"

\* The thread that calls is in its handler, or inside of its sweep.
MaySend(t) == IF t = "main" THEN main = "handle" ELSE lock

\* Mutant of Send: total_len counts the ethernet header of the frame again, as
\* c_packet_ethernet_header would.
SendLong(c) ==
  /\ MaySend(c.by) /\ NewFrame(c.by, c)
  /\ total_len' = [total_len EXCEPT ![c.by] = HeadLen + 1 + c.len]
  /\ written' = [written EXCEPT ![c.by] = 0]
  /\ UNCHANGED <<stream, drained, waited, cut, dump, around>>

\* The call: the command is built.
Send(c) ==
  /\ MaySend(c.by) /\ NewFrame(c.by, c)
  /\ total_len' = [total_len EXCEPT ![c.by] = HeadLen + c.len]
  /\ written' = [written EXCEPT ![c.by] = 0]
  /\ UNCHANGED <<stream, drained, waited, cut, dump, around>>

\* Mutant of LogHeader: without the dump.
LogHeaderSkipped(t) ==
  /\ Running /\ at[t] = "header"
  /\ Goto(t, AfterLog(t))
  /\ UNCHANGED <<frames, cur, socket, dump, around>>

\* sr_log_packet up to the first fwrite of sr_dump.
LogHeader(t) ==
  /\ Running /\ at[t] = "header"
  /\ \/ /\ logfile = "null"
        /\ Goto(t, AfterLog(t))
        /\ UNCHANGED <<log, fault>>
     \/ /\ logfile = "open"
        /\ log' = Append(log, <<cur[t], "header">>)
        /\ Goto(t, "body")
        /\ UNCHANGED fault
     \/ /\ logfile = "closed"
        /\ fault' = TRUE
        /\ UNCHANGED <<log, at>>
  /\ UNCHANGED <<frames, cur, socket, logfile, around>>

\* The second fwrite, and fflush.
LogBody(t) ==
  /\ Running /\ at[t] = "body"
  /\ \/ /\ logfile = "open"
        /\ log' = Append(log, <<cur[t], "body">>)
        /\ Goto(t, AfterLog(t))
        /\ UNCHANGED fault
     \/ /\ logfile = "closed"
        /\ fault' = TRUE
        /\ UNCHANGED <<log, at>>
  /\ UNCHANGED <<frames, cur, socket, logfile, around>>

\* The bytes i..j of a command.
Bytes(n, i, j) == [x \in 1..(j - i + 1) |-> <<n, i + x - 1>>]

Free == Space - (Len(stream) - drained)

\* The kernel has taken k more bytes of the command of t: all of the rest, and
\* write returns, or a part of it, and write goes on waiting.
Take(t, k) ==
  /\ k <= Free
  /\ stream' = stream \o Bytes(cur[t], written[t] + 1, written[t] + k)
  /\ written' = [written EXCEPT ![t] = @ + k]
  /\ IF written[t] + k = total_len[t]
     THEN Goto(t, "idle") /\ UNCHANGED waited
     ELSE waited' = waited \cup {cur[t]} /\ UNCHANGED at

\* Mutant of Write: waits until there is room for the whole command.
WriteWhole(t) ==
  /\ Running /\ at[t] = "write"
  /\ Take(t, total_len[t] - written[t])
  /\ UNCHANGED <<frames, cur, total_len, drained, cut, dump, around>>

\* Mutant of Write: the header and the frame are written by two calls, without
\* a copy into one buffer.
WriteInTwo(t) ==
  /\ Running /\ at[t] = "write"
  /\ LET k == IF written[t] = 0 THEN HeadLen ELSE total_len[t] - HeadLen IN
       /\ k <= Free
       /\ stream' = stream \o Bytes(cur[t], written[t] + 1, written[t] + k)
       /\ written' = [written EXCEPT ![t] = @ + k]
       /\ Goto(t, IF written[t] = 0 THEN "write" ELSE "idle")
  /\ UNCHANGED <<frames, cur, total_len, drained, waited, cut, dump, around>>

\* The kernel takes the next bytes of the command, as many as there is room
\* for or fewer; write returns with the last of them.
Write(t) ==
  /\ Running /\ at[t] = "write"
  /\ \E k \in 1..(total_len[t] - written[t]) : Take(t, k)
  /\ UNCHANGED <<frames, cur, total_len, drained, cut, dump, around>>

\* write returns less than total_len: the command is freed, and no caller looks
\* at the -1 that is returned.
WriteFails(t) ==
  /\ Running /\ at[t] = "write"
  /\ cut' = cut \cup {cur[t]}
  /\ Goto(t, "idle")
  /\ UNCHANGED <<frames, cur, total_len, written, stream, drained, waited, dump, around>>

SendPacket(t) == LogHeader(t) \/ LogBody(t) \/ Write(t)

-----------------------------------------------------------------------------
(* The threads around it, and the server. *)

\* VNSPACKET: the frame is logged before sr_handlepacket gets it.  An ARP
\* request for another host is dropped before that and changes nothing.
TakeFrame ==
  /\ main = "read" /\ NewFrame("main", Received)
  /\ main' = "handle" /\ locks' = 0
  /\ UNCHANGED <<socket, dump, lock>>

\* Main goes from one place to another.
Main(from, to) ==
  /\ Running /\ main = from /\ at["main"] = "idle"
  /\ main' = to
  /\ UNCHANGED <<frames, at, cur, socket, dump, lock>>

\* The handler calls sr_arpcache_lookup, _queuereq, _insert or sr_arpreq_destroy,
\* before or after it has sent something.
WantLock ==
  /\ locks < MaxLocks /\ Main("handle", "wait")
  /\ locks' = locks + 1

\* The critical section of such a call, in which nothing is sent.
Critical == ~lock /\ Main("wait", "handle") /\ UNCHANGED locks

\* sr_handlepacket returns.
HandlerReturns == Main("handle", "read") /\ UNCHANGED locks

\* sr_read_from_server returns something other than 1.
SessionEnds == Main("read", "destroy") /\ UNCHANGED locks

\* sr_destroy_instance closes the log; main's return ends the process later.
DestroyInstance ==
  /\ Running /\ main = "destroy" /\ logfile = "open"
  /\ logfile' = "closed"
  /\ UNCHANGED <<frames, at, cur, socket, log, fault, around>>

Exit == logfile # "open" /\ Main("destroy", "exit") /\ UNCHANGED locks

\* The timeout thread takes and returns the lock, and sends in between only.
SweepStarts ==
  /\ Running /\ ~lock /\ lock' = TRUE
  /\ UNCHANGED <<frames, at, cur, socket, dump, main, locks>>

SweepEnds ==
  /\ Running /\ lock /\ at["timeout"] = "idle" /\ lock' = FALSE
  /\ UNCHANGED <<frames, at, cur, socket, dump, main, locks>>

\* The server reads.
Drain ==
  /\ Running /\ drained < Len(stream)
  /\ drained' = Len(stream)
  /\ UNCHANGED <<frames, at, cur, total_len, written, stream, waited, cut, dump, around>>

Stopped == ~Running /\ UNCHANGED vars

Init ==
  /\ frames = <<>> /\ stream = <<>> /\ drained = 0 /\ log = <<>>
  /\ at = [t \in Thread |-> "idle"] /\ cur = [t \in Thread |-> 0]
  /\ total_len = [t \in Thread |-> 0] /\ written = [t \in Thread |-> 0]
  /\ waited = {} /\ cut = {} /\ logfile \in {"null", "open"}
  /\ lock = FALSE /\ main = "read" /\ locks = 0 /\ fault = FALSE

Next ==
  \/ \E c \in Calls : Send(c)
  \/ \E t \in Thread : SendPacket(t) \/ WriteFails(t)
  \/ TakeFrame \/ WantLock \/ Critical \/ HandlerReturns \/ SessionEnds
  \/ DestroyInstance \/ Exit \/ SweepStarts \/ SweepEnds \/ Drain \/ Stopped

Spec == Init /\ [][Next]_vars

\* The threads are scheduled, the server reads what is sent, and the lock, free
\* for a second between two sweeps, is not withheld from main for ever.
LiveSpec ==
  /\ Spec
  /\ \A t \in Thread : WF_vars(SendPacket(t))
  /\ SF_vars(Critical) /\ WF_vars(HandlerReturns)
  /\ WF_vars(SweepEnds) /\ WF_vars(Drain)

-----------------------------------------------------------------------------
(* Properties. *)

\* Nothing more of the command of byte i is to come, or its write was held up
\* or cut short.
MayEnd(i) ==
  \/ stream[i][2] = TotalLen(stream[i][1])
  \/ stream[i][1] \in waited \cup cut

\* Byte i is the first one of its command, or of one whose write was held up.
MayStart(i) == stream[i][2] = 1 \/ stream[i][1] \in waited

\* Between any two bytes of the one stream that both threads write without a
\* lock of its own (sr_vns_comm.c:601), the command goes on, or it is complete
\* and another one starts, unless the kernel had to hold up one of the two
\* writes, or a write was cut short: a server that reads commands off the
\* stream loses its place through a full send buffer or a failing write only.
TornForCause ==
  \A i \in DOMAIN stream :
    IF i = 1 THEN MayStart(i)
    ELSE \/ stream[i] = <<stream[i - 1][1], stream[i - 1][2] + 1>>
         \/ MayEnd(i - 1) /\ MayStart(i)

\* The file is a sequence of records, each a header and its own body
\* (sr_dumper.c:62-63), whichever of the two threads wrote them.
LogReadable ==
  \A i \in DOMAIN log :
    IF log[i][2] = "header"
    THEN i > 1 => log[i - 1][2] = "body"
    ELSE i > 1 /\ log[i - 1] = <<log[i][1], "header">>

\* A frame of which the server may see a byte is in the log with its header and
\* its body, when there is a log: it is written before the frame is sent, also
\* when the log is closed soon after.
LoggedBeforeSent ==
  logfile # "null" =>
    \A i \in DOMAIN stream : \A part \in {"header", "body"} :
      \E j \in DOMAIN log : log[j] = <<stream[i][1], part>>

\* Main comes back to its socket after every frame, although it waits, again
\* and again, for a lock that the timeout thread holds across a write that
\* blocks until the server reads: as long as the server reads without waiting
\* for the router, the two cannot stop each other.
MainComesBack == main \in {"handle", "wait"} ~> main = "read" \/ fault

-----------------------------------------------------------------------------
(* The invariant behind them. *)

\* A thread inside of sr_send_packet is at work on a frame of its own, of which
\* it has written nothing before it reaches write, and not all; what is begun
\* and not complete has been held up.
InCall(t) ==
  /\ cur[t] <= Len(frames)
  /\ at[t] # "idle" => cur[t] > 0
  /\ at[t] # "idle" /\ frames[cur[t]].match =>
       /\ total_len[t] = TotalLen(cur[t])
       /\ at[t] = "write" \/ written[t] = 0
  /\ at[t] = "write" => /\ frames[cur[t]].match
                        /\ written[t] < total_len[t]
                        /\ written[t] > 0 => cur[t] \in waited

\* The bytes on the stream end in a complete command, or in one that was held
\* up or cut short.
StreamEnds == Len(stream) > 0 => MayEnd(Len(stream))

\* The parts of the record of a thread's frame are in the log as far as the
\* thread has come.
Dumped(t) ==
  logfile # "null" =>
    /\ at[t] \in {"body", "write"} =>
         \E j \in DOMAIN log : log[j] = <<cur[t], "header">>
    /\ at[t] = "write" =>
         \E j \in DOMAIN log : log[j] = <<cur[t], "body">>

SendInv ==
  /\ TypeOK /\ StreamEnds /\ TornForCause /\ LoggedBeforeSent
  /\ \A t \in Thread : InCall(t) /\ Dumped(t)

=============================================================================
