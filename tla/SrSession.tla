----------------------------- MODULE SrSession -----------------------------
(***************************************************************************)
(* The life of the router process: main of sr_main.c and its session with  *)
(* the VNS server (sr_vns_comm.c), the routing table it loads (sr_rt.c)    *)
(* and the interface list the server gives it (sr_if.c).                   *)
(*                                                                         *)
(* The server writes commands to a byte stream; every recv or read of the  *)
(* client takes some of the bytes that are there.  The k-th byte of the    *)
(* n-th command is <<n, k>>.  EINTR only repeats a call and is left out.   *)
(***************************************************************************)
EXTENDS Naturals, Sequences, SequencesExt

CONSTANTS
  Name,         \* names of interfaces
  Value,        \* IP and hardware addresses the server may assign
  Unset,        \* a field of a malloc'ed interface nobody has written yet
  BadLine,      \* a line of a table that inet_aton refuses
  NoFile,       \* a file that cannot be read
  Message,      \* the commands the server may send
  LocalTables,  \* what the file "rtable" may hold
  HeadLen,      \* bytes of the length field (4 in the code)
  MaxBody,      \* longest command body accepted (10000 - 4 in the code)
  MaxMsgs,      \* bound on the commands sent in a behaviour
  MaxAhead      \* bound on the bytes sent and not read yet

FileName == {"rtable", "rtable.vrhost"}

Table == Seq(Name \cup {BadLine})

Interface == [name : Name, ip : Value \cup {Unset}, addr : Value \cup {Unset}]

Command == {"packet", "close", "banner", "hwinfo", "rtable", "auth_request",
            "auth_status", "unknown"}

ASSUME SizesAssumption ==
  HeadLen \in Nat \ {0} /\ MaxBody \in Nat /\ MaxMsgs \in Nat /\ MaxAhead \in Nat

ASSUME TablesAssumption == LocalTables \subseteq Table \cup {NoFile}

\* The entries of VNSHWINFO; "speed" stands for every key the client ignores.
HwEntry == [key : {"interface"}, val : Name]
           \cup [key : {"ethip", "ether", "speed"}, val : Value]

ASSUME MessageAssumption ==
  \A m \in Message :
    /\ m.cmd \in Command /\ m.body \in Nat
    /\ m.cmd = "rtable" => m.table \in Table
    /\ m.cmd = "hwinfo" => m.entries \in Seq(HwEntry)

VARIABLES
  opt,       \* the options -T (a template was named) and -r (file to load)
  sent,      \* the commands the server has sent
  wire,      \* the bytes sent and not read yet
  closed,    \* the server has closed the connection
  phase,     \* where main is
  status,    \* exit status, or "abort" after a failed assertion
  head,      \* bytes read into len
  body,      \* bytes read into buf
  done,      \* number of commands taken off the stream
  if_list,   \* sr->if_list
  rt,        \* sr->routing_table: the interface of every entry
  files,     \* contents of the table files
  inited,    \* sr_init has run
  handled    \* commands whose packet was passed to sr_handlepacket

vars == <<opt, sent, wire, closed, phase, status, head, body, done, if_list, rt,
          files, inited, handled>>

client == <<opt, phase, status, head, body, done, if_list, rt, files, inited,
            handled>>

Handshake == {"auth_request", "auth_status", "rtable"}

\* The phases in which main waits in sr_read_from_server_expect.
Reading == Handshake \cup {"serve"}

Phase == Reading \cup {"start", "connect", "open", "boot", "exit"}

\* Every variable holds a value of its kind.
TypeOK ==
  /\ opt \in [template : BOOLEAN, rtable : FileName]
  /\ sent \in Seq(Message) /\ closed \in BOOLEAN
  /\ wire \in Seq(Nat \X Nat) /\ head \in Seq(Nat \X Nat)
  /\ body \in Seq(Nat \X Nat) /\ done \in 0..Len(sent)
  /\ phase \in Phase /\ status \in {"running", "0", "1", "abort"}
  /\ if_list \in Seq(Interface) /\ rt \in Seq(Name)
  /\ files \in [FileName -> Table \cup {NoFile}]
  /\ inited \in BOOLEAN /\ handled \subseteq 1..Len(sent)

-----------------------------------------------------------------------------
(* The server. *)

Bytes(n, m) == [k \in 1..(HeadLen + m.body) |-> <<n, k>>]

\* Frames come from interfaces the server has announced.
Announced(n) ==
  \E i \in DOMAIN sent :
    sent[i].cmd = "hwinfo"
      /\ \E e \in Range(sent[i].entries) : e = [key |-> "interface", val |-> n]

\* The hardware is announced once, and frames come from it.
Polite(m) ==
  /\ m.cmd = "packet" => Announced(m.iface)
  /\ m.cmd = "hwinfo" => \A i \in DOMAIN sent : sent[i].cmd # "hwinfo"

ServerSend(m) ==
  /\ ~closed /\ phase \notin {"start", "connect", "exit"}
  /\ Len(sent) < MaxMsgs /\ Len(wire) < MaxAhead
  /\ Polite(m)
  /\ sent' = Append(sent, m)
  /\ wire' = wire \o Bytes(Len(sent) + 1, m)
  /\ UNCHANGED closed /\ UNCHANGED client

ServerClose ==
  /\ ~closed
  /\ closed' = TRUE
  /\ UNCHANGED <<sent, wire>> /\ UNCHANGED client

-----------------------------------------------------------------------------
(* Reading a command. *)

\* Mutant of Want: the second recv asks for the whole field again.
WantAll(got, len) == len

\* What is still missing of a field of which got was read.
Want(got, len) == len - Len(got)

\* The length the header gives for the command being read.
BodyLen == sent[head[1][1]].body

\* recv of the length field.
ReadHead ==
  /\ phase \in Reading /\ Len(head) < HeadLen /\ wire # <<>>
  /\ \E k \in 1..Len(wire) :
       /\ k <= Want(head, HeadLen)
       /\ head' = head \o SubSeq(wire, 1, k)
       /\ wire' = SubSeq(wire, k + 1, Len(wire))
  /\ UNCHANGED <<opt, sent, closed, phase, status, body, done, if_list, rt, files,
                 inited, handled>>

\* read of the rest of the command.
ReadBody ==
  /\ phase \in Reading /\ Len(head) >= HeadLen /\ BodyLen <= MaxBody
  /\ Len(body) < BodyLen /\ wire # <<>>
  /\ \E k \in 1..Len(wire) :
       /\ k <= Want(body, BodyLen)
       /\ body' = body \o SubSeq(wire, 1, k)
       /\ wire' = SubSeq(wire, k + 1, Len(wire))
  /\ UNCHANGED <<opt, sent, closed, phase, status, head, done, if_list, rt, files,
                 inited, handled>>

\* What main does with a return value other than 1: sr_connect_to_server fails
\* and main returns 1, or the loop of main ends and main returns 0.
Stop ==
  /\ phase' = "exit"
  /\ status' = IF phase = "serve" THEN "0" ELSE "1"

\* The length field is out of range.
TooLong ==
  /\ phase \in Reading /\ Len(head) >= HeadLen /\ BodyLen > MaxBody
  /\ Stop
  /\ UNCHANGED <<opt, sent, wire, closed, head, body, done, if_list, rt, files,
                 inited, handled>>

\* recv or read fails.
ReadFails ==
  /\ phase \in Reading
  /\ Len(head) >= HeadLen => Len(body) < BodyLen /\ BodyLen <= MaxBody
  /\ Stop
  /\ UNCHANGED <<opt, sent, wire, closed, head, body, done, if_list, rt, files,
                 inited, handled>>

-----------------------------------------------------------------------------
(* Carrying a command out: the switch of sr_read_from_server_expect. *)

\* A whole command m is in the buffer.
Ready(m) ==
  /\ phase \in Reading /\ Len(head) >= HeadLen /\ BodyLen <= MaxBody
  /\ Len(body) = BodyLen
  /\ m = sent[head[1][1]]

\* Mutant of Expected: whatever comes is carried out.
ExpectedAny(m) == TRUE

\* Nothing particular is expected, the command is, or it is VNSCLOSE.
Expected(m) == phase = "serve" \/ m.cmd \in {phase, "close"}

Taken == done' = done + 1 /\ head' = <<>> /\ body' = <<>>

\* The command returns 1: on to the next message of the handshake, or read on.
Continue ==
  /\ phase' = CASE phase = "auth_request" -> "auth_status"
                [] phase = "auth_status"  -> "open"
                [] phase = "rtable"       -> "boot"
                [] OTHER                  -> "serve"
  /\ UNCHANGED status

\* A command that was not expected, or VNSCLOSE.
Refuse ==
  /\ \E m \in Message : Ready(m) /\ (~Expected(m) \/ m.cmd = "close")
  /\ Taken /\ Stop
  /\ UNCHANGED <<opt, sent, wire, closed, if_list, rt, files, inited, handled>>

\* Mutant of HandleOther: an unknown command stays in the buffer.
HandleOtherKeeps ==
  /\ \E m \in Message :
       Ready(m) /\ Expected(m) /\ m.cmd \in {"banner", "unknown"}
  /\ UNCHANGED vars

\* VNSBANNER and commands the client does not know are only printed.
HandleOther ==
  /\ \E m \in Message :
       Ready(m) /\ Expected(m) /\ m.cmd \in {"banner", "unknown"}
  /\ Taken /\ Continue
  /\ UNCHANGED <<opt, sent, wire, closed, if_list, rt, files, inited, handled>>

\* sr_handle_auth_request: the answer is sent, or there is no key to answer
\* with or no way to send it.
HandleAuthRequest ==
  /\ \E m \in Message : Ready(m) /\ Expected(m) /\ m.cmd = "auth_request"
  /\ Taken /\ (Continue \/ Stop)
  /\ UNCHANGED <<opt, sent, wire, closed, if_list, rt, files, inited, handled>>

HandleAuthStatus ==
  /\ \E m \in Message :
       /\ Ready(m) /\ Expected(m) /\ m.cmd = "auth_status"
       /\ IF m.auth_ok THEN Continue ELSE Stop
  /\ Taken
  /\ UNCHANGED <<opt, sent, wire, closed, if_list, rt, files, inited, handled>>

\* sr_handle_rtable: the table is written to a file, or that fails.
HandleRtable ==
  /\ \E m \in Message :
       /\ Ready(m) /\ Expected(m) /\ m.cmd = "rtable"
       /\ \/ Continue /\ files' = [files EXCEPT !["rtable.vrhost"] = m.table]
          \/ Stop /\ UNCHANGED files
  /\ Taken
  /\ UNCHANGED <<opt, sent, wire, closed, if_list, rt, inited, handled>>

\* sr_get_interface finds an interface.
Known(n) == \E i \in DOMAIN if_list : if_list[i].name = n

-----------------------------------------------------------------------------
(* sr_handle_hwinfo. *)

\* Mutant of SetLast: the address goes to the head of the list.
SetLastFirst(list, field, val) == [list EXCEPT ![1][field] = val]

\* sr_set_ether_addr, sr_set_ether_ip: the last interface of the list.
SetLast(list, field, val) == [list EXCEPT ![Len(list)][field] = val]

\* One entry: a new interface at the end of the list, an address of the last
\* one, or something that is ignored.
ApplyEntry(list, e) ==
  CASE e.key = "interface" ->
         Append(list, [name |-> e.val, ip |-> Unset, addr |-> Unset])
    [] e.key = "ethip" -> SetLast(list, "ip", e.val)
    [] e.key = "ether" -> SetLast(list, "addr", e.val)
    [] OTHER -> list

\* The list after all entries: the loop of sr_handle_hwinfo.
Applied(list, entries) ==
  LET after[n \in 0..Len(entries)] ==
        IF n = 0 THEN list ELSE ApplyEntry(after[n - 1], entries[n])
  IN  after[Len(entries)]

\* An address comes before any interface: assert(sr->if_list) fails.
Orphan(list, entries) ==
  /\ list = <<>>
  /\ \E i \in DOMAIN entries :
       /\ entries[i].key \in {"ethip", "ether"}
       /\ \A j \in 1..(i - 1) : entries[j].key # "interface"

\* Mutant of Verified: the table is not compared with the interfaces.
VerifiedNonempty(list, table) == list # <<>> /\ table # <<>>

\* sr_verify_routing_table returns 0.
Verified(list, table) ==
  /\ list # <<>> /\ table # <<>>
  /\ \A i \in DOMAIN table : \E j \in DOMAIN list : list[j].name = table[i]

HandleHwinfo ==
  /\ \E m \in Message :
       /\ Ready(m) /\ Expected(m) /\ m.cmd = "hwinfo"
       /\ \/ /\ Orphan(if_list, m.entries)
             /\ phase' = "exit" /\ status' = "abort"
             /\ UNCHANGED if_list
          \/ /\ ~Orphan(if_list, m.entries)
             /\ if_list' = Applied(if_list, m.entries)
             /\ IF Verified(if_list', rt) THEN Continue ELSE Stop
  /\ Taken
  /\ UNCHANGED <<opt, sent, wire, closed, rt, files, inited, handled>>

\* VNSPACKET: sr_arp_req_not_for_us asserts the interface of a frame as long
\* as an ARP packet, and drops an ARP request for somebody else.
HandlePacket ==
  /\ \E m \in Message :
       /\ Ready(m) /\ Expected(m) /\ m.cmd = "packet"
       /\ IF m.long /\ ~Known(m.iface)
          THEN /\ phase' = "exit" /\ status' = "abort"
               /\ UNCHANGED handled
          ELSE /\ handled' = IF m.long /\ m.not_for_us THEN handled
                             ELSE handled \cup {done + 1}
               /\ Continue
  /\ Taken
  /\ UNCHANGED <<opt, sent, wire, closed, if_list, rt, files, inited>>

-----------------------------------------------------------------------------
(* main. *)

\* Mutant of Loadable: lines that do not convert are added too.
LoadableAny(f) == files[f] # NoFile

\* sr_load_rt: the first line clears the table, every line adds an entry; an
\* empty file leaves the table as it was.
Loadable(f) == files[f] # NoFile /\ \A i \in DOMAIN files[f] : files[f][i] # BadLine

Loaded(f) == IF files[f] = <<>> THEN rt ELSE files[f]

\* sr_load_rt_wrap exits when the table cannot be loaded.
LoadRt(f, next) ==
  IF Loadable(f)
  THEN rt' = Loaded(f) /\ phase' = next /\ UNCHANGED status
  ELSE phase' = "exit" /\ status' = "1" /\ UNCHANGED rt

\* Up to the connection: without a template the table is loaded first.
Start ==
  /\ phase = "start"
  /\ IF opt.template
     THEN phase' = "connect" /\ UNCHANGED <<rt, status>>
     ELSE LoadRt(opt.rtable, "connect")
  /\ UNCHANGED <<opt, sent, wire, closed, head, body, done, if_list, files, inited,
                 handled>>

\* The connection is made, or main gives up.
Connect ==
  /\ phase = "connect"
  /\ \/ phase' = "auth_request" /\ UNCHANGED status
     \/ phase' = "exit" /\ status' = "1"
  /\ UNCHANGED <<opt, sent, wire, closed, head, body, done, if_list, rt, files,
                 inited, handled>>

\* VNSOPEN or VNS_OPEN_TEMPLATE is sent, or cannot be.
SendOpen ==
  /\ phase = "open"
  /\ \/ phase' = (IF opt.template THEN "rtable" ELSE "boot") /\ UNCHANGED status
     \/ phase' = "exit" /\ status' = "1"
  /\ UNCHANGED <<opt, sent, wire, closed, head, body, done, if_list, rt, files,
                 inited, handled>>

\* The table is loaded (again), then sr_init starts the ARP cache.
Boot ==
  /\ phase = "boot"
  /\ LoadRt(opt.rtable, "serve")
  /\ inited' = Loadable(opt.rtable)
  /\ UNCHANGED <<opt, sent, wire, closed, head, body, done, if_list, files,
                 handled>>

Exited == phase = "exit" /\ UNCHANGED vars

\* recv returns 0 at the end of the stream, and is called again.
Spin ==
  /\ phase \in Reading /\ closed /\ wire = <<>>
  /\ Len(head) >= HeadLen => Len(body) < BodyLen /\ BodyLen <= MaxBody
  /\ UNCHANGED vars

Init ==
  /\ opt \in [template : BOOLEAN, rtable : FileName]
  /\ sent = <<>> /\ wire = <<>> /\ closed = FALSE
  /\ phase = "start" /\ status = "running"
  /\ head = <<>> /\ body = <<>> /\ done = 0
  /\ if_list = <<>> /\ rt = <<>>
  /\ \E t \in LocalTables :
       files = [f \in FileName |-> IF f = "rtable" THEN t ELSE NoFile]
  /\ inited = FALSE /\ handled = {}

ServerStep == ServerClose \/ \E m \in Message : ServerSend(m)

ClientStep ==
  \/ Start \/ Connect \/ SendOpen \/ Boot \/ ReadHead \/ ReadBody \/ TooLong
  \/ Refuse
  \/ HandleOther \/ HandleAuthRequest \/ HandleAuthStatus \/ HandleRtable
  \/ HandleHwinfo \/ HandlePacket

Next == ServerStep \/ ClientStep \/ ReadFails \/ Spin \/ Exited

Spec == Init /\ [][Next]_vars

\* The process is scheduled and a recv with bytes to take returns; neither the
\* server nor an error of the socket is owed.
LiveSpec == Spec /\ WF_vars(ClientStep)

-----------------------------------------------------------------------------
(* Properties. *)

\* However the bytes are split among recv and read, the command being read is
\* the next one the server sent, from its first byte on: nothing is skipped,
\* taken twice or left over (sr_vns_comm.c:351 to 411).
Framed ==
  /\ Len(head) <= HeadLen
  /\ \A i \in DOMAIN head : head[i] = <<done + 1, i>>
  /\ \A i \in DOMAIN body : body[i] = <<done + 1, HeadLen + i>>

\* sr_handlepacket runs only when sr_init has set up the ARP cache and its
\* lock: the handshake lets no VNSPACKET through.
HandledAfterInit == handled # {} => inited

\* When a frame is handled, every entry of the routing table names an interface
\* that exists, so that sr_get_interface(rtentry->interface) is not null in
\* sr_handlepacket and sr_arpcache_handle_arpreq.
RoutesUsable ==
  phase = "serve" /\ handled # {} =>
    \A i \in DOMAIN rt : Known(rt[i])

\* The entry j belongs to interface n: the last one named before it.
BelongsTo(entries, j, n) ==
  \E i \in 1..(j - 1) :
    /\ entries[i] = [key |-> "interface", val |-> n]
    /\ \A k \in (i + 1)..(j - 1) : entries[k].key # "interface"

\* An interface has only addresses that the server gave for it: sr_set_ether_ip
\* and sr_set_ether_addr hit the interface that was named last, whatever else
\* comes in between.
AddressesOwn ==
  \A i \in DOMAIN if_list :
    /\ if_list[i].ip # Unset =>
         \E n \in 1..done : sent[n].cmd = "hwinfo" /\
           \E j \in DOMAIN sent[n].entries :
             /\ sent[n].entries[j] = [key |-> "ethip", val |-> if_list[i].ip]
             /\ BelongsTo(sent[n].entries, j, if_list[i].name)
    /\ if_list[i].addr # Unset =>
         \E n \in 1..done : sent[n].cmd = "hwinfo" /\
           \E j \in DOMAIN sent[n].entries :
             /\ sent[n].entries[j] = [key |-> "ether", val |-> if_list[i].addr]
             /\ BelongsTo(sent[n].entries, j, if_list[i].name)

\* Every command that was sent is carried out in time, unless the session ends:
\* sr_read_from_server catches up with the server, which sends a bounded number
\* of them, even if the server is gone by then.
CommandsCarriedOut ==
  done < Len(sent) ~> done = Len(sent) \/ phase = "exit"

\* sr_connect_to_server returns, "0 on success, something other than zero on
\* error", also when the server goes away during the handshake.
ConnectReturns == closed ~> phase \notin Handshake

=============================================================================
