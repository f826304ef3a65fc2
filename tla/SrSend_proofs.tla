--------------------------- MODULE SrSend_proofs ---------------------------
(***************************************************************************)
(* The one stream of commands that the two threads of the router write is  *)
(* torn only where a write was held up or cut short, no byte beyond a      *)
(* command is sent, and every frame is logged before it is sent, for any   *)
(* frames, any number of them and any size of the send buffer.             *)
(*                                                                         *)
(* None of it is inductive: a byte may be appended because of where the    *)
(* thread is in sr_send_packet, and after whatever byte the other thread   *)
(* has put there.  SendInv of SrSend adds what a thread has written and    *)
(* logged at each place, and that the stream always ends in a command      *)
(* that is complete, held up or cut short.                                 *)
(***************************************************************************)
EXTENDS SrSend, SequenceTheorems, TLAPS

USE SizesAssumption

-----------------------------------------------------------------------------
(* What the variables hold. *)

\* A frame that has come up, and how long its command is.
LEMMA FrameFacts ==
  ASSUME TypeOK, NEW n \in 1..Len(frames)
  PROVE  /\ frames[n] \in Frame /\ frames[n].by \in Thread
         /\ frames[n].match \in BOOLEAN
         /\ frames[n].len \in Nat \ {0} /\ TotalLen(n) \in Nat \ {0, 1}
         /\ n \in 1..MaxFrames /\ Len(frames) \in Nat
  <1>1. frames[n] \in Frame /\ n \in 1..MaxFrames /\ Len(frames) \in Nat
    BY SMTT(30) DEF TypeOK
  <1>2. frames[n] \in [by : Thread, len : Nat \ {0}, match : BOOLEAN]
    <2>1. Received \in [by : Thread, len : Nat \ {0}, match : BOOLEAN]
      BY DEF Received, Thread
    <2>2. frames[n] \in Calls \/ frames[n] = Received
      BY <1>1 DEF Frame
    <2> QED  BY <2>1, <2>2
  <1> QED  BY <1>1, <1>2 DEF TotalLen

\* What TypeOK says of a thread and of the two sequences.
LEMMA TypeFacts ==
  ASSUME TypeOK
  PROVE  /\ \A t \in Thread : /\ at[t] \in {"idle", "header", "body", "write"}
                              /\ cur[t] \in 0..MaxFrames
                              /\ total_len[t] \in Nat /\ written[t] \in Nat
         /\ Len(frames) \in 0..MaxFrames /\ Len(stream) \in Nat /\ Len(log) \in Nat
         /\ DOMAIN stream = 1..Len(stream) /\ DOMAIN log = 1..Len(log)
         /\ \A i \in 1..Len(stream) :
              /\ stream[i][1] \in 1..Len(frames) /\ stream[i][2] \in Nat \ {0}
              /\ stream[i][2] <= TotalLen(stream[i][1])
              /\ stream[i] = <<stream[i][1], stream[i][2]>>
  <1>1. \A i \in 1..Len(stream) : stream[i] \in (1..MaxFrames) \X (Nat \ {0})
    BY DEF TypeOK
  <1>2. /\ Len(frames) \in 0..MaxFrames /\ Len(stream) \in Nat /\ Len(log) \in Nat
        /\ DOMAIN stream = 1..Len(stream) /\ DOMAIN log = 1..Len(log)
    BY DEF TypeOK
  <1>3. \A i \in 1..Len(stream) : /\ stream[i][1] <= Len(frames)
                                  /\ stream[i][2] <= TotalLen(stream[i][1])
    BY <1>2 DEF TypeOK
  <1>4. \A i \in 1..Len(stream) : stream[i][1] \in 1..Len(frames)
    BY <1>1, <1>2, <1>3
  <1>5. \A t \in Thread : /\ at[t] \in {"idle", "header", "body", "write"}
                          /\ cur[t] \in 0..MaxFrames
                          /\ total_len[t] \in Nat /\ written[t] \in Nat
    BY DEF TypeOK
  <1> QED  BY <1>1, <1>2, <1>3, <1>4, <1>5

-----------------------------------------------------------------------------
(* What stays as it is. *)

\* The frames that have come up stay as they are.
FramesStay ==
  /\ Len(frames) <= Len(frames')
  /\ \A n \in 1..Len(frames) : frames'[n] = frames[n]

\* What is in the log stays there.
LogStays ==
  /\ Len(log) <= Len(log')
  /\ \A i \in 1..Len(log) : log'[i] = log[i]
  /\ logfile' # "null" => logfile # "null"

\* What was held up or cut short stays so.
HeldUpStays == waited \subseteq waited' /\ cut \subseteq cut'

\* A byte on the stream keeps the length of its command.
LEMMA LengthStays ==
  ASSUME TypeOK, FramesStay, NEW i \in 1..Len(stream), stream'[i] = stream[i]
  PROVE  TotalLen(stream[i][1])' = TotalLen(stream[i][1])
  <1>1. stream[i][1] \in 1..Len(frames)
    BY TypeFacts
  <1>2. frames'[stream[i][1]] = frames[stream[i][1]]
    BY <1>1 DEF FramesStay
  <1> QED  BY <1>2 DEF TotalLen

\* Where a command may end and start, another one may do so later.
LEMMA SeamStays ==
  ASSUME TypeOK, FramesStay, HeldUpStays, NEW i \in 1..Len(stream),
         stream'[i] = stream[i]
  PROVE  /\ MayEnd(i) => MayEnd(i)'
         /\ MayStart(i) => MayStart(i)'
  <1>1. TotalLen(stream[i][1])' = TotalLen(stream[i][1])
    BY LengthStays
  <1> QED  BY <1>1 DEF MayEnd, MayStart, HeldUpStays

\* TornForCause, of the byte at position i.
SeamAt(i) ==
  IF i = 1 THEN MayStart(i)
  ELSE \/ stream[i] = <<stream[i - 1][1], stream[i - 1][2] + 1>>
       \/ MayEnd(i - 1) /\ MayStart(i)

\* The bytes that are on the stream stay in order.
LEMMA TornStays ==
  ASSUME TypeOK, FramesStay, HeldUpStays, TornForCause,
         \A i \in 1..Len(stream) : stream'[i] = stream[i],
         NEW i \in 1..Len(stream)
  PROVE  SeamAt(i)'
  <1>1. SeamAt(i) /\ Len(stream) \in Nat
    BY TypeFacts DEF TornForCause, SeamAt
  <1>2. CASE i = 1
    BY <1>1, <1>2, SeamStays DEF SeamAt
  <1>3. CASE i # 1
    <2>1. PICK h \in 1..Len(stream) : h = i - 1
      BY <1>1, <1>3
    <2>2. stream'[h] = stream[h] /\ stream'[i] = stream[i]
      OBVIOUS
    <2>3. /\ MayEnd(h) => MayEnd(h)'
          /\ MayStart(i) => MayStart(i)'
      BY <2>2, SeamStays
    <2>4. stream[i] = <<stream[h][1], stream[h][2] + 1>> \/ (MayEnd(h) /\ MayStart(i))
      BY <1>1, <1>3, <2>1 DEF SeamAt, MayEnd, MayStart
    <2>5. stream'[i] = <<stream'[h][1], stream'[h][2] + 1>> \/ (MayEnd(h)' /\ MayStart(i)')
      BY <2>2, <2>3, <2>4
    <2> QED  BY <1>3, <2>1, <2>5 DEF SeamAt, MayEnd, MayStart
  <1> QED  BY <1>2, <1>3

\* While nothing is written to the socket, what is said of the stream stays
\* true.
LEMMA StreamStays ==
  ASSUME SendInv, TypeOK', FramesStay, HeldUpStays, LogStays, stream' = stream
  PROVE  TornForCause' /\ StreamEnds' /\ LoggedBeforeSent'
  <1>1. /\ TypeOK /\ TornForCause /\ StreamEnds /\ LoggedBeforeSent
        /\ Len(stream) \in Nat /\ DOMAIN stream = 1..Len(stream)
        /\ DOMAIN log = 1..Len(log) /\ Len(log) \in Nat
    BY TypeFacts DEF SendInv
  <1>2. \A i \in 1..Len(stream) : SeamAt(i)'
    BY <1>1, TornStays
  <1>3. TornForCause'
    BY <1>1, <1>2 DEF TornForCause, SeamAt
  <1>4. StreamEnds'
    <2>1. CASE Len(stream) = 0
      BY <2>1 DEF StreamEnds
    <2>2. CASE Len(stream) # 0
      <3>1. PICK z \in Nat : z = Len(stream)
        BY <1>1
      <3>2. z \in 1..Len(stream)
        BY <2>2, <3>1
      <3>3. MayEnd(z)
        BY <1>1, <2>2, <3>1 DEF StreamEnds, MayEnd
      <3>4. MayEnd(z)'
        BY <1>1, <3>2, <3>3, SeamStays
      <3> QED  BY <3>1, <3>4 DEF StreamEnds, MayEnd
    <2> QED  BY <2>1, <2>2
  <1>5. DOMAIN log' = 1..Len(log') /\ Len(log') \in Nat
    BY DEF TypeOK
  <1>6. LoggedBeforeSent'
    <2> SUFFICES ASSUME logfile' # "null", NEW i \in DOMAIN stream,
                        NEW part \in {"header", "body"}
                 PROVE  \E j \in DOMAIN log' : log'[j] = <<stream[i][1], part>>
      BY DEF LoggedBeforeSent
    <2>1. PICK j \in DOMAIN log : log[j] = <<stream[i][1], part>>
      BY <1>1 DEF LoggedBeforeSent, LogStays
    <2>2. j \in 1..Len(log') /\ log'[j] = log[j]
      BY <1>1, <1>5, <2>1 DEF LogStays
    <2> QED  BY <1>5, <2>1, <2>2
  <1> QED  BY <1>3, <1>4, <1>6

\* A thread that does nothing, or returns from sr_send_packet, is where SendInv
\* wants it.
LEMMA ThreadStays ==
  ASSUME SendInv, TypeOK', FramesStay, HeldUpStays, LogStays, NEW u \in Thread,
         at'[u] = at[u] \/ at'[u] = "idle", cur'[u] = cur[u],
         total_len'[u] = total_len[u], written'[u] = written[u]
  PROVE  InCall(u)' /\ Dumped(u)'
  <1>1. /\ TypeOK /\ InCall(u) /\ Dumped(u) /\ cur[u] \in 0..MaxFrames
        /\ Len(frames) \in Nat
        /\ DOMAIN log = 1..Len(log) /\ Len(log) \in Nat
    BY TypeFacts DEF SendInv
  <1>2. cur'[u] <= Len(frames')
    <2>1. Len(frames') \in Nat
      BY DEF TypeOK
    <2> QED  BY <1>1, <2>1 DEF InCall, FramesStay
  <1>3. DOMAIN log' = 1..Len(log') /\ Len(log') \in Nat
    BY DEF TypeOK
  <1>4. CASE at'[u] = "idle"
    BY <1>2, <1>4 DEF InCall, Dumped
  <1>5. CASE at'[u] = at[u] /\ at[u] # "idle"
    <2>1. cur[u] \in 1..Len(frames)
      BY <1>1, <1>5 DEF InCall
    <2>2. frames'[cur[u]] = frames[cur[u]]
      BY <2>1 DEF FramesStay
    <2>3. TotalLen(cur[u])' = TotalLen(cur[u])
      BY <2>2 DEF TotalLen
    <2>4. InCall(u)'
      BY <1>1, <1>2, <1>5, <2>2, <2>3 DEF InCall, HeldUpStays
    <2>5. \A part \in {"header", "body"} :
            (\E j \in DOMAIN log : log[j] = <<cur[u], part>>)
              => \E j \in DOMAIN log' : log'[j] = <<cur[u], part>>
      BY <1>1, <1>3 DEF LogStays
    <2>6. Dumped(u)'
      BY <1>1, <1>5, <2>5 DEF Dumped, LogStays
    <2> QED  BY <2>4, <2>6
  <1> QED  BY <1>4, <1>5
-----------------------------------------------------------------------------
(* A frame comes up. *)

\* What is on the stream are bytes of their commands as long as nothing is
\* written.
LEMMA BytesStay ==
  ASSUME TypeOK, FramesStay, stream' = stream, Len(frames') \in Nat
  PROVE  \A i \in DOMAIN stream' : /\ stream'[i][1] <= Len(frames')
                                   /\ stream'[i][2] <= TotalLen(stream[i][1])'
  <1> SUFFICES ASSUME NEW i \in 1..Len(stream)
               PROVE  /\ stream[i][1] <= Len(frames')
                      /\ stream[i][2] <= TotalLen(stream[i][1])'
    BY TypeFacts
  <1>1. TotalLen(stream[i][1])' = TotalLen(stream[i][1])
    BY LengthStays
  <1>2. stream[i][1] \in 1..Len(frames) /\ stream[i][2] <= TotalLen(stream[i][1])
    BY TypeFacts
  <1>3. stream[i][1] <= Len(frames')
    BY <1>2, TypeFacts DEF FramesStay
  <1> QED  BY <1>1, <1>2, <1>3

\* A frame that is received or sent is the last one and the one of its thread.
LEMMA NewFrameDoes ==
  ASSUME TypeOK, NEW t \in Thread, NEW f \in Frame, NewFrame(t, f)
  PROVE  /\ FramesStay /\ frames' \in Seq(Frame)
         /\ Len(frames) \in Nat /\ Len(frames') = Len(frames) + 1
         /\ Len(frames') <= MaxFrames /\ frames'[Len(frames) + 1] = f
         /\ cur' \in [Thread -> 0..MaxFrames]
         /\ at' \in [Thread -> {"idle", "header", "body", "write"}]
         /\ cur'[t] = Len(frames) + 1 /\ at'[t] = "header"
         /\ \A u \in Thread \ {t} : cur'[u] = cur[u] /\ at'[u] = at[u]
  <1>1. /\ frames \in Seq(Frame) /\ Len(frames) \in Nat /\ Len(frames) < MaxFrames
        /\ frames' = Append(frames, f)
    BY DEF TypeOK, NewFrame
  <1>2. /\ frames' \in Seq(Frame) /\ Len(frames') = Len(frames) + 1
        /\ frames'[Len(frames) + 1] = f
        /\ \A n \in 1..Len(frames) : frames'[n] = frames[n]
    BY <1>1
  <1>3. FramesStay
    BY <1>1, <1>2 DEF FramesStay
  <1>4. Len(frames') <= MaxFrames /\ Len(frames) + 1 \in 0..MaxFrames
    BY <1>1, <1>2
  <1>5. cur \in [Thread -> 0..MaxFrames] /\ cur' = [cur EXCEPT ![t] = Len(frames) + 1]
    BY DEF TypeOK, NewFrame
  <1>6. /\ at \in [Thread -> {"idle", "header", "body", "write"}]
        /\ at' = [at EXCEPT ![t] = "header"]
    BY DEF TypeOK, NewFrame, Goto
  <1>7. /\ cur' \in [Thread -> 0..MaxFrames] /\ cur'[t] = Len(frames) + 1
        /\ \A u \in Thread \ {t} : cur'[u] = cur[u]
    BY <1>4, <1>5
  <1>8. /\ at' \in [Thread -> {"idle", "header", "body", "write"}]
        /\ at'[t] = "header" /\ \A u \in Thread \ {t} : at'[u] = at[u]
    BY <1>6
  <1> QED  BY <1>1, <1>2, <1>3, <1>4, <1>7, <1>8

\* The invariant after a frame has come up in thread t, whose command, if it
\* is to be sent, has its length.
LEMMA NewFrameKeeps ==
  ASSUME SendInv, TypeOK', NEW t \in Thread, NEW f \in Frame, NewFrame(t, f),
         UNCHANGED <<stream, waited, cut, log, logfile>>,
         f.match => total_len'[t] = HeadLen + f.len /\ written'[t] = 0,
         \A u \in Thread \ {t} : total_len'[u] = total_len[u] /\ written'[u] = written[u]
  PROVE  SendInv'
  <1>1. TypeOK
    BY DEF SendInv
  <1>2. /\ FramesStay /\ Len(frames) \in Nat /\ Len(frames') = Len(frames) + 1
        /\ frames'[Len(frames) + 1] = f
        /\ cur'[t] = Len(frames) + 1 /\ at'[t] = "header"
        /\ \A u \in Thread \ {t} : cur'[u] = cur[u] /\ at'[u] = at[u]
    BY <1>1, NewFrameDoes
  <1>3. HeldUpStays /\ LogStays
    BY <1>1, TypeFacts DEF HeldUpStays, LogStays
  <1>4. TornForCause' /\ StreamEnds' /\ LoggedBeforeSent'
    BY <1>2, <1>3, StreamStays
  <1>5. \A u \in Thread \ {t} : InCall(u)' /\ Dumped(u)'
    BY <1>2, <1>3, ThreadStays
  <1>6. frames'[cur'[t]] = f /\ TotalLen(cur[t])' = HeadLen + f.len
    BY <1>2 DEF TotalLen
  <1>7. InCall(t)'
    BY <1>2, <1>6 DEF InCall
  <1>8. Dumped(t)'
    BY <1>2 DEF Dumped
  <1> QED  BY <1>4, <1>5, <1>7, <1>8 DEF SendInv

\* sr_send_packet is called.
LEMMA SendKeeps ==
  ASSUME SendInv, NEW c \in Calls, Send(c)
  PROVE  SendInv'
  <1>1. c \in [by : Thread, len : Nat \ {0}, match : BOOLEAN]
    OBVIOUS
  <1>2. c.by \in Thread /\ HeadLen + c.len \in Nat /\ c \in Frame
    BY <1>1 DEF Frame
  <1>3. TypeOK
    BY DEF SendInv
  <1>4. NewFrame(c.by, c)
    BY DEF Send
  <1>5. /\ FramesStay /\ frames' \in Seq(Frame) /\ Len(frames') \in Nat
        /\ Len(frames') <= MaxFrames /\ cur' \in [Thread -> 0..MaxFrames]
        /\ at' \in [Thread -> {"idle", "header", "body", "write"}]
    BY <1>2, <1>3, <1>4, NewFrameDoes
  <1>6. /\ UNCHANGED <<stream, drained, waited, cut, log, logfile, fault, lock, main, locks>>
        /\ total_len' = [total_len EXCEPT ![c.by] = HeadLen + c.len]
        /\ written' = [written EXCEPT ![c.by] = 0]
    BY DEF Send, dump, around
  <1>7. total_len \in [Thread -> Nat] /\ written \in [Thread -> Nat]
    BY <1>3 DEF TypeOK
  <1>8. /\ total_len' \in [Thread -> Nat] /\ written' \in [Thread -> Nat]
        /\ total_len'[c.by] = HeadLen + c.len /\ written'[c.by] = 0
        /\ \A u \in Thread \ {c.by} : total_len'[u] = total_len[u] /\ written'[u] = written[u]
    BY <1>2, <1>6, <1>7
  <1>9. TypeOK'
    <2>1. \A i \in DOMAIN stream' : /\ stream'[i][1] <= Len(frames')
                                    /\ stream'[i][2] <= TotalLen(stream[i][1])'
      BY <1>3, <1>5, <1>6, BytesStay
    <2> QED  BY <1>3, <1>5, <1>6, <1>8, <2>1 DEF TypeOK
  <1> QED  BY <1>2, <1>4, <1>6, <1>8, <1>9, NewFrameKeeps

\* A frame is taken off the socket.
LEMMA TakeFrameKeeps ==
  ASSUME SendInv, TakeFrame
  PROVE  SendInv'
  <1>1. TypeOK /\ "main" \in Thread /\ Received \in Frame /\ ~Received.match
    BY DEF SendInv, Thread, Frame, Received
  <1>2. NewFrame("main", Received)
    BY DEF TakeFrame
  <1>3. /\ FramesStay /\ frames' \in Seq(Frame) /\ Len(frames') \in Nat
        /\ Len(frames') <= MaxFrames /\ cur' \in [Thread -> 0..MaxFrames]
        /\ at' \in [Thread -> {"idle", "header", "body", "write"}]
    BY <1>1, <1>2, NewFrameDoes
  <1>4. /\ UNCHANGED <<total_len, written, stream, drained, waited, cut, log, logfile,
                       fault, lock>>
        /\ main' = "handle" /\ locks' = 0
    BY DEF TakeFrame, socket, dump
  <1>5. TypeOK'
    <2>1. \A i \in DOMAIN stream' : /\ stream'[i][1] <= Len(frames')
                                    /\ stream'[i][2] <= TotalLen(stream[i][1])'
      BY <1>1, <1>3, <1>4, BytesStay
    <2> QED  BY <1>1, <1>3, <1>4, <2>1 DEF TypeOK
  <1> QED  BY <1>1, <1>2, <1>4, <1>5, NewFrameKeeps
-----------------------------------------------------------------------------
(* Logging. *)

\* A part of the record of thread t's frame is appended to the log.
LEMMA LogGrows ==
  ASSUME TypeOK, NEW t \in Thread, NEW part \in {"header", "body"}, cur[t] > 0,
         log' = Append(log, <<cur[t], part>>), logfile' = logfile, logfile = "open"
  PROVE  /\ log' \in Seq((1..MaxFrames) \X {"header", "body"}) /\ LogStays
         /\ \E j \in DOMAIN log' : log'[j] = <<cur[t], part>>
  <1>1. cur[t] \in 1..MaxFrames
    BY TypeFacts
  <1>2. <<cur[t], part>> \in (1..MaxFrames) \X {"header", "body"}
    BY <1>1
  <1>3. log \in Seq((1..MaxFrames) \X {"header", "body"}) /\ Len(log) \in Nat
    BY DEF TypeOK
  <1>4. log' \in Seq((1..MaxFrames) \X {"header", "body"})
    BY <1>2, <1>3
  <1>5. /\ Len(log') = Len(log) + 1 /\ log'[Len(log) + 1] = <<cur[t], part>>
        /\ \A i \in 1..Len(log) : log'[i] = log[i]
    BY <1>2, <1>3
  <1>6. LogStays
    BY <1>3, <1>5 DEF LogStays
  <1>7. Len(log) + 1 \in DOMAIN log'
    BY <1>3, <1>4, <1>5
  <1> QED  BY <1>4, <1>5, <1>6, <1>7

\* A thread goes on in sr_log_packet, or leaves it for write or its end.
LEMMA LogMoves ==
  ASSUME SendInv, TypeOK', NEW t \in Thread, at[t] \in {"header", "body"}, LogStays,
         UNCHANGED <<frames, cur, total_len, written, stream, waited, cut>>,
         \A u \in Thread \ {t} : at'[u] = at[u],
         at'[t] = "write" => frames[cur[t]].match,
         Dumped(t)'
  PROVE  SendInv'
  <1>1. TypeOK /\ InCall(t)
    BY DEF SendInv
  <1>2. FramesStay /\ HeldUpStays
    BY <1>1, TypeFacts DEF FramesStay, HeldUpStays
  <1>3. TornForCause' /\ StreamEnds' /\ LoggedBeforeSent'
    BY <1>2, StreamStays
  <1>4. \A u \in Thread \ {t} : InCall(u)' /\ Dumped(u)'
    BY <1>2, ThreadStays
  <1>5. cur[t] \in 1..Len(frames)
    BY <1>1, TypeFacts DEF InCall
  <1>6. TotalLen(cur[t])' = TotalLen(cur[t]) /\ TotalLen(cur[t]) \in Nat \ {0}
    BY <1>1, <1>5, FrameFacts DEF TotalLen
  <1>7. frames[cur[t]].match => total_len[t] = TotalLen(cur[t]) /\ written[t] = 0
    BY <1>1 DEF InCall
  <1>8. InCall(t)'
    BY <1>1, <1>6, <1>7 DEF InCall
  <1> QED  BY <1>3, <1>4, <1>8 DEF SendInv

\* The first fwrite, or none.
LEMMA LogHeaderKeeps ==
  ASSUME SendInv, NEW t \in Thread, LogHeader(t)
  PROVE  SendInv'
  <1>1. TypeOK /\ InCall(t) /\ at[t] = "header" /\ cur[t] > 0 /\ Len(log) \in Nat
    BY TypeFacts DEF SendInv, InCall, LogHeader
  <1>2. /\ UNCHANGED <<frames, cur, total_len, written, stream, drained, waited, cut,
                       logfile, lock, main, locks>>
        /\ at \in [Thread -> {"idle", "header", "body", "write"}]
    BY <1>1 DEF LogHeader, socket, around, TypeOK
  <1>3. CASE logfile = "null"
    <2>1. at' = [at EXCEPT ![t] = AfterLog(t)] /\ UNCHANGED <<log, fault>>
      BY <1>3 DEF LogHeader, Goto
    <2>2. /\ at' \in [Thread -> {"idle", "header", "body", "write"}]
          /\ at'[t] = "write" => frames[cur[t]].match
          /\ \A u \in Thread \ {t} : at'[u] = at[u]
      BY <1>2, <2>1 DEF AfterLog
    <2>3. TypeOK'
      BY <1>1, <1>2, <2>1, <2>2 DEF TypeOK, TotalLen
    <2>4. LogStays /\ Dumped(t)'
      BY <1>1, <1>2, <1>3, <2>1 DEF LogStays, Dumped
    <2> QED  BY <1>1, <1>2, <2>2, <2>3, <2>4, LogMoves
  <1>4. CASE logfile = "open"
    <2>1. /\ at' = [at EXCEPT ![t] = "body"] /\ fault' = fault
          /\ log' = Append(log, <<cur[t], "header">>)
      BY <1>4 DEF LogHeader, Goto
    <2>2. /\ at' \in [Thread -> {"idle", "header", "body", "write"}]
          /\ at'[t] = "body"
          /\ \A u \in Thread \ {t} : at'[u] = at[u]
      BY <1>2, <2>1
    <2>3. /\ log' \in Seq((1..MaxFrames) \X {"header", "body"}) /\ LogStays
          /\ \E j \in DOMAIN log' : log'[j] = <<cur[t], "header">>
      BY <1>1, <1>2, <1>4, <2>1, LogGrows
    <2>4. TypeOK'
      BY <1>1, <1>2, <2>1, <2>2, <2>3 DEF TypeOK, TotalLen
    <2>5. Dumped(t)'
      BY <1>2, <2>2, <2>3 DEF Dumped
    <2> QED  BY <1>1, <1>2, <2>2, <2>3, <2>4, <2>5, LogMoves
  <1>5. CASE logfile = "closed"
    <2>1. UNCHANGED <<log, at>> /\ fault' = TRUE
      BY <1>5 DEF LogHeader
    <2>2. TypeOK'
      BY <1>1, <1>2, <2>1 DEF TypeOK, TotalLen
    <2>3. LogStays /\ Dumped(t)'
      BY <1>1, <1>2, <2>1 DEF LogStays, Dumped
    <2> QED  BY <1>1, <1>2, <2>1, <2>2, <2>3, LogMoves
  <1> QED  BY <1>3, <1>4, <1>5 DEF LogHeader

\* The second fwrite.
LEMMA LogBodyKeeps ==
  ASSUME SendInv, NEW t \in Thread, LogBody(t)
  PROVE  SendInv'
  <1>1. /\ TypeOK /\ InCall(t) /\ Dumped(t) /\ at[t] = "body" /\ cur[t] > 0
        /\ Len(log) \in Nat /\ DOMAIN log = 1..Len(log)
    BY TypeFacts DEF SendInv, InCall, LogBody
  <1>2. /\ UNCHANGED <<frames, cur, total_len, written, stream, drained, waited, cut,
                       logfile, lock, main, locks>>
        /\ at \in [Thread -> {"idle", "header", "body", "write"}]
    BY <1>1 DEF LogBody, socket, around, TypeOK
  <1>3. CASE logfile = "open"
    <2>1. /\ at' = [at EXCEPT ![t] = AfterLog(t)] /\ fault' = fault
          /\ log' = Append(log, <<cur[t], "body">>)
      BY <1>3 DEF LogBody, Goto
    <2>2. /\ at' \in [Thread -> {"idle", "header", "body", "write"}]
          /\ at'[t] = "write" => frames[cur[t]].match
          /\ \A u \in Thread \ {t} : at'[u] = at[u]
      BY <1>2, <2>1 DEF AfterLog
    <2>3. /\ log' \in Seq((1..MaxFrames) \X {"header", "body"}) /\ LogStays
          /\ \E j \in DOMAIN log' : log'[j] = <<cur[t], "body">>
      BY <1>1, <1>2, <1>3, <2>1, LogGrows
    <2>4. TypeOK'
      BY <1>1, <1>2, <2>1, <2>2, <2>3 DEF TypeOK, TotalLen
    <2>5. \E j \in DOMAIN log' : log'[j] = <<cur[t], "header">>
      <3>1. PICK j \in DOMAIN log : log[j] = <<cur[t], "header">>
        BY <1>1, <1>3 DEF Dumped
      <3>2. DOMAIN log' = 1..Len(log') /\ Len(log') \in Nat
        BY <2>3
      <3>3. j \in DOMAIN log' /\ log'[j] = log[j]
        BY <1>1, <2>3, <3>1, <3>2 DEF LogStays
      <3> QED  BY <3>1, <3>3
    <2>6. Dumped(t)'
      BY <1>2, <2>3, <2>5 DEF Dumped
    <2> QED  BY <1>1, <1>2, <2>2, <2>3, <2>4, <2>6, LogMoves
  <1>4. CASE logfile = "closed"
    <2>1. UNCHANGED <<log, at>> /\ fault' = TRUE
      BY <1>4 DEF LogBody
    <2>2. TypeOK'
      BY <1>1, <1>2, <2>1 DEF TypeOK, TotalLen
    <2>3. LogStays
      BY <1>1, <1>2, <2>1 DEF LogStays
    <2>4. \E j \in DOMAIN log' : log'[j] = <<cur'[t], "header">>
      BY <1>1, <1>2, <1>4, <2>1 DEF Dumped
    <2>5. Dumped(t)'
      BY <1>1, <2>1, <2>4 DEF Dumped
    <2> QED  BY <1>1, <1>2, <2>1, <2>2, <2>3, <2>5, LogMoves
  <1> QED  BY <1>3, <1>4 DEF LogBody
-----------------------------------------------------------------------------
(* Writing. *)

\* The bytes that one portion of write puts on the stream.
LEMMA Portion ==
  ASSUME TypeOK, NEW n \in 1..MaxFrames, NEW w \in Nat, NEW k \in Nat \ {0},
         stream' = stream \o Bytes(n, w + 1, w + k)
  PROVE  /\ stream' \in Seq((1..MaxFrames) \X (Nat \ {0}))
         /\ Len(stream) \in Nat /\ Len(stream') = Len(stream) + k
         /\ \A i \in 1..Len(stream) : stream'[i] = stream[i]
         /\ \A j \in (Len(stream) + 1)..(Len(stream) + k) :
              stream'[j] = <<n, w + (j - Len(stream))>>
  <1> DEFINE B == Bytes(n, w + 1, w + k)
             S == (1..MaxFrames) \X (Nat \ {0})
  <1>1. w + k - (w + 1) + 1 = k /\ \A x \in 1..k : w + 1 + x - 1 = w + x
    OBVIOUS
  <1>2. B = [x \in 1..k |-> <<n, w + 1 + x - 1>>]
    BY <1>1 DEF Bytes
  <1>3. \A x \in 1..k : <<n, w + 1 + x - 1>> \in S
    OBVIOUS
  <1>4. B \in [1..k -> S]
    BY <1>2, <1>3
  <1>5. B \in Seq(S) /\ Len(B) = k
    BY <1>4, <1>2
  <1>6. stream \in Seq(S)
    BY DEF TypeOK
  <1>7. \A x \in 1..k : B[x] = <<n, w + x>>
    BY <1>1, <1>2
  <1>8. stream' = stream \o B
    OBVIOUS
  <1> HIDE DEF B, S
  <1>9. /\ stream \o B \in Seq(S)
        /\ Len(stream \o B) = Len(stream) + Len(B)
        /\ \A i \in 1..(Len(stream) + Len(B)) :
             (stream \o B)[i] = IF i <= Len(stream) THEN stream[i]
                                ELSE B[i - Len(stream)]
    BY <1>5, <1>6, ConcatProperties
  <1>10. Len(stream) \in Nat
    BY <1>6
  <1>11. /\ stream' \in Seq(S) /\ Len(stream) \in Nat
         /\ Len(stream') = Len(stream) + k
         /\ \A i \in 1..(Len(stream) + k) :
              stream'[i] = IF i <= Len(stream) THEN stream[i]
                           ELSE B[i - Len(stream)]
    BY <1>5, <1>8, <1>9, <1>10
  <1>12. \A i \in 1..Len(stream) : stream'[i] = stream[i]
    BY <1>11
  <1>13. \A j \in (Len(stream) + 1)..(Len(stream) + k) :
           stream'[j] = <<n, w + (j - Len(stream))>>
    <2> TAKE j \in (Len(stream) + 1)..(Len(stream) + k)
    <2>1. /\ j \in 1..(Len(stream) + k) /\ ~(j <= Len(stream))
          /\ j - Len(stream) \in 1..k
      BY <1>10
    <2>2. stream'[j] = B[j - Len(stream)]
      BY <1>11, <2>1
    <2> QED  BY <1>7, <2>1, <2>2
  <1> QED  BY <1>11, <1>12, <1>13 DEF S

\* k bytes of frame n, of which w were on the stream of length L, are on it,
\* and the command of length T is complete or held up.
Wrote(n, w, k, L, T) ==
  /\ n \in 1..Len(frames) /\ T = TotalLen(n) /\ w + k <= T
  /\ w > 0 => n \in waited
  /\ w + k = T \/ n \in waited'
  /\ L = Len(stream) /\ Len(stream') = L + k
  /\ stream' \in Seq((1..MaxFrames) \X (Nat \ {0}))
  /\ \A i \in 1..L : stream'[i] = stream[i]
  /\ \A j \in (L + 1)..(L + k) : stream'[j] = <<n, w + (j - L)>>
  /\ waited \subseteq waited'

\* One portion of write: k more bytes of the command of t.
LEMMA WriteDoes ==
  ASSUME SendInv, NEW t \in Thread, Write(t)
  PROVE  \E k \in Nat \ {0} : \E w \in Nat : \E L \in Nat : \E T \in Nat :
           /\ Wrote(cur[t], w, k, L, T)
           /\ at[t] = "write" /\ w = written[t] /\ T = total_len[t]
           /\ frames[cur[t]].match
           /\ written' = [written EXCEPT ![t] = w + k]
           /\ IF w + k = T
              THEN at' = [at EXCEPT ![t] = "idle"] /\ waited' = waited
              ELSE at' = at /\ waited' = waited \cup {cur[t]}
           /\ UNCHANGED <<frames, cur, total_len, drained, cut, logfile, log, fault, lock,
                          main, locks>>
  <1>1. TypeOK /\ InCall(t) /\ at[t] = "write"
    BY DEF SendInv, Write
  <1>2. cur[t] \in 1..Len(frames) /\ Len(stream) \in Nat
    BY <1>1, TypeFacts DEF InCall
  <1>3. /\ written[t] \in Nat /\ total_len[t] \in Nat /\ written[t] < total_len[t]
        /\ total_len[t] = TotalLen(cur[t])
        /\ written[t] > 0 => cur[t] \in waited
        /\ frames[cur[t]].match
    BY <1>1, TypeFacts DEF InCall
  <1>4. PICK k \in 1..(total_len[t] - written[t]) : Take(t, k)
    BY DEF Write
  <1>5. k \in Nat \ {0} /\ written[t] + k <= total_len[t]
    BY <1>3, <1>4
  <1>6. PICK n \in 1..MaxFrames, w \in Nat : n = cur[t] /\ w = written[t]
    BY <1>1, <1>2, <1>3, FrameFacts
  <1>7. stream' = stream \o Bytes(n, w + 1, w + k)
    BY <1>4, <1>6 DEF Take
  <1>8. /\ stream' \in Seq((1..MaxFrames) \X (Nat \ {0}))
        /\ Len(stream') = Len(stream) + k
        /\ \A i \in 1..Len(stream) : stream'[i] = stream[i]
        /\ \A j \in (Len(stream) + 1)..(Len(stream) + k) :
             stream'[j] = <<n, w + (j - Len(stream))>>
    BY <1>1, <1>5, <1>7, Portion
  <1>9. /\ written' = [written EXCEPT ![t] = w + k]
        /\ IF w + k = total_len[t]
           THEN at' = [at EXCEPT ![t] = "idle"] /\ waited' = waited
           ELSE at' = at /\ waited' = waited \cup {cur[t]}
    BY <1>4, <1>6 DEF Take, Goto
  <1>10. waited \subseteq waited' /\ (w + k = total_len[t] \/ cur[t] \in waited')
    BY <1>9
  <1>11. UNCHANGED <<frames, cur, total_len, drained, cut, logfile, log, fault, lock,
                     main, locks>>
    BY DEF Write, dump, around
  <1>12. Wrote(cur[t], w, k, Len(stream), total_len[t])
    BY <1>2, <1>3, <1>5, <1>6, <1>8, <1>10 DEF Wrote
  <1> QED  BY <1>1, <1>2, <1>3, <1>5, <1>6, <1>9, <1>11, <1>12
\* What a portion puts on the stream are bytes of the command.
LEMMA WroteBytes ==
  ASSUME TypeOK, frames' = frames, NEW n, NEW w \in Nat, NEW k \in Nat \ {0},
         NEW L \in Nat, NEW T \in Nat, Wrote(n, w, k, L, T)
  PROVE  /\ DOMAIN stream' = 1..(L + k)
         /\ \A i \in DOMAIN stream' : /\ stream'[i][1] <= Len(frames')
                                      /\ stream'[i][2] <= TotalLen(stream[i][1])'
  <1>1. /\ n \in 1..Len(frames) /\ T = TotalLen(n) /\ w + k <= T
        /\ L = Len(stream) /\ Len(stream') = L + k
        /\ stream' \in Seq((1..MaxFrames) \X (Nat \ {0}))
        /\ \A i \in 1..L : stream'[i] = stream[i]
        /\ \A j \in (L + 1)..(L + k) : stream'[j] = <<n, w + (j - L)>>
    BY DEF Wrote
  <1>2. DOMAIN stream' = 1..(L + k)
    BY <1>1
  <1> SUFFICES ASSUME NEW i \in 1..(L + k)
               PROVE  /\ stream'[i][1] <= Len(frames')
                      /\ stream'[i][2] <= TotalLen(stream[i][1])'
    BY <1>2
  <1>3. CASE i \in 1..L
    <2>1. /\ stream'[i] = stream[i] /\ stream[i][1] \in 1..Len(frames)
          /\ stream[i][2] <= TotalLen(stream[i][1])
      BY <1>1, <1>3, TypeFacts
    <2>2. stream[i][1] <= Len(frames)
      BY <2>1, TypeFacts
    <2> QED  BY <2>1, <2>2 DEF TotalLen
  <1>4. CASE i \in (L + 1)..(L + k)
    <2>1. stream'[i][1] = n /\ stream'[i][2] = w + (i - L)
      <3>1. stream'[i] = <<n, w + (i - L)>>
        BY <1>1, <1>4
      <3> QED  BY <3>1
    <2>2. n <= Len(frames) /\ w + (i - L) <= T
      BY <1>1, <1>4, TypeFacts
    <2>3. TotalLen(stream[i][1])' = T
      BY <1>1, <2>1 DEF TotalLen
    <2> QED  BY <2>1, <2>2, <2>3
  <1> QED  BY <1>3, <1>4

\* The seam before the portion is in order: the stream ended in a command that
\* was complete, held up or cut short, and the portion starts a command or goes
\* on with one that was held up.
LEMMA WroteSeams ==
  ASSUME SendInv, FramesStay, HeldUpStays, NEW n, NEW w \in Nat, NEW k \in Nat \ {0},
         NEW L \in Nat, NEW T \in Nat, Wrote(n, w, k, L, T),
         DOMAIN stream' = 1..(L + k)
  PROVE  TornForCause'
  <1>1. /\ n \in 1..Len(frames) /\ (w > 0 => n \in waited')
        /\ L = Len(stream)
        /\ \A i \in 1..L : stream'[i] = stream[i]
        /\ \A j \in (L + 1)..(L + k) : stream'[j] = <<n, w + (j - L)>>
    BY DEF Wrote
  <1>2. TypeOK /\ TornForCause /\ StreamEnds
    BY DEF SendInv
  <1> SUFFICES ASSUME NEW i \in 1..(L + k)
               PROVE  SeamAt(i)'
    BY DEF TornForCause, SeamAt
  <1>3. CASE i \in 1..L
    BY <1>1, <1>2, <1>3, TornStays
  <1>4. CASE i = L + 1
    <2>1. stream'[i] = <<n, w + 1>>
      BY <1>1, <1>4
    <2>2. MayStart(i)'
      <3>1. CASE w = 0
        BY <2>1, <3>1 DEF MayStart
      <3>2. CASE w > 0
        BY <1>1, <2>1, <3>2 DEF MayStart
      <3> QED  BY <3>1, <3>2
    <2>3. CASE L = 0
      BY <1>4, <2>2, <2>3 DEF SeamAt
    <2>4. CASE L > 0
      <3>1. L \in 1..L /\ L = Len(stream) /\ i - 1 = L /\ i # 1
        BY <1>1, <1>4, <2>4
      <3>2. MayEnd(L)
        BY <1>2, <2>4, <3>1 DEF StreamEnds, MayEnd
      <3>3. MayEnd(L)'
        BY <1>1, <1>2, <3>1, <3>2, SeamStays
      <3> QED  BY <2>2, <3>1, <3>3 DEF SeamAt, MayEnd
    <2> QED  BY <2>3, <2>4
  <1>5. CASE i \in (L + 2)..(L + k)
    <2>1. PICK h \in (L + 1)..(L + k) : h = i - 1 /\ i \in (L + 1)..(L + k) /\ i # 1
      BY <1>5
    <2>2. stream'[h] = <<n, w + (h - L)>> /\ stream'[i] = <<n, w + (i - L)>>
      BY <1>1, <2>1
    <2>3. w + (i - L) = w + (h - L) + 1
      BY <2>1
    <2>4. stream'[i] = <<stream'[h][1], stream'[h][2] + 1>>
      BY <2>2, <2>3
    <2> QED  BY <2>1, <2>4 DEF SeamAt
  <1> QED  BY <1>3, <1>4, <1>5

\* The stream ends in a command that is complete or held up.
LEMMA WroteEnds ==
  ASSUME SendInv, frames' = frames, NEW n, NEW w \in Nat, NEW k \in Nat \ {0},
         NEW L \in Nat, NEW T \in Nat, Wrote(n, w, k, L, T)
  PROVE  StreamEnds'
  <1>1. /\ T = TotalLen(n) /\ (w + k = T \/ n \in waited')
        /\ Len(stream') = L + k /\ stream'[L + k] = <<n, w + k>>
    <2>1. L + k \in (L + 1)..(L + k) /\ w + ((L + k) - L) = w + k
      OBVIOUS
    <2> QED  BY <2>1 DEF Wrote
  <1>2. TotalLen(n)' = TotalLen(n)
    BY DEF TotalLen
  <1>3. /\ stream'[Len(stream')][1] = n /\ stream'[Len(stream')][2] = w + k
    BY <1>1
  <1>4. TotalLen(stream[Len(stream)][1])' = T
    BY <1>1, <1>2, <1>3 DEF TotalLen
  <1> QED  BY <1>1, <1>3, <1>4 DEF StreamEnds, MayEnd

\* A portion of a write keeps the invariant.
LEMMA WriteKeeps ==
  ASSUME SendInv, NEW t \in Thread, Write(t)
  PROVE  SendInv'
  <1>1. PICK k \in Nat \ {0} : \E w \in Nat : \E L \in Nat : \E T \in Nat :
           /\ Wrote(cur[t], w, k, L, T)
           /\ at[t] = "write" /\ w = written[t] /\ T = total_len[t]
           /\ frames[cur[t]].match
           /\ written' = [written EXCEPT ![t] = w + k]
           /\ IF w + k = T
              THEN at' = [at EXCEPT ![t] = "idle"] /\ waited' = waited
              ELSE at' = at /\ waited' = waited \cup {cur[t]}
           /\ UNCHANGED <<frames, cur, total_len, drained, cut, logfile, log, fault, lock,
                          main, locks>>
    BY WriteDoes
  <1>2. PICK w \in Nat, L \in Nat, T \in Nat :
           /\ Wrote(cur[t], w, k, L, T)
           /\ at[t] = "write" /\ w = written[t] /\ T = total_len[t]
           /\ frames[cur[t]].match
           /\ written' = [written EXCEPT ![t] = w + k]
           /\ IF w + k = T
              THEN at' = [at EXCEPT ![t] = "idle"] /\ waited' = waited
              ELSE at' = at /\ waited' = waited \cup {cur[t]}
           /\ UNCHANGED <<frames, cur, total_len, drained, cut, logfile, log, fault, lock,
                          main, locks>>
    BY <1>1
  <1>3. PICK n : n = cur[t]
    OBVIOUS
  <1>4. Wrote(n, w, k, L, T)
    BY <1>2, <1>3
  <1>5. /\ TypeOK /\ InCall(t) /\ Dumped(t) /\ LoggedBeforeSent
        /\ Len(frames) \in 0..MaxFrames /\ Len(log) \in Nat
        /\ DOMAIN stream = 1..Len(stream)
    BY TypeFacts DEF SendInv
  <1>6. /\ n \in 1..Len(frames) /\ T = TotalLen(n) /\ w + k <= T /\ L = Len(stream)
        /\ Len(stream') = L + k
        /\ stream' \in Seq((1..MaxFrames) \X (Nat \ {0}))
        /\ \A i \in 1..L : stream'[i] = stream[i]
        /\ \A j \in (L + 1)..(L + k) : stream'[j] = <<n, w + (j - L)>>
        /\ waited \subseteq waited'
    BY <1>4 DEF Wrote
  <1>7. FramesStay /\ LogStays /\ HeldUpStays
    BY <1>2, <1>5, <1>6 DEF FramesStay, LogStays, HeldUpStays
  <1>8. /\ DOMAIN stream' = 1..(L + k)
        /\ \A i \in DOMAIN stream' : /\ stream'[i][1] <= Len(frames')
                                     /\ stream'[i][2] <= TotalLen(stream[i][1])'
    BY <1>2, <1>4, <1>5, WroteBytes
  <1>9. /\ at' \in [Thread -> {"idle", "header", "body", "write"}]
        /\ waited' \subseteq 1..MaxFrames
        /\ written' \in [Thread -> Nat]
        /\ \A u \in Thread \ {t} : at'[u] = at[u] /\ written'[u] = written[u]
        /\ at'[t] = (IF w + k = T THEN "idle" ELSE "write") /\ written'[t] = w + k
    <2>1. /\ at \in [Thread -> {"idle", "header", "body", "write"}]
          /\ waited \subseteq 1..MaxFrames /\ written \in [Thread -> Nat]
      BY <1>5 DEF TypeOK
    <2>2. cur[t] \in 1..MaxFrames
      BY <1>3, <1>5, <1>6
    <2>3. waited' \subseteq 1..MaxFrames
      BY <1>2, <2>1, <2>2
    <2>4. CASE w + k = T
      BY <1>2, <2>1, <2>3, <2>4
    <2>5. CASE w + k # T
      BY <1>2, <2>1, <2>3, <2>5
    <2> QED  BY <2>4, <2>5
  <1>10. TypeOK'
    <2>1. drained' \in 0..Len(stream')
      <3>1. drained \in 0..L
        BY <1>5, <1>6 DEF TypeOK
      <3> QED  BY <1>2, <1>6, <3>1
    <2> QED  BY <1>2, <1>5, <1>6, <1>8, <1>9, <2>1 DEF TypeOK
  <1>11. TornForCause'
    BY <1>4, <1>7, <1>8, WroteSeams
  <1>12. StreamEnds'
    BY <1>2, <1>4, WroteEnds
  <1>13. \A u \in Thread \ {t} : InCall(u)' /\ Dumped(u)'
    BY <1>2, <1>7, <1>9, <1>10, ThreadStays
  <1>14. Dumped(t)'
    BY <1>2, <1>5, <1>9 DEF Dumped
  <1>15. InCall(t)'
    <2>1. TotalLen(cur[t])' = T /\ w + k <= T /\ w + k \in Nat
      <3>1. frames' = frames /\ cur' = cur
        BY <1>2
      <3>2. T = TotalLen(cur[t])
        BY <1>2, <1>5 DEF InCall
      <3>3. TotalLen(cur[t])' = TotalLen(cur[t])
        BY <3>1 DEF TotalLen
      <3>4. w + k <= T /\ w + k \in Nat
        BY <1>6
      <3> QED  BY <3>2, <3>3, <3>4
    <2>2. w + k # T => cur[t] \in waited'
      BY <1>2
    <2>3. cur'[t] <= Len(frames') /\ cur'[t] > 0
      BY <1>2, <1>3, <1>5, <1>6
    <2> QED  BY <1>2, <1>9, <2>1, <2>2, <2>3 DEF InCall
  <1>16. LoggedBeforeSent'
    <2> SUFFICES ASSUME logfile # "null", NEW i \in 1..(L + k),
                        NEW part \in {"header", "body"}
                 PROVE  \E j \in DOMAIN log : log[j] = <<stream'[i][1], part>>
      BY <1>2, <1>8 DEF LoggedBeforeSent
    <2>1. CASE i \in 1..L
      BY <1>5, <1>6, <2>1 DEF LoggedBeforeSent
    <2>2. CASE i \in (L + 1)..(L + k)
      <3>1. stream'[i][1] = cur[t]
        BY <1>3, <1>6, <2>2
      <3>2. \E j \in DOMAIN log : log[j] = <<cur[t], part>>
        BY <1>2, <1>5 DEF Dumped
      <3> QED  BY <3>1, <3>2
    <2> QED  BY <2>1, <2>2
  <1> QED  BY <1>10, <1>11, <1>12, <1>13, <1>14, <1>15, <1>16 DEF SendInv
\* A write that fails, after any number of bytes, keeps the invariant: the
\* frame is remembered as cut short.
LEMMA WriteFailsKeeps ==
  ASSUME SendInv, NEW t \in Thread, WriteFails(t)
  PROVE  SendInv'
  <1>1. TypeOK /\ InCall(t) /\ at[t] = "write"
    BY DEF SendInv, WriteFails
  <1>2. /\ UNCHANGED <<frames, cur, total_len, written, stream, drained, waited,
                       logfile, log, fault, lock, main, locks>>
        /\ cut' = cut \cup {cur[t]} /\ at' = [at EXCEPT ![t] = "idle"]
    BY DEF WriteFails, Goto, dump, around
  <1>3. cur[t] \in 1..MaxFrames
    BY <1>1, TypeFacts DEF InCall
  <1>4. /\ at' \in [Thread -> {"idle", "header", "body", "write"}]
        /\ cut' \subseteq 1..MaxFrames
        /\ \A u \in Thread : at'[u] = at[u] \/ at'[u] = "idle"
    BY <1>1, <1>2, <1>3 DEF TypeOK
  <1>5. TypeOK'
    BY <1>1, <1>2, <1>4 DEF TypeOK, TotalLen
  <1>6. FramesStay /\ LogStays /\ HeldUpStays
    BY <1>1, <1>2, TypeFacts DEF FramesStay, LogStays, HeldUpStays
  <1>7. TornForCause' /\ StreamEnds' /\ LoggedBeforeSent'
    BY <1>2, <1>5, <1>6, StreamStays
  <1>8. \A u \in Thread : InCall(u)' /\ Dumped(u)'
    BY <1>2, <1>4, <1>5, <1>6, ThreadStays
  <1> QED  BY <1>5, <1>7, <1>8 DEF SendInv

-----------------------------------------------------------------------------
(* Around sr_send_packet. *)

\* What main, the timeout thread and the server do between calls keeps the
\* invariant.
LEMMA OtherKeeps ==
  ASSUME SendInv,
         \/ WantLock \/ Critical \/ HandlerReturns \/ SessionEnds
         \/ DestroyInstance \/ Exit \/ SweepStarts \/ SweepEnds \/ Drain \/ Stopped
         \/ UNCHANGED vars
  PROVE  SendInv'
  <1>1. TypeOK
    BY DEF SendInv
  <1>2. /\ UNCHANGED <<frames, at, cur, total_len, written, stream, waited, cut, log>>
        /\ logfile' = logfile \/ (logfile = "open" /\ logfile' = "closed")
        /\ TypeOK'
    <2>1. CASE WantLock
      <3>1. locks' \in 0..MaxLocks
        BY <1>1, <2>1 DEF WantLock, TypeOK
      <3> QED  BY <1>1, <2>1, <3>1 DEF WantLock, Main, socket, dump, TypeOK, TotalLen
    <2>2. CASE Critical \/ HandlerReturns \/ SessionEnds \/ Exit
      BY <1>1, <2>2 DEF Critical, HandlerReturns, SessionEnds, Exit, Main, socket, dump,
                        TypeOK, TotalLen
    <2>3. CASE DestroyInstance
      BY <1>1, <2>3 DEF DestroyInstance, socket, around, TypeOK, TotalLen
    <2>4. CASE SweepStarts \/ SweepEnds
      BY <1>1, <2>4 DEF SweepStarts, SweepEnds, socket, dump, TypeOK, TotalLen
    <2>5. CASE Drain
      <3>1. drained' \in 0..Len(stream')
        BY <1>1, <2>5, TypeFacts DEF Drain
      <3> QED  BY <1>1, <2>5, <3>1 DEF Drain, dump, around, TypeOK, TotalLen
    <2>6. CASE Stopped \/ UNCHANGED vars
      BY <1>1, <2>6 DEF Stopped, vars, socket, dump, around, TypeOK, TotalLen
    <2> QED  BY <2>1, <2>2, <2>3, <2>4, <2>5, <2>6
  <1>3. FramesStay /\ LogStays /\ HeldUpStays
    BY <1>1, <1>2, TypeFacts DEF FramesStay, LogStays, HeldUpStays
  <1>4. TornForCause' /\ StreamEnds' /\ LoggedBeforeSent'
    BY <1>2, <1>3, StreamStays
  <1>5. \A u \in Thread : InCall(u)' /\ Dumped(u)'
    BY <1>2, <1>3, ThreadStays
  <1> QED  BY <1>2, <1>4, <1>5 DEF SendInv

-----------------------------------------------------------------------------
(* The theorems. *)

\* The invariant holds before the first frame.
LEMMA InitKeeps == Init => SendInv
  <1> SUFFICES ASSUME Init PROVE SendInv
    OBVIOUS
  <1>1. /\ Len(frames) = 0 /\ Len(stream) = 0 /\ DOMAIN stream = {} /\ DOMAIN log = {}
        /\ \A t \in Thread : at[t] = "idle" /\ cur[t] = 0
    BY DEF Init
  <1>2. TypeOK
    <2>1. /\ frames \in Seq(Frame) /\ Len(frames) <= MaxFrames
          /\ stream \in Seq((1..MaxFrames) \X (Nat \ {0}))
          /\ log \in Seq((1..MaxFrames) \X {"header", "body"})
      BY <1>1 DEF Init
    <2>3. drained \in 0..Len(stream)
      BY <1>1 DEF Init
    <2>2. /\ at \in [Thread -> {"idle", "header", "body", "write"}]
          /\ cur \in [Thread -> 0..MaxFrames]
          /\ total_len \in [Thread -> Nat] /\ written \in [Thread -> Nat]
      BY DEF Init
    <2>4. /\ waited \subseteq 1..MaxFrames /\ cut \subseteq 1..MaxFrames
          /\ logfile \in {"null", "open", "closed"}
          /\ main \in {"read", "handle", "wait", "destroy", "exit"}
          /\ locks \in 0..MaxLocks
      BY DEF Init
    <2>5. lock \in BOOLEAN /\ fault \in BOOLEAN
      BY DEF Init
    <2> QED  BY <1>1, <2>1, <2>2, <2>3, <2>4, <2>5, Zenon DEF TypeOK
  <1>3. TornForCause /\ StreamEnds /\ LoggedBeforeSent
    BY <1>1 DEF TornForCause, StreamEnds, LoggedBeforeSent
  <1>4. \A t \in Thread : InCall(t) /\ Dumped(t)
    BY <1>1 DEF InCall, Dumped
  <1> QED  BY <1>2, <1>3, <1>4 DEF SendInv

\* The place of each thread in sr_send_packet (sr_vns_comm.c:563-610) tells what
\* it has written and logged, and the stream ends in a command that is complete,
\* held up or cut short, in every interleaving.
THEOREM SendInvHolds == Spec => []SendInv
  <1>1. SendInv /\ [Next]_vars => SendInv'
    <2> SUFFICES ASSUME SendInv, [Next]_vars PROVE SendInv'
      OBVIOUS
    <2>1. CASE \E c \in Calls : Send(c)
      BY <2>1, SendKeeps
    <2>2. CASE \E t \in Thread : LogHeader(t)
      BY <2>2, LogHeaderKeeps
    <2>3. CASE \E t \in Thread : LogBody(t)
      BY <2>3, LogBodyKeeps
    <2>4. CASE \E t \in Thread : Write(t)
      BY <2>4, WriteKeeps
    <2>5. CASE \E t \in Thread : WriteFails(t)
      BY <2>5, WriteFailsKeeps
    <2>6. CASE TakeFrame
      BY <2>6, TakeFrameKeeps
    <2>7. CASE \/ WantLock \/ Critical \/ HandlerReturns \/ SessionEnds
               \/ DestroyInstance \/ Exit \/ SweepStarts \/ SweepEnds \/ Drain
               \/ Stopped \/ UNCHANGED vars
      BY <2>7, OtherKeeps
    <2> QED  BY <2>1, <2>2, <2>3, <2>4, <2>5, <2>6, <2>7 DEF Next, SendPacket
  <1> QED  BY <1>1, InitKeeps, PTL DEF Spec

\* No byte beyond the command that sr_send_packet has built is ever sent, and
\* every variable of the two threads keeps its kind.
THEOREM SendTypeCorrect == Spec => []TypeOK
  <1>1. SendInv => TypeOK
    BY DEF SendInv
  <1> QED  BY <1>1, SendInvHolds, PTL

\* Two threads that write commands to one socket without a lock of its own
\* tear them only where the kernel held up a write or a write failed, for any
\* commands, any send buffer and any portions.
THEOREM StreamTornForCause == Spec => []TornForCause
  <1>1. SendInv => TornForCause
    BY DEF SendInv
  <1> QED  BY <1>1, SendInvHolds, PTL

\* No byte of a frame is on the socket before its record is in the log.
THEOREM LogComesFirst == Spec => []LoggedBeforeSent
  <1>1. SendInv => LoggedBeforeSent
    BY DEF SendInv
  <1> QED  BY <1>1, SendInvHolds, PTL

=============================================================================
