-------------------------- MODULE SrSession_proofs --------------------------
(***************************************************************************)
(* sr_read_from_server_expect keeps in step with the server, whatever the  *)
(* lengths of the commands and however recv and read split the stream, and *)
(* the order of the handshake protects sr_handlepacket: it runs only with  *)
(* the ARP cache set up and with a routing table that was compared with    *)
(* the interfaces.                                                         *)
(*                                                                         *)
(* The second half is about the data: every variable keeps its type, and   *)
(* every interface has the addresses the server named for it.  What the    *)
(* loop over the entries of VNSHWINFO makes of the list is shown by        *)
(* induction, which is stated with sets of numbers and rests on their      *)
(* least elements.                                                         *)
(***************************************************************************)
EXTENDS SrSession, SequenceTheorems, WellFoundedInduction, TLAPS

USE SizesAssumption

-----------------------------------------------------------------------------
(* The invariants. *)

\* The bytes of command n.
Total(n) == HeadLen + sent[n].body

\* How many bytes of the command being read are in len and buf.
Got == Len(head) + Len(body)

Byte == Nat \X Nat

\* The part of TypeOK the argument rests on.
Types ==
  /\ sent \in Seq(Message) /\ done \in 0..Len(sent) /\ phase \in Phase
  /\ wire \in Seq(Byte) /\ head \in Seq(Byte) /\ body \in Seq(Byte)

\* The buffer: buf is filled after len, and not beyond the command.
Buffer ==
  /\ Framed
  /\ body # <<>> => Len(head) = HeadLen
  /\ head # <<>> => done < Len(sent) /\ Len(body) <= sent[done + 1].body

\* The commands that are not carried out yet lie on the stream one after the
\* other: command n begins pos[n] bytes after the one being read, and byte i of
\* the wire is the one that its distance from there says.
Laid(pos) ==
  /\ pos[done + 1] = 0 /\ pos[Len(sent) + 1] = Got + Len(wire)
  /\ \A n \in (done + 1)..Len(sent) :
       pos[n + 1] = pos[n] + Total(n) /\ pos[n + 1] <= Got + Len(wire)
  /\ \A n \in (done + 1)..Len(sent), i \in 1..Len(wire) :
       pos[n] < Got + i /\ Got + i <= pos[n + 1] =>
         wire[i][1] = n /\ wire[i][2] + pos[n] = Got + i

InStep == Types /\ Buffer /\ \E pos \in [Nat -> Int] : Laid(pos)

\* The hardware information was carried out.
HardwareKnown == \E i \in 1..done : sent[i].cmd = "hwinfo"

\* A session that has the hardware information is past its handshake, and its
\* table fits the interfaces; no frame comes, or is handled, before that.
Checked ==
  /\ \A j \in 1..Len(sent) :
       sent[j].cmd = "packet" => \E i \in 1..(j - 1) : sent[i].cmd = "hwinfo"
  /\ HardwareKnown /\ phase # "exit" => phase = "serve" /\ Verified(if_list, rt)
  /\ handled # {} => HardwareKnown /\ inited
  /\ phase = "serve" => inited

SessionInv == InStep /\ Checked

-----------------------------------------------------------------------------
(* The server and the buffer. *)

\* The fields of a command the server has sent.
LEMMA MessageFacts ==
  ASSUME Types, NEW n \in 1..Len(sent)
  PROVE  /\ sent[n] \in Message /\ sent[n].body \in Nat /\ sent[n].cmd \in Command
         /\ Total(n) \in Nat
  <1>1. sent[n] \in Message
    BY DEF Types
  <1> QED  BY <1>1, MessageAssumption DEF Total

\* Lengths of the sequences are numbers.
LEMMA TypesFacts ==
  ASSUME Types
  PROVE  /\ Len(sent) \in Nat /\ Len(wire) \in Nat /\ Len(head) \in Nat
         /\ Len(body) \in Nat /\ done \in Nat /\ done <= Len(sent) /\ Got \in Nat
         /\ DOMAIN head = 1..Len(head) /\ DOMAIN body = 1..Len(body)
         /\ (head = <<>> <=> Len(head) = 0) /\ (body = <<>> <=> Len(body) = 0)
  <1>1. /\ Len(sent) \in Nat /\ Len(wire) \in Nat /\ Len(head) \in Nat
        /\ Len(body) \in Nat
    BY DEF Types
  <1>2. /\ DOMAIN head = 1..Len(head) /\ DOMAIN body = 1..Len(body)
        /\ (head = <<>> <=> Len(head) = 0) /\ (body = <<>> <=> Len(body) = 0)
    BY EmptySeq DEF Types
  <1>3. done \in Nat /\ done <= Len(sent)
    BY <1>1 DEF Types
  <1> QED  BY <1>1, <1>2, <1>3 DEF Got

\* The bytes of the command being read come first on the wire.
LEMMA NextBytes ==
  ASSUME InStep, wire # <<>>
  PROVE  /\ done < Len(sent)
         /\ \A i \in 1..Len(wire) :
              Got + i <= Total(done + 1) => wire[i] = <<done + 1, Got + i>>
  <1>1. Types /\ Buffer
    BY DEF InStep
  <1>2. PICK pos \in [Nat -> Int] : Laid(pos)
    BY DEF InStep
  <1>3. Len(wire) > 0
    <2>1. wire \in Seq(Byte)
      BY <1>1 DEF Types
    <2> QED  BY <2>1, EmptySeq, <1>1, TypesFacts
  <1>4. done < Len(sent)
    <2>1. SUFFICES ASSUME done = Len(sent) PROVE FALSE
      BY <1>1, TypesFacts
    <2>2. pos[done + 1] = 0 /\ pos[done + 1] = Got + Len(wire)
      BY <1>2, <2>1 DEF Laid
    <2> QED  BY <1>1, <1>3, <2>2, TypesFacts, SMTT(30)
  <1>5. done + 1 \in (done + 1)..Len(sent) /\ done + 1 \in 1..Len(sent)
    BY <1>1, <1>4, TypesFacts, SMTT(30)
  <1>6. Total(done + 1) \in Nat
    BY <1>1, <1>5, MessageFacts
  <1>7. pos[done + 1] = 0 /\ pos[done + 1 + 1] = Total(done + 1)
    <2>1. pos[done + 1] = 0 /\ pos[done + 1 + 1] = pos[done + 1] + Total(done + 1)
      BY <1>2, <1>5 DEF Laid
    <2> QED  BY <1>6, <2>1
  <1>8. ASSUME NEW i \in 1..Len(wire), Got + i <= Total(done + 1)
        PROVE  wire[i] = <<done + 1, Got + i>>
    <2>1. pos[done + 1] < Got + i /\ Got + i <= pos[done + 1 + 1]
      BY <1>1, <1>7, <1>8, TypesFacts, SMTT(30)
    <2>2. wire[i][1] = done + 1 /\ wire[i][2] + pos[done + 1] = Got + i
      BY <1>2, <1>5, <2>1 DEF Laid
    <2>3. wire[i] \in Byte
      BY <1>1 DEF Types
    <2>4. wire[i] = <<wire[i][1], wire[i][2]>> /\ wire[i][2] \in Nat
      BY <2>3 DEF Byte
    <2>5. wire[i][2] = Got + i
      BY <1>7, <2>2, <2>4
    <2> QED  BY <2>2, <2>4, <2>5
  <1> QED  BY <1>4, <1>8

\* Places of a sequence without its first k elements, in the whole sequence.
LEMMA Shift ==
  ASSUME NEW L \in Nat, NEW k \in Nat, k <= L, NEW i \in 1..(L - k)
  PROVE  i + k \in 1..L
  OBVIOUS

\* Bytes that move from the wire to the buffer leave the rest in its place.
LEMMA ShiftLaid ==
  ASSUME InStep, Types', NEW k \in Nat, k <= Len(wire),
         NEW pos \in [Nat -> Int], Laid(pos),
         Len(wire') = Len(wire) - k,
         \A i \in 1..(Len(wire) - k) : wire'[i] = wire[i + k],
         Got' = Got + k, sent' = sent, done' = done
  PROVE  Laid(pos)'
  <1>1. Len(wire) \in Nat /\ Got \in Nat /\ Len(wire') \in Nat
    BY TypesFacts DEF InStep
  <1>2. Got' + Len(wire') = Got + Len(wire)
    BY <1>1
  <1>3. ASSUME NEW n \in (done + 1)..Len(sent), NEW i \in 1..Len(wire'),
               pos[n] < Got' + i, Got' + i <= pos[n + 1]
        PROVE  wire'[i][1] = n /\ wire'[i][2] + pos[n] = Got' + i
    <2>0. i + k \in 1..Len(wire)
      BY <1>1, Shift
    <2>1. PICK j \in 1..Len(wire) : j = i + k
      BY <2>0
    <2>2. Got' + i = Got + j
      BY <1>1, <2>1
    <2>3. wire[j][1] = n /\ wire[j][2] + pos[n] = Got + j
      BY <1>3, <2>2 DEF Laid
    <2>4. wire'[i] = wire[j]
      BY <2>1
    <2> QED  BY <2>2, <2>3, <2>4
  <1>4. \A n : Total(n)' = Total(n)
    BY DEF Total
  <1>5. /\ pos[done' + 1] = 0 /\ pos[Len(sent') + 1] = Got' + Len(wire')
        /\ \A n \in (done' + 1)..Len(sent') :
             pos[n + 1] = pos[n] + Total(n) /\ pos[n + 1] <= Got' + Len(wire')
    BY <1>2 DEF Laid
  <1> QED  BY <1>3, <1>4, <1>5 DEF Laid

\* The first k bytes of w are moved to the end of b, which gives c and v.
Moved(b, c, w, v, k) ==
  /\ c \in Seq(Byte) /\ Len(c) = Len(b) + k
  /\ \A i \in 1..Len(b) : c[i] = b[i]
  /\ \A i \in (Len(b) + 1)..(Len(b) + k) : c[i] = w[i - Len(b)]
  /\ v \in Seq(Byte) /\ Len(v) = Len(w) - k
  /\ \A i \in 1..(Len(w) - k) : v[i] = w[i + k]

\* What one recv or read of k bytes does.
LEMMA TakeBytes ==
  ASSUME NEW b \in Seq(Byte), NEW w \in Seq(Byte), NEW k \in 1..Len(w)
  PROVE  Moved(b, b \o SubSeq(w, 1, k), w, SubSeq(w, k + 1, Len(w)), k)
  <1> DEFINE a == SubSeq(w, 1, k)
             c == b \o a
  <1>1. Len(w) \in Nat /\ Len(b) \in Nat /\ k \in Nat
    OBVIOUS
  <1>2. a \in Seq(Byte) /\ Len(a) = k /\ \A i \in 1..k : a[i] = w[i]
    BY <1>1
  <1> HIDE DEF a
  <1>3. /\ c \in Seq(Byte) /\ Len(c) = Len(b) + Len(a)
        /\ \A i \in 1..(Len(b) + Len(a)) :
             c[i] = IF i <= Len(b) THEN b[i] ELSE a[i - Len(b)]
    BY <1>2, ConcatProperties
  <1> HIDE DEF c
  <1>4. \A i \in 1..(Len(b) + k) : c[i] = IF i <= Len(b) THEN b[i] ELSE a[i - Len(b)]
    BY <1>2, <1>3
  <1>5. \A i \in 1..Len(b) : c[i] = b[i]
    <2> TAKE i \in 1..Len(b)
    <2>1. i \in 1..(Len(b) + k) /\ i <= Len(b)
      BY <1>1
    <2> QED  BY <1>4, <2>1
  <1>6. \A i \in (Len(b) + 1)..(Len(b) + k) : c[i] = w[i - Len(b)]
    <2> TAKE i \in (Len(b) + 1)..(Len(b) + k)
    <2>1. i \in 1..(Len(b) + k) /\ ~(i <= Len(b)) /\ i - Len(b) \in 1..k
      BY <1>1
    <2> QED  BY <1>2, <1>4, <2>1
  <1>7. PICK m \in Int, l \in Int : m = k + 1 /\ l = Len(w)
    BY <1>1
  <1>8. \A i \in m..l : w[i] \in Byte
    BY <1>1, <1>7
  <1> DEFINE d == SubSeq(w, m, l)
  <1>9. /\ d \in Seq(Byte) /\ Len(d) = (IF m <= l THEN l - m + 1 ELSE 0)
        /\ \A i \in 1..(l - m + 1) : d[i] = w[m + i - 1]
    BY <1>8, SubSeqProperties
  <1>10. d = SubSeq(w, k + 1, Len(w))
    BY <1>7
  <1> HIDE DEF d
  <1>11. d \in Seq(Byte) /\ Len(d) = Len(w) - k
    <2>1. (IF m <= l THEN l - m + 1 ELSE 0) = Len(w) - k
      BY <1>1, <1>7
    <2> QED  BY <1>9, <2>1
  <1>12. \A i \in 1..(Len(w) - k) : d[i] = w[i + k]
    <2> TAKE i \in 1..(Len(w) - k)
    <2>1. m + i - 1 = i + k /\ i \in 1..(l - m + 1)
      BY <1>1, <1>7
    <2>2. d[i] = w[m + i - 1]
      BY <1>9, <2>1
    <2> QED  BY <2>1, <2>2
  <1>13. c \in Seq(Byte) /\ Len(c) = Len(b) + k
    BY <1>2, <1>3
  <1>14. c = b \o SubSeq(w, 1, k)
    BY DEF c, a
  <1> QED  BY <1>5, <1>6, <1>10, <1>11, <1>12, <1>13, <1>14 DEF Moved

\* A read of any part of a length field leaves buffer and stream in step.
LEMMA ReadHeadInStep ==
  ASSUME InStep, ReadHead
  PROVE  InStep'
  <1>1. Types /\ Buffer
    BY DEF InStep
  <1>2. PICK k \in 1..Len(wire) :
          /\ k <= Want(head, HeadLen) /\ head' = head \o SubSeq(wire, 1, k)
          /\ wire' = SubSeq(wire, k + 1, Len(wire))
    BY DEF ReadHead
  <1>3. /\ Len(head) < HeadLen /\ wire # <<>>
        /\ UNCHANGED <<sent, phase, body, done>>
    BY DEF ReadHead
  <1>4. head \in Seq(Byte) /\ wire \in Seq(Byte)
    BY <1>1 DEF Types
  <1>5. /\ head' \in Seq(Byte) /\ Len(head') = Len(head) + k
        /\ \A i \in 1..Len(head) : head'[i] = head[i]
        /\ \A i \in (Len(head) + 1)..(Len(head) + k) : head'[i] = wire[i - Len(head)]
        /\ wire' \in Seq(Byte) /\ Len(wire') = Len(wire) - k
        /\ \A i \in 1..(Len(wire) - k) : wire'[i] = wire[i + k]
    <2>1. Moved(head, head', wire, wire', k)
      BY <1>2, <1>4, TakeBytes
    <2> QED  BY <2>1 DEF Moved
  <1>6. Types'
    BY <1>1, <1>3, <1>5 DEF Types
  <1>7. body = <<>> /\ Len(body) = 0 /\ k <= HeadLen - Len(head) /\ k \in Nat \ {0}
        /\ Len(head) \in Nat /\ Len(wire) \in Nat
    <2>1. Len(head) \in Nat /\ Len(wire) \in Nat
      BY <1>1, TypesFacts
    <2>2. Len(head) # HeadLen
      BY <1>3, <2>1
    <2>3. body = <<>> /\ Len(body) = 0
      BY <1>1, <2>2, TypesFacts DEF Buffer
    <2>4. k \in Nat \ {0}
      BY <2>1
    <2>5. k <= HeadLen - Len(head)
      BY <1>2 DEF Want
    <2> QED  BY <2>1, <2>3, <2>4, <2>5
  <1>8. Got = Len(head) /\ Got' = Got + k
    BY <1>3, <1>5, <1>7 DEF Got
  <1>9. done < Len(sent) /\ \A i \in 1..Len(wire) :
          Got + i <= Total(done + 1) => wire[i] = <<done + 1, Got + i>>
    BY <1>3, NextBytes
  <1>10. sent[done + 1].body \in Nat /\ HeadLen <= Total(done + 1)
    <2>1. done + 1 \in 1..Len(sent)
      BY <1>1, <1>9, TypesFacts
    <2>2. sent[done + 1].body \in Nat
      BY <1>1, <2>1, MessageFacts
    <2> QED  BY <2>2 DEF Total
  <1>11. \A i \in 1..(Len(head) + k) : head'[i] = <<done + 1, i>>
    <2> TAKE i \in 1..(Len(head) + k)
    <2>1. CASE i \in 1..Len(head)
      BY <1>1, <1>5, <2>1, TypesFacts DEF Buffer, Framed
    <2>2. CASE i \in (Len(head) + 1)..(Len(head) + k)
      <3>1. PICK x \in 1..Len(wire) : x = i - Len(head)
        <4>1. k <= Len(wire) /\ k \in Nat /\ Len(head) \in Nat /\ Len(wire) \in Nat
          BY <1>7
        <4>2. i - Len(head) \in 1..Len(wire)
          BY <2>2, <4>1
        <4> QED  BY <4>2
      <3>2. Got + x = i /\ Got + x <= Total(done + 1)
        <4>1. i <= HeadLen /\ Got + x = i
          BY <1>7, <1>8, <2>2, <3>1
        <4>2. Total(done + 1) \in Nat
          BY <1>10 DEF Total
        <4> QED  BY <1>10, <4>1, <4>2
      <3>3. wire[x] = <<done + 1, i>>
        BY <1>9, <3>2
      <3> QED  BY <1>5, <2>2, <3>1, <3>3
    <2> QED  BY <1>7, <2>1, <2>2
  <1>12. Buffer'
    <2>1. Len(head') <= HeadLen
      BY <1>5, <1>7
    <2>2. DOMAIN head' = 1..(Len(head) + k)
      BY <1>5
    <2>3. Framed'
      BY <1>1, <1>3, <1>7, <1>11, <2>1, <2>2, TypesFacts DEF Framed, Buffer
    <2> QED  BY <1>3, <1>7, <1>9, <1>10, <2>3 DEF Buffer
  <1>13. PICK pos \in [Nat -> Int] : Laid(pos)
    BY DEF InStep
  <1>14. Laid(pos)'
    <2>1. k \in Nat /\ k <= Len(wire)
      BY <1>7
    <2> QED  BY <1>3, <1>5, <1>6, <1>8, <1>13, <2>1, ShiftLaid
  <1> QED  BY <1>6, <1>12, <1>14 DEF InStep

\* A full length field is that of the command being read.
LEMMA LengthRead ==
  ASSUME InStep, Len(head) >= HeadLen
  PROVE  /\ Len(head) = HeadLen /\ done < Len(sent) /\ done + 1 \in 1..Len(sent)
         /\ head[1][1] = done + 1 /\ BodyLen = sent[done + 1].body /\ BodyLen \in Nat
         /\ Total(done + 1) = HeadLen + BodyLen /\ Len(body) <= BodyLen
  <1>1. Types /\ Buffer
    BY DEF InStep
  <1>2. Len(head) \in Nat /\ Len(head) <= HeadLen
    BY <1>1, TypesFacts DEF Buffer, Framed
  <1>3. Len(head) = HeadLen /\ head # <<>> /\ 1 \in DOMAIN head
    <2>1. Len(head) = HeadLen /\ Len(head) # 0 /\ 1 \in 1..Len(head)
      BY <1>2
    <2> QED  BY <1>1, <2>1, TypesFacts
  <1>4. done < Len(sent) /\ Len(body) <= sent[done + 1].body /\ head[1] = <<done + 1, 1>>
    BY <1>1, <1>3 DEF Buffer, Framed
  <1>5. done + 1 \in 1..Len(sent)
    BY <1>1, <1>4, TypesFacts
  <1>6. sent[done + 1].body \in Nat
    BY <1>1, <1>5, MessageFacts
  <1>7. head[1][1] = done + 1 /\ BodyLen = sent[done + 1].body
    BY <1>4 DEF BodyLen
  <1> QED  BY <1>3, <1>4, <1>5, <1>6, <1>7 DEF Total

\* So does a read of any part of the rest of a command.
LEMMA ReadBodyInStep ==
  ASSUME InStep, ReadBody
  PROVE  InStep'
  <1>1. Types /\ Buffer
    BY DEF InStep
  <1>2. PICK k \in 1..Len(wire) :
          /\ k <= Want(body, BodyLen) /\ body' = body \o SubSeq(wire, 1, k)
          /\ wire' = SubSeq(wire, k + 1, Len(wire))
    BY DEF ReadBody
  <1>3. /\ Len(head) >= HeadLen /\ wire # <<>>
        /\ UNCHANGED <<sent, phase, head, done>>
    BY DEF ReadBody
  <1>4. body \in Seq(Byte) /\ wire \in Seq(Byte)
    BY <1>1 DEF Types
  <1>5. /\ body' \in Seq(Byte) /\ Len(body') = Len(body) + k
        /\ \A i \in 1..Len(body) : body'[i] = body[i]
        /\ \A i \in (Len(body) + 1)..(Len(body) + k) : body'[i] = wire[i - Len(body)]
        /\ wire' \in Seq(Byte) /\ Len(wire') = Len(wire) - k
        /\ \A i \in 1..(Len(wire) - k) : wire'[i] = wire[i + k]
    <2>1. Moved(body, body', wire, wire', k)
      BY <1>2, <1>4, TakeBytes
    <2> QED  BY <2>1 DEF Moved
  <1>6. Types'
    BY <1>1, <1>3, <1>5 DEF Types
  <1>7. /\ Len(head) = HeadLen /\ done < Len(sent) /\ BodyLen = sent[done + 1].body
        /\ BodyLen \in Nat /\ Total(done + 1) = HeadLen + BodyLen
    BY <1>3, LengthRead
  <1>8. /\ Len(body) \in Nat /\ Len(wire) \in Nat /\ k \in Nat \ {0}
        /\ k <= BodyLen - Len(body) /\ k <= Len(wire)
    <2>1. Len(body) \in Nat /\ Len(wire) \in Nat
      BY <1>1, TypesFacts
    <2>2. k <= BodyLen - Len(body)
      BY <1>2 DEF Want
    <2> QED  BY <2>1, <2>2
  <1>9. Got = HeadLen + Len(body) /\ Got' = Got + k
    BY <1>3, <1>5, <1>7, <1>8 DEF Got
  <1>10. \A i \in 1..Len(wire) :
           Got + i <= Total(done + 1) => wire[i] = <<done + 1, Got + i>>
    BY <1>3, NextBytes
  <1>11. \A i \in 1..(Len(body) + k) : body'[i] = <<done + 1, HeadLen + i>>
    <2> TAKE i \in 1..(Len(body) + k)
    <2>1. CASE i \in 1..Len(body)
      BY <1>1, <1>5, <2>1, TypesFacts DEF Buffer, Framed
    <2>2. CASE i \in (Len(body) + 1)..(Len(body) + k)
      <3>1. PICK x \in 1..Len(wire) : x = i - Len(body)
        <4>1. i - Len(body) \in 1..Len(wire)
          BY <1>8, <2>2
        <4> QED  BY <4>1
      <3>2. i <= BodyLen /\ Got + x = HeadLen + i
        <4>1. PICK B \in Nat, l \in Nat : B = BodyLen /\ l = Len(body)
          BY <1>7, <1>8
        <4>2. /\ i \in (l + 1)..(l + k) /\ k <= B - l /\ k \in Nat /\ x = i - l
              /\ Got = HeadLen + l
          BY <1>8, <1>9, <2>2, <3>1, <4>1
        <4>3. i <= B /\ HeadLen + l + x = HeadLen + i
          BY <4>2
        <4> QED  BY <4>1, <4>2, <4>3
      <3>3. Got + x <= Total(done + 1)
        BY <1>7, <3>2
      <3>4. wire[x] = <<done + 1, HeadLen + i>>
        BY <1>10, <3>2, <3>3
      <3> QED  BY <1>5, <2>2, <3>1, <3>4
    <2> QED  BY <1>8, <2>1, <2>2
  <1>12. Buffer'
    <2>1. DOMAIN body' = 1..(Len(body) + k)
      BY <1>5
    <2>2. Framed'
      BY <1>1, <1>3, <1>11, <2>1 DEF Framed, Buffer
    <2>3. Len(body') <= sent[done + 1].body
      BY <1>5, <1>7, <1>8
    <2> QED  BY <1>3, <1>7, <2>2, <2>3 DEF Buffer
  <1>13. PICK pos \in [Nat -> Int] : Laid(pos)
    BY DEF InStep
  <1>14. Laid(pos)'
    <2>1. k \in Nat
      BY <1>8
    <2> QED  BY <1>3, <1>5, <1>6, <1>8, <1>9, <1>13, <2>1, ShiftLaid
  <1> QED  BY <1>6, <1>12, <1>14 DEF InStep

\* A step that touches neither the stream nor the buffer.
LEMMA QuietInStep ==
  ASSUME InStep, phase' \in Phase, UNCHANGED <<sent, wire, head, body, done>>
  PROVE  InStep'
  <1>1. Types'
    BY DEF Types, InStep
  <1>2. Buffer'
    BY DEF Buffer, Framed, InStep
  <1>3. PICK pos \in [Nat -> Int] : Laid(pos)
    BY DEF InStep
  <1>4. Laid(pos)'
    BY <1>3 DEF Laid, Got, Total
  <1> QED  BY <1>1, <1>2, <1>4 DEF InStep

\* A command that is whole is taken off the stream, and the next one begins
\* where it ended.
LEMMA TakenInStep ==
  ASSUME InStep, NEW m, Ready(m), Taken, phase' \in Phase, UNCHANGED <<sent, wire>>
  PROVE  InStep'
  <1>1. Types /\ Buffer
    BY DEF InStep
  <1>2. Len(head) >= HeadLen /\ Len(body) = BodyLen
    BY DEF Ready
  <1>3. /\ done < Len(sent) /\ Len(head) = HeadLen /\ BodyLen \in Nat
        /\ Total(done + 1) = HeadLen + BodyLen
    BY <1>2, LengthRead
  <1>4. done' = done + 1 /\ head' = <<>> /\ body' = <<>>
    BY DEF Taken
  <1>5. done \in Nat /\ Len(sent) \in Nat /\ Len(wire) \in Nat
    BY <1>1, TypesFacts
  <1>6. Types'
    BY <1>1, <1>3, <1>4, <1>5 DEF Types
  <1>7. Buffer'
    BY <1>4 DEF Buffer, Framed
  <1>8. PICK T \in Nat : T = Total(done + 1) /\ T = HeadLen + BodyLen
    BY <1>3
  <1>9. Got = T /\ Got' = 0
    BY <1>2, <1>3, <1>4, <1>8 DEF Got
  <1>10. PICK pos \in [Nat -> Int] : Laid(pos)
    BY DEF InStep
  <1> DEFINE new == [n \in Nat |-> pos[n] - T]
  <1>11. new \in [Nat -> Int] /\ \A n \in Nat : new[n] = pos[n] - T
    OBVIOUS
  <1> HIDE DEF new
  <1>12. /\ pos[done + 1] = 0 /\ pos[Len(sent) + 1] = T + Len(wire)
         /\ \A n \in (done + 1)..Len(sent) :
              pos[n + 1] = pos[n] + Total(n) /\ pos[n + 1] <= T + Len(wire)
         /\ \A n \in (done + 1)..Len(sent), i \in 1..Len(wire) :
              pos[n] < T + i /\ T + i <= pos[n + 1] =>
                wire[i][1] = n /\ wire[i][2] + pos[n] = T + i
    BY <1>9, <1>10 DEF Laid
  <1>13. done + 1 \in (done + 1)..Len(sent) /\ done + 1 + 1 \in Nat
    BY <1>3, <1>5
  <1>14. new[done + 1 + 1] = 0
    <2>1. pos[done + 1 + 1] = T
      BY <1>8, <1>12, <1>13, SMTT(30)
    <2> QED  BY <1>11, <1>13, <2>1
  <1>15. new[Len(sent) + 1] = Len(wire)
    BY <1>5, <1>11, <1>12
  <1>16. \A n \in (done + 1 + 1)..Len(sent) :
           /\ n \in (done + 1)..Len(sent) /\ n \in Nat /\ n + 1 \in Nat
           /\ n \in 1..Len(sent)
    BY <1>5
  <1>17. ASSUME NEW n \in (done + 1 + 1)..Len(sent)
         PROVE  new[n + 1] = new[n] + Total(n) /\ new[n + 1] <= Len(wire)
    <2>1. pos[n + 1] = pos[n] + Total(n) /\ pos[n + 1] <= T + Len(wire)
      BY <1>12, <1>16
    <2>2. new[n + 1] = pos[n + 1] - T /\ new[n] = pos[n] - T
      BY <1>11, <1>16
    <2>3. Total(n) \in Nat /\ pos[n] \in Int /\ pos[n + 1] \in Int
      BY <1>1, <1>16, MessageFacts
    <2>4. PICK a \in Int, b \in Int, t \in Nat : a = pos[n] /\ b = pos[n + 1] /\ t = Total(n)
      BY <2>3
    <2>5. b = a + t /\ b <= T + Len(wire)
      BY <2>1, <2>4
    <2>6. b - T = a - T + t /\ b - T <= Len(wire)
      BY <1>5, <2>5
    <2> QED  BY <2>2, <2>4, <2>6
  <1>18. ASSUME NEW n \in (done + 1 + 1)..Len(sent), NEW i \in 1..Len(wire),
                new[n] < i, i <= new[n + 1]
         PROVE  wire[i][1] = n /\ wire[i][2] + new[n] = i
    <2>1. new[n + 1] = pos[n + 1] - T /\ new[n] = pos[n] - T
      BY <1>11, <1>16
    <2>2. pos[n] \in Int /\ pos[n + 1] \in Int
      BY <1>16
    <2>3. pos[n] < T + i /\ T + i <= pos[n + 1]
      BY <1>5, <1>18, <2>1, <2>2, SMTT(30)
    <2>4. wire[i][1] = n /\ wire[i][2] + pos[n] = T + i
      BY <1>12, <1>16, <2>3
    <2>5. wire[i][2] \in Nat
      <3>1. wire[i] \in Byte
        BY <1>1 DEF Types
      <3> QED  BY <3>1 DEF Byte
    <2>6. PICK a \in Int, y \in Nat : a = pos[n] /\ y = wire[i][2]
      BY <2>2, <2>5
    <2>7. y + (a - T) = i
      <3>1. y + a = T + i /\ i \in Nat
        BY <1>5, <2>4, <2>6
      <3> QED  BY <3>1
    <2> QED  BY <2>1, <2>4, <2>6, <2>7
  <1>19. \A n : Total(n)' = Total(n)
    BY DEF Total
  <1>20. Laid(new)'
    <2>1. new[done' + 1] = 0 /\ new[Len(sent') + 1] = Got' + Len(wire')
      BY <1>4, <1>5, <1>9, <1>14, <1>15
    <2>2. \A n \in (done' + 1)..Len(sent') :
            new[n + 1] = new[n] + Total(n)' /\ new[n + 1] <= Got' + Len(wire')
      BY <1>4, <1>5, <1>9, <1>17, <1>19
    <2>3. \A n \in (done' + 1)..Len(sent'), i \in 1..Len(wire') :
            new[n] < Got' + i /\ Got' + i <= new[n + 1] =>
              wire'[i][1] = n /\ wire'[i][2] + new[n] = Got' + i
      <3>1. \A i \in 1..Len(wire) : Got' + i = i
        BY <1>5, <1>9
      <3> QED  BY <1>4, <1>18, <3>1
    <2> QED  BY <2>1, <2>2, <2>3 DEF Laid
  <1> QED  BY <1>6, <1>7, <1>11, <1>20 DEF InStep

\* A command that the server sends goes behind what is on the stream.
LEMMA ServerSendInStep ==
  ASSUME InStep, NEW m \in Message, ServerSend(m)
  PROVE  InStep'
  <1>1. Types /\ Buffer
    BY DEF InStep
  <1>2. /\ sent' = Append(sent, m) /\ wire' = wire \o Bytes(Len(sent) + 1, m)
        /\ UNCHANGED <<phase, head, body, done>>
    BY DEF ServerSend, client
  <1>3. PICK N \in Nat, L \in Nat, g \in Nat, T \in Nat \ {0} :
          N = Len(sent) /\ L = Len(wire) /\ g = Got /\ T = HeadLen + m.body
    BY <1>1, TypesFacts, MessageAssumption
  <1>4. PICK d \in Nat : d = done /\ d <= N
    BY <1>1, <1>3, TypesFacts
  <1> DEFINE B == [k \in 1..T |-> <<N + 1, k>>]
  <1>5. B \in Seq(Byte) /\ Len(B) = T /\ \A k \in 1..T : B[k] = <<N + 1, k>>
    <2>1. \A k \in 1..T : <<N + 1, k>> \in Byte
      BY DEF Byte
    <2>2. B \in [1..T -> Byte]
      BY <2>1
    <2> QED  BY <2>2
  <1>6. Bytes(Len(sent) + 1, m) = B
    BY <1>3 DEF Bytes
  <1> HIDE DEF B
  <1>7. wire \in Seq(Byte) /\ wire' = wire \o B
    BY <1>1, <1>2, <1>6 DEF Types
  <1>8. /\ wire' \in Seq(Byte) /\ Len(wire') = L + T
        /\ \A i \in 1..(L + T) : wire'[i] = IF i <= L THEN wire[i] ELSE B[i - L]
    <2>1. /\ wire \o B \in Seq(Byte) /\ Len(wire \o B) = Len(wire) + Len(B)
          /\ \A i \in 1..(Len(wire) + Len(B)) :
               (wire \o B)[i] = IF i <= Len(wire) THEN wire[i] ELSE B[i - Len(wire)]
      BY <1>5, <1>7, ConcatProperties
    <2> QED  BY <1>3, <1>5, <1>7, <2>1
  <1>9. /\ sent' \in Seq(Message) /\ Len(sent') = N + 1 /\ sent'[N + 1] = m
        /\ \A n \in 1..N : sent'[n] = sent[n]
    BY <1>1, <1>2, <1>3 DEF Types
  <1>10. done' \in 0..Len(sent')
    BY <1>2, <1>4, <1>9
  <1>11. Types'
    BY <1>1, <1>2, <1>8, <1>9, <1>10 DEF Types
  <1>12. Buffer'
    <2>1. d < N => sent'[d + 1] = sent[d + 1]
      BY <1>9
    <2>2. head # <<>> => d < N /\ Len(body) <= sent[d + 1].body
      BY <1>1, <1>3, <1>4 DEF Buffer
    <2>3. head # <<>> => d < N + 1 /\ Len(body) <= sent'[d + 1].body
      BY <2>1, <2>2
    <2> QED  BY <1>1, <1>2, <1>4, <1>9, <2>3 DEF Buffer, Framed
  <1>13. PICK pos \in [Nat -> Int] : Laid(pos)
    BY DEF InStep
  <1>14. /\ pos[d + 1] = 0 /\ pos[N + 1] = g + L
         /\ \A n \in (d + 1)..N : pos[n + 1] = pos[n] + Total(n) /\ pos[n + 1] <= g + L
         /\ \A n \in (d + 1)..N, i \in 1..L :
              pos[n] < g + i /\ g + i <= pos[n + 1] =>
                wire[i][1] = n /\ wire[i][2] + pos[n] = g + i
    <2>1. /\ pos[done + 1] = 0 /\ pos[Len(sent) + 1] = Got + Len(wire)
          /\ \A n \in (done + 1)..Len(sent) :
               pos[n + 1] = pos[n] + Total(n) /\ pos[n + 1] <= Got + Len(wire)
          /\ \A n \in (done + 1)..Len(sent), i \in 1..Len(wire) :
               pos[n] < Got + i /\ Got + i <= pos[n + 1] =>
                 wire[i][1] = n /\ wire[i][2] + pos[n] = Got + i
      BY <1>13 DEF Laid
    <2> QED  BY <1>3, <1>4, <2>1
  <1>15. PICK new \in [Nat -> Int] :
           new[N + 2] = g + L + T /\ \A n \in 0..(N + 1) : new[n] = pos[n]
    <2> DEFINE p == [n \in Nat |-> IF n = N + 2 THEN g + L + T ELSE pos[n]]
    <2>1. p \in [Nat -> Int] /\ p[N + 2] = g + L + T
      OBVIOUS
    <2>2. \A n \in 0..(N + 1) : p[n] = pos[n]
      OBVIOUS
    <2> HIDE DEF p
    <2> QED  BY <2>1, <2>2
  <1>16. \A n \in (d + 1)..(N + 1) : n \in (d + 1)..N \/ n = N + 1
    OBVIOUS
  <1>17. \A n \in (d + 1)..N : /\ n \in 0..(N + 1) /\ n + 1 \in 0..(N + 1)
                               /\ new[n] = pos[n] /\ new[n + 1] = pos[n + 1]
    BY <1>15
  <1>18. new[N + 1] = g + L /\ N + 1 + 1 = N + 2
    BY <1>14, <1>15
  <1>19. Total(N + 1)' = T /\ \A n \in (d + 1)..N : Total(n)' = Total(n)
    <2>1. \A n \in (d + 1)..N : sent'[n] = sent[n]
      BY <1>9
    <2> QED  BY <1>3, <1>9, <2>1 DEF Total
  <1>20. ASSUME NEW n \in (d + 1)..(N + 1)
         PROVE  new[n + 1] = new[n] + Total(n)' /\ new[n + 1] <= g + (L + T)
    <2>1. CASE n = N + 1
      BY <1>15, <1>18, <1>19, <2>1
    <2>2. CASE n \in (d + 1)..N
      <3>1. /\ new[n + 1] = pos[n + 1] /\ new[n] = pos[n] /\ pos[n + 1] \in Int
            /\ pos[n + 1] = pos[n] + Total(n) /\ pos[n + 1] <= g + L /\ Total(n)' = Total(n)
        BY <1>14, <1>17, <1>19, <2>2
      <3>2. pos[n + 1] <= g + (L + T)
        BY <3>1
      <3> QED  BY <3>1, <3>2
    <2> QED  BY <1>16, <2>1, <2>2
  <1>21. ASSUME NEW n \in (d + 1)..(N + 1), NEW i \in 1..(L + T),
                new[n] < g + i, g + i <= new[n + 1]
         PROVE  wire'[i][1] = n /\ wire'[i][2] + new[n] = g + i
    <2>1. CASE n = N + 1
      <3>1. ~(i <= L) /\ i - L \in 1..T
        BY <1>18, <1>21, <2>1
      <3>2. wire'[i] = <<N + 1, i - L>>
        BY <1>5, <1>8, <3>1
      <3>3. wire'[i][1] = N + 1 /\ wire'[i][2] = i - L
        BY <3>2
      <3>4. i - L + (g + L) = g + i
        OBVIOUS
      <3> QED  BY <1>18, <2>1, <3>3, <3>4
    <2>2. CASE n \in (d + 1)..N
      <3>1. /\ new[n + 1] = pos[n + 1] /\ new[n] = pos[n] /\ pos[n + 1] \in Int
            /\ pos[n + 1] <= g + L
        <4>1. n + 1 \in Nat
          OBVIOUS
        <4>2. pos[n + 1] \in Int
          BY <4>1
        <4> QED  BY <1>14, <1>17, <2>2, <4>2
      <3>2. i \in 1..L
        BY <1>21, <3>1
      <3>3. wire'[i] = wire[i]
        BY <1>8, <3>2
      <3> QED  BY <1>14, <1>21, <2>2, <3>1, <3>2, <3>3
    <2> QED  BY <1>16, <2>1, <2>2
  <1>22. Laid(new)'
    <2>1. Got' = g /\ Len(wire') = L + T /\ Len(sent') = N + 1 /\ done' = d
      BY <1>2, <1>3, <1>4, <1>8, <1>9 DEF Got
    <2>2. new[d + 1] = 0 /\ new[N + 1 + 1] = g + (L + T)
      <3>1. d + 1 \in 0..(N + 1)
        BY <1>4
      <3> QED  BY <1>14, <1>15, <1>18, <3>1
    <2>3. \A n \in (done' + 1)..Len(sent') :
            new[n + 1] = new[n] + Total(n)' /\ new[n + 1] <= Got' + Len(wire')
      BY <1>20, <2>1
    <2>4. \A n \in (done' + 1)..Len(sent'), i \in 1..Len(wire') :
            new[n] < Got' + i /\ Got' + i <= new[n + 1] =>
              wire'[i][1] = n /\ wire'[i][2] + new[n] = Got' + i
      BY <1>21, <2>1, SMTT(30)
    <2>5. new[done' + 1] = 0 /\ new[Len(sent') + 1] = Got' + Len(wire')
      BY <2>1, <2>2
    <2> QED  BY <2>3, <2>4, <2>5 DEF Laid
  <1> QED  BY <1>11, <1>12, <1>22 DEF InStep

-----------------------------------------------------------------------------
(* The order of the session. *)

\* A command that is sent changes nothing of what was checked for earlier ones.
LEMMA ServerSendChecked ==
  ASSUME SessionInv, NEW m \in Message, ServerSend(m)
  PROVE  Checked'
  <1>1. Types /\ Checked
    BY DEF SessionInv, InStep
  <1>2. /\ sent' = Append(sent, m) /\ Polite(m)
        /\ UNCHANGED <<phase, done, if_list, rt, inited, handled>>
    BY DEF ServerSend, client
  <1>3. /\ Len(sent) \in Nat /\ done \in 0..Len(sent) /\ Len(sent') = Len(sent) + 1
        /\ sent'[Len(sent) + 1] = m /\ \A n \in 1..Len(sent) : sent'[n] = sent[n]
        /\ DOMAIN sent = 1..Len(sent)
    BY <1>1, <1>2 DEF Types
  <1>4. HardwareKnown' <=> HardwareKnown
    <2>1. \A i \in 1..done : sent'[i] = sent[i]
      BY <1>3
    <2> QED  BY <1>2, <2>1 DEF HardwareKnown
  <1>5. ASSUME NEW j \in 1..Len(sent'), sent'[j].cmd = "packet"
        PROVE  \E i \in 1..(j - 1) : sent'[i].cmd = "hwinfo"
    <2>1. CASE j \in 1..Len(sent)
      <3>1. PICK i \in 1..(j - 1) : sent[i].cmd = "hwinfo"
        BY <1>1, <1>3, <1>5, <2>1 DEF Checked
      <3>2. sent'[i] = sent[i]
        BY <1>3, <2>1
      <3> QED  BY <3>1, <3>2
    <2>2. CASE j = Len(sent) + 1
      <3>1. m.cmd = "packet"
        BY <1>3, <1>5, <2>2
      <3>2. PICK i \in DOMAIN sent : sent[i].cmd = "hwinfo"
        BY <1>2, <3>1 DEF Polite, Announced
      <3>3. i \in 1..(j - 1) /\ sent'[i] = sent[i]
        BY <1>3, <2>2, <3>2
      <3> QED  BY <3>2, <3>3
    <2> QED  BY <1>3, <2>1, <2>2
  <1> QED  BY <1>1, <1>2, <1>4, <1>5 DEF Checked, Verified

\* The command that is carried out is the next one.
LEMMA ReadyNext ==
  ASSUME InStep, NEW m, Ready(m)
  PROVE  m = sent[done + 1] /\ done + 1 \in 1..Len(sent) /\ phase \in Reading
         /\ done \in Nat
BY LengthRead, TypesFacts DEF Ready, InStep

\* One more command is carried out: the end of the session, or on with it.  The
\* hardware information is accepted only after the handshake, and only when the
\* table fits.
LEMMA TakenChecked ==
  ASSUME SessionInv, NEW m, Ready(m), Taken, UNCHANGED <<sent, rt, inited>>,
         phase' = "exit" \/ Continue,
         \/ handled' = handled
         \/ m.cmd = "packet" /\ phase = "serve",
         \/ phase' = "exit"
         \/ m.cmd # "hwinfo" /\ if_list' = if_list
         \/ phase = "serve" /\ Verified(if_list', rt)
  PROVE  Checked'
  <1>1. /\ m = sent[done + 1] /\ done + 1 \in 1..Len(sent) /\ phase \in Reading
        /\ done \in Nat /\ done' = done + 1 /\ Checked
    BY ReadyNext DEF SessionInv, Taken
  <1>2. HardwareKnown => HardwareKnown'
    <2>1. \A i \in 1..done : i \in 1..(done + 1)
      BY <1>1
    <2> QED  BY <1>1, <2>1 DEF HardwareKnown
  <1>3. HardwareKnown' => HardwareKnown \/ m.cmd = "hwinfo"
    <2>1. \A i \in 1..(done + 1) : i \in 1..done \/ i = done + 1
      BY <1>1
    <2> QED  BY <1>1, <2>1 DEF HardwareKnown
  <1>4. handled' # {} => HardwareKnown' /\ inited'
    <2>1. CASE handled' = handled
      BY <1>1, <1>2, <2>1 DEF Checked
    <2>2. CASE m.cmd = "packet" /\ phase = "serve"
      <3>1. PICK i \in 1..(done + 1 - 1) : sent[i].cmd = "hwinfo"
        BY <1>1, <2>2 DEF Checked
      <3>2. i \in 1..done
        BY <1>1
      <3> QED  BY <1>1, <1>2, <2>2, <3>1, <3>2 DEF Checked, HardwareKnown
    <2> QED  BY <2>1, <2>2
  <1>5. phase' # "exit" => Continue
    OBVIOUS
  <1>6. Continue => (phase' = "serve" <=> phase = "serve")
    BY <1>1 DEF Continue, Reading, Handshake
  <1>7. phase' = "serve" => inited'
    BY <1>1, <1>5, <1>6 DEF Checked
  <1>8. HardwareKnown' /\ phase' # "exit" => phase' = "serve" /\ Verified(if_list, rt)'
    <2> SUFFICES ASSUME HardwareKnown', phase' # "exit"
                 PROVE  phase' = "serve" /\ Verified(if_list', rt)
      BY DEF Verified
    <2>1. CASE m.cmd # "hwinfo" /\ if_list' = if_list
      <3>1. HardwareKnown /\ phase # "exit"
        BY <1>1, <1>3, <2>1 DEF Reading, Handshake
      <3> QED  BY <1>1, <1>5, <1>6, <2>1, <3>1 DEF Checked
    <2>2. CASE phase = "serve" /\ Verified(if_list', rt)
      BY <1>5, <1>6, <2>2
    <2> QED  BY <2>1, <2>2
  <1>9. \A j \in 1..Len(sent') :
          sent'[j].cmd = "packet" => \E i \in 1..(j - 1) : sent'[i].cmd = "hwinfo"
    BY <1>1 DEF Checked
  <1> QED  BY <1>4, <1>7, <1>8, <1>9 DEF Checked

\* A step before the session serves, or one that ends it: it may load the table
\* and start the ARP cache, and no command is carried out in it.
LEMMA MainChecked ==
  ASSUME SessionInv, UNCHANGED <<sent, done, if_list, handled>>,
         \/ phase' = "exit" /\ (inited' = inited \/ phase \notin {"serve", "exit"})
         \/ /\ phase \notin {"serve", "exit"}
            /\ phase' # "serve" \/ inited'
         \/ UNCHANGED <<phase, rt, inited>>
  PROVE  Checked'
  <1>1. Checked /\ (HardwareKnown' <=> HardwareKnown)
    BY DEF SessionInv, HardwareKnown
  <1>2. \A j \in 1..Len(sent') :
          sent'[j].cmd = "packet" => \E i \in 1..(j - 1) : sent'[i].cmd = "hwinfo"
    BY <1>1 DEF Checked
  <1>3. phase \notin {"serve", "exit"} => ~HardwareKnown /\ handled = {}
    BY <1>1 DEF Checked
  <1>4. CASE phase' = "exit" /\ (inited' = inited \/ phase \notin {"serve", "exit"})
    BY <1>1, <1>2, <1>3, <1>4 DEF Checked
  <1>5. CASE phase \notin {"serve", "exit"} /\ (phase' # "serve" \/ inited')
    BY <1>1, <1>2, <1>3, <1>5 DEF Checked
  <1>6. CASE UNCHANGED <<phase, rt, inited>>
    BY <1>1, <1>2, <1>6 DEF Checked, Verified
  <1> QED  BY <1>4, <1>5, <1>6

-----------------------------------------------------------------------------
(* The actions. *)

\* After a command the process is in a phase of the session.
LEMMA ContinuePhase ==
  ASSUME phase \in Reading, Continue
  PROVE  phase' \in Phase
BY DEF Continue, Phase, Reading, Handshake

\* Before the handshake is over neither a frame nor the hardware information is
\* expected.
LEMMA ExpectedInServe ==
  ASSUME NEW m, phase \in Reading, Expected(m), m.cmd \in {"packet", "hwinfo"}
  PROVE  phase = "serve"
BY DEF Expected, Reading, Handshake

\* The server keeps the invariant.
LEMMA ServerKeeps ==
  ASSUME SessionInv, ServerStep
  PROVE  SessionInv'
  <1>1. CASE ServerClose
    <2>1. UNCHANGED <<sent, wire, phase, head, body, done, if_list, rt, inited, handled>>
      BY <1>1 DEF ServerClose, client
    <2>2. phase' \in Phase
      BY <2>1 DEF SessionInv, InStep, Types
    <2> QED  BY <2>1, <2>2, QuietInStep, MainChecked DEF SessionInv
  <1>2. CASE \E m \in Message : ServerSend(m)
    BY <1>2, ServerSendInStep, ServerSendChecked DEF SessionInv
  <1> QED  BY <1>1, <1>2 DEF ServerStep

\* Reading keeps the invariant.
LEMMA ReadKeeps ==
  ASSUME SessionInv, ReadHead \/ ReadBody
  PROVE  SessionInv'
  <1>1. InStep'
    BY ReadHeadInStep, ReadBodyInStep DEF SessionInv
  <1>2. UNCHANGED <<sent, done, phase, if_list, rt, inited, handled>>
    BY DEF ReadHead, ReadBody
  <1> QED  BY <1>1, <1>2, MainChecked DEF SessionInv

\* Everything main does before, after and between the commands.
LEMMA MainKeeps ==
  ASSUME SessionInv,
         \/ Start \/ Connect \/ SendOpen \/ Boot \/ TooLong \/ ReadFails
         \/ Spin \/ Exited \/ UNCHANGED vars
  PROVE  SessionInv'
  <1>0. phase \in Phase
    BY DEF SessionInv, InStep, Types
  <1>1. UNCHANGED <<sent, wire, head, body, done, if_list, handled>>
    BY DEF Start, Connect, SendOpen, Boot, TooLong, ReadFails, Spin, Exited, vars
  <1>2. CASE Start
    <2>1. phase = "start" /\ phase' \in {"connect", "exit"} /\ inited' = inited
      BY <1>2 DEF Start, LoadRt
    <2> QED  BY <1>1, <2>1, QuietInStep, MainChecked DEF SessionInv, Phase
  <1>3. CASE Connect \/ SendOpen
    <2>1. /\ phase \in {"connect", "open"} /\ inited' = inited
          /\ phase' \in {"auth_request", "rtable", "boot", "exit"}
      BY <1>3 DEF Connect, SendOpen
    <2> QED  BY <1>1, <2>1, QuietInStep, MainChecked
             DEF SessionInv, Phase, Reading, Handshake
  <1>4. CASE Boot
    <2>1. /\ phase = "boot" /\ phase' \in {"serve", "exit"}
          /\ phase' = "serve" => inited'
      BY <1>4 DEF Boot, LoadRt
    <2> QED  BY <1>1, <2>1, QuietInStep, MainChecked
             DEF SessionInv, Phase, Reading
  <1>5. CASE TooLong \/ ReadFails
    <2>1. phase' = "exit" /\ inited' = inited
      BY <1>5 DEF TooLong, ReadFails, Stop
    <2> QED  BY <1>1, <2>1, QuietInStep, MainChecked DEF SessionInv, Phase
  <1>6. CASE Spin \/ Exited \/ UNCHANGED vars
    <2>1. UNCHANGED <<phase, rt, inited>>
      BY <1>6 DEF Spin, Exited, vars
    <2> QED  BY <1>0, <1>1, <2>1, QuietInStep, MainChecked DEF SessionInv
  <1> QED  BY <1>2, <1>3, <1>4, <1>5, <1>6

\* A command that neither hands a frame over nor tells of the hardware.
LEMMA PlainKeeps ==
  ASSUME SessionInv,
         Refuse \/ HandleOther \/ HandleAuthRequest \/ HandleAuthStatus \/ HandleRtable
  PROVE  SessionInv'
  <1>1. Taken /\ UNCHANGED <<sent, wire, if_list, rt, inited, handled>>
    BY DEF Refuse, HandleOther, HandleAuthRequest, HandleAuthStatus, HandleRtable
  <1>2. PICK m : Ready(m) /\ (phase' = "exit" \/ (Continue /\ m.cmd # "hwinfo"))
    <2>1. CASE Refuse
      BY <2>1 DEF Refuse, Stop
    <2>2. CASE HandleOther
      BY <2>2 DEF HandleOther
    <2>3. CASE HandleAuthRequest
      BY <2>3 DEF HandleAuthRequest, Stop
    <2>4. CASE HandleAuthStatus
      BY <2>4 DEF HandleAuthStatus, Stop
    <2>5. CASE HandleRtable
      BY <2>5 DEF HandleRtable, Stop
    <2> QED  BY <2>1, <2>2, <2>3, <2>4, <2>5
  <1>3. phase' \in Phase
    BY <1>2, ContinuePhase DEF Ready, Phase
  <1>4. InStep'
    BY <1>1, <1>2, <1>3, TakenInStep DEF SessionInv
  <1>5. Checked'
    BY <1>1, <1>2, TakenChecked
  <1> QED  BY <1>4, <1>5 DEF SessionInv

\* The hardware information keeps the invariant: the table is verified against
\* the interfaces before the process goes on.
LEMMA HandleHwinfoKeeps ==
  ASSUME SessionInv, HandleHwinfo
  PROVE  SessionInv'
  <1>1. Taken /\ UNCHANGED <<sent, wire, rt, inited, handled>>
    BY DEF HandleHwinfo
  <1>2. PICK m \in Message :
          /\ Ready(m) /\ Expected(m) /\ m.cmd = "hwinfo"
          /\ phase' = "exit" \/ (Continue /\ Verified(if_list', rt))
    BY DEF HandleHwinfo, Stop
  <1>3. phase \in Reading /\ phase = "serve"
    BY <1>2, ExpectedInServe DEF Ready
  <1>4. phase' \in Phase
    BY <1>2, <1>3, ContinuePhase DEF Phase
  <1>5. InStep'
    BY <1>1, <1>2, <1>4, TakenInStep DEF SessionInv
  <1>6. Checked'
    BY <1>1, <1>2, <1>3, TakenChecked
  <1> QED  BY <1>5, <1>6 DEF SessionInv

\* A frame keeps the invariant: it is handled only when the handshake is over.
LEMMA HandlePacketKeeps ==
  ASSUME SessionInv, HandlePacket
  PROVE  SessionInv'
  <1>1. Taken /\ UNCHANGED <<sent, wire, if_list, rt, inited>>
    BY DEF HandlePacket
  <1>2. PICK m \in Message :
          /\ Ready(m) /\ Expected(m) /\ m.cmd = "packet"
          /\ phase' = "exit" \/ Continue
    BY DEF HandlePacket
  <1>3. phase \in Reading /\ phase = "serve"
    BY <1>2, ExpectedInServe DEF Ready
  <1>4. phase' \in Phase
    BY <1>2, <1>3, ContinuePhase DEF Phase
  <1>5. InStep'
    BY <1>1, <1>2, <1>4, TakenInStep DEF SessionInv
  <1>6. Checked'
    BY <1>1, <1>2, <1>3, TakenChecked
  <1> QED  BY <1>5, <1>6 DEF SessionInv

-----------------------------------------------------------------------------
(* The theorems. *)

\* The invariant holds when the process starts.
LEMMA InitSession == Init => SessionInv
  <1> SUFFICES ASSUME Init PROVE SessionInv
    OBVIOUS
  <1>1. Types /\ Got = 0 /\ Len(wire) = 0 /\ Len(sent) = 0 /\ done = 0
    BY DEF Init, Types, Got, Phase
  <1>2. Buffer
    BY DEF Init, Buffer, Framed
  <1>3. Laid([n \in Nat |-> 0])
    BY <1>1 DEF Laid
  <1>4. [n \in Nat |-> 0] \in [Nat -> Int]
    OBVIOUS
  <1>5. InStep
    BY <1>1, <1>2, <1>3, <1>4 DEF InStep
  <1>6. Checked
    BY <1>1 DEF Init, Checked, HardwareKnown
  <1> QED  BY <1>5, <1>6 DEF SessionInv

\* The buffer and the stream stay in step, and the handshake is kept, whatever
\* the server sends and whenever it does.
THEOREM SessionInvHolds == Spec => []SessionInv
  <1>1. SessionInv /\ [Next]_vars => SessionInv'
    <2> SUFFICES ASSUME SessionInv, [Next]_vars PROVE SessionInv'
      OBVIOUS
    <2>1. CASE ServerStep
      BY <2>1, ServerKeeps
    <2>2. CASE ReadHead \/ ReadBody
      BY <2>2, ReadKeeps
    <2>3. CASE \/ Start \/ Connect \/ SendOpen \/ Boot \/ TooLong \/ ReadFails
               \/ Spin \/ Exited \/ UNCHANGED vars
      BY <2>3, MainKeeps
    <2>4. CASE \/ Refuse \/ HandleOther \/ HandleAuthRequest \/ HandleAuthStatus
               \/ HandleRtable
      BY <2>4, PlainKeeps
    <2>5. CASE HandleHwinfo
      BY <2>5, HandleHwinfoKeeps
    <2>6. CASE HandlePacket
      BY <2>6, HandlePacketKeeps
    <2> QED  BY <2>1, <2>2, <2>3, <2>4, <2>5, <2>6 DEF Next, ClientStep
  <1> QED  BY <1>1, InitSession, PTL DEF Spec

\* However recv and read split the stream, len and buf hold the beginning of the
\* next command of the server and nothing else.
THEOREM FramesStayFramed == Spec => []Framed
  <1>1. SessionInv => Framed
    BY DEF SessionInv, InStep, Buffer
  <1> QED  BY <1>1, SessionInvHolds, PTL

\* No frame is handled before sr_init has run.
THEOREM InitComesFirst == Spec => []HandledAfterInit
  <1>1. SessionInv => HandledAfterInit
    BY DEF SessionInv, Checked, HandledAfterInit
  <1> QED  BY <1>1, SessionInvHolds, PTL

\* While frames are handled every route names an interface that exists.
THEOREM RoutesStayUsable == Spec => []RoutesUsable
  <1>1. SessionInv => RoutesUsable
    BY DEF SessionInv, Checked, RoutesUsable, Verified, Known
  <1> QED  BY <1>1, SessionInvHolds, PTL

-----------------------------------------------------------------------------
(* Induction over the entries of VNSHWINFO. *)

\* Every non-empty set of numbers has a least one.
LEMMA LeastNumber ==
  ASSUME NEW T, T \subseteq Nat, T # {}
  PROVE  \E m \in T : \A k \in T : m <= k
  <1>1. IsWellFoundedOn(OpToRel(<, Nat), Nat)
    BY NatLessThanWellFounded, Zenon
  <1>2. PICK m \in T : \A k \in T : ~(<<k, m>> \in OpToRel(<, Nat))
    BY <1>1, WFMin, Zenon
  <1>3. \A k \in T : ~(k < m)
    <2> TAKE k \in T
    <2>1. k \in Nat /\ m \in Nat
      OBVIOUS
    <2> QED  BY <1>2, <2>1 DEF OpToRel
  <1> QED  BY <1>3

\* A set with 0 that has the successor of each of its numbers up to N has them all.
LEMMA UpTo ==
  ASSUME NEW N \in Nat, NEW S, 0 \in S, \A n \in 1..N : n - 1 \in S => n \in S
  PROVE  \A n \in 0..N : n \in S
  <1> SUFFICES ASSUME NEW x \in 0..N, x \notin S PROVE FALSE
    OBVIOUS
  <1> DEFINE T == {n \in 0..N : n \notin S}
  <1>1. PICK m \in T : \A k \in T : m <= k
    <2>1. T \subseteq Nat /\ x \in T
      OBVIOUS
    <2> HIDE DEF T
    <2> QED  BY <2>1, LeastNumber
  <1>2. m \in 1..N /\ m \notin S
    OBVIOUS
  <1>3. m - 1 \in 0..N /\ ~(m <= m - 1)
    BY <1>2
  <1>4. m - 1 \in S
    BY <1>1, <1>3
  <1> QED  BY <1>2, <1>4

\* Replacing the last element, if there is one.
LEMMA LastReplaced ==
  ASSUME NEW S, NEW s \in Seq(S), NEW x, s # <<>> => x \in S
  PROVE  /\ [s EXCEPT ![Len(s)] = x] \in Seq(S)
         /\ DOMAIN [s EXCEPT ![Len(s)] = x] = DOMAIN s
         /\ Len([s EXCEPT ![Len(s)] = x]) = Len(s)
         /\ \A i \in DOMAIN s :
              [s EXCEPT ![Len(s)] = x][i] = IF i = Len(s) THEN x ELSE s[i]
  <1>1. CASE s = <<>>
    <2>1. [s EXCEPT ![Len(s)] = x] = s
      BY <1>1
    <2> QED  BY <1>1, <2>1
  <1>2. CASE s # <<>>
    <2>1. Len(s) \in DOMAIN s /\ x \in S
      BY <1>2
    <2>2. [s EXCEPT ![Len(s)] = x] \in Seq(S)
      BY <2>1
    <2> QED  BY <2>1, <2>2
  <1> QED  BY <1>1, <1>2

\* Appending leaves the elements where they are.
LEMMA Appended ==
  ASSUME NEW S, NEW s \in Seq(S), NEW x \in S, NEW w, w = Append(s, x)
  PROVE  /\ Len(w) = Len(s) + 1 /\ w # <<>> /\ w[Len(w)] = x
         /\ \A i \in DOMAIN w : i = Len(w) \/ (i \in DOMAIN s /\ w[i] = s[i])
  <1>1. /\ Len(w) = Len(s) + 1 /\ DOMAIN w = 1..(Len(s) + 1)
        /\ \A i \in DOMAIN s : w[i] = s[i]
        /\ w[Len(s) + 1] = x
    OBVIOUS
  <1>2. Len(s) \in Nat /\ DOMAIN s = 1..Len(s)
    OBVIOUS
  <1>3. w # <<>>
    BY <1>1, <1>2
  <1> QED  BY <1>1, <1>2, <1>3

\* What an entry does to a list of interfaces: a new one at the end, or an address
\* of the last one.
LEMMA EntryApplied ==
  ASSUME NEW list \in Seq(Interface), NEW e \in HwEntry
  PROVE  /\ ApplyEntry(list, e) \in Seq(Interface)
         /\ e.key = "interface" =>
              ApplyEntry(list, e) =
                Append(list, [name |-> e.val, ip |-> Unset, addr |-> Unset])
         /\ e.key = "ethip" =>
              ApplyEntry(list, e) = [list EXCEPT ![Len(list)] = [@ EXCEPT !.ip = e.val]]
         /\ e.key = "ether" =>
              ApplyEntry(list, e) = [list EXCEPT ![Len(list)] = [@ EXCEPT !.addr = e.val]]
         /\ e.key = "speed" => ApplyEntry(list, e) = list
  <1>1. /\ e.key \in {"interface", "ethip", "ether", "speed"}
        /\ e.key = "interface" => e.val \in Name
        /\ e.key # "interface" => e.val \in Value
    BY DEF HwEntry
  <1>2. CASE e.key = "interface"
    <2>1. [name |-> e.val, ip |-> Unset, addr |-> Unset] \in Interface
      BY <1>1, <1>2 DEF Interface
    <2> QED  BY <1>2, <2>1 DEF ApplyEntry
  <1>3. CASE e.key = "ethip"
    <2>1. ApplyEntry(list, e) = [list EXCEPT ![Len(list)] = [@ EXCEPT !.ip = e.val]]
      BY <1>3 DEF ApplyEntry, SetLast
    <2>2. ASSUME NEW f \in Interface, NEW v \in Value
          PROVE  [f EXCEPT !.ip = v] \in Interface
      BY DEF Interface
    <2>3. \A i \in DOMAIN list : [list[i] EXCEPT !.ip = e.val] \in Interface
      BY <1>1, <1>3, <2>2
    <2>4. [list EXCEPT ![Len(list)] = [@ EXCEPT !.ip = e.val]] \in Seq(Interface)
      BY <2>3, LastReplaced
    <2> QED  BY <1>3, <2>1, <2>4
  <1>4. CASE e.key = "ether"
    <2>1. ApplyEntry(list, e) = [list EXCEPT ![Len(list)] = [@ EXCEPT !.addr = e.val]]
      BY <1>4 DEF ApplyEntry, SetLast
    <2>2. ASSUME NEW f \in Interface, NEW v \in Value
          PROVE  [f EXCEPT !.addr = v] \in Interface
      BY DEF Interface
    <2>3. \A i \in DOMAIN list : [list[i] EXCEPT !.addr = e.val] \in Interface
      BY <1>1, <1>4, <2>2
    <2>4. [list EXCEPT ![Len(list)] = [@ EXCEPT !.addr = e.val]] \in Seq(Interface)
      BY <2>3, LastReplaced
    <2> QED  BY <1>4, <2>1, <2>4
  <1>5. CASE e.key = "speed"
    BY <1>5 DEF ApplyEntry
  <1> QED  BY <1>1, <1>2, <1>3, <1>4, <1>5

\* The list before the first entry and after each of them.
Lists(after, list, entries) ==
  /\ after \in [0..Len(entries) -> Seq(Interface)]
  /\ after[0] = list
  /\ \A n \in 1..Len(entries) : after[n] = ApplyEntry(after[n - 1], entries[n])

\* The loop computes the list after the last entry.
LEMMA AppliedLists ==
  ASSUME NEW list \in Seq(Interface), NEW entries \in Seq(HwEntry)
  PROVE  \E after : /\ Lists(after, list, entries)
                    /\ Applied(list, entries) = after[Len(entries)]
  <1> DEFINE N == Len(entries)
             Body(f) == [n \in 0..N |-> IF n = 0 THEN list
                                        ELSE ApplyEntry(f[n - 1], entries[n])]
             Starts(f, k) == /\ f \in [0..k -> Seq(Interface)] /\ f[0] = list
                             /\ \A n \in 1..k : f[n] = ApplyEntry(f[n - 1], entries[n])
             S == {k \in 0..N : \E f : Starts(f, k)}
  <1>0. N \in Nat /\ \A n \in 1..N : entries[n] \in HwEntry
    OBVIOUS
  <1>1. 0 \in S
    <2>1. Starts([n \in 0..0 |-> list], 0)
      OBVIOUS
    <2>2. 0 \in 0..N
      BY <1>0
    <2> HIDE DEF Starts
    <2> QED  BY <2>1, <2>2
  <1>2. ASSUME NEW n \in 1..N, n - 1 \in S
        PROVE  n \in S
    <2>1. PICK f : Starts(f, n - 1)
      BY <1>2
    <2> DEFINE g == [k \in 0..n |-> IF k = n THEN ApplyEntry(f[n - 1], entries[n])
                                    ELSE f[k]]
    <2>2. n \in Nat /\ n - 1 \in 0..(n - 1) /\ f[n - 1] \in Seq(Interface)
      BY <1>0, <2>1
    <2>3. ApplyEntry(f[n - 1], entries[n]) \in Seq(Interface)
      BY <1>0, <2>2, EntryApplied
    <2>4. \A k \in 0..n : k # n => k \in 0..(n - 1)
      BY <2>2
    <2>5. g \in [0..n -> Seq(Interface)] /\ g[0] = list
      BY <2>1, <2>2, <2>3, <2>4
    <2>6. \A k \in 1..n : g[k] = ApplyEntry(g[k - 1], entries[k])
      <3> TAKE k \in 1..n
      <3>1. k - 1 \in 0..n /\ k - 1 # n /\ g[k - 1] = f[k - 1]
        BY <2>2
      <3>2. CASE k = n
        BY <3>1, <3>2, <2>2
      <3>3. CASE k # n
        <4>1. k \in 1..(n - 1) /\ k \in 0..n
          BY <2>2, <3>3
        <4> QED  BY <2>1, <3>1, <3>3, <4>1
      <3> QED  BY <3>2, <3>3
    <2>7. Starts(g, n)
      BY <2>5, <2>6
    <2>8. n \in 0..N
      BY <1>0
    <2> HIDE DEF Starts, g
    <2> QED  BY <2>7, <2>8
  <1>3. N \in S
    <2> HIDE DEF S, N
    <2>1. \A n \in 1..N : n - 1 \in S => n \in S
      BY <1>2
    <2>2. \A n \in 0..N : n \in S
      BY <1>0, <1>1, <2>1, UpTo
    <2> QED  BY <1>0, <2>2
  <1>4. PICK f : Starts(f, N)
    BY <1>3
  <1>5. f = Body(f)
    BY <1>0, <1>4
  <1>6. PICK g : g = Body(g) /\ Applied(list, entries) = g[N]
    BY <1>5, Zenon DEF Applied
  <1>7. g[0] = list /\ \A n \in 1..N : g[n] = ApplyEntry(g[n - 1], entries[n])
    BY <1>0, <1>6
  <1>8. g \in [0..N -> Seq(Interface)]
    <2> DEFINE T == {n \in 0..N : g[n] \in Seq(Interface)}
    <2>1. 0 \in T
      BY <1>0, <1>7
    <2>2. ASSUME NEW n \in 1..N, n - 1 \in T
          PROVE  n \in T
      <3>1. g[n - 1] \in Seq(Interface) /\ entries[n] \in HwEntry /\ n \in 0..N
        BY <1>0, <2>2
      <3>2. g[n] = ApplyEntry(g[n - 1], entries[n])
        BY <1>7
      <3>3. g[n] \in Seq(Interface)
        BY <3>1, <3>2, EntryApplied
      <3> QED  BY <3>1, <3>3
    <2>3. \A n \in 0..N : n \in T
      <3> HIDE DEF T, N
      <3> QED  BY <1>0, <2>1, <2>2, UpTo
    <2>4. DOMAIN g = 0..N /\ g = [n \in 0..N |-> g[n]]
      BY <1>6
    <2> QED  BY <2>3, <2>4
  <1> QED  BY <1>6, <1>7, <1>8 DEF Lists

-----------------------------------------------------------------------------
(* The interfaces. *)

\* The value v was given under this key for the interface name, by entry n or one
\* before it.
Given(entries, n, key, v, name) ==
  \E j \in 1..n : /\ entries[j] = [key |-> key, val |-> v]
                  /\ BelongsTo(entries, j, name)

\* The list after n entries has only addresses that were given for its
\* interfaces, and its last interface is the one that was named last.
Own(list, entries, n) ==
  /\ \A i \in DOMAIN list :
       /\ list[i].ip # Unset => Given(entries, n, "ethip", list[i].ip, list[i].name)
       /\ list[i].addr # Unset => Given(entries, n, "ether", list[i].addr, list[i].name)
  /\ list # <<>> => BelongsTo(entries, n + 1, list[Len(list)].name)
  /\ list = <<>> => \A k \in 1..n : entries[k].key # "interface"

\* What was given stays given.
LEMMA GivenBefore ==
  ASSUME NEW entries, NEW n \in Nat \ {0}, NEW key, NEW v, NEW name,
         Given(entries, n - 1, key, v, name)
  PROVE  Given(entries, n, key, v, name)
  <1>1. PICK j \in 1..(n - 1) : /\ entries[j] = [key |-> key, val |-> v]
                                /\ BelongsTo(entries, j, name)
    BY DEF Given
  <1>2. j \in 1..n
    OBVIOUS
  <1> QED  BY <1>1, <1>2 DEF Given

\* The interface that was named last stays so until another one is named.
LEMMA NamedBefore ==
  ASSUME NEW entries, NEW n \in Nat \ {0}, NEW name, BelongsTo(entries, n, name),
         entries[n].key # "interface"
  PROVE  BelongsTo(entries, n + 1, name)
  <1>1. PICK i \in 1..(n - 1) :
          /\ entries[i] = [key |-> "interface", val |-> name]
          /\ \A k \in (i + 1)..(n - 1) : entries[k].key # "interface"
    BY DEF BelongsTo
  <1>2. i \in 1..(n + 1 - 1) /\ \A k \in (i + 1)..(n + 1 - 1) :
                                   k = n \/ k \in (i + 1)..(n - 1)
    OBVIOUS
  <1>3. \A k \in (i + 1)..(n + 1 - 1) : entries[k].key # "interface"
    BY <1>1, <1>2
  <1> QED  BY <1>1, <1>2, <1>3 DEF BelongsTo

\* An entry of the hardware information keeps what belongs together: an address
\* goes to the interface that was named last before it.
LEMMA EntryOwn ==
  ASSUME NEW list \in Seq(Interface), NEW entries \in Seq(HwEntry),
         NEW n \in 1..Len(entries), Own(list, entries, n - 1),
         ~Orphan(<<>>, entries)
  PROVE  Own(ApplyEntry(list, entries[n]), entries, n)
  <1>1. PICK e \in HwEntry : e = entries[n]
    OBVIOUS
  <1>2. /\ e.key \in {"interface", "ethip", "ether", "speed"}
        /\ e = [key |-> e.key, val |-> e.val]
    BY DEF HwEntry
  <1>3. /\ n \in Nat \ {0} /\ n \in 1..n /\ n - 1 + 1 = n
        /\ \A k \in 1..n : k # n => k \in 1..(n - 1)
    OBVIOUS
  <1>4. \A i \in DOMAIN list :
          /\ list[i].ip # Unset => Given(entries, n, "ethip", list[i].ip, list[i].name)
          /\ list[i].addr # Unset =>
               Given(entries, n, "ether", list[i].addr, list[i].name)
    BY <1>3, GivenBefore DEF Own
  <1>5. list # <<>> => BelongsTo(entries, n, list[Len(list)].name)
    BY <1>3 DEF Own
  <1>6. list # <<>> => Len(list) \in DOMAIN list
    OBVIOUS
  <1>7. CASE e.key = "interface"
    <2>1. PICK f : f = [name |-> e.val, ip |-> Unset, addr |-> Unset]
      OBVIOUS
    <2>2. PICK l : l = Append(list, f) /\ l = ApplyEntry(list, e)
      BY <1>7, <2>1, EntryApplied
    <2>3. /\ Len(l) = Len(list) + 1 /\ l # <<>> /\ l[Len(l)] = f
          /\ \A i \in DOMAIN l : i = Len(l) \/ (i \in DOMAIN list /\ l[i] = list[i])
      <3>1. f \in Interface
        BY <1>1, <1>7, <2>1 DEF HwEntry, Interface
      <3>2. l = Append(list, f)
        BY <2>2
      <3> QED  BY <3>1, <3>2, Appended
    <2>4. BelongsTo(entries, n + 1, f.name)
      <3>1. n \in 1..(n + 1 - 1) /\ \A k \in (n + 1)..(n + 1 - 1) : FALSE
        BY <1>3
      <3>2. entries[n] = [key |-> "interface", val |-> f.name]
        BY <1>1, <1>2, <1>7, <2>1
      <3> QED  BY <3>1, <3>2 DEF BelongsTo
    <2>5. f.ip = Unset /\ f.addr = Unset
      BY <2>1
    <2> QED  BY <1>1, <1>4, <2>2, <2>3, <2>4, <2>5 DEF Own
  <1>8. CASE e.key \in {"ethip", "ether"}
    <2>1. list # <<>>
      <3>1. n \in DOMAIN entries /\ \A j \in 1..(n - 1) : j \in 1..(n - 1)
        OBVIOUS
      <3>2. list = <<>> => Orphan(<<>>, entries)
        BY <1>1, <1>8, <3>1 DEF Orphan, Own
      <3> QED  BY <3>2
    <2>2. PICK name : name = list[Len(list)].name
      OBVIOUS
    <2>3. BelongsTo(entries, n, name) /\ BelongsTo(entries, n + 1, name)
      BY <1>1, <1>3, <1>5, <1>8, <2>1, <2>2, NamedBefore
    <2>4. Given(entries, n, e.key, e.val, name)
      BY <1>1, <1>2, <1>3, <2>3 DEF Given
    <2>5. list[Len(list)] \in Interface
      BY <1>6, <2>1
    <2>6. PICK f \in Interface :
            /\ f = IF e.key = "ethip" THEN [list[Len(list)] EXCEPT !.ip = e.val]
                   ELSE [list[Len(list)] EXCEPT !.addr = e.val]
      BY <1>8, <2>5 DEF HwEntry, Interface
    <2>7. /\ f.name = name
          /\ f.ip = IF e.key = "ethip" THEN e.val ELSE list[Len(list)].ip
          /\ f.addr = IF e.key = "ethip" THEN list[Len(list)].addr ELSE e.val
      BY <2>2, <2>5, <2>6 DEF Interface
    <2>8. PICK l : l = [list EXCEPT ![Len(list)] = f] /\ l = ApplyEntry(list, e)
      BY <1>8, <2>6, EntryApplied
    <2>9. /\ Len(l) = Len(list) /\ DOMAIN l = DOMAIN list /\ l # <<>>
          /\ \A i \in DOMAIN l : l[i] = IF i = Len(list) THEN f ELSE list[i]
      BY <2>1, <2>8, LastReplaced
    <2>10. ASSUME NEW i \in DOMAIN l
           PROVE  /\ l[i].ip # Unset =>
                       Given(entries, n, "ethip", l[i].ip, l[i].name)
                  /\ l[i].addr # Unset =>
                       Given(entries, n, "ether", l[i].addr, l[i].name)
      <3>1. CASE i # Len(list)
        BY <1>4, <2>9, <3>1
      <3>2. CASE i = Len(list)
        BY <1>4, <1>8, <2>2, <2>4, <2>7, <2>9, <3>2
      <3> QED  BY <3>1, <3>2
    <2>11. BelongsTo(entries, n + 1, l[Len(l)].name)
      BY <1>6, <2>1, <2>3, <2>7, <2>9
    <2> QED  BY <1>1, <2>8, <2>9, <2>10, <2>11 DEF Own
  <1>9. CASE e.key = "speed"
    <2>1. ApplyEntry(list, e) = list
      BY <1>9, EntryApplied
    <2>2. list # <<>> => BelongsTo(entries, n + 1, list[Len(list)].name)
      BY <1>1, <1>3, <1>5, <1>9, NamedBefore
    <2>3. list = <<>> => \A k \in 1..n : entries[k].key # "interface"
      BY <1>1, <1>3, <1>9 DEF Own
    <2> QED  BY <1>1, <1>4, <2>1, <2>2, <2>3 DEF Own
  <1> QED  BY <1>2, <1>7, <1>8, <1>9

\* So the loop over all entries ends with a list of interfaces that has its own
\* addresses only.
LEMMA AppliedOwn ==
  ASSUME NEW entries \in Seq(HwEntry), ~Orphan(<<>>, entries)
  PROVE  Own(Applied(<<>>, entries), entries, Len(entries))
  <1>1. PICK after : /\ Lists(after, <<>>, entries)
                     /\ Applied(<<>>, entries) = after[Len(entries)]
    <2>1. <<>> \in Seq(Interface)
      OBVIOUS
    <2> QED  BY <2>1, AppliedLists, Zenon
  <1> DEFINE N == Len(entries)
             S == {n \in 0..N : Own(after[n], entries, n)}
  <1>2. N \in Nat
    OBVIOUS
  <1>3. 0 \in S
    <2>1. Own(<<>>, entries, 0)
      BY DEF Own
    <2> QED  BY <1>1, <1>2, <2>1 DEF Lists
  <1>4. ASSUME NEW n \in 1..N, n - 1 \in S
        PROVE  n \in S
    <2>1. /\ after[n - 1] \in Seq(Interface) /\ Own(after[n - 1], entries, n - 1)
          /\ after[n] = ApplyEntry(after[n - 1], entries[n])
      BY <1>1, <1>2, <1>4 DEF Lists
    <2>2. Own(after[n], entries, n)
      BY <2>1, EntryOwn
    <2>3. n \in 0..N
      BY <1>2
    <2> QED  BY <2>2, <2>3
  <1>5. N \in S
    <2> HIDE DEF S, N
    <2>1. \A n \in 1..N : n - 1 \in S => n \in S
      BY <1>4
    <2>2. \A n \in 0..N : n \in S
      BY <1>2, <1>3, <2>1, UpTo
    <2> QED  BY <1>2, <2>2
  <1> QED  BY <1>1, <1>5

\* The rest of TypeOK.
Contents ==
  /\ opt \in [template : BOOLEAN, rtable : FileName] /\ closed \in BOOLEAN
  /\ status \in {"running", "0", "1", "abort"}
  /\ if_list \in Seq(Interface) /\ rt \in Seq(Name)
  /\ files \in [FileName -> Table \cup {NoFile}]
  /\ inited \in BOOLEAN /\ handled \subseteq 1..Len(sent)

\* The hardware is announced once, and there is no interface before that.
AnnouncedOnce ==
  /\ \A i, j \in 1..Len(sent) :
       sent[i].cmd = "hwinfo" /\ sent[j].cmd = "hwinfo" => i = j
  /\ if_list # <<>> => HardwareKnown

\* TypeOK in its two parts.
LEMMA TypeParts == TypeOK <=> Types /\ Contents
  BY DEF TypeOK, Types, Contents, Byte

\* The table that sr_load_rt leaves: every line of the file converts.
LEMMA LoadedTable ==
  ASSUME Contents, NEW f \in FileName, Loadable(f)
  PROVE  Loaded(f) \in Seq(Name)
  <1>1. files[f] \in Seq(Name \cup {BadLine})
    BY DEF Contents, Loadable, Table
  <1>2. PICK t \in Seq(Name \cup {BadLine}) : t = files[f]
    BY <1>1
  <1>3. \A i \in 1..Len(t) : t[i] \in Name
    BY <1>2 DEF Loadable
  <1>4. t \in Seq(Name)
    BY <1>3
  <1> QED  BY <1>2, <1>4 DEF Loaded, Contents

\* Loading the table keeps its type.
LEMMA LoadRtTypes ==
  ASSUME Contents, NEW next, LoadRt(opt.rtable, next)
  PROVE  rt' \in Seq(Name) /\ status' \in {"running", "0", "1", "abort"}
  <1>1. opt.rtable \in FileName
    BY DEF Contents
  <1> QED  BY <1>1, LoadedTable DEF LoadRt, Contents

\* The command that is carried out has the fields of its kind.
LEMMA ReadyMessage ==
  ASSUME InStep, NEW m \in Message, Ready(m)
  PROVE  /\ m = sent[done + 1] /\ done + 1 \in 1..Len(sent) /\ done \in Nat
         /\ m.cmd = "rtable" => m.table \in Table
         /\ m.cmd = "hwinfo" => m.entries \in Seq(HwEntry)
  <1>1. m = sent[done + 1] /\ done + 1 \in 1..Len(sent) /\ done \in Nat
    BY ReadyNext
  <1> QED  BY <1>1, MessageAssumption

\* Every step keeps the contents of the variables.
LEMMA NextContents ==
  ASSUME SessionInv, Contents, [Next]_vars
  PROVE  Contents'
  <1>0. InStep /\ Len(sent) \in Nat /\ sent \in Seq(Message)
    BY TypesFacts DEF SessionInv, InStep, Types
  <1>1. CASE ServerStep
    <2>1. CASE ServerClose
      BY <2>1 DEF ServerClose, client, Contents
    <2>2. ASSUME NEW m \in Message, ServerSend(m)
          PROVE  Contents'
      <3>1. Len(sent') = Len(sent) + 1
        BY <1>0, <2>2 DEF ServerSend
      <3>2. handled' \subseteq 1..Len(sent')
        BY <1>0, <2>2, <3>1 DEF ServerSend, client, Contents
      <3> QED  BY <2>2, <3>2 DEF ServerSend, client, Contents
    <2> QED  BY <1>1, <2>1, <2>2 DEF ServerStep
  <1>2. CASE \/ ReadHead \/ ReadBody \/ Connect \/ SendOpen \/ TooLong \/ ReadFails
             \/ Spin \/ Exited \/ UNCHANGED vars
    BY <1>2 DEF ReadHead, ReadBody, Connect, SendOpen, TooLong, ReadFails, Spin,
       Exited, Stop, vars, Contents
  <1>3. CASE Start
    BY <1>3, LoadRtTypes DEF Start, Contents
  <1>4. CASE Boot
    <2>1. inited' \in BOOLEAN
      BY <1>4 DEF Boot, Loadable
    <2> QED  BY <1>4, <2>1, LoadRtTypes DEF Boot, Contents
  <1>5. CASE Refuse \/ HandleOther \/ HandleAuthRequest \/ HandleAuthStatus
    BY <1>5 DEF Refuse, HandleOther, HandleAuthRequest, HandleAuthStatus, Continue,
       Stop, Contents
  <1>6. CASE HandleRtable
    <2>1. PICK m \in Message :
            /\ Ready(m) /\ m.cmd = "rtable"
            /\ \/ Continue /\ files' = [files EXCEPT !["rtable.vrhost"] = m.table]
               \/ Stop /\ UNCHANGED files
      BY <1>6 DEF HandleRtable
    <2>2. m.table \in Table
      BY <1>0, <2>1, ReadyMessage
    <2>3. files' \in [FileName -> Table \cup {NoFile}]
      BY <2>1, <2>2 DEF Contents
    <2> QED  BY <1>6, <2>1, <2>3 DEF HandleRtable, Continue, Stop, Contents
  <1>7. CASE HandleHwinfo
    <2>1. PICK m \in Message :
            /\ Ready(m) /\ m.cmd = "hwinfo"
            /\ \/ status' = "abort" /\ UNCHANGED if_list
               \/ /\ if_list' = Applied(if_list, m.entries)
                  /\ Continue \/ Stop
      BY <1>7 DEF HandleHwinfo
    <2>2. m.entries \in Seq(HwEntry) /\ if_list \in Seq(Interface)
      BY <1>0, <2>1, ReadyMessage DEF Contents
    <2>3. Applied(if_list, m.entries) \in Seq(Interface)
      <3>1. PICK after : /\ Lists(after, if_list, m.entries)
                         /\ Applied(if_list, m.entries) = after[Len(m.entries)]
        BY <2>2, AppliedLists
      <3>2. Len(m.entries) \in 0..Len(m.entries)
        BY <2>2
      <3> QED  BY <3>1, <3>2 DEF Lists
    <2>4. if_list' \in Seq(Interface) /\ status' \in {"running", "0", "1", "abort"}
      BY <2>1, <2>2, <2>3 DEF Continue, Stop, Contents
    <2> QED  BY <1>7, <2>4 DEF HandleHwinfo, Contents
  <1>8. CASE HandlePacket
    <2>1. PICK m \in Message :
            /\ Ready(m) /\ handled' \in {handled, handled \cup {done + 1}}
            /\ status' = "abort" \/ Continue
      BY <1>8 DEF HandlePacket
    <2>2. handled' \subseteq 1..Len(sent)
      BY <1>0, <2>1, ReadyMessage DEF Contents
    <2> QED  BY <1>8, <2>1, <2>2 DEF HandlePacket, Continue, Contents
  <1> QED  BY <1>1, <1>2, <1>3, <1>4, <1>5, <1>6, <1>7, <1>8 DEF Next, ClientStep

\* What the server has sent, and the commands carried out, only grow.
LEMMA SentGrows ==
  ASSUME SessionInv, [Next]_vars
  PROVE  /\ done' \in {done, done + 1}
         /\ \A n \in 1..Len(sent) : sent'[n] = sent[n]
         /\ sent' = sent \/ \E m \in Message : ServerSend(m)
         /\ if_list' = if_list \/ HandleHwinfo
  <1>1. CASE \E m \in Message : ServerSend(m)
    <2>1. sent \in Seq(Message)
      BY DEF SessionInv, InStep, Types
    <2>2. PICK m \in Message : ServerSend(m)
      BY <1>1
    <2>3. sent' = Append(sent, m) /\ done' = done /\ if_list' = if_list
      BY <2>2 DEF ServerSend, client
    <2>4. \A n \in 1..Len(sent) : sent'[n] = sent[n]
      BY <2>1, <2>3
    <2> QED  BY <1>1, <2>3, <2>4
  <1>2. CASE ~\E m \in Message : ServerSend(m)
    BY <1>2 DEF Next, ClientStep, ServerStep, ServerClose, client, Start, Connect,
       SendOpen, Boot, ReadHead, ReadBody, TooLong, Refuse, HandleOther,
       HandleAuthRequest, HandleAuthStatus, HandleRtable, HandleHwinfo, HandlePacket,
       ReadFails, Spin, Exited, Taken, vars
  <1> QED  BY <1>1, <1>2

\* The hardware stays announced once: the server keeps to it.
LEMMA NextAnnounced ==
  ASSUME SessionInv, AnnouncedOnce, [Next]_vars
  PROVE  AnnouncedOnce'
  <1>1. /\ done' \in {done, done + 1}
        /\ \A n \in 1..Len(sent) : sent'[n] = sent[n]
        /\ sent' = sent \/ \E m \in Message : ServerSend(m)
        /\ if_list' = if_list \/ HandleHwinfo
    BY SentGrows
  <1>2. /\ sent \in Seq(Message) /\ Len(sent) \in Nat /\ done \in Nat
        /\ done <= Len(sent) /\ InStep
    BY TypesFacts DEF SessionInv, InStep, Types
  <1>3. \A i, j \in 1..Len(sent') :
          sent'[i].cmd = "hwinfo" /\ sent'[j].cmd = "hwinfo" => i = j
    <2>1. CASE sent' = sent
      BY <2>1 DEF AnnouncedOnce
    <2>2. ASSUME NEW m \in Message, ServerSend(m)
          PROVE  \A i, j \in 1..Len(sent') :
                   sent'[i].cmd = "hwinfo" /\ sent'[j].cmd = "hwinfo" => i = j
      <3>1. /\ Len(sent') = Len(sent) + 1 /\ sent'[Len(sent) + 1] = m
        BY <1>2, <2>2 DEF ServerSend
      <3>2. m.cmd = "hwinfo" => \A i \in 1..Len(sent) : sent[i].cmd # "hwinfo"
        BY <1>2, <2>2 DEF ServerSend, Polite
      <3>3. \A i \in 1..Len(sent') : i \in 1..Len(sent) \/ i = Len(sent) + 1
        BY <1>2, <3>1
      <3> QED  BY <1>1, <3>1, <3>2, <3>3 DEF AnnouncedOnce
    <2> QED  BY <1>1, <2>1, <2>2
  <1>4. HardwareKnown => HardwareKnown'
    <2>1. \A i \in 1..done : i \in 1..done' /\ i \in 1..Len(sent)
      BY <1>1, <1>2
    <2> QED  BY <1>1, <2>1 DEF HardwareKnown
  <1>5. HandleHwinfo => HardwareKnown'
    <2> SUFFICES ASSUME HandleHwinfo PROVE HardwareKnown'
      OBVIOUS
    <2>1. PICK m \in Message : Ready(m) /\ m.cmd = "hwinfo"
      BY DEF HandleHwinfo
    <2>2. done' = done + 1 /\ sent' = sent
      BY DEF HandleHwinfo, Taken
    <2>3. m = sent[done + 1] /\ done + 1 \in 1..(done + 1)
      BY <1>2, <2>1, ReadyMessage
    <2> QED  BY <2>1, <2>2, <2>3 DEF HardwareKnown
  <1> QED  BY <1>1, <1>3, <1>4, <1>5 DEF AnnouncedOnce

\* Every step keeps the addresses with their interfaces: all of them come from the
\* one command that tells of the hardware.
LEMMA NextAddresses ==
  ASSUME SessionInv, Contents, AnnouncedOnce, AddressesOwn, [Next]_vars
  PROVE  AddressesOwn'
  <1>1. /\ done' \in {done, done + 1}
        /\ \A n \in 1..Len(sent) : sent'[n] = sent[n]
        /\ if_list' = if_list \/ HandleHwinfo
    BY SentGrows
  <1>2. /\ sent \in Seq(Message) /\ Len(sent) \in Nat /\ done \in Nat
        /\ done <= Len(sent) /\ InStep
    BY TypesFacts DEF SessionInv, InStep, Types
  <1>3. CASE if_list' = if_list
    <2>1. \A n \in 1..done : n \in 1..done' /\ sent'[n] = sent[n]
      BY <1>1, <1>2
    <2> QED  BY <1>3, <2>1 DEF AddressesOwn
  <1>4. CASE if_list' # if_list
    <2>1. PICK m \in Message :
            /\ Ready(m) /\ m.cmd = "hwinfo"
            /\ ~Orphan(if_list, m.entries) /\ if_list' = Applied(if_list, m.entries)
      BY <1>1, <1>4 DEF HandleHwinfo
    <2>2. done' = done + 1 /\ sent' = sent
      BY <1>1, <1>4 DEF HandleHwinfo, Taken
    <2>3. /\ m = sent[done + 1] /\ done + 1 \in 1..Len(sent)
          /\ m.entries \in Seq(HwEntry)
      BY <1>2, <2>1, ReadyMessage
    <2>4. if_list = <<>>
      <3>1. \A i \in 1..done : i \in 1..Len(sent) /\ i # done + 1
        BY <1>2
      <3>2. ~HardwareKnown
        BY <2>1, <2>3, <3>1 DEF HardwareKnown, AnnouncedOnce
      <3> QED  BY <3>2 DEF AnnouncedOnce
    <2>5. PICK entries \in Seq(HwEntry) : entries = m.entries
      BY <2>3
    <2>6. Own(if_list', entries, Len(entries))
      BY <2>1, <2>4, <2>5, AppliedOwn
    <2>7. /\ done + 1 \in 1..done' /\ sent'[done + 1].cmd = "hwinfo"
          /\ sent'[done + 1].entries = entries /\ DOMAIN entries = 1..Len(entries)
      BY <1>2, <2>1, <2>2, <2>3, <2>5
    <2> QED  BY <2>6, <2>7 DEF AddressesOwn, Own, Given
  <1> QED  BY <1>3, <1>4

\* The invariant of the session with the contents of its variables and the
\* interfaces: each has only the addresses the server gave for it.
THEOREM SessionDataHolds ==
  Spec => [](SessionInv /\ Contents /\ AnnouncedOnce /\ AddressesOwn)
  <1>1. Init => Contents /\ AnnouncedOnce /\ AddressesOwn
    <2> SUFFICES ASSUME Init PROVE Contents /\ AnnouncedOnce /\ AddressesOwn
      OBVIOUS
    <2>1. PICK t \in Table \cup {NoFile} :
            files = [f \in FileName |-> IF f = "rtable" THEN t ELSE NoFile]
      BY TablesAssumption DEF Init
    <2>2. files \in [FileName -> Table \cup {NoFile}]
      BY <2>1
    <2>3. Contents
      <3>1. if_list \in Seq(Interface) /\ rt \in Seq(Name)
        BY DEF Init
      <3>2. /\ opt \in [template : BOOLEAN, rtable : FileName] /\ closed \in BOOLEAN
            /\ status \in {"running", "0", "1", "abort"}
            /\ inited \in BOOLEAN /\ handled = {}
        BY DEF Init
      <3> QED  BY <2>2, <3>1, <3>2 DEF Contents
    <2> QED  BY <2>3 DEF Init, AnnouncedOnce, AddressesOwn
  <1>2. SessionInv /\ Contents /\ AnnouncedOnce /\ AddressesOwn /\ [Next]_vars
          => Contents' /\ AnnouncedOnce' /\ AddressesOwn'
    BY NextContents, NextAnnounced, NextAddresses
  <1> QED  BY <1>1, <1>2, SessionInvHolds, PTL DEF Spec

\* Every variable keeps its type: the table holds names of interfaces only, since a
\* line that does not convert ends the process, and the list of interfaces is one
\* whatever entries the hardware information has.
THEOREM SessionTypeCorrect == Spec => []TypeOK
  <1>1. SessionInv /\ Contents => TypeOK
    BY TypeParts DEF SessionInv, InStep
  <1> QED  BY <1>1, SessionDataHolds, PTL

\* sr_set_ether_ip and sr_set_ether_addr, which take the last interface of the list,
\* give every interface the addresses the server named for it and no others, for
\* any number of interfaces and entries.
THEOREM AddressesStayOwn == Spec => []AddressesOwn
  <1> QED  BY SessionDataHolds, PTL

=============================================================================
