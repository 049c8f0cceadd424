-------------------------- MODULE ConnectionProofs --------------------------
(***************************************************************************)
(* No byte of a client's output is lost, repeated or reordered on its way  *)
(* to the peer, for any number of clients, any sizes of messages, writes   *)
(* and acknowledgements: the output of every client is a Channel.          *)
(***************************************************************************)
EXTENDS Connection, SequenceTheorems, TLAPS

-----------------------------------------------------------------------------
(* Cutting and joining sequences.                                          *)
LEMMA CutJoined ==
  ASSUME NEW S, NEW s \in Seq(S), NEW n \in 0..Len(s)
  PROVE  /\ SubSeq(s, 1, n) \in Seq(S)
         /\ Rest(s, n) \in Seq(S)
         /\ SubSeq(s, 1, n) \o Rest(s, n) = s
<1>1. Len(s) \in Nat /\ \A i \in 1..Len(s) : s[i] \in S
  BY LenProperties, ElementOfSeq
<1>2. SubSeq(s, 1, n) \in Seq(S)
  BY <1>1, SubSeqProperties
<1>3. SubSeq(s, n + 1, Len(s)) \in Seq(S)
  BY <1>1, SubSeqProperties
<1>4. SubSeq(s, 1, n) \o SubSeq(s, n + 1, Len(s)) = SubSeq(s, 1, Len(s))
  <2>1. 1 \in 1..(Len(s) + 1) /\ n \in (1 - 1)..Len(s) /\ Len(s) \in n..Len(s)
    BY <1>1
  <2> QED
    BY <2>1, ConcatAdjacentSubSeq, Zenon
<1> QED
  BY <1>2, <1>3, <1>4, SubSeqFull DEF Rest

LEMMA PrefixOfJoined ==
  ASSUME NEW S, NEW s \in Seq(S), NEW t \in Seq(S)
  PROVE  /\ s \o t \in Seq(S)
         /\ Len(s) <= Len(s \o t)
         /\ SubSeq(s \o t, 1, Len(s)) = s
<1>1. Len(s) \in Nat /\ Len(t) \in Nat
  BY LenProperties
<1>2. s \o t \in Seq(S) /\ Len(s \o t) = Len(s) + Len(t)
  BY ConcatProperties
<1>3. CASE s = <<>>
  BY <1>3, SubSeqEmpty, EmptySeq
<1>4. CASE s # <<>>
  <2>1. Len(s) \in 1..Len(s)
    BY <1>1, <1>4, EmptySeq
  <2>2. SubSeq(s \o t, 1, Len(s)) = SubSeq(s, 1, Len(s))
    BY <1>1, <2>1, SubSeqOfConcat1
  <2> QED
    BY <1>1, <1>2, <2>2, SubSeqFull
<1> QED
  BY <1>1, <1>2, <1>3, <1>4

Joined(d, w, u) == (d \o w) \o u

(* The part of w that goes over from w to d does not change what they and  *)
(* what follows make together.                                             *)
LEMMA MovedForward ==
  ASSUME NEW S, NEW d \in Seq(S), NEW w \in Seq(S), NEW n \in 0..Len(w)
  PROVE  (d \o SubSeq(w, 1, n)) \o Rest(w, n) = d \o w
<1> DEFINE a == SubSeq(w, 1, n)
           b == Rest(w, n)
<1>1. a \in Seq(S) /\ b \in Seq(S)
  BY CutJoined
<1>2. a \o b = w
  BY CutJoined
<1> HIDE DEF a, b
<1>3. (d \o a) \o b = d \o (a \o b)
  BY <1>1, SMTT(60)
<1> QED
  BY <1>2, <1>3 DEF a, b

LEMMA MovedBetween ==
  ASSUME NEW d \in Seq(Byte), NEW w \in Seq(Byte), NEW u \in Seq(Byte),
         NEW n \in 0..Len(u)
  PROVE  Joined(d, w \o SubSeq(u, 1, n), Rest(u, n)) = Joined(d, w, u)
<1> DEFINE a == SubSeq(u, 1, n)
           b == Rest(u, n)
           dw == d \o w
<1>1. a \in Seq(Byte) /\ b \in Seq(Byte)
  BY CutJoined
<1>2. a \o b = u
  BY CutJoined
<1>3. dw \in Seq(Byte)
  BY ConcatProperties
<1> HIDE DEF a, b
<1>4. dw \o a = d \o (w \o a)
  BY <1>1, SMTT(60)
<1> HIDE DEF dw
<1>5. (dw \o a) \o b = dw \o (a \o b)
  BY <1>1, <1>3, SMTT(60)
<1> QED
  BY <1>2, <1>4, <1>5 DEF a, b, dw, Joined

LEMMA MessageBytes ==
  ASSUME NEW m \in 1..MaxMessages, NEW len \in 1..MaxLen
  PROVE  Message(m, len) \in Seq(Byte) /\ Len(Message(m, len)) = len
BY ConnectionAssumption DEF Message, Byte

-----------------------------------------------------------------------------
(* The strengthening of NothingLost, of one client's sequences: after its  *)
(* disconnection a client is without what was in out_buffer, and what it   *)
(* has received and what the kernel has is still the beginning of what was *)
(* queued.                                                                 *)
Flows(q, d, w, u, here) ==
  \E rest \in Seq(Byte) : q = Joined(d, w, rest) /\ (here => rest = u)

Flow(c) == Flows(queued[c], delivered[c], wire[c], out_buffer[c], c \in connected)

IInv == TypeOK /\ \A c \in Client : Flow(c)

LEMMA Connected ==
  ASSUME NEW c \in connected, out_buffer[c] \in Seq(Byte)
  PROVE  Flow(c) <=> queued[c] = Joined(delivered[c], wire[c], out_buffer[c])
BY DEF Flow, Flows

LEMMA FlowAcknowledged ==
  ASSUME NEW q, NEW d \in Seq(Byte), NEW w \in Seq(Byte), NEW u,
         NEW here, NEW n \in 0..Len(w), Flows(q, d, w, u, here)
  PROVE  Flows(q, d \o SubSeq(w, 1, n), Rest(w, n), u, here)
<1>1. (d \o SubSeq(w, 1, n)) \o Rest(w, n) = d \o w
  BY MovedForward
<1> QED
  BY <1>1, Zenon DEF Flows, Joined

LEMMA FlowInit == Init => IInv
<1> SUFFICES ASSUME Init
             PROVE  IInv
  OBVIOUS
<1>1. <<>> \in Seq(Byte) /\ (<<>> \o <<>>) \o <<>> = <<>>
  BY EmptySeq, ConcatEmptySeq
<1>2. TypeOK
  BY <1>1, ConnectionAssumption DEF Init, TypeOK
<1>3. \A c \in Client : Flow(c)
  BY <1>1, Zenon DEF Init, Flow, Flows, Joined
<1> QED
  BY <1>2, <1>3 DEF IInv

LEMMA FlowSay ==
  ASSUME IInv, say
  PROVE  IInv'
<1> USE DEF IInv
<1>1. PICK to \in SUBSET connected, len \in 1..MaxLen :
        queue_message(to, Message(said', len))
  BY DEF say
<1>2. said' \in 1..MaxMessages
  BY ConnectionAssumption DEF say, TypeOK
<1> DEFINE msg == Message(said', len)
<1>3. msg \in Seq(Byte)
  BY <1>2, MessageBytes
<1> HIDE DEF msg
<1>4. /\ queued' = Extended(queued, to, msg)
      /\ out_buffer' = Extended(out_buffer, to, msg)
      /\ want_write' = [c \in Client |-> c \in to \/ want_write[c]]
      /\ UNCHANGED <<wire, delivered, connected, gone>>
  BY <1>1 DEF msg, queue_message, say
<1>5. ASSUME NEW f \in [Client -> Seq(Byte)]
      PROVE  Extended(f, to, msg) \in [Client -> Seq(Byte)]
  <2>1. \A c \in Client : f[c] \o msg \in Seq(Byte)
    BY <1>3, ConcatProperties
  <2> QED
    BY <2>1 DEF Extended
<1>6. TypeOK'
  <2>1. \A c \in Client \ connected : out_buffer'[c] = out_buffer[c]
    BY <1>4 DEF Extended
  <2>2. queued' \in [Client -> Seq(Byte)] /\ out_buffer' \in [Client -> Seq(Byte)]
    BY <1>4, <1>5, Zenon DEF TypeOK
  <2>3. want_write' \in [Client -> BOOLEAN]
    BY <1>4, Zenon DEF TypeOK
  <2>4. said' \in 0..MaxMessages
    BY <1>2
  <2> QED
    BY <1>4, <2>1, <2>2, <2>3, <2>4 DEF TypeOK
<1>7. ASSUME NEW c \in Client
      PROVE  Flow(c)'
  <2>1. CASE c \in to
    <3>1. /\ queued'[c] = queued[c] \o msg
          /\ out_buffer'[c] = out_buffer[c] \o msg
          /\ c \in connected /\ c \in connected'
      BY <1>4, <2>1 DEF Extended
    <3>2. /\ delivered[c] \in Seq(Byte) /\ wire[c] \in Seq(Byte)
          /\ out_buffer[c] \in Seq(Byte)
      BY DEF TypeOK
    <3>3. queued[c] = Joined(delivered[c], wire[c], out_buffer[c])
      BY <3>1, <3>2, Connected
    <3>4. queued'[c] = Joined(delivered[c], wire[c], out_buffer'[c])
      <4> DEFINE dw == delivered[c] \o wire[c]
                 u == out_buffer[c]
      <4>1. dw \in Seq(Byte) /\ u \in Seq(Byte)
        BY <3>2, ConcatProperties
      <4>2. queued[c] = dw \o u /\ out_buffer'[c] = u \o msg
        BY <3>1, <3>3 DEF Joined
      <4> HIDE DEF dw, u
      <4>3. (dw \o u) \o msg = dw \o (u \o msg)
        BY <1>3, <4>1
      <4>4. queued'[c] = dw \o out_buffer'[c]
        BY <3>1, <4>2, <4>3
      <4> QED
        BY <4>4 DEF dw, Joined
    <3>5. out_buffer[c] \o msg \in Seq(Byte)
      BY <1>3, <3>2, ConcatProperties
    <3> QED
      BY <1>4, <3>1, <3>4, <3>5, Zenon DEF Flow, Flows
  <2>2. CASE c \notin to
    BY <1>4, <2>2, Zenon DEF Flow, Flows, Extended
  <2> QED
    BY <2>1, <2>2
<1> QED
  BY <1>6, <1>7

LEMMA FlowWrite ==
  ASSUME IInv, NEW c \in Client, handle_write(c)
  PROVE  IInv'
<1> USE DEF IInv
<1>1. PICK n \in Written(c) :
        /\ wire' = [wire EXCEPT ![c] = @ \o SubSeq(out_buffer[c], 1, n)]
        /\ out_buffer' = [out_buffer EXCEPT ![c] = Rest(@, n)]
  BY DEF handle_write
<1>2. n \in 0..Len(out_buffer[c])
  BY <1>1 DEF Written
<1>3. /\ SubSeq(out_buffer[c], 1, n) \in Seq(Byte)
      /\ Rest(out_buffer[c], n) \in Seq(Byte)
  BY <1>2, CutJoined DEF TypeOK
<1>4. wire[c] \o SubSeq(out_buffer[c], 1, n) \in Seq(Byte)
  BY <1>3, ConcatProperties DEF TypeOK
<1>5. /\ c \in connected /\ want_write' = [want_write EXCEPT ![c] = out_buffer'[c] # <<>>]
      /\ UNCHANGED <<said, queued, delivered, connected, gone>>
  BY DEF handle_write
<1>6. TypeOK'
  BY <1>1, <1>3, <1>4, <1>5 DEF TypeOK
<1>7. ASSUME NEW d \in Client
      PROVE  Flow(d)'
  <2>1. CASE d = c
    <3>1. /\ delivered[c] \in Seq(Byte) /\ wire[c] \in Seq(Byte)
          /\ out_buffer[c] \in Seq(Byte)
      BY DEF TypeOK
    <3>2. queued[c] = Joined(delivered[c], wire[c], out_buffer[c])
      BY <1>5, <3>1, Connected
    <3>3. /\ wire'[c] = wire[c] \o SubSeq(out_buffer[c], 1, n)
          /\ out_buffer'[c] = Rest(out_buffer[c], n)
      BY <1>1 DEF TypeOK
    <3>4. queued[c] = Joined(delivered[c], wire'[c], out_buffer'[c])
      BY <1>2, <3>1, <3>2, <3>3, MovedBetween
    <3> QED
      BY <1>3, <1>5, <2>1, <3>3, <3>4, Zenon DEF Flow, Flows
  <2>2. CASE d # c
    <3>1. wire'[d] = wire[d] /\ out_buffer'[d] = out_buffer[d]
      BY <1>1, <2>2 DEF TypeOK
    <3> QED
      BY <1>5, <3>1, Zenon DEF Flow, Flows
  <2> QED
    BY <2>1, <2>2
<1> QED
  BY <1>6, <1>7

LEMMA FlowDisconnect ==
  ASSUME IInv, NEW c \in Client, disconnect_client(c)
  PROVE  IInv'
<1> USE DEF IInv
<1>1. /\ connected' = connected \ {c}
      /\ out_buffer' = [out_buffer EXCEPT ![c] = <<>>]
      /\ want_write' = [want_write EXCEPT ![c] = FALSE]
      /\ UNCHANGED <<said, queued, wire, delivered, gone>>
  BY DEF disconnect_client
<1>2. TypeOK'
  BY <1>1, EmptySeq DEF TypeOK
<1>3. ASSUME NEW d \in Client
      PROVE  Flow(d)'
  <2>1. CASE d = c
    BY <1>1, <2>1 DEF Flow, Flows
  <2>2. CASE d # c
    <3>1. out_buffer'[d] = out_buffer[d] /\ (d \in connected' <=> d \in connected)
      BY <1>1, <2>2 DEF TypeOK
    <3> QED
      BY <1>1, <3>1, Zenon DEF Flow, Flows
  <2> QED
    BY <2>1, <2>2
<1> QED
  BY <1>2, <1>3

LEMMA FlowAcknowledge ==
  ASSUME IInv, NEW c \in Client, acknowledge(c)
  PROVE  IInv'
<1> USE DEF IInv
<1>1. PICK n \in 1..Len(wire[c]) :
        /\ delivered' = [delivered EXCEPT ![c] = @ \o SubSeq(wire[c], 1, n)]
        /\ wire' = [wire EXCEPT ![c] = Rest(@, n)]
  BY DEF acknowledge
<1>2. n \in 0..Len(wire[c])
  BY <1>1
<1>3. /\ SubSeq(wire[c], 1, n) \in Seq(Byte)
      /\ Rest(wire[c], n) \in Seq(Byte)
  BY <1>2, CutJoined DEF TypeOK
<1>4. delivered[c] \o SubSeq(wire[c], 1, n) \in Seq(Byte)
  BY <1>3, ConcatProperties DEF TypeOK
<1>5. UNCHANGED <<output, connected, gone>>
  BY DEF acknowledge
<1>6. TypeOK'
  BY <1>1, <1>3, <1>4, <1>5 DEF TypeOK, output
<1>7. ASSUME NEW d \in Client
      PROVE  Flow(d)'
  <2>1. CASE d = c
    <3>0. /\ delivered[c] \in Seq(Byte) /\ wire[c] \in Seq(Byte)
          /\ Flows(queued[c], delivered[c], wire[c], out_buffer[c], c \in connected)
      BY DEF TypeOK, Flow
    <3>1. Flows(queued[c], delivered[c] \o SubSeq(wire[c], 1, n),
                Rest(wire[c], n), out_buffer[c], c \in connected)
      BY <1>2, <3>0, FlowAcknowledged, Zenon
    <3>2. /\ delivered'[c] = delivered[c] \o SubSeq(wire[c], 1, n)
          /\ wire'[c] = Rest(wire[c], n)
      BY <1>1 DEF TypeOK
    <3> QED
      BY <1>5, <2>1, <3>1, <3>2, Zenon DEF Flow, Flows, output
  <2>2. CASE d # c
    <3>1. wire'[d] = wire[d] /\ delivered'[d] = delivered[d]
      BY <1>1, <2>2 DEF TypeOK
    <3> QED
      BY <1>5, <3>1, Zenon DEF Flow, Flows, output
  <2> QED
    BY <2>1, <2>2
<1> QED
  BY <1>6, <1>7

LEMMA FlowStep ==
  ASSUME IInv, [Next]_vars
  PROVE  IInv'
<1>1. CASE say
  BY <1>1, FlowSay
<1>2. ASSUME NEW c \in Client, handle_write(c)
      PROVE  IInv'
  BY <1>2, FlowWrite
<1>3. ASSUME NEW c \in Client, end_of_input(c) \/ hang_up(c)
      PROVE  IInv'
  BY <1>3, FlowDisconnect DEF end_of_input, hang_up
<1>4. ASSUME NEW c \in Client, acknowledge(c)
      PROVE  IInv'
  BY <1>4, FlowAcknowledge
<1>5. ASSUME NEW c \in Client, reset(c)
      PROVE  IInv'
  BY <1>5, Zenon DEF IInv, TypeOK, Flow, Flows, reset, output
<1>6. CASE UNCHANGED vars
  BY <1>6, Zenon DEF IInv, TypeOK, Flow, Flows, vars, output
<1> QED
  BY <1>1, <1>2, <1>3, <1>4, <1>5, <1>6 DEF Next

-----------------------------------------------------------------------------
(* Every reachable state is well typed, and a disconnected client has no   *)
(* output waiting.                                                         *)
THEOREM ConnectionTypeCorrect == Spec => []TypeOK
BY FlowInit, FlowStep, PTL DEF Spec, IInv

(* What was queued for a connected client is what its peer has received,   *)
(* what the kernel has and what is in out_buffer, in this order.           *)
THEOREM NothingIsLost == Spec => []NothingLost
<1>1. IInv => NothingLost
  BY DEF IInv, TypeOK, Flow, Flows, Joined, NothingLost
<1> QED
  BY <1>1, FlowInit, FlowStep, PTL DEF Spec

-----------------------------------------------------------------------------
(* What a peer has received is a prefix of what was queued for it.         *)
LEMMA ReceivedPrefix ==
  ASSUME NEW q \in Seq(Byte), NEW d \in Seq(Byte), NEW w \in Seq(Byte),
         NEW u, NEW here, Flows(q, d, w, u, here)
  PROVE  /\ Len(d) \in Nat /\ Len(q) \in Nat
         /\ Len(d) <= Len(q)
         /\ SubSeq(q, 1, Len(d)) = d
<1>1. PICK rest \in Seq(Byte) : q = (d \o w) \o rest
  BY DEF Flows, Joined
<1>2. (d \o w) \o rest = d \o (w \o rest)
  BY <1>1
<1> DEFINE t == w \o rest
<1>3. t \in Seq(Byte)
  BY <1>1, ConcatProperties
<1>4. q = d \o t
  BY <1>1, <1>2
<1> HIDE DEF t
<1> QED
  BY <1>3, <1>4, PrefixOfJoined, LenProperties

LEMMA ChannelInit ==
  ASSUME Init, NEW c \in Client
  PROVE  Output(c)!Init
BY DEF Init, Output!Init

LEMMA ChannelStep ==
  ASSUME IInv, IInv', [Next]_vars, NEW c \in Client
  PROVE  [Output(c)!Next]_<<queued[c], delivered[c], c \in connected>>
<1> DEFINE Still == UNCHANGED <<queued[c], delivered[c], c \in connected>>
<1>1. CASE say
  <2>1. PICK to \in SUBSET connected, len \in 1..MaxLen :
          queue_message(to, Message(said', len))
    BY <1>1 DEF say
  <2>2. said' \in 1..MaxMessages
    BY <1>1, ConnectionAssumption DEF say, IInv, TypeOK
  <2> DEFINE msg == Message(said', len)
  <2>3. msg \in Seq(Byte) /\ queued[c] \in Seq(Byte)
    BY <2>2, MessageBytes DEF IInv, TypeOK
  <2> HIDE DEF msg
  <2>4. /\ queued' = Extended(queued, to, msg)
        /\ UNCHANGED <<delivered, connected>>
    BY <1>1, <2>1 DEF msg, queue_message, say
  <2>5. CASE c \in to
    <3>1. queued'[c] = queued[c] \o msg /\ c \in connected
      BY <2>4, <2>5 DEF Extended
    <3>2. /\ Len(queued[c]) <= Len(queued[c] \o msg)
          /\ SubSeq(queued[c] \o msg, 1, Len(queued[c])) = queued[c]
      BY <2>3, PrefixOfJoined
    <3>3. Len(queued'[c]) >= Len(queued[c])
      BY <2>3, <3>1, <3>2, ConcatProperties, LenProperties
    <3>4. Output(c)!Accept
      BY <2>4, <3>1, <3>2, <3>3 DEF Output!Accept
    <3> QED
      BY <3>4 DEF Output!Next
  <2>6. CASE c \notin to
    BY <2>4, <2>6 DEF Extended
  <2> QED
    BY <2>5, <2>6
<1>2. ASSUME NEW d \in Client, handle_write(d) \/ reset(d)
      PROVE  Still
  BY <1>2 DEF handle_write, reset, output
<1>3. ASSUME NEW d \in Client, disconnect_client(d)
      PROVE  Output(c)!Close \/ Still
  <2>1. CASE d = c
    BY <1>3, <2>1 DEF disconnect_client, Output!Close
  <2>2. CASE d # c
    BY <1>3, <2>2 DEF disconnect_client
  <2> QED
    BY <2>1, <2>2
<1>4. ASSUME NEW d \in Client, acknowledge(d)
      PROVE  Output(c)!Deliver \/ Still
  <2>1. CASE d = c
    <3>1. PICK n \in 1..Len(wire[c]) :
            delivered' = [delivered EXCEPT ![c] = @ \o SubSeq(wire[c], 1, n)]
      BY <1>4, <2>1 DEF acknowledge
    <3>2. UNCHANGED <<queued, connected>>
      BY <1>4 DEF acknowledge, output
    <3> DEFINE d1 == delivered'[c]
    <3>3. /\ Len(d1) \in Nat /\ Len(d1) <= Len(queued[c])
          /\ SubSeq(queued[c], 1, Len(d1)) = d1
      <4>1. /\ queued'[c] \in Seq(Byte) /\ d1 \in Seq(Byte) /\ wire'[c] \in Seq(Byte)
            /\ Flows(queued'[c], d1, wire'[c], out_buffer'[c], c \in connected')
        BY DEF IInv, TypeOK, Flow
      <4> HIDE DEF d1
      <4> QED
        BY <3>2, <4>1, ReceivedPrefix
    <3>4. Len(delivered[c]) \in Nat /\ Len(delivered[c]) <= Len(d1)
      <4>1. /\ delivered[c] \in Seq(Byte) /\ wire[c] \in Seq(Byte)
            /\ n \in 0..Len(wire[c]) /\ delivered \in [Client -> Seq(Byte)]
        BY DEF IInv, TypeOK
      <4>2. SubSeq(wire[c], 1, n) \in Seq(Byte)
        BY <4>1, CutJoined
      <4>3. d1 = delivered[c] \o SubSeq(wire[c], 1, n)
        BY <3>1, <4>1
      <4> QED
        BY <4>1, <4>2, <4>3, PrefixOfJoined, LenProperties
    <3>5. Len(d1) \in Len(delivered[c])..Len(queued[c])
      BY <3>3, <3>4, LenProperties DEF IInv, TypeOK
    <3> QED
      BY <3>2, <3>3, <3>5, Zenon DEF Output!Deliver
  <2>2. CASE d # c
    BY <1>4, <2>2 DEF acknowledge, output, IInv, TypeOK
  <2> QED
    BY <2>1, <2>2
<1>5. CASE UNCHANGED vars
  BY <1>5 DEF vars, output
<1> QED
  BY <1>1, <1>2, <1>3, <1>4, <1>5 DEF Next, end_of_input, hang_up, Output!Next

(* The output of every client is a channel.                                *)
THEOREM ChannelsImplemented == Spec => ImplementsChannels
<1>1. Init => \A c \in Client : Output(c)!Init
  BY ChannelInit
<1>2. IInv /\ IInv' /\ [Next]_vars
        => [\A c \in Client :
              [Output(c)!Next]_<<queued[c], delivered[c], c \in connected>>]_vars
  BY ChannelStep
<1>3. Spec => []IInv
  BY FlowInit, FlowStep, PTL DEF Spec
<1> QED
  BY <1>1, <1>2, <1>3, PTL DEF Spec, ImplementsChannels

-----------------------------------------------------------------------------
(* Why there is one order: the messages queued for a client are numbered   *)
(* in the order they were said, and it has received a prefix of them.      *)
InOrder(q, k) ==
  \A j \in 1..Len(q) :
    /\ q[j][1] <= k
    /\ \A i \in 1..(j - 1) : Before(q[i], q[j])

OrderInv == said \in Nat /\ \A c \in Client : InOrder(queued[c], said)

LEMMA OrderWeakened ==
  ASSUME NEW q \in Seq(Byte), NEW k \in Nat, InOrder(q, k)
  PROVE  InOrder(q, k + 1)
<1>1. \A j \in 1..Len(q) : q[j][1] \in Nat
  BY ElementOfSeq DEF Byte
<1> QED
  BY <1>1 DEF InOrder

LEMMA OrderExtended ==
  ASSUME NEW q \in Seq(Byte), NEW k \in Nat, InOrder(q, k),
         NEW m \in Seq(Byte),
         \A i \in 1..Len(m) : m[i][1] = k + 1 /\ m[i][2] = i
  PROVE  InOrder(q \o m, k + 1)
<1>1. Len(q) \in Nat /\ Len(m) \in Nat
  BY LenProperties
<1>2. /\ Len(q \o m) = Len(q) + Len(m)
      /\ \A i \in 1..Len(q) : (q \o m)[i] = q[i]
      /\ \A i \in (Len(q) + 1)..(Len(q) + Len(m)) : (q \o m)[i] = m[i - Len(q)]
  BY <1>1, ConcatProperties
<1> DEFINE qm == q \o m
<1>3. \A i \in 1..Len(q) : q[i][1] \in Nat
  BY ElementOfSeq DEF Byte
<1>4. ASSUME NEW j \in 1..Len(q)
      PROVE  qm[j][1] <= k + 1 /\ \A i \in 1..(j - 1) : Before(qm[i], qm[j])
  <2>1. q[j][1] <= k + 1
    BY <1>3 DEF InOrder
  <2>2. \A i \in 1..(j - 1) : i \in 1..Len(q) /\ Before(q[i], q[j])
    BY <1>1 DEF InOrder
  <2> QED
    BY <1>2, <2>1, <2>2
<1>5. ASSUME NEW j \in (Len(q) + 1)..(Len(q) + Len(m))
      PROVE  qm[j][1] <= k + 1 /\ \A i \in 1..(j - 1) : Before(qm[i], qm[j])
  <2>1. j - Len(q) \in 1..Len(m)
    BY <1>1
  <2>2. qm[j] = m[j - Len(q)]
    BY <1>2
  <2>3. qm[j][1] = k + 1 /\ qm[j][2] = j - Len(q)
    BY <2>1, <2>2
  <2>4. ASSUME NEW i \in 1..(j - 1)
        PROVE  Before(qm[i], qm[j])
    <3>1. CASE i \in 1..Len(q)
      <4>1. qm[i][1] <= k /\ qm[i][1] \in Nat
        BY <1>2, <1>3, <3>1 DEF InOrder
      <4> HIDE DEF qm
      <4> QED
        BY <2>3, <4>1 DEF Before
    <3>2. CASE i \in (Len(q) + 1)..(Len(q) + Len(m))
      <4>1. i - Len(q) \in 1..Len(m) /\ qm[i] = m[i - Len(q)]
        BY <1>1, <1>2, <3>2
      <4>2. qm[i][1] = k + 1 /\ qm[i][2] = i - Len(q)
        BY <4>1
      <4>3. i - Len(q) < j - Len(q)
        BY <1>1
      <4> HIDE DEF qm
      <4> QED
        BY <2>3, <4>2, <4>3 DEF Before
    <3> QED
      BY <1>1, <3>1, <3>2
  <2>5. qm[j][1] <= k + 1
    <3> HIDE DEF qm
    <3> QED
      BY <2>3
  <2> QED
    BY <2>4, <2>5
<1>6. \A j \in 1..Len(qm) : j \in 1..Len(q) \/ j \in (Len(q) + 1)..(Len(q) + Len(m))
  BY <1>1, <1>2
<1> HIDE DEF qm
<1>7. InOrder(qm, k + 1)
  BY <1>4, <1>5, <1>6 DEF InOrder
<1> QED
  BY <1>7 DEF qm

LEMMA OrderInit == Init => OrderInv
BY DEF Init, OrderInv, InOrder

LEMMA OrderStep ==
  ASSUME IInv, OrderInv, [Next]_vars
  PROVE  OrderInv'
<1>1. CASE say
  <2>1. PICK to \in SUBSET connected, len \in 1..MaxLen :
          queue_message(to, Message(said', len))
    BY <1>1 DEF say
  <2>2. said' \in 1..MaxMessages /\ said' = said + 1 /\ said \in Nat
    BY <1>1, ConnectionAssumption DEF say, OrderInv, IInv, TypeOK
  <2> DEFINE msg == Message(said', len)
  <2>3. msg \in Seq(Byte) /\ Len(msg) = len
    BY <2>2, MessageBytes
  <2>4. \A i \in 1..Len(msg) : msg[i][1] = said + 1 /\ msg[i][2] = i
    BY <2>2, <2>3 DEF Message
  <2>5. queued' = Extended(queued, to, msg)
    BY <2>1 DEF queue_message
  <2> HIDE DEF msg
  <2>6. ASSUME NEW c \in Client
        PROVE  InOrder(queued'[c], said + 1)
    <3>1. queued[c] \in Seq(Byte) /\ InOrder(queued[c], said)
      BY DEF IInv, TypeOK, OrderInv
    <3>2. CASE c \in to
      <4>1. queued'[c] = queued[c] \o msg
        BY <2>5, <3>2 DEF Extended
      <4>2. InOrder(queued[c] \o msg, said + 1)
        BY <2>2, <2>3, <2>4, <3>1, OrderExtended
      <4> QED
        BY <4>1, <4>2
    <3>3. CASE c \notin to
      <4>1. queued'[c] = queued[c]
        BY <2>5, <3>3 DEF Extended
      <4> QED
        BY <2>2, <3>1, <4>1, OrderWeakened
    <3> QED
      BY <3>2, <3>3
  <2> QED
    BY <2>2, <2>6 DEF OrderInv
<1>2. CASE UNCHANGED <<said, queued>>
  BY <1>2, Zenon DEF OrderInv, InOrder
<1> QED
  BY <1>1, <1>2
  DEF Next, handle_write, end_of_input, hang_up, disconnect_client,
      acknowledge, reset, output, vars

(* All peers see the messages they have in common in one order, and none   *)
(* sees a part of a message between parts of another.                      *)
THEOREM OneOrderForAll == Spec => []OneOrder
<1>1. ASSUME IInv, OrderInv
      PROVE  OneOrder
  <2>1. SUFFICES ASSUME NEW c \in Client, NEW j \in 1..Len(delivered[c]),
                        NEW i \in 1..(j - 1)
                 PROVE  Before(delivered[c][i], delivered[c][j])
    BY DEF OneOrder
  <2> DEFINE q == queued[c]
             d == delivered[c]
  <2>2. /\ q \in Seq(Byte) /\ d \in Seq(Byte) /\ wire[c] \in Seq(Byte)
        /\ Flows(q, d, wire[c], out_buffer[c], c \in connected)
        /\ InOrder(q, said)
    BY <1>1 DEF IInv, TypeOK, Flow, OrderInv
  <2>3. j \in 1..Len(d) /\ i \in 1..(j - 1)
    OBVIOUS
  <2> HIDE DEF q, d
  <2>4. /\ Len(d) \in Nat /\ Len(q) \in Nat /\ Len(d) <= Len(q)
        /\ SubSeq(q, 1, Len(d)) = d
    BY <2>2, ReceivedPrefix
  <2>5. \A n \in 1..Len(d) : d[n] = q[n]
    <3>1. \A n \in 1..Len(d) : SubSeq(q, 1, Len(d))[n] = q[n]
      BY <2>2, <2>4
    <3> QED
      BY <2>4, <3>1
  <2>6. Before(q[i], q[j])
    BY <2>2, <2>3, <2>4 DEF InOrder
  <2>7. d[i] = q[i] /\ d[j] = q[j]
    BY <2>3, <2>4, <2>5
  <2> QED
    BY <2>6, <2>7 DEF d
<1> QED
  BY <1>1, FlowInit, FlowStep, OrderInit, OrderStep, PTL DEF Spec
=============================================================================
