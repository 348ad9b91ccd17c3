-------------------------- MODULE EventStreamProofs --------------------------
(***************************************************************************)
(* What EventStream delivers, for any number of streams and any sizes of   *)
(* the ring buffer and of the channels, and that it implements ReliableLog *)
(* for all of them.                                                        *)
(***************************************************************************)
EXTENDS EventStream, TLAPS

-----------------------------------------------------------------------------
(* Slots of the ring buffer.                                               *)

LEMMA SlotInRing ==
    ASSUME NEW S \in Nat \ {0}, NEW a \in Nat
    PROVE  a % S \in 0 .. S - 1
  BY SMTT(20)

LEMMA QuotientRemainder ==
    ASSUME NEW S \in Nat \ {0}, NEW a \in Nat
    PROVE  a = S * (a \div S) + (a % S) /\ a \div S \in Int
  BY SMTT(20)

LEMMA Distribute ==
    ASSUME NEW S \in Nat \ {0}, NEW p \in Int, NEW q \in Int
    PROVE  S * q - S * p = S * (q - p)
  BY SMTT(20)

LEMMA AtLeastOneTurn ==
    ASSUME NEW S \in Nat \ {0}, NEW k \in Int, k > 0
    PROVE  S * k >= S
  BY SMTT(20)

(* Two events less than a turn of the ring apart have different slots.     *)
LEMMA SlotsDiffer ==
    ASSUME NEW S \in Nat \ {0}, NEW a \in Nat, NEW b \in Nat, a < b, b - a < S
    PROVE  a % S # b % S
<1> SUFFICES ASSUME a % S = b % S PROVE FALSE
  OBVIOUS
<1> DEFINE p == a \div S
           q == b \div S
<1>1. a = S * p + (a % S) /\ b = S * q + (b % S) /\ p \in Int /\ q \in Int
  BY QuotientRemainder
<1>2. a % S \in Int /\ b % S \in Int
  BY SlotInRing
<1>3. S * p \in Int /\ S * q \in Int
  BY <1>1
<1> HIDE DEF p, q
<1>4. b - a = S * q - S * p
  BY <1>1, <1>2, <1>3
<1>5. b - a = S * (q - p)
  BY <1>4, <1>1, Distribute
<1>6. CASE q - p > 0
  BY <1>6, <1>5, <1>1, AtLeastOneTurn
<1>7. CASE q - p <= 0
  BY <1>7, <1>5, <1>1, SMTT(20)
<1>8. QED
  BY <1>6, <1>7, <1>1

-----------------------------------------------------------------------------
(* Sequences of consecutive events.                                        *)

Run(s, first) == \A j \in 1 .. Len(s) : s[j] = first + j - 1

LEMMA HeadAndTail ==
    ASSUME NEW E, NEW s \in Seq(E), s # <<>>
    PROVE  Head(s) \in E /\ Tail(s) \in Seq(E) /\ Len(Tail(s)) = Len(s) - 1
  OBVIOUS

LEMMA RunAppend ==
    ASSUME NEW s \in Seq(Int), NEW first \in Int, Run(s, first)
    PROVE  Run(Append(s, first + Len(s)), first)
  BY DEF Run

LEMMA RunTail ==
    ASSUME NEW s \in Seq(Int), s # <<>>, NEW first \in Int, Run(s, first)
    PROVE  Head(s) = first /\ Run(Tail(s), first + 1)
  BY DEF Run

LEMMA RunConcat ==
    ASSUME NEW s \in Seq(Int), NEW t \in Seq(Int), NEW first \in Int,
           Run(s, first), Run(t, first + Len(s))
    PROVE  Run(s \o t, first)
<1> SUFFICES ASSUME NEW j \in 1 .. Len(s \o t) PROVE (s \o t)[j] = first + j - 1
  BY DEF Run
<1>1. CASE j <= Len(s)
  BY <1>1 DEF Run
<1>2. CASE j > Len(s)
  <2>1. (s \o t)[j] = t[j - Len(s)] /\ j - Len(s) \in 1 .. Len(t)
    BY <1>2
  <2>2. QED
    BY <2>1 DEF Run
<1>3. QED
  BY <1>1, <1>2

-----------------------------------------------------------------------------
(* The invariant.                                                          *)

InFlight == IF emitting THEN 1 ELSE 0

(* While the buffer is open the counter is behind the writer by the event  *)
(* of an Emit in progress; afterwards the writer stands still.             *)
CounterInv ==
    /\ emitting => seq < MaxEvents
    /\ IF closed THEN written <= seq + InFlight ELSE written = seq + InFlight

(* The last Size events are in their slots.                                *)
WindowInv ==
    \A e \in 0 .. MaxEvents - 1 :
        e < written /\ written - e <= Size => ring[e % Size] = e

(* What a stream has carried and what is on its way are consecutive events *)
(* from its start up to its reading position.                              *)
ReadInv(x) ==
    /\ pos[x] <= written
    /\ pos[x] = start[x] + Len(got[x]) + Len(channel[x])
    /\ Run(got[x], start[x])
    /\ Run(channel[x], start[x] + Len(got[x]))
    /\ phase[x] \in {"idle", "loaded", "lost"} =>
          channel[x] = <<>> /\ got[x] = <<>> /\ drained[x] = "no"
    /\ phase[x] = "ended" => channel[x] = <<>>
    /\ drained[x] = "eof" => closed /\ pos[x] = written

(* The lag a subscription is made with leads it to its event or past it.   *)
FromInv(x) ==
    /\ phase[x] = "loaded" =>
          from[x] >= 0 /\ (~closed => from[x] + behind[x] <= written)
    /\ phase[x] = "open" /\ ~closed => start[x] >= from[x]

StreamInv ==
    /\ TypeOK
    /\ CounterInv
    /\ WindowInv
    /\ \A x \in Streams : ReadInv(x) /\ FromInv(x)

-----------------------------------------------------------------------------

LEMMA Sizes ==
    /\ Size \in Nat /\ Size > 0
    /\ Buffer \in Nat /\ Buffer > 0
    /\ MaxEvents \in Nat /\ MaxEvents > 0
  BY SizesArePositive

LEMMA NextCases ==
    ASSUME Next
    PROVE  \/ Emit
           \/ Close
           \/ \E x \in Streams :
                 \/ \E n \in Numbers : SubscribeLoad(x, n)
                 \/ SubscribeAttach(x)
                 \/ Deliver(x)
                 \/ StreamEnd(x)
                 \/ Forward(x)
                 \/ ForwardTooSlow(x)
                 \/ ForwardEnd(x)
                 \/ Disconnect(x)
  BY DEF Next, Handler, Forwarder

LEMMA StreamInvInit == Init => StreamInv
<1> SUFFICES ASSUME Init PROVE StreamInv
  OBVIOUS
<1> USE Sizes
<1>1. TypeOK
  <2>1. ring \in [0 .. Size - 1 -> -1 .. MaxEvents - 1]
    BY DEF Init
  <2>2. from \in [Streams -> Numbers]
    BY DEF Init, Numbers
  <2>3. /\ channel \in [Streams -> Seq(0 .. MaxEvents - 1)]
        /\ got \in [Streams -> Seq(0 .. MaxEvents - 1)]
        /\ \A x \in Streams : Len(channel[x]) <= Buffer
    BY DEF Init
  <2>4. /\ emitting \in BOOLEAN /\ closed \in BOOLEAN
        /\ phase \in [Streams -> {"idle", "loaded", "open", "ended", "lost", "gone"}]
        /\ drained \in [Streams -> {"no", "eof", "slow"}]
    BY DEF Init
  <2>5. /\ written \in 0 .. MaxEvents /\ seq \in 0 .. MaxEvents
        /\ behind \in [Streams -> 0 .. Size]
        /\ start \in [Streams -> 0 .. MaxEvents]
        /\ pos \in [Streams -> 0 .. MaxEvents]
    BY DEF Init
  <2>6. QED
    BY <2>1, <2>2, <2>3, <2>4, <2>5 DEF TypeOK
<1>2. CounterInv
  BY DEF Init, CounterInv, InFlight
<1>3. WindowInv
  BY DEF Init, WindowInv
<1>4. ASSUME NEW x \in Streams PROVE ReadInv(x) /\ FromInv(x)
  <2>1. got[x] = <<>> /\ channel[x] = <<>>
    BY DEF Init
  <2>2. Len(got[x]) = 0 /\ Len(channel[x]) = 0
    BY <2>1
  <2>3. QED
    BY <2>1, <2>2 DEF Init, ReadInv, FromInv, Run
<1>5. QED
  BY <1>1, <1>2, <1>3, <1>4 DEF StreamInv

(* The event an open subscription reads next is in its slot.               *)
LEMMA ReadsItsEvent ==
    ASSUME StreamInv, NEW x \in Streams, pos[x] < written,
           written - pos[x] <= Size
    PROVE  /\ ring[pos[x] % Size] = pos[x]
           /\ pos[x] \in 0 .. MaxEvents - 1
  BY Sizes DEF StreamInv, TypeOK, WindowInv

LEMMA WriteKeepsWindow ==
    ASSUME StreamInv, ~closed, ~emitting, seq < MaxEvents, Write
    PROVE  /\ ring' \in [0 .. Size - 1 -> -1 .. MaxEvents - 1]
           /\ written' = written + 1
           /\ written' \in 0 .. MaxEvents
           /\ WindowInv'
<1> USE Sizes
<1>1. written \in Nat /\ written < MaxEvents /\ Size \in Nat \ {0}
         /\ MaxEvents \in Nat
  BY DEF StreamInv, TypeOK, CounterInv, InFlight
<1>2. written % Size \in 0 .. Size - 1
  BY <1>1, SlotInRing
<1>3. ring' = [ring EXCEPT ![written % Size] = written] /\ written' = written + 1
  BY DEF Write
<1>4. ring \in [0 .. Size - 1 -> -1 .. MaxEvents - 1]
  BY DEF StreamInv, TypeOK
<1>5. ASSUME NEW e \in 0 .. MaxEvents - 1, e < written', written' - e <= Size
      PROVE  ring'[e % Size] = e
  <2>1. CASE e = written
    BY <2>1, <1>2, <1>3, <1>4
  <2>2. CASE e < written
    <3>1. ring[e % Size] = e
      BY <2>2, <1>5, <1>1, <1>3 DEF StreamInv, WindowInv
    <3>2. e % Size # written % Size
      <4>1. e \in Nat /\ written \in Nat /\ e < written /\ written - e < Size
        BY <2>2, <1>5, <1>1, <1>3
      <4>2. QED
        BY <4>1, <1>1, SlotsDiffer
    <3>3. e % Size \in 0 .. Size - 1
      BY <1>1, SlotInRing
    <3>4. QED
      BY <3>1, <3>2, <3>3, <1>3, <1>4
  <2>3. QED
    BY <2>1, <2>2, <1>5, <1>1, <1>3
<1>6. QED
  BY <1>1, <1>2, <1>3, <1>4, <1>5 DEF WindowInv

LEMMA CarriedType ==
    ASSUME StreamInv, NEW x \in Streams
    PROVE  /\ got[x] \in Seq(Int) /\ channel[x] \in Seq(Int)
           /\ start[x] \in Int
           /\ Len(got[x]) \in Nat /\ Len(channel[x]) \in Nat
<1> DEFINE E == 0 .. MaxEvents - 1
<1>1. got[x] \in Seq(E) /\ channel[x] \in Seq(E) /\ start[x] \in 0 .. MaxEvents
  BY DEF StreamInv, TypeOK
<1>2. Seq(E) \subseteq Seq(Int)
  BY Sizes
<1>3. QED
  BY <1>1, <1>2, Sizes

(* A step of one stream leaves the ring buffer's part of the invariant and *)
(* the other streams' alone.                                               *)
LEMMA RingUntouched ==
    ASSUME StreamInv, UNCHANGED ringVars
    PROVE  CounterInv' /\ WindowInv'
  BY DEF StreamInv, CounterInv, InFlight, WindowInv, ringVars

LEMMA StreamUntouched ==
    ASSUME StreamInv, NEW y \in Streams,
           written' = written, closed' = closed,
           phase'[y] = phase[y], from'[y] = from[y], behind'[y] = behind[y],
           start'[y] = start[y], pos'[y] = pos[y], channel'[y] = channel[y],
           drained'[y] = drained[y], got'[y] = got[y]
    PROVE  ReadInv(y)' /\ FromInv(y)'
<1>1. ReadInv(y) /\ FromInv(y)
  BY DEF StreamInv
<1>2. ReadInv(y)'
  BY <1>1 DEF ReadInv, Run
<1>3. FromInv(y)'
  BY <1>1 DEF FromInv
<1>4. QED
  BY <1>2, <1>3

LEMMA EmitKeeps == StreamInv /\ Emit => StreamInv'
<1> SUFFICES ASSUME StreamInv, Emit PROVE StreamInv'
  OBVIOUS
<1> USE Sizes DEF ringVars, subVars, readVars
<1>1. CASE emitting \/ closed
  <2>1. UNCHANGED <<written, ring, closed, phase, from, behind, start, pos,
                    channel, drained, got>>
    BY <1>1 DEF Emit, Write
  <2>2. TypeOK' /\ CounterInv'
    <3>1. CASE emitting
      <4>1. seq' = seq + 1 /\ ~emitting' /\ emitting' \in BOOLEAN
        BY <3>1 DEF Emit
      <4>2. /\ seq \in Nat /\ seq < MaxEvents
            /\ IF closed THEN written <= seq + 1 ELSE written = seq + 1
        BY <3>1 DEF StreamInv, TypeOK, CounterInv, InFlight
      <4>3. seq' \in 0 .. MaxEvents
        BY <4>1, <4>2
      <4>4. CounterInv'
        BY <4>1, <4>2, <2>1 DEF CounterInv, InFlight
      <4>5. QED
        BY <4>1, <4>3, <4>4, <2>1 DEF StreamInv, TypeOK
    <3>2. CASE ~emitting
      <4>1. seq < MaxEvents /\ seq' = seq /\ emitting' /\ emitting' \in BOOLEAN
        BY <3>2 DEF Emit
      <4>2. seq \in Nat /\ written \in Nat /\ closed /\ written <= seq
        BY <1>1, <3>2 DEF StreamInv, TypeOK, CounterInv, InFlight
      <4>3. CounterInv'
        BY <4>1, <4>2, <2>1 DEF CounterInv, InFlight
      <4>4. QED
        BY <4>1, <4>3, <2>1 DEF StreamInv, TypeOK
    <3>3. QED
      BY <3>1, <3>2
  <2>3. WindowInv'
    BY <2>1 DEF StreamInv, WindowInv
  <2>4. ASSUME NEW y \in Streams PROVE ReadInv(y)' /\ FromInv(y)'
    BY <2>1, <2>4, StreamUntouched
  <2>5. QED
    BY <2>2, <2>3, <2>4 DEF StreamInv
<1>2. CASE ~emitting /\ ~closed
  <2> USE <1>2 DEF Emit
  <2>1. /\ ring' \in [0 .. Size - 1 -> -1 .. MaxEvents - 1]
        /\ written' = written + 1
        /\ written' \in 0 .. MaxEvents
        /\ WindowInv'
    BY WriteKeepsWindow
  <2>2. TypeOK'
    BY <2>1 DEF StreamInv, TypeOK
  <2>3. CounterInv'
    <3>1. seq < MaxEvents /\ seq' = seq /\ emitting' /\ ~closed'
      OBVIOUS
    <3>2. written = seq /\ seq \in Nat
      BY DEF StreamInv, TypeOK, CounterInv, InFlight
    <3>3. QED
      BY <2>1, <3>1, <3>2 DEF CounterInv, InFlight
  <2>4. ASSUME NEW y \in Streams PROVE ReadInv(y)' /\ FromInv(y)'
    <3>1. ReadInv(y) /\ FromInv(y) /\ written \in Int /\ pos[y] \in Int
             /\ from[y] \in Int /\ behind[y] \in Int
      BY <2>4 DEF StreamInv, TypeOK, Numbers
    <3>2. ReadInv(y)'
      BY <2>1, <3>1 DEF ReadInv, Run
    <3>3. FromInv(y)'
      BY <2>1, <3>1 DEF FromInv
    <3>4. QED
      BY <3>2, <3>3
  <2>5. QED
    BY <2>1, <2>2, <2>3, <2>4 DEF StreamInv
<1>3. QED
  BY <1>1, <1>2

LEMMA CloseKeeps == StreamInv /\ Close => StreamInv'
<1> SUFFICES ASSUME StreamInv, Close PROVE StreamInv'
  OBVIOUS
<1> USE DEF Close, ringVars, subVars, readVars
<1>1. TypeOK' /\ CounterInv'
  BY DEF StreamInv, TypeOK, CounterInv, InFlight
<1>2. WindowInv'
  BY DEF StreamInv, WindowInv
<1>3. ASSUME NEW y \in Streams PROVE ReadInv(y)' /\ FromInv(y)'
  <2>1. ReadInv(y) /\ FromInv(y)
    BY <1>3 DEF StreamInv
  <2>2. ReadInv(y)'
    BY <2>1 DEF ReadInv, Run
  <2>3. FromInv(y)'
    BY <2>1 DEF FromInv
  <2>4. QED
    BY <2>2, <2>3
<1>4. QED
  BY <1>1, <1>2, <1>3 DEF StreamInv

LEMMA SubscribeLoadKeeps ==
    ASSUME StreamInv, NEW x \in Streams, NEW n \in Numbers, SubscribeLoad(x, n)
    PROVE  StreamInv'
<1> USE Sizes DEF SubscribeLoad, ringVars, subVars, readVars
<1>1. seq \in Nat /\ n \in Int /\ Size \in Nat
  BY DEF StreamInv, TypeOK, Numbers
<1>2. TypeOK'
  <2>1. from' \in [Streams -> Numbers]
    BY DEF StreamInv, TypeOK
  <2>2. behind' \in [Streams -> 0 .. Size]
    <3>1. behind \in [Streams -> 0 .. Size]
      BY DEF StreamInv, TypeOK
    <3>2. CASE n < 0 \/ seq - n < 0 \/ seq - n > Size
      BY <3>1, <3>2
    <3>3. CASE ~(n < 0 \/ seq - n < 0 \/ seq - n > Size)
      <4>1. seq - n \in 0 .. Size
        BY <3>3, <1>1
      <4>2. behind' = [behind EXCEPT ![x] = seq - n]
        BY <3>3
      <4>3. QED
        BY <4>1, <4>2, <3>1
    <3>4. QED
      BY <3>2, <3>3
  <2>3. phase' \in [Streams -> {"idle", "loaded", "open", "ended", "lost", "gone"}]
    BY DEF StreamInv, TypeOK
  <2>4. QED
    BY <2>1, <2>2, <2>3 DEF StreamInv, TypeOK
<1>3. CounterInv' /\ WindowInv'
  BY RingUntouched
<1>4. ReadInv(x)'
  <2>1. ReadInv(x) /\ phase'[x] \in {"loaded", "lost"}
    BY DEF StreamInv, TypeOK
  <2>2. QED
    BY <2>1 DEF ReadInv, Run
<1>5. FromInv(x)'
  <2>1. phase'[x] # "open" /\ from'[x] = n
    BY DEF StreamInv, TypeOK
  <2>2. ASSUME phase'[x] = "loaded" PROVE n >= 0 /\ behind'[x] = seq - n
    <3>1. /\ behind \in [Streams -> 0 .. Size]
          /\ phase \in [Streams -> {"idle", "loaded", "open", "ended", "lost", "gone"}]
      BY DEF StreamInv, TypeOK
    <3>2. ~(n < 0 \/ seq - n < 0 \/ seq - n > Size)
      BY <2>2, <3>1
    <3>3. QED
      BY <3>1, <3>2, <1>1
  <2>3. ~closed => seq <= written /\ written \in Int
    BY DEF StreamInv, TypeOK, CounterInv, InFlight
  <2>4. QED
    BY <1>1, <2>1, <2>2, <2>3 DEF FromInv
<1>6. ASSUME NEW y \in Streams, y # x PROVE ReadInv(y)' /\ FromInv(y)'
  BY <1>6, StreamUntouched DEF StreamInv, TypeOK
<1>7. QED
  BY <1>2, <1>3, <1>4, <1>5, <1>6 DEF StreamInv

LEMMA SubscribeAttachKeeps ==
    ASSUME StreamInv, NEW x \in Streams, SubscribeAttach(x)
    PROVE  StreamInv'
<1> USE Sizes DEF SubscribeAttach, ringVars, subVars, readVars
<1> DEFINE at == IF behind[x] > written THEN 0 ELSE written - behind[x]
<1>1. /\ written \in 0 .. MaxEvents /\ behind[x] \in 0 .. Size
      /\ from[x] \in Int /\ Size \in Nat /\ MaxEvents \in Nat
  BY DEF StreamInv, TypeOK, Numbers
<1>2. at \in 0 .. written
  BY <1>1
<1>3. start'[x] = at /\ pos'[x] = at /\ phase'[x] = "open"
  BY DEF StreamInv, TypeOK
<1>4. TypeOK'
  <2>1. at \in 0 .. MaxEvents
    BY <1>1, <1>2
  <2>2. /\ start' \in [Streams -> 0 .. MaxEvents]
        /\ pos' \in [Streams -> 0 .. MaxEvents]
    BY <2>1 DEF StreamInv, TypeOK
  <2>3. phase' \in [Streams -> {"idle", "loaded", "open", "ended", "lost", "gone"}]
    BY DEF StreamInv, TypeOK
  <2>4. QED
    BY <2>2, <2>3 DEF StreamInv, TypeOK
<1>5. CounterInv' /\ WindowInv'
  BY RingUntouched
<1>6. ReadInv(x)'
  <2>1. /\ channel'[x] = <<>> /\ got'[x] = <<>> /\ drained'[x] = "no"
        /\ written' = written
    BY DEF StreamInv, ReadInv
  <2>2. Len(channel'[x]) = 0 /\ Len(got'[x]) = 0
    BY <2>1
  <2>3. QED
    BY <2>1, <2>2, <1>1, <1>2, <1>3 DEF ReadInv, Run
<1>7. FromInv(x)'
  <2>1. from[x] >= 0 /\ (~closed => from[x] + behind[x] <= written)
    BY DEF StreamInv, FromInv
  <2>2. ~closed => at >= from[x]
    BY <2>1, <1>1
  <2>3. QED
    BY <2>2, <1>3 DEF FromInv
<1>8. ASSUME NEW y \in Streams, y # x PROVE ReadInv(y)' /\ FromInv(y)'
  BY <1>8, StreamUntouched DEF StreamInv, TypeOK
<1>9. QED
  BY <1>4, <1>5, <1>6, <1>7, <1>8 DEF StreamInv

LEMMA DeliverKeeps ==
    ASSUME StreamInv, NEW x \in Streams, Deliver(x)
    PROVE  StreamInv'
<1> USE Sizes DEF Deliver, ringVars, subVars, readVars
<1> DEFINE E == 0 .. MaxEvents - 1
<1>1. /\ got[x] \in Seq(E) /\ channel[x] \in Seq(E) /\ channel[x] # <<>>
      /\ Len(channel[x]) <= Buffer
      /\ start[x] \in Int
  BY DEF StreamInv, TypeOK
<1>2. /\ got'[x] = Append(got[x], Head(channel[x]))
      /\ channel'[x] = Tail(channel[x])
  BY DEF StreamInv, TypeOK
<1>3. /\ Append(got[x], Head(channel[x])) \in Seq(E)
      /\ Tail(channel[x]) \in Seq(E)
      /\ Len(Append(got[x], Head(channel[x]))) = Len(got[x]) + 1
      /\ Len(Tail(channel[x])) = Len(channel[x]) - 1
  <2>1. Head(channel[x]) \in E /\ Tail(channel[x]) \in Seq(E)
    BY <1>1, HeadAndTail
  <2>2. Append(got[x], Head(channel[x])) \in Seq(E)
    BY <2>1, <1>1
  <2>3. Len(Append(got[x], Head(channel[x]))) = Len(got[x]) + 1
    BY <1>1
  <2>4. Len(Tail(channel[x])) = Len(channel[x]) - 1
    BY <1>1
  <2>5. QED
    BY <2>1, <2>2, <2>3, <2>4
<1>4. TypeOK'
  <2>1. got' \in [Streams -> Seq(E)] /\ channel' \in [Streams -> Seq(E)]
    BY <1>3 DEF StreamInv, TypeOK
  <2>2. ASSUME NEW y \in Streams PROVE Len(channel'[y]) <= Buffer
    <3>1. CASE y = x
      BY <3>1, <1>1, <1>2, <1>3
    <3>2. CASE y # x
      BY <3>2 DEF StreamInv, TypeOK
    <3>3. QED
      BY <3>1, <3>2
  <2>3. QED
    BY <2>1, <2>2 DEF StreamInv, TypeOK
<1>5. CounterInv' /\ WindowInv'
  BY RingUntouched
<1>6. ReadInv(x)'
  <2>1. ReadInv(x)
    BY DEF StreamInv
  <2>2. /\ got[x] \in Seq(Int) /\ channel[x] \in Seq(Int)
        /\ Len(got[x]) \in Nat /\ Len(channel[x]) \in Nat /\ start[x] \in Int
    BY CarriedType
  <2> DEFINE next == start[x] + Len(got[x])
  <2>3. next \in Int /\ start[x] + (Len(got[x]) + 1) = next + 1
    <3> DEFINE a == start[x]
               b == Len(got[x])
    <3>1. a \in Int /\ b \in Int
      BY <2>2
    <3> HIDE DEF a, b
    <3>2. a + b \in Int /\ a + (b + 1) = a + b + 1
      BY <3>1
    <3>3. QED
      BY <3>2 DEF a, b
  <2>4. Run(got[x], start[x]) /\ Run(channel[x], next)
    BY <2>1 DEF ReadInv
  <2> HIDE DEF next
  <2>5. Head(channel[x]) = next /\ Run(Tail(channel[x]), next + 1)
    BY <2>2, <2>3, <2>4, <1>1, RunTail
  <2>6. Run(Append(got[x], next), start[x])
    BY <2>2, <2>4, RunAppend DEF next
  <2>7. Run(got'[x], start[x]) /\ Run(channel'[x], start[x] + Len(got'[x]))
    <3>1. Len(got'[x]) = Len(got[x]) + 1
      BY <1>2, <1>3
    <3>2. QED
      BY <2>3, <2>5, <2>6, <1>2, <3>1
  <2>8. pos'[x] = start'[x] + Len(got'[x]) + Len(channel'[x])
    <3>1. pos[x] = start[x] + Len(got[x]) + Len(channel[x])
      BY <2>1 DEF ReadInv
    <3>2. /\ Len(got'[x]) = Len(got[x]) + 1
          /\ Len(channel'[x]) = Len(channel[x]) - 1
      BY <1>2, <1>3
    <3>3. QED
      BY <3>1, <3>2, <2>2
  <2>9. QED
    BY <2>1, <2>7, <2>8 DEF ReadInv
<1>7. FromInv(x)'
  BY DEF StreamInv, FromInv
<1>8. ASSUME NEW y \in Streams, y # x PROVE ReadInv(y)' /\ FromInv(y)'
  BY <1>8, StreamUntouched DEF StreamInv, TypeOK
<1>9. QED
  BY <1>4, <1>5, <1>6, <1>7, <1>8 DEF StreamInv

LEMMA ForwardKeeps ==
    ASSUME StreamInv, NEW x \in Streams, Forward(x)
    PROVE  StreamInv'
<1> USE Sizes DEF Forward, Attached, ringVars, subVars, readVars
<1> DEFINE E == 0 .. MaxEvents - 1
<1>1. ring[pos[x] % Size] = pos[x] /\ pos[x] \in E
  BY ReadsItsEvent
<1>2. /\ got[x] \in Seq(E) /\ channel[x] \in Seq(E) /\ start[x] \in Int
      /\ written \in 0 .. MaxEvents
  BY DEF StreamInv, TypeOK
<1>3. channel'[x] = Append(channel[x], pos[x]) /\ pos'[x] = pos[x] + 1
  BY <1>1 DEF StreamInv, TypeOK
<1>4. /\ Append(channel[x], pos[x]) \in Seq(E)
      /\ Len(Append(channel[x], pos[x])) = Len(channel[x]) + 1
      /\ Len(channel[x]) \in Nat /\ Len(got[x]) \in Nat
  BY <1>1, <1>2
<1>5. TypeOK'
  <2>1. channel' \in [Streams -> Seq(E)] /\ pos' \in [Streams -> 0 .. MaxEvents]
    <3>1. channel \in [Streams -> Seq(E)] /\ pos \in [Streams -> 0 .. MaxEvents]
      BY DEF StreamInv, TypeOK
    <3>2. pos[x] + 1 \in 0 .. MaxEvents
      BY <1>1
    <3>3. pos' = [pos EXCEPT ![x] = pos[x] + 1]
      OBVIOUS
    <3>4. channel' = [channel EXCEPT ![x] = Append(channel[x], pos[x])]
      BY <1>1
    <3>5. pos' \in [Streams -> 0 .. MaxEvents]
      BY <3>1, <3>2, <3>3
    <3>6. channel' \in [Streams -> Seq(E)]
      BY <3>1, <3>4, <1>4
    <3>7. QED
      BY <3>5, <3>6
  <2>2. ASSUME NEW y \in Streams PROVE Len(channel'[y]) <= Buffer
    <3>1. CASE y = x
      BY <3>1, <1>3, <1>4
    <3>2. CASE y # x
      BY <3>2 DEF StreamInv, TypeOK
    <3>3. QED
      BY <3>1, <3>2
  <2>3. QED
    BY <2>1, <2>2 DEF StreamInv, TypeOK
<1>6. CounterInv' /\ WindowInv'
  BY RingUntouched
<1>7. ReadInv(x)'
  <2>1. ReadInv(x)
    BY DEF StreamInv
  <2>2. channel[x] \in Seq(Int) /\ start[x] + Len(got[x]) \in Int
    BY <1>2, <1>4
  <2>3. pos[x] = start[x] + Len(got[x]) + Len(channel[x])
    BY <2>1 DEF ReadInv
  <2>4. Run(channel'[x], start[x] + Len(got[x]))
    BY <2>1, <2>2, <2>3, <1>3, RunAppend DEF ReadInv
  <2>5. pos'[x] = start[x] + Len(got[x]) + Len(channel'[x])
    <3>1. Len(channel'[x]) = Len(channel[x]) + 1
      BY <1>3, <1>4
    <3>2. QED
      <4> DEFINE a == start[x]
                 b == Len(got[x])
                 c == Len(channel[x])
      <4>1. a \in Int /\ b \in Int /\ c \in Int /\ pos[x] = a + b + c
        BY <2>3, <1>2, <1>4
      <4> HIDE DEF a, b, c
      <4>2. pos[x] + 1 = a + b + (c + 1)
        BY <4>1
      <4>3. QED
        BY <4>2, <3>1, <1>3 DEF a, b, c
  <2>6. pos'[x] <= written
    BY <1>1, <1>2, <1>3
  <2>7. QED
    BY <2>1, <2>4, <2>5, <2>6 DEF ReadInv
<1>8. FromInv(x)'
  BY DEF StreamInv, FromInv
<1>9. ASSUME NEW y \in Streams, y # x PROVE ReadInv(y)' /\ FromInv(y)'
  BY <1>9, StreamUntouched DEF StreamInv, TypeOK
<1>10. QED
  BY <1>5, <1>6, <1>7, <1>8, <1>9 DEF StreamInv

(* The ends of a stream: the goroutine closes the channel, the handler     *)
(* returns, the client goes away.                                          *)
LEMMA EndingKeeps ==
    ASSUME StreamInv, NEW x \in Streams,
           ForwardTooSlow(x) \/ ForwardEnd(x) \/ StreamEnd(x) \/ Disconnect(x)
    PROVE  StreamInv'
<1> USE DEF ForwardTooSlow, ForwardEnd, StreamEnd, Disconnect, Attached,
        ringVars, subVars, readVars
<1>1. TypeOK'
  BY DEF StreamInv, TypeOK
<1>2. CounterInv' /\ WindowInv'
  BY RingUntouched
<1>3. ReadInv(x)' /\ FromInv(x)'
  <2>1. ReadInv(x) /\ FromInv(x)
    BY DEF StreamInv
  <2>2. /\ phase \in [Streams -> {"idle", "loaded", "open", "ended", "lost", "gone"}]
        /\ drained \in [Streams -> {"no", "eof", "slow"}]
    BY DEF StreamInv, TypeOK
  <2>3. ReadInv(x)'
    BY <2>1, <2>2 DEF ReadInv
  <2>4. FromInv(x)'
    BY <2>1, <2>2 DEF FromInv
  <2>5. QED
    BY <2>3, <2>4
<1>4. ASSUME NEW y \in Streams, y # x PROVE ReadInv(y)' /\ FromInv(y)'
  BY <1>4, StreamUntouched DEF StreamInv, TypeOK
<1>5. QED
  BY <1>1, <1>2, <1>3, <1>4 DEF StreamInv

LEMMA StreamInvNext == StreamInv /\ [Next]_vars => StreamInv'
<1> SUFFICES ASSUME StreamInv, [Next]_vars PROVE StreamInv'
  OBVIOUS
<1>1. CASE Next
  BY <1>1, NextCases, EmitKeeps, CloseKeeps, SubscribeLoadKeeps,
     SubscribeAttachKeeps, DeliverKeeps, ForwardKeeps, EndingKeeps
<1>2. CASE UNCHANGED vars
  <2> USE <1>2 DEF vars, ringVars, subVars, readVars
  <2>1. TypeOK'
    BY DEF StreamInv, TypeOK
  <2>2. CounterInv' /\ WindowInv'
    BY RingUntouched
  <2>3. ASSUME NEW y \in Streams PROVE ReadInv(y)' /\ FromInv(y)'
    BY <2>3, StreamUntouched
  <2>4. QED
    BY <2>1, <2>2, <2>3 DEF StreamInv
<1>3. QED
  BY <1>1, <1>2

LEMMA StreamInvariant == Spec => []StreamInv
  BY StreamInvInit, StreamInvNext, PTL DEF Spec

-----------------------------------------------------------------------------
(* Every variable has its type: no stream carries an empty slot.           *)
THEOREM TypeCorrect == Spec => []TypeOK
  BY StreamInvariant, PTL DEF StreamInv

(* Each response is a gapless run of events, for any ring size: no event   *)
(* is lost, repeated or read from an overwritten slot within a stream.     *)
THEOREM Gapless == Spec => []GaplessFromStart
<1>1. StreamInv => GaplessFromStart
  <2> SUFFICES ASSUME StreamInv, NEW x \in Streams
               PROVE  Run(got[x] \o channel[x], start[x])
    BY DEF GaplessFromStart, Run
  <2>1. got[x] \in Seq(Int) /\ channel[x] \in Seq(Int) /\ start[x] \in Int
    BY CarriedType
  <2>2. QED
    BY <2>1, RunConcat DEF StreamInv, ReadInv
<1>2. QED
  BY <1>1, StreamInvariant, PTL

(* No event is repeated across a reconnect: a stream never starts before   *)
(* the event that was asked for.                                           *)
THEOREM NoRepeat == Spec => []NothingBeforeFrom
<1>1. StreamInv => NothingBeforeFrom
  BY DEF StreamInv, FromInv, NothingBeforeFrom
<1>2. QED
  BY <1>1, StreamInvariant, PTL

(* A stream that ends with its chat has carried the last event.            *)
THEOREM EndDrains == Spec => []EndOfChatDrains
<1>1. StreamInv => EndOfChatDrains
  BY DEF StreamInv, TypeOK, ReadInv, EndOfChatDrains
<1>2. QED
  BY <1>1, StreamInvariant, PTL

(* A subscription is refused only if it asks for what is no longer, or not *)
(* yet, in the buffer: the counter it is checked against is never ahead of *)
(* the open buffer, so no event within the window counts as lost.          *)
THEOREM RefusedOnlyOutside == Spec => RefusedOnlyOutsideWindow
<1> DEFINE Refused == \A x \in Streams :
                phase[x] = "idle" /\ phase'[x] = "lost" =>
                    \/ from'[x] < 0
                    \/ from'[x] > seq
                    \/ closed
                    \/ from'[x] < written - Size
<1>1. ASSUME StreamInv, [Next]_vars PROVE [Refused]_vars
  <2> SUFFICES ASSUME NEW x \in Streams, phase[x] = "idle", phase'[x] = "lost"
               PROVE  \/ from'[x] < 0
                      \/ from'[x] > seq
                      \/ closed
                      \/ from'[x] < written - Size
    OBVIOUS
  <2> USE Sizes
  <2>1. phase \in [Streams -> {"idle", "loaded", "open", "ended", "lost", "gone"}]
    BY <1>1 DEF StreamInv, TypeOK
  <2>2. PICK n \in Numbers : SubscribeLoad(x, n)
    <3>1. phase' # phase
      OBVIOUS
    <3>2. Next
      BY <1>1, <3>1 DEF vars
    <3>3. QED
      BY <3>1, <3>2, <2>1, NextCases DEF Emit, Close, SubscribeLoad, SubscribeAttach,
         Deliver, StreamEnd, Forward, ForwardTooSlow, ForwardEnd, Disconnect
  <2>3. from'[x] = n /\ n \in Int
    BY <2>2, <1>1 DEF StreamInv, TypeOK, SubscribeLoad, Numbers
  <2>4. n < 0 \/ seq - n < 0 \/ seq - n > Size
    BY <2>1, <2>2 DEF SubscribeLoad
  <2>5. seq \in Int /\ written \in Int /\ (~closed => seq <= written)
    BY <1>1 DEF StreamInv, TypeOK, CounterInv, InFlight
  <2>6. QED
    BY <2>3, <2>4, <2>5
<1>2. QED
  BY <1>1, StreamInvariant, PTL DEF Spec, RefusedOnlyOutsideWindow

-----------------------------------------------------------------------------
(* EventStream implements ReliableLog: its first state is the log's, and   *)
(* each of its steps is a step of the log or changes nothing the log has.  *)

logVars == <<written, closed, ResponseStatus, start, got>>

(* The status of a response depends on its phase, and at its end on why    *)
(* the channel was closed.                                                 *)
LEMMA StatusOf ==
    ASSUME TypeOK, NEW x \in Streams
    PROVE  /\ phase[x] \in {"idle", "loaded"} => ResponseStatus[x] = "idle"
           /\ phase[x] = "open" => ResponseStatus[x] = "open"
           /\ phase[x] = "lost" => ResponseStatus[x] = "refused"
           /\ phase[x] = "ended" /\ drained[x] = "eof" => ResponseStatus[x] = "complete"
           /\ phase[x] = "ended" /\ drained[x] # "eof" => ResponseStatus[x] = "broken"
           /\ phase[x] = "gone" => ResponseStatus[x] = "broken"
  BY DEF ResponseStatus, TypeOK

(* The same after a step.                                                  *)
LEMMA StatusAfter ==
    ASSUME TypeOK', NEW x \in Streams
    PROVE  /\ phase'[x] \in {"idle", "loaded"} => ResponseStatus'[x] = "idle"
           /\ phase'[x] = "open" => ResponseStatus'[x] = "open"
           /\ phase'[x] = "lost" => ResponseStatus'[x] = "refused"
           /\ phase'[x] = "ended" /\ drained'[x] = "eof" => ResponseStatus'[x] = "complete"
           /\ phase'[x] = "ended" /\ drained'[x] # "eof" => ResponseStatus'[x] = "broken"
           /\ phase'[x] = "gone" => ResponseStatus'[x] = "broken"
  BY DEF ResponseStatus, TypeOK

(* A step that leaves the phases alone, and the reasons of responses that  *)
(* have ended, leaves the statuses alone.                                  *)
LEMMA StatusKept ==
    ASSUME phase' = phase,
           \A y \in Streams : phase[y] = "ended" => drained'[y] = drained[y]
    PROVE  ResponseStatus' = ResponseStatus
  BY DEF ResponseStatus

(* A step that moves one stream to another phase changes its status only.  *)
LEMMA StatusMoved ==
    ASSUME NEW x \in Streams, NEW p, TypeOK, drained' = drained,
           phase' = [phase EXCEPT ![x] = p]
    PROVE  ResponseStatus' = [ResponseStatus EXCEPT ![x] = ResponseStatus'[x]]
  BY DEF ResponseStatus, TypeOK

-----------------------------------------------------------------------------

LEMMA InitIsLogInit == Init => Log!Init
  BY DEF Init, Log!Init, ResponseStatus

LEMMA EmitIsLogStep ==
    ASSUME StreamInv, Emit
    PROVE  Log!Write \/ UNCHANGED logVars
<1> USE DEF subVars, readVars
<1>1. ResponseStatus' = ResponseStatus
  BY StatusKept DEF Emit
<1>2. CASE ~emitting /\ ~closed
  <2>1. written < MaxEvents
    BY <1>2, Sizes DEF StreamInv, TypeOK, CounterInv, InFlight, Emit
  <2>2. QED
    BY <1>1, <1>2, <2>1 DEF Emit, Write, Log!Write
<1>3. CASE emitting \/ closed
  BY <1>1, <1>3 DEF Emit, Write, logVars
<1>4. QED
  BY <1>2, <1>3

LEMMA CloseIsLogStep ==
    ASSUME Close
    PROVE  Log!CloseLog
<1>1. ResponseStatus' = ResponseStatus
  BY StatusKept DEF Close, readVars
<1>2. QED
  BY <1>1 DEF Close, Log!CloseLog, subVars

LEMMA SubscribeLoadIsLogStep ==
    ASSUME StreamInv, TypeOK', NEW x \in Streams, NEW n \in Numbers, SubscribeLoad(x, n)
    PROVE  Log!Refuse(x) \/ UNCHANGED logVars
<1>1. PICK p \in {"lost", "loaded"} : phase' = [phase EXCEPT ![x] = p]
  BY DEF SubscribeLoad
<1>2. /\ UNCHANGED <<written, closed, start, got, drained>> /\ phase[x] = "idle"
      /\ TypeOK
  BY DEF SubscribeLoad, ringVars, readVars, StreamInv
<1>3. ResponseStatus' = [ResponseStatus EXCEPT ![x] = ResponseStatus'[x]]
  BY <1>1, <1>2, StatusMoved
<1>4. ResponseStatus[x] = "idle"
  BY <1>2, StatusOf
<1>5. phase'[x] = p
  BY <1>1, <1>2 DEF TypeOK
<1>6. CASE p = "lost"
  <2>1. ResponseStatus'[x] = "refused"
    BY <1>5, <1>6, StatusAfter
  <2>2. QED
    BY <1>2, <1>3, <1>4, <2>1 DEF Log!Refuse, Log!Set
<1>7. CASE p = "loaded"
  <2>1. ResponseStatus'[x] = ResponseStatus[x]
    BY <1>4, <1>5, <1>7, StatusAfter
  <2>2. ResponseStatus' = ResponseStatus
    BY <1>3, <2>1 DEF ResponseStatus
  <2>3. QED
    BY <1>2, <2>2 DEF logVars
<1>8. QED
  BY <1>6, <1>7

LEMMA SubscribeAttachIsLogStep ==
    ASSUME StreamInv, TypeOK', NEW x \in Streams, SubscribeAttach(x)
    PROVE  \E k \in 0 .. written : Log!Open(x, k)
<1> DEFINE at == IF behind[x] > written THEN 0 ELSE written - behind[x]
<1>1. /\ UNCHANGED <<written, closed, got, drained>> /\ phase[x] = "loaded"
      /\ phase' = [phase EXCEPT ![x] = "open"]
      /\ start' = [start EXCEPT ![x] = at]
      /\ TypeOK
  BY DEF SubscribeAttach, ringVars, StreamInv
<1>2. at \in 0 .. written
  <2>1. written \in Nat /\ behind[x] \in Nat
    BY <1>1, Sizes DEF TypeOK
  <2>2. QED
    BY <2>1
<1>3. ResponseStatus' = [ResponseStatus EXCEPT ![x] = ResponseStatus'[x]]
  BY <1>1, StatusMoved
<1>4. ResponseStatus[x] = "idle" /\ phase'[x] = "open"
  BY <1>1, StatusOf DEF TypeOK
<1>5. ResponseStatus'[x] = "open"
  BY <1>4, StatusAfter
<1> HIDE DEF at
<1>6. Log!Open(x, at)
  BY <1>1, <1>3, <1>4, <1>5 DEF Log!Open, Log!Set
<1>7. QED
  BY <1>2, <1>6

LEMMA DeliverIsLogStep ==
    ASSUME StreamInv, NEW x \in Streams, Deliver(x)
    PROVE  Log!Read(x)
<1>1. ResponseStatus' = ResponseStatus
  BY StatusKept DEF Deliver
<1>2. ResponseStatus[x] = "open"
  BY StatusOf DEF Deliver, StreamInv
<1>3. /\ got[x] \in Seq(Int) /\ channel[x] \in Seq(Int) /\ start[x] \in Int
      /\ Len(got[x]) \in Nat /\ Len(channel[x]) \in Nat
  BY CarriedType
<1>4. channel[x] # <<>> /\ Run(channel[x], start[x] + Len(got[x])) /\ ReadInv(x)
  BY DEF Deliver, StreamInv, ReadInv
<1>5. Head(channel[x]) = start[x] + Len(got[x])
  <2>1. start[x] + Len(got[x]) \in Int
    BY <1>3
  <2>2. QED
    BY <2>1, <1>3, <1>4, RunTail
<1>6. start[x] + Len(got[x]) < written
  <2>1. Len(channel[x]) > 0
    BY <1>3, <1>4
  <2>2. pos[x] <= written /\ pos[x] = start[x] + Len(got[x]) + Len(channel[x])
    BY <1>4 DEF ReadInv
  <2>3. written \in Int
    BY Sizes DEF StreamInv, TypeOK
  <2> DEFINE a == start[x]
             b == Len(got[x])
             c == Len(channel[x])
  <2>4. a \in Int /\ b \in Int /\ c \in Int /\ c > 0 /\ a + b + c <= written
    BY <2>1, <2>2, <1>3
  <2> HIDE DEF a, b, c
  <2>5. a + b < written
    BY <2>4, <2>3
  <2>6. QED
    BY <2>5 DEF a, b
<1>7. got' = [got EXCEPT ![x] = Append(@, start[x] + Len(got[x]))]
  BY <1>5 DEF Deliver
<1>8. QED
  BY <1>1, <1>2, <1>6, <1>7 DEF Deliver, Log!Read, ringVars, subVars

LEMMA StreamEndIsLogStep ==
    ASSUME StreamInv, TypeOK', NEW x \in Streams, StreamEnd(x)
    PROVE  Log!Complete(x) \/ Log!BreakOff(x)
<1>1. /\ UNCHANGED <<written, closed, start, got, drained>>
      /\ phase[x] = "open" /\ phase' = [phase EXCEPT ![x] = "ended"]
      /\ channel[x] = <<>> /\ TypeOK
  BY DEF StreamEnd, ringVars, subVars, readVars, StreamInv
<1>2. ResponseStatus' = [ResponseStatus EXCEPT ![x] = ResponseStatus'[x]]
  BY <1>1, StatusMoved
<1>3. ResponseStatus[x] = "open" /\ phase'[x] = "ended" /\ drained'[x] = drained[x]
  BY <1>1, StatusOf DEF TypeOK
<1>4. CASE drained[x] = "eof"
  <2>1. ResponseStatus'[x] = "complete"
    BY <1>3, <1>4, StatusAfter
  <2>2. closed /\ start[x] + Len(got[x]) = written
    <3>1. closed /\ pos[x] = written /\ pos[x] = start[x] + Len(got[x]) + Len(channel[x])
      BY <1>4 DEF StreamInv, ReadInv
    <3>2. Len(channel[x]) = 0 /\ start[x] \in Int /\ Len(got[x]) \in Nat
      BY <1>1, CarriedType
    <3>3. QED
      BY <3>1, <3>2
  <2>3. QED
    BY <1>1, <1>2, <1>3, <2>1, <2>2 DEF Log!Complete, Log!Set
<1>5. CASE drained[x] # "eof"
  <2>1. ResponseStatus'[x] = "broken"
    BY <1>3, <1>5, StatusAfter
  <2>2. QED
    BY <1>1, <1>2, <1>3, <2>1 DEF Log!BreakOff, Log!Set
<1>6. QED
  BY <1>4, <1>5

LEMMA DisconnectIsLogStep ==
    ASSUME StreamInv, TypeOK', NEW x \in Streams, Disconnect(x)
    PROVE  Log!BreakOff(x)
<1>1. /\ UNCHANGED <<written, closed, start, got, drained>>
      /\ phase[x] = "open" /\ phase' = [phase EXCEPT ![x] = "gone"] /\ TypeOK
  BY DEF Disconnect, ringVars, subVars, readVars, StreamInv
<1>2. ResponseStatus' = [ResponseStatus EXCEPT ![x] = ResponseStatus'[x]]
  BY <1>1, StatusMoved
<1>3. ResponseStatus[x] = "open" /\ phase'[x] = "gone"
  BY <1>1, StatusOf DEF TypeOK
<1>4. ResponseStatus'[x] = "broken"
  BY <1>3, StatusAfter
<1>5. QED
  BY <1>1, <1>2, <1>3, <1>4 DEF Log!BreakOff, Log!Set

(* The goroutine between the ring buffer and the handler is not seen.      *)
LEMMA ForwarderStutters ==
    ASSUME TypeOK, NEW x \in Streams,
           Forward(x) \/ ForwardTooSlow(x) \/ ForwardEnd(x)
    PROVE  UNCHANGED logVars
<1>1. /\ phase' = phase /\ phase[x] # "ended"
      /\ UNCHANGED <<written, closed, start, got>>
  BY DEF Forward, ForwardTooSlow, ForwardEnd, Attached, ringVars, subVars
<1>2. ASSUME NEW y \in Streams, phase[y] = "ended" PROVE drained'[y] = drained[y]
  <2>1. y # x
    BY <1>1, <1>2
  <2>2. QED
    BY <2>1 DEF Forward, ForwardTooSlow, ForwardEnd, TypeOK
<1>3. ResponseStatus' = ResponseStatus
  BY <1>1, <1>2, StatusKept
<1>4. QED
  BY <1>1, <1>3 DEF logVars

LEMMA StepIsLogStep ==
    ASSUME StreamInv, StreamInv', [Next]_vars
    PROVE  [Log!Next]_logVars
<1> USE DEF StreamInv
<1>1. CASE UNCHANGED vars
  <2>1. UNCHANGED <<written, closed, start, got, phase, drained>>
    BY <1>1 DEF vars, ringVars, subVars, readVars
  <2>2. QED
    BY <2>1, StatusKept DEF logVars
<1>2. CASE Emit
  BY <1>2, EmitIsLogStep DEF Log!Next
<1>3. CASE Close
  BY <1>3, CloseIsLogStep DEF Log!Next
<1>4. ASSUME NEW x \in Streams, NEW n \in Numbers, SubscribeLoad(x, n)
      PROVE  [Log!Next]_logVars
  BY <1>4, SubscribeLoadIsLogStep DEF Log!Next
<1>5. ASSUME NEW x \in Streams, SubscribeAttach(x) PROVE [Log!Next]_logVars
  BY <1>5, SubscribeAttachIsLogStep DEF Log!Next
<1>6. ASSUME NEW x \in Streams, Deliver(x) PROVE [Log!Next]_logVars
  BY <1>6, DeliverIsLogStep DEF Log!Next
<1>7. ASSUME NEW x \in Streams, StreamEnd(x) PROVE [Log!Next]_logVars
  BY <1>7, StreamEndIsLogStep DEF Log!Next
<1>8. ASSUME NEW x \in Streams, Disconnect(x) PROVE [Log!Next]_logVars
  BY <1>8, DisconnectIsLogStep DEF Log!Next
<1>9. ASSUME NEW x \in Streams, Forward(x) \/ ForwardTooSlow(x) \/ ForwardEnd(x)
      PROVE  [Log!Next]_logVars
  BY <1>9, ForwarderStutters
<1>10. QED
  BY <1>1, <1>2, <1>3, <1>4, <1>5, <1>6, <1>7, <1>8, <1>9, NextCases

(* Whatever the sizes, and however many streams there are, what responses  *)
(* carry is what a reliable log would have given its readers               *)
(* (chat_context.go:70-141, handler.go:82-98).                             *)
THEOREM ImplementsReliableLog == Spec => Log!Spec
<1>1. StreamInv /\ StreamInv' /\ [Next]_vars => [Log!Next]_Log!vars
  BY StepIsLogStep DEF logVars, Log!vars
<1>2. QED
  BY <1>1, InitIsLogInit, StreamInvariant, PTL DEF Spec, Log!Spec

=============================================================================
