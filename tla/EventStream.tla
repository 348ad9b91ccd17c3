----------------------------- MODULE EventStream -----------------------------
(***************************************************************************)
(* The event stream of one chat: ChatContext.Emit, Close and Subscribe     *)
(* (core/chatcontext/chat_context.go) and streamEvents                     *)
(* (core/chat/handler.go), from the engine's emissions to what one HTTP    *)
(* response carries.                                                       *)
(*                                                                         *)
(* Events are numbered from 0 in the order they are emitted; the number is *)
(* not sent.  They go into a ring buffer, which keeps the last Size; a     *)
(* goroutine per subscription forwards them to a channel, and the handler  *)
(* writes them to the response.  The ring buffer is a library              *)
(* (github.com/golang-cz/ringbuf): a subscription starts StartBehind       *)
(* events before the writer, fails when it lags more than MaxLag behind,   *)
(* ends when the buffer is closed and drained, and a closed buffer takes   *)
(* no more events.                                                         *)
(***************************************************************************)
EXTENDS Integers, Sequences

CONSTANTS
    Streams,    (* HandleChat calls that subscribe to this chat            *)
    Size,       (* size of the ring buffer, 1024 in the code               *)
    Buffer,     (* events between ring and handler, 256 + 1 in the code    *)
    MaxEvents   (* bound: calls of Emit                                    *)

ASSUME SizesArePositive == {Size, Buffer, MaxEvents} \subseteq Nat \ {0}

VARIABLES
    written,    (* events in the ring buffer since it was made             *)
    ring,       (* which event each slot holds                             *)
    seq,        (* the sequence counter                                    *)
    emitting,   (* an Emit is between its Write and its Add (emitMu held)  *)
    closed,     (* the ring buffer is closed                               *)
    phase,      (* where each subscription is                              *)
    from,       (* the sequence number each one asked for                  *)
    behind,     (* StartBehind, computed from a counter read earlier       *)
    start,      (* the event each one started at                           *)
    pos,        (* the next event its goroutine reads                      *)
    channel,    (* events on the way to the handler                        *)
    drained,    (* its goroutine has closed the channel: why               *)
    got         (* the events written to the response                      *)

ringVars == <<written, ring, seq, emitting, closed>>
subVars  == <<from, behind, start>>
readVars == <<pos, channel, drained>>
vars == <<ringVars, phase, subVars, readVars, got>>

Numbers == -1 .. MaxEvents + 1

TypeOK ==
    /\ written \in 0 .. MaxEvents
    /\ ring \in [0 .. Size - 1 -> -1 .. MaxEvents - 1]
    /\ seq \in 0 .. MaxEvents
    /\ emitting \in BOOLEAN
    /\ closed \in BOOLEAN
    /\ phase \in [Streams -> {"idle", "loaded", "open", "ended", "lost", "gone"}]
    /\ from \in [Streams -> Numbers]
    /\ behind \in [Streams -> 0 .. Size]
    /\ start \in [Streams -> 0 .. MaxEvents]
    /\ pos \in [Streams -> 0 .. MaxEvents]
    /\ channel \in [Streams -> Seq(0 .. MaxEvents - 1)]
    /\ \A x \in Streams : Len(channel[x]) <= Buffer
    /\ drained \in [Streams -> {"no", "eof", "slow"}]
    /\ got \in [Streams -> Seq(0 .. MaxEvents - 1)]

Init ==
    /\ written = 0
    /\ ring = [i \in 0 .. Size - 1 |-> -1]
    /\ seq = 0
    /\ emitting = FALSE
    /\ closed = FALSE
    /\ phase = [x \in Streams |-> "idle"]
    /\ from = [x \in Streams |-> 0]
    /\ behind = [x \in Streams |-> 0]
    /\ start = [x \in Streams |-> 0]
    /\ pos = [x \in Streams |-> 0]
    /\ channel = [x \in Streams |-> <<>>]
    /\ drained = [x \in Streams |-> "no"]
    /\ got = [x \in Streams |-> <<>>]

-----------------------------------------------------------------------------
(* Emit (chat_context.go:70-75) and Close (81-90), by the engine and by    *)
(* whoever stops the chat.                                                 *)

Write ==
    IF closed THEN UNCHANGED <<written, ring>>
    ELSE /\ ring' = [ring EXCEPT ![written % Size] = written]
         /\ written' = written + 1

(* Variant: the counter is incremented before the event is written.        *)
EmitCountsFirst ==
    /\ emitting' = ~emitting
    /\ IF emitting THEN Write /\ UNCHANGED seq
                   ELSE seq < MaxEvents /\ seq' = seq + 1 /\ UNCHANGED <<written, ring>>
    /\ UNCHANGED <<closed, phase, subVars, readVars, got>>

(* One Emit at a time: the event is written, then it is counted.           *)
Emit ==
    /\ emitting' = ~emitting
    /\ IF emitting THEN seq' = seq + 1 /\ UNCHANGED <<written, ring>>
                   ELSE seq < MaxEvents /\ Write /\ UNCHANGED seq
    /\ UNCHANGED <<closed, phase, subVars, readVars, got>>

Close ==
    /\ ~closed
    /\ closed' = TRUE
    /\ UNCHANGED <<written, ring, seq, emitting, phase, subVars, readVars, got>>

-----------------------------------------------------------------------------
(* Subscribe (chat_context.go:111-141).                                    *)

(* Variants: the window is not checked; it is taken to be one shorter.     *)
SubscribeLoadUnchecked(x, n) ==
    LET lag == seq - n IN
    /\ phase[x] = "idle"
    /\ from' = [from EXCEPT ![x] = n]
    /\ IF n < 0 \/ lag < 0
       THEN phase' = [phase EXCEPT ![x] = "lost"] /\ UNCHANGED behind
       ELSE /\ phase' = [phase EXCEPT ![x] = "loaded"]
            /\ behind' = [behind EXCEPT ![x] = lag]
    /\ UNCHANGED <<ringVars, start, readVars, got>>

SubscribeLoadShort(x, n) ==
    LET lag == seq - n IN
    /\ phase[x] = "idle"
    /\ from' = [from EXCEPT ![x] = n]
    /\ IF n < 0 \/ lag < 0 \/ lag >= Size
       THEN phase' = [phase EXCEPT ![x] = "lost"] /\ UNCHANGED behind
       ELSE /\ phase' = [phase EXCEPT ![x] = "loaded"]
            /\ behind' = [behind EXCEPT ![x] = lag]
    /\ UNCHANGED <<ringVars, start, readVars, got>>

(* The counter is read without emitMu, and the lag computed from it.       *)
SubscribeLoad(x, n) ==
    LET lag == seq - n IN
    /\ phase[x] = "idle"
    /\ from' = [from EXCEPT ![x] = n]
    /\ IF n < 0 \/ lag < 0 \/ lag > Size
       THEN phase' = [phase EXCEPT ![x] = "lost"] /\ UNCHANGED behind
       ELSE /\ phase' = [phase EXCEPT ![x] = "loaded"]
            /\ behind' = [behind EXCEPT ![x] = lag]
    /\ UNCHANGED <<ringVars, start, readVars, got>>

(* The subscription starts that far behind the writer, wherever it is now. *)
SubscribeAttach(x) ==
    LET at == IF behind[x] > written THEN 0 ELSE written - behind[x] IN
    /\ phase[x] = "loaded"
    /\ phase' = [phase EXCEPT ![x] = "open"]
    /\ start' = [start EXCEPT ![x] = at]
    /\ pos' = [pos EXCEPT ![x] = at]
    /\ UNCHANGED <<ringVars, from, behind, channel, drained, got>>

-----------------------------------------------------------------------------
(* The forwarding goroutine (chat_context.go:133-138).  It does not know   *)
(* of the handler: it runs on, or stays blocked, when the client has gone. *)
(* The event in its hand while it is blocked is counted in the channel.    *)

Attached(x) == phase[x] \in {"open", "gone"} /\ drained[x] = "no"

(* Variant: a subscription may lag as far as it likes.                     *)
ForwardUnbounded(x) ==
    /\ Attached(x)
    /\ pos[x] < written
    /\ Len(channel[x]) < Buffer
    /\ channel' = [channel EXCEPT ![x] = Append(@, ring[pos[x] % Size])]
    /\ pos' = [pos EXCEPT ![x] = @ + 1]
    /\ UNCHANGED <<ringVars, phase, subVars, drained, got>>

Forward(x) ==
    /\ Attached(x)
    /\ pos[x] < written
    /\ written - pos[x] <= Size
    /\ Len(channel[x]) < Buffer
    /\ channel' = [channel EXCEPT ![x] = Append(@, ring[pos[x] % Size])]
    /\ pos' = [pos EXCEPT ![x] = @ + 1]
    /\ UNCHANGED <<ringVars, phase, subVars, drained, got>>

(* It has fallen out of the window.  Nobody is told: the channel is closed *)
(* as at the end of the stream.                                            *)
ForwardTooSlow(x) ==
    /\ Attached(x)
    /\ written - pos[x] > Size
    /\ Len(channel[x]) < Buffer
    /\ drained' = [drained EXCEPT ![x] = "slow"]
    /\ UNCHANGED <<ringVars, phase, subVars, pos, channel, got>>

(* Variant: closing ends the subscription at once.                         *)
ForwardEndsAtOnce(x) ==
    /\ Attached(x)
    /\ closed
    /\ Len(channel[x]) < Buffer
    /\ drained' = [drained EXCEPT ![x] = "eof"]
    /\ UNCHANGED <<ringVars, phase, subVars, pos, channel, got>>

ForwardEnd(x) ==
    /\ Attached(x)
    /\ closed
    /\ pos[x] = written
    /\ Len(channel[x]) < Buffer
    /\ drained' = [drained EXCEPT ![x] = "eof"]
    /\ UNCHANGED <<ringVars, phase, subVars, pos, channel, got>>

-----------------------------------------------------------------------------
(* streamEvents (handler.go:82-98).                                        *)

Deliver(x) ==
    /\ phase[x] = "open"
    /\ channel[x] # <<>>
    /\ got' = [got EXCEPT ![x] = Append(@, Head(channel[x]))]
    /\ channel' = [channel EXCEPT ![x] = Tail(@)]
    /\ UNCHANGED <<ringVars, phase, subVars, pos, drained>>

(* Variant: only the end of the buffer closes the channel.                 *)
StreamEndAtEof(x) ==
    /\ phase[x] = "open"
    /\ channel[x] = <<>>
    /\ drained[x] = "eof"
    /\ phase' = [phase EXCEPT ![x] = "ended"]
    /\ UNCHANGED <<ringVars, subVars, readVars, got>>

StreamEnd(x) ==
    /\ phase[x] = "open"
    /\ channel[x] = <<>>
    /\ drained[x] # "no"
    /\ phase' = [phase EXCEPT ![x] = "ended"]
    /\ UNCHANGED <<ringVars, subVars, readVars, got>>

(* The client goes away, or writing to it fails.                           *)
Disconnect(x) ==
    /\ phase[x] = "open"
    /\ phase' = [phase EXCEPT ![x] = "gone"]
    /\ UNCHANGED <<ringVars, subVars, readVars, got>>

-----------------------------------------------------------------------------

Forwarder(x) == Forward(x) \/ ForwardTooSlow(x) \/ ForwardEnd(x)
Handler(x)   == SubscribeAttach(x) \/ Deliver(x) \/ StreamEnd(x)

Next ==
    \/ Emit
    \/ Close
    \/ \E x \in Streams :
          \/ \E n \in Numbers : SubscribeLoad(x, n)
          \/ Handler(x)
          \/ Forwarder(x)
          \/ Disconnect(x)

(* Goroutines are scheduled and a connected client reads; nobody has to    *)
(* emit, close, subscribe or disconnect.                                   *)
Fairness ==
    /\ WF_vars(emitting /\ Emit)
    /\ \A x \in Streams : WF_vars(Handler(x)) /\ WF_vars(Forwarder(x))

Spec == Init /\ [][Next]_vars
FairSpec == Spec /\ Fairness

-----------------------------------------------------------------------------
(* Properties.                                                             *)

(* Whatever a client receives on one response is a gapless run of events:  *)
(* each is the successor of the one before, none is lost, repeated or      *)
(* taken from a slot that was overwritten meanwhile.  The MaxLag given to  *)
(* the ring buffer (chat_context.go:129) is what keeps a slow reader off   *)
(* overwritten slots.                                                      *)
GaplessFromStart ==
    \A x \in Streams :
        LET sent == got[x] \o channel[x] IN
        \A j \in 1 .. Len(sent) : sent[j] = start[x] + j - 1

(* A reconnecting client is never sent an event again that precedes the    *)
(* one it asked for: the counter never runs ahead of the ring buffer while *)
(* that is open, because Emit counts last.                                 *)
NothingBeforeFrom ==
    \A x \in Streams :
        (phase[x] = "open" /\ ~closed) => start[x] >= from[x]

(* A stream that ends because the chat was closed has carried everything   *)
(* up to the last event: Close does not cut off what was emitted before.   *)
EndOfChatDrains ==
    \A x \in Streams :
        (phase[x] = "ended" /\ drained[x] = "eof")
            => start[x] + Len(got[x]) = written

(* events_lost is only said of events that are no longer, or not yet, in   *)
(* the buffer: a client is never sent to reload its history for nothing.   *)
RefusedOnlyOutsideWindow ==
    [][\A x \in Streams :
          phase[x] = "idle" /\ phase'[x] = "lost" =>
              \/ from'[x] < 0
              \/ from'[x] > seq
              \/ closed
              \/ from'[x] < written - Size]_vars

(* Once the chat is closed every connected stream ends, even one whose     *)
(* reader has been slow: no client waits for events that cannot come.      *)
CloseEndsStreams ==
    \A x \in Streams :
        (closed /\ phase[x] \in {"loaded", "open"}) ~> phase[x] \in {"ended", "gone"}

(* The ring buffer, the channels and the goroutines keep the promise of    *)
(* ReliableLog: what one response carries is a run of consecutive events,  *)
(* and a response that ends with the chat has carried the last event; one  *)
(* that fell behind ends in the same way, but is broken off.               *)
ResponseStatus ==
    [x \in Streams |->
        IF phase[x] \in {"idle", "loaded"} THEN "idle"
        ELSE IF phase[x] = "lost" THEN "refused"
        ELSE IF phase[x] = "open" THEN "open"
        ELSE IF phase[x] = "ended" /\ drained[x] = "eof" THEN "complete"
        ELSE "broken"]

Log == INSTANCE ReliableLog WITH
          Readers <- Streams, MaxEntries <- MaxEvents, length <- written,
          over <- closed, status <- ResponseStatus, first <- start, read <- got

(* Every behaviour of the event stream is one of the log, also as to what  *)
(* a reader that stays is served (chat_context.go:111-141, handler.go:82). *)
StreamIsReliableLog == Log!FairSpec

(* What the comment on Subscribe promises: the subscriber delivers all     *)
(* events from fromSeq onward.  Between the reading of the counter and the *)
(* subscription, and between the Write and the Add of an Emit, the writer  *)
(* is ahead of the counter, and the subscription starts too late.          *)
StartsAtFrom ==
    \A x \in Streams : phase[x] = "open" => start[x] <= from[x]

=============================================================================
