-------------------------------- MODULE Reply --------------------------------
(***************************************************************************)
(* One reply of the model on its way to the screen: the deltas of the      *)
(* provider, the reply the engine assembles from them, the events it       *)
(* emits, the reads in which the response reaches the client, and the      *)
(* message the client's reducer builds.  A piece of text, reasoning or     *)
(* arguments is a number; pieces are numbered as the provider sends them.  *)
(*                                                                         *)
(* An event is a data line and a blank line, and a read can end after      *)
(* each of them.  (It can end within the data line too: the parser keeps   *)
(* an unfinished line for the next read, as if the read had ended before   *)
(* it.  It does not keep a data line it has seen the end of.)              *)
(***************************************************************************)
EXTENDS Naturals, Sequences, FiniteSets, SequencesExt, Lists

CONSTANTS
  MaxPieces,  \* bound: pieces of a reply
  MaxCalls,   \* bound: tool calls of a reply
  MaxDropped  \* bound: events lost between two reads

VARIABLES
  sent,     \* history: for each piece, what it is part of and, of a call, the index
  reply,    \* the StreamResult: text, reasoning, calls (their arguments, by index)
  partOf,   \* the index of the text and of the reasoning part, 0 if there is none
  stage,    \* "streaming", "calling", "done", "failed"
  events,   \* the events emitted
  read,     \* how far the client has read, in lines: two for an event
  message,  \* the parts the client shows
  dropped   \* history: events the parser has lost

replyVars == <<sent, reply, partOf, stage, events, read, message, dropped>>

Content == {"text", "reasoning"}
Indices == 1 .. MaxCalls

ReplyTypeOK ==
  /\ sent \in Seq((Content \cup {"call"}) \X (0 .. MaxCalls))
  /\ reply.text \in Seq(Nat) /\ reply.reasoning \in Seq(Nat) /\ reply.calls \in Seq(Seq(Nat))
  /\ partOf \in [Content -> 0 .. 2]
  /\ stage \in {"streaming", "calling", "done", "failed"}
  /\ read \in 0 .. 2 * Len(events) /\ dropped \subseteq DOMAIN events
  /\ \A i \in DOMAIN message : message[i].kind \in {"text", "reasoning", "tool-call"}

Init ==
  /\ sent = <<>> /\ reply = [text |-> <<>>, reasoning |-> <<>>, calls |-> <<>>]
  /\ partOf = [k \in Content |-> 0] /\ stage = "streaming"
  \* a later step of the run: the first one is not announced
  /\ events = <<[type |-> "step_create"]>>
  /\ read = 0 /\ message = <<>> /\ dropped = {}

-----------------------------------------------------------------------------
(* The engine.  Its range over the chunks of Stream ends with the stream,  *)
(* with an error or with the chat: StreamEnds and StreamFails.             *)

clientVars == <<read, message, dropped>>
Piece  == Len(sent) + 1
Update(part, pieces, state) ==
  [type |-> "part_update", part |-> part, pieces |-> pieces, state |-> state]

Send(what) == Len(sent) < MaxPieces /\ stage = "streaming" /\ sent' = Append(sent, what)

\* A delta of the text or of the reasoning.
ContentDelta(kind) ==
  LET part   == IF partOf[kind] > 0 THEN partOf[kind]
                ELSE 1 + Cardinality({k \in Content : partOf[k] > 0})
      create == [type |-> "part_create", part |-> part, kind |-> kind, pieces |-> <<>>,
                 state |-> "streaming"] IN
  /\ Send(<<kind, 0>>)
  /\ reply' = [reply EXCEPT ![kind] = Append(@, Piece)]
  /\ partOf' = [partOf EXCEPT ![kind] = part]
  /\ events' = events \o (IF partOf[kind] = 0 THEN <<create>> ELSE <<>>)
                      \o <<Update(part, <<Piece>>, "streaming")>>
  /\ UNCHANGED <<stage, clientVars>>

\* A delta of a tool call.  A provider numbers the calls of a reply as they
\* begin; deltas of several calls may alternate.  Calls are announced later.
\* Variant: the arguments of a delta are given to the call that began last.
ToolCallDeltaLast(i) ==
  /\ i <= Len(reply.calls) + 1
  /\ Send(<<"call", i>>)
  /\ reply' = IF i > Len(reply.calls) THEN [reply EXCEPT !.calls = Append(@, <<Piece>>)]
              ELSE [reply EXCEPT !.calls[Len(reply.calls)] = Append(@, Piece)]
  /\ UNCHANGED <<partOf, stage, events, clientVars>>

ToolCallDelta(i) ==
  /\ i <= Len(reply.calls) + 1
  /\ Send(<<"call", i>>)
  /\ reply' = IF i > Len(reply.calls) THEN [reply EXCEPT !.calls = Append(@, <<Piece>>)]
              ELSE [reply EXCEPT !.calls[i] = Append(@, Piece)]
  /\ UNCHANGED <<partOf, stage, events, clientVars>>

DoneUpdates ==
  LET Of(kind) == IF partOf[kind] > 0 THEN <<Update(partOf[kind], <<>>, "done")>> ELSE <<>>
  IN Of("reasoning") \o Of("text")

\* The parts of the row, in the order of buildUIParts.
StoredParts ==
     (IF reply.reasoning # <<>> THEN <<[kind |-> "reasoning", pieces |-> reply.reasoning]>>
      ELSE <<>>)
  \o (IF reply.text # <<>> \/ reply.calls = <<>>
      THEN <<[kind |-> "text", pieces |-> reply.text]>> ELSE <<>>)
  \o [i \in DOMAIN reply.calls |-> [kind |-> "tool-call", pieces |-> reply.calls[i]]]

FirstCallPart == Len(StoredParts) - Len(reply.calls)

StreamEnds ==
  /\ stage = "streaming"
  /\ stage' = IF reply.calls = <<>> THEN "done" ELSE "calling"
  /\ events' = events \o DoneUpdates \o
       (IF reply.calls = <<>> THEN <<[type |-> "message_done"]>>
        ELSE [i \in DOMAIN reply.calls |->
                [type |-> "part_create", part |-> FirstCallPart + i, kind |-> "tool-call",
                 pieces |-> reply.calls[i], state |-> "pending"]])
  /\ UNCHANGED <<sent, reply, partOf, clientVars>>

StreamFails ==
  /\ stage = "streaming"
  /\ stage' = "failed"
  /\ events' = Append(events, [type |-> "error"])
  /\ UNCHANGED <<sent, reply, partOf, clientVars>>

\* The calls have been executed, in any order of their modes; those left
\* running are asynchronous.  (A call that is "complete" is shown as one with
\* an "error" is, so it is left out.)  A last reply without content ends the
\* message.
ToolsReturn(states) ==
  /\ stage = "calling" /\ stage' = "done"
  /\ events' = Append(events \o [i \in DOMAIN reply.calls |->
                                   Update(FirstCallPart + i, <<>>, states[i])],
                      [type |-> "message_done"])
  /\ UNCHANGED <<sent, reply, partOf, clientVars>>

-----------------------------------------------------------------------------
(* The client.                                                             *)

Padding == [kind |-> "text", pieces |-> <<>>, state |-> "streaming"]

HandlePartCreate(parts, e) ==
  [i \in 1 .. IF Len(parts) < e.part THEN e.part ELSE Len(parts) |->
     IF i = e.part THEN [kind |-> e.kind, pieces |-> e.pieces, state |-> e.state]
     ELSE IF i \in DOMAIN parts THEN parts[i] ELSE Padding]

UpdatedPart(part, e) ==
  IF part.kind = "tool-call" THEN [part EXCEPT !.state = e.state]
  ELSE [kind |-> part.kind, pieces |-> part.pieces \o e.pieces,
        state |-> IF e.state = "done" THEN "done" ELSE part.state]

HandlePartUpdate(parts, e) ==
  IF e.part \notin DOMAIN parts THEN parts
  ELSE [parts EXCEPT ![e.part] = UpdatedPart(@, e)]

HandleMessageDone(parts) ==
  [i \in DOMAIN parts |->
     [parts[i] EXCEPT !.state = CASE @ = "streaming" -> "done"
                                  [] @ \in {"pending", "running"} -> "complete"
                                  [] OTHER -> @]]

ApplySSEChunk(parts, e) ==
  CASE e.type = "step_create"  -> <<>>
    [] e.type = "part_create"  -> HandlePartCreate(parts, e)
    [] e.type = "part_update"  -> HandlePartUpdate(parts, e)
    [] e.type = "message_done" -> HandleMessageDone(parts)
    [] OTHER                   -> parts

\* A read brings the lines up to "to": an event is applied when its data line
\* and its blank line end in the same read.
Ended(to) == {e \in DOMAIN events : read < 2 * e /\ 2 * e <= to}

ParseSSEStream(to) ==
  LET whole == {e \in Ended(to) : read < 2 * e - 1}
      after[e \in 0 .. Len(events)] ==
        IF e = 0 THEN message
        ELSE IF e \in whole THEN ApplySSEChunk(after[e - 1], events[e]) ELSE after[e - 1] IN
  /\ read < to /\ to <= 2 * Len(events)
  /\ read' = to
  /\ message' = after[Len(events)]
  /\ dropped' = dropped \cup (Ended(to) \ whole)
  /\ Cardinality(dropped') <= MaxDropped
  /\ UNCHANGED <<sent, reply, partOf, stage, events>>

Next ==
  \/ \E kind \in Content : ContentDelta(kind)
  \/ \E i \in Indices : ToolCallDelta(i)
  \/ StreamEnds \/ StreamFails
  \/ \E states \in [Indices -> {"complete", "error", "running"}] : ToolsReturn(states)
  \/ \E to \in read + 1 .. 2 * Len(events) : ParseSSEStream(to)

Spec == Init /\ [][Next]_replyVars

-----------------------------------------------------------------------------
PiecesOf(kind, index) ==
  Filter([i \in DOMAIN sent |-> i], LAMBDA i : sent[i] = <<kind, index>>)

\* Every call gets its own arguments, whole and in order, whatever the deltas
\* of other calls in between.
CallsWhole == \A i \in DOMAIN reply.calls : reply.calls[i] = PiecesOf("call", i)

\* A client that has read all of a finished reply without losing an event
\* shows every part, whole, at its place, and none of them in progress.
ShownWhole ==
  stage = "done" /\ read = 2 * Len(events) /\ dropped = {} =>
    /\ \A kind \in Content : partOf[kind] > 0 =>
         message[partOf[kind]] = [kind |-> kind, pieces |-> PiecesOf(kind, 0), state |-> "done"]
    /\ \A i \in DOMAIN reply.calls :
         /\ message[FirstCallPart + i].kind = "tool-call"
         /\ message[FirstCallPart + i].pieces = PiecesOf("call", i)
         /\ message[FirstCallPart + i].state \in {"complete", "error"}
    /\ Len(message) = Cardinality(ToSet(sent))

\* The parser calls onChunk for every event it has read to its blank line
\* (sse-parser.ts:3), wherever the reads end.
EveryEventApplied == dropped = {}

\* Whatever was lost on the way, what is shown in a part was sent for it.
NothingStrays ==
  \A i \in DOMAIN message : \A n \in ToSet(message[i].pieces) :
    IF sent[n][1] = "call" THEN i = FirstCallPart + sent[n][2]
    ELSE i = partOf[sent[n][1]]

\* What is shown live is what a reload of the stored message shows, in that
\* order unless the text began before the reasoning.
ReloadShowsTheSame ==
  stage = "done" /\ read = 2 * Len(events) /\ dropped = {} =>
    LET live   == [i \in DOMAIN message |-> [kind |-> message[i].kind, pieces |-> message[i].pieces]]
        stored == Filter(StoredParts, LAMBDA p : p.pieces # <<>>) IN
    /\ Len(live) = Len(stored) /\ ToSet(live) = ToSet(stored)
    /\ (partOf["text"] = 1 /\ partOf["reasoning"] = 2) \/ live = stored

\* The reply the model sent is the reply that is executed, shown and stored.
RenderingFaithful == CallsWhole /\ ShownWhole /\ NothingStrays /\ ReloadShowsTheSame

=============================================================================
