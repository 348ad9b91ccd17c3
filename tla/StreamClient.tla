----------------------------- MODULE StreamClient -----------------------------
(***************************************************************************)
(* The TypeScript client following one chat: ChatSession                   *)
(* (packages/chat-core/src/chat-session.ts), its reconnects, and what it   *)
(* shows of the assistant's message.                                       *)
(*                                                                         *)
(* The server's side is what EventStream guarantees of one response, as    *)
(* ReliableLog states it: a response that starts at event k carries k,     *)
(* k + 1, ... in order, and ends with the chat.  Events are numbered from  *)
(* 0; the number is not sent, the client counts.  A connection may break   *)
(* at any moment, and so may a request; both are rejected promises.        *)
(*                                                                         *)
(* The session has an answer to an earlier message, so that connectStream  *)
(* without content asks for a reconnect (81).  One message is followed:    *)
(* a second sendMessage, abort and destroy are left out.                   *)
(***************************************************************************)
EXTENDS Integers, Sequences

CONSTANTS
    Last,       (* the number of message_done, the chat's last event       *)
    Window,     (* size of the ring buffer                                 *)
    MaxBreaks   (* bound: failures of the network                          *)

VARIABLES
    written,    (* events the chat has emitted                             *)
    over,       (* the chat is closed and out of the table                 *)
    mode,       (* what the client is doing                                *)
    next,       (* the next event its connection carries                   *)
    seq,        (* ChatSession.seq                                         *)
    bubble,     (* the events applied to the current assistant message     *)
    reloads,    (* whether the list was fetched again, and from what state *)
    breaks      (* failures so far                                         *)

serverVars == <<written, over>>
clientVars == <<mode, next, seq, bubble, reloads>>
vars == <<serverVars, clientVars, breaks>>

Modes == {"idle", "reading", "lost", "rereading", "failed", "restarting"}

ClientTypeOK ==
    /\ written \in 0 .. Last + 1
    /\ over \in BOOLEAN
    /\ mode \in Modes
    /\ next \in 0 .. Last + 2
    /\ seq \in 0 .. Last + 2
    /\ bubble \in Seq(0 .. Last)
    /\ reloads \in -1 .. Last + 1
    /\ breaks \in 0 .. MaxBreaks

Init ==
    /\ written = 0
    /\ over = FALSE
    /\ mode = "reading"         (* sendMessage has posted the content      *)
    /\ next = 0
    /\ seq = 0
    /\ bubble = <<>>
    /\ reloads = -1
    /\ breaks = 0

-----------------------------------------------------------------------------
(* The chat on the server.                                                 *)

EmitEvent ==
    /\ ~over /\ written <= Last
    /\ written' = written + 1
    /\ UNCHANGED <<over, clientVars, breaks>>

CloseChat ==
    /\ ~over
    /\ over' = TRUE
    /\ UNCHANGED <<written, clientVars, breaks>>

(* HandleChat on a reconnect: 200 and an empty body if the chat is over,   *)
(* events_lost if the number is not in the window, else the events from    *)
(* last_event_seq + 1.                                                     *)
Answer(last) ==
    LET lag == written - (last + 1) IN
    CASE over                    -> "empty"
      [] lag < 0 \/ lag > Window -> "events_lost"
      [] OTHER                   -> "events"

-----------------------------------------------------------------------------
(* One event arrives: it is counted and applied to the current message;    *)
(* message_done ends that message.                                         *)
Receive ==
    /\ mode \in {"reading", "rereading"}
    /\ next < written
    /\ next' = next + 1
    /\ seq' = seq + 1
    /\ bubble' = Append(bubble, next)
    /\ UNCHANGED <<serverVars, mode, reloads, breaks>>

(* The body ends with the chat; finally sets the client to idle.           *)
StreamEnds ==
    /\ mode \in {"reading", "rereading"}
    /\ over /\ next >= written
    /\ mode' = "idle"
    /\ UNCHANGED <<serverVars, next, seq, bubble, reloads, breaks>>

(* A connection breaks: the first one is followed by handleReconnect, one  *)
(* made by handleReconnect by its catch clause.                            *)
Break ==
    /\ breaks < MaxBreaks
    /\ breaks' = breaks + 1
    /\ \/ mode = "reading" /\ mode' = "lost"
       \/ mode \in {"lost", "rereading"} /\ mode' = "failed"
       \/ mode = "restarting" /\ mode' = "lost"
    /\ UNCHANGED <<serverVars, next, seq, bubble, reloads>>

(* Variant: one event less than was applied, counted from zero.            *)
LastSeenAgain == seq - 2

(* handleReconnect sends its count plus one.                               *)
LastSeen == seq + 1

(* An answer with events is read on; after events_lost the list is fetched *)
(* and the client stops following; so it does, without fetching, after an  *)
(* empty body, which is not a 204.                                         *)
Reconnect ==
    /\ mode = "lost"
    /\ LET answer == Answer(LastSeen) IN
       /\ mode' = IF answer = "events" THEN "rereading" ELSE "idle"
       /\ next' = IF answer = "events" THEN LastSeen + 1 ELSE next
       /\ seq' = IF answer = "events_lost" THEN seq + 1 ELSE seq
       /\ reloads' = IF answer = "events_lost" THEN written ELSE reloads
    /\ UNCHANGED <<serverVars, bubble, breaks>>

(* The catch clause fetches the list, which may fail too, forgets the count*)
(* and calls connectStream, which starts a new assistant message.          *)
Recover ==
    /\ mode = "failed"
    /\ mode' = "restarting"
    /\ reloads' \in {reloads, written}
    /\ seq' = 0
    /\ bubble' = <<>>
    /\ UNCHANGED <<serverVars, next, breaks>>

(* connectStream without content: last_event_seq is 0, so that the stream  *)
(* starts with event 1.  The events_lost event is counted, but not acted   *)
(* upon here.                                                              *)
Restart ==
    /\ mode = "restarting"
    /\ LET answer == Answer(0) IN
       /\ mode' = IF answer = "events" THEN "reading" ELSE "idle"
       /\ next' = IF answer = "events" THEN 1 ELSE next
       /\ seq' = IF answer = "events_lost" THEN 1 ELSE 0
    /\ UNCHANGED <<serverVars, bubble, reloads, breaks>>

Next ==
    \/ EmitEvent \/ CloseChat
    \/ Receive \/ StreamEnds \/ Break
    \/ Reconnect \/ Recover \/ Restart

Spec == Init /\ [][Next]_vars

-----------------------------------------------------------------------------
(* However often the connection breaks, no event is applied twice to a     *)
(* message, and none before an earlier one: text deltas are appended, so a *)
(* repeated one would be visible (chat-session.ts:160, 222).               *)
AppliedInOrder ==
    \A i, j \in DOMAIN bubble : i < j => bubble[i] < bubble[j]

(* A reconnected client "receives only events after that sequence number"  *)
(* (docs/backend/04-server-app/custom-handlers.md:515): the message it     *)
(* shows has no hole.                                                      *)
ShownWithoutHoles ==
    \A i \in DOMAIN bubble : i + 1 \in DOMAIN bubble => bubble[i + 1] = bubble[i] + 1

=============================================================================
