---------------------------- MODULE ChatSessions ----------------------------
(***************************************************************************)
(* The life of a chat: HandleChat and its table of active sessions         *)
(* (core/chat/handler.go, core/chat/store.go), the ChatContext a chat owns *)
(* (core/chatcontext/chat_context.go: Close, RequestInput, ResolveInput)   *)
(* and the HTTP handlers that reach a running chat through the table       *)
(* (server/internal/api/handlers.go: Chat, StopSession, ResumeSession).    *)
(*                                                                         *)
(* Each HTTP request is a process, each chat starts an agent goroutine,    *)
(* and each call of RequestInput is a process of its own because a step of *)
(* the agent can run several tools at once.  A ChatContext is named by the *)
(* request that created it.  What the agent computes between two of these  *)
(* points is left to AgentLoop; what travels on the event stream is left   *)
(* to the ring buffer's own model: here a stream is open or has ended.     *)
(***************************************************************************)
EXTENDS FiniteSets

CONSTANTS
    Sessions,   (* session ids                                            *)
    Chats,      (* POST /chat requests, and the ChatContexts they create  *)
    Stops,      (* POST /stop requests                                    *)
    Resumes,    (* POST /resume requests                                  *)
    Inputs,     (* calls of RequestInput: interrupt ids are fresh uuids   *)
    Background, (* the ones made by tools run asynchronously              *)
    None,       (* no chat, no response: a nil                            *)
    Aborted     (* RequestInput's error when the context closes first     *)

ASSUME NoneIsNoProcess == None \notin Sessions \cup Chats \cup Resumes \cup Inputs
ASSUME StopIsNoResume == Stops \cap Resumes = {}
ASSUME BackgroundInputs == Background \subseteq Inputs
ASSUME AbortedIsNoAnswer == Aborted \notin Resumes \cup {None}

VARIABLES
    active,     (* store.active: which context a session id maps to       *)
    session,    (* the session id of each chat request                    *)
    handler,    (* where each HandleChat call is                          *)
    attached,   (* the context whose events a HandleChat call streams     *)
    agent,      (* where each chat's goroutine is (handler.go:61)         *)
    context,    (* closeOnce of each context: open, closing or closed     *)
    stop,       (* where each StopSession call is                         *)
    target,     (* the context a StopSession or ResumeSession call got    *)
    resume,     (* where each ResumeSession call is                       *)
    wanted,     (* the interrupt id each ResumeSession call names         *)
    input,      (* where each RequestInput call is                        *)
    owner,      (* the context each RequestInput call was made on         *)
    channel,    (* the interrupt channel (capacity 1): who filled it      *)
    outcome,    (* what each RequestInput call returns                    *)
    overlapped  (* history: chats that shared their session with another  *)

httpVars  == <<handler, attached, session>>
stopVars  == <<stop>>
inputVars == <<input, owner, channel, outcome>>
resumeVars == <<resume, wanted>>
vars == <<active, agent, context, target, overlapped,
          httpVars, stopVars, inputVars, resumeVars>>

-----------------------------------------------------------------------------

Callers == Stops \cup Resumes

(* Whoever is about to use a session id, a context or an interrupt has one. *)
NoNilDereference ==
    /\ \A c \in Chats :
          /\ handler[c] = "checked" \/ agent[c] # "none" => session[c] \in Sessions
          /\ handler[c] \in {"subscribing", "streaming"} => attached[c] \in Chats
          /\ context[c] = "none" <=> agent[c] = "none"
    /\ \A t \in Stops : stop[t] = "closing" => target[t] \in Chats
    /\ \A q \in Resumes :
          resume[q] \in {"found", "sending", "resolved"} => wanted[q] \in Inputs
    /\ \A i \in Inputs : input[i] # "idle" => owner[i] \in Chats

TypeOK ==
    /\ active \in [Sessions -> Chats \cup {None}]
    /\ session \in [Chats -> Sessions \cup {None}]
    /\ handler \in [Chats -> {"idle", "checked", "subscribing", "streaming",
                              "refused", "ended"}]
    /\ attached \in [Chats -> Chats \cup {None}]
    /\ agent \in [Chats -> {"none", "running", "returned", "removed", "exited"}]
    /\ context \in [Chats -> {"none", "open", "closing", "closed"}]
    /\ stop \in [Stops -> {"idle", "closing", "stopped", "refused"}]
    /\ target \in [Callers -> Chats \cup {None}]
    /\ resume \in [Resumes -> {"idle", "found", "sending", "resolved",
                               "refused"}]
    /\ wanted \in [Resumes -> Inputs \cup {None}]
    /\ input \in [Inputs -> {"idle", "waiting", "woken", "done"}]
    /\ owner \in [Inputs -> Chats \cup {None}]
    /\ channel \in [Inputs -> Resumes \cup {None}]
    /\ outcome \in [Inputs -> Resumes \cup {None, Aborted}]
    /\ overlapped \in SUBSET Chats
    /\ NoNilDereference

Init ==
    /\ active = [s \in Sessions |-> None]
    /\ session = [c \in Chats |-> None]
    /\ handler = [c \in Chats |-> "idle"]
    /\ attached = [c \in Chats |-> None]
    /\ agent = [c \in Chats |-> "none"]
    /\ context = [c \in Chats |-> "none"]
    /\ stop = [t \in Stops |-> "idle"]
    /\ target = [q \in Callers |-> None]
    /\ resume = [q \in Resumes |-> "idle"]
    /\ wanted = [q \in Resumes |-> None]
    /\ input = [i \in Inputs |-> "idle"]
    /\ owner = [i \in Inputs |-> None]
    /\ channel = [i \in Inputs |-> None]
    /\ outcome = [i \in Inputs |-> None]
    /\ overlapped = {}

-----------------------------------------------------------------------------
(* The table of active sessions: one mutex, so each call is one step.      *)

Put(s, c) == active' = [active EXCEPT ![s] = c]
Delete(s) == active' = [active EXCEPT ![s] = None]

(* A chat occupies its session from Put until both of its removals are     *)
(* behind it: the goroutine's deferred Remove and the one inside Close.    *)
Live(c) == agent[c] \notin {"none", "exited"}

-----------------------------------------------------------------------------
(* HandleChat, a new chat (handler.go:50-79).                              *)

(* A request without content is turned away before the table is read, and  *)
(* one with content when its session is in the table.                      *)
Refuse(c) ==
    /\ handler[c] = "idle"
    /\ handler' = [handler EXCEPT ![c] = "refused"]
    /\ UNCHANGED <<active, agent, context, target, overlapped, session,
                   attached, stopVars, inputVars, resumeVars>>

(* The guard reads the table and lets go of its lock (handler.go:53).      *)
Admit(c, s) ==
    /\ handler[c] = "idle"
    /\ active[s] = None
    /\ session' = [session EXCEPT ![c] = s]
    /\ handler' = [handler EXCEPT ![c] = "checked"]
    /\ UNCHANGED <<active, agent, context, target, overlapped, attached,
                   stopVars, inputVars, resumeVars>>

(* The new context overwrites whatever the table holds by now, and the     *)
(* agent goroutine is started (handler.go:57-69).                          *)
Register(c) ==
    LET others == {d \in Chats \ {c} : session[d] = session[c] /\ Live(d)} IN
    /\ handler[c] = "checked"
    /\ handler' = [handler EXCEPT ![c] = "subscribing"]
    /\ attached' = [attached EXCEPT ![c] = c]
    /\ context' = [context EXCEPT ![c] = "open"]
    /\ agent' = [agent EXCEPT ![c] = "running"]
    /\ Put(session[c], c)
    /\ overlapped' = IF others = {} THEN overlapped
                                    ELSE overlapped \cup others \cup {c}
    /\ UNCHANGED <<session, target, stopVars, inputVars, resumeVars>>

(* HandleChat, a reconnect: it takes the context the table holds, or       *)
(* returns nil at once (handler.go:33-37).                                 *)
Reconnect(c, s) ==
    /\ handler[c] = "idle"
    /\ attached' = [attached EXCEPT ![c] = active[s]]
    /\ handler' = [handler EXCEPT ![c] =
                      IF active[s] = None THEN "refused" ELSE "subscribing"]
    /\ UNCHANGED <<active, agent, context, target, overlapped, session,
                   stopVars, inputVars, resumeVars>>

(* Subscribe succeeds, or the window has moved on and the client gets      *)
(* events_lost (handler.go:39-45, 71-77).                                  *)
Subscribe(c) ==
    /\ handler[c] = "subscribing"
    /\ \E to \in {"streaming", "ended"} : handler' = [handler EXCEPT ![c] = to]
    /\ UNCHANGED <<active, agent, context, target, overlapped, session,
                   attached, stopVars, inputVars, resumeVars>>

(* streamEvents returns when the ring buffer has been closed and drained.  *)
StreamEnd(c) ==
    /\ handler[c] = "streaming"
    /\ context[attached[c]] # "open"
    /\ handler' = [handler EXCEPT ![c] = "ended"]
    /\ UNCHANGED <<active, agent, context, target, overlapped, session,
                   attached, stopVars, inputVars, resumeVars>>

(* Variant: the handler, not the goroutine, cleans the table up.           *)
DisconnectRemoves(c) ==
    /\ handler[c] = "streaming"
    /\ handler' = [handler EXCEPT ![c] = "ended"]
    /\ Delete(session[attached[c]])
    /\ UNCHANGED <<agent, context, target, overlapped, session, attached,
                   stopVars, inputVars, resumeVars>>

(* It also returns when the client goes away; the agent keeps running,     *)
(* because its context is not derived from the request's.                  *)
Disconnect(c) ==
    /\ handler[c] = "streaming"
    /\ handler' = [handler EXCEPT ![c] = "ended"]
    /\ UNCHANGED <<active, agent, context, target, overlapped, session,
                   attached, stopVars, inputVars, resumeVars>>

-----------------------------------------------------------------------------
(* The agent goroutine of a chat (handler.go:61-69).                       *)

(* engine.Chat waits for the tools it runs itself; an asynchronous one can *)
(* outlive it.                                                             *)
AgentReturn(c) ==
    /\ agent[c] = "running"
    /\ \A i \in Inputs \ Background :
          owner[i] = c => input[i] \notin {"waiting", "woken"}
    /\ agent' = [agent EXCEPT ![c] = "returned"]
    /\ UNCHANGED <<active, context, target, overlapped, httpVars, stopVars,
                   inputVars, resumeVars>>

(* The deferred Remove deletes whatever entry the session id has.          *)
AgentRemove(c) ==
    /\ agent[c] = "returned"
    /\ agent' = [agent EXCEPT ![c] = "removed"]
    /\ Delete(session[c])
    /\ UNCHANGED <<context, target, overlapped, httpVars, stopVars, inputVars,
                   resumeVars>>

(* The deferred Close has returned, done by this call or by another.       *)
AgentExit(c) ==
    /\ agent[c] = "removed"
    /\ context[c] = "closed"
    /\ agent' = [agent EXCEPT ![c] = "exited"]
    /\ UNCHANGED <<active, context, target, overlapped, httpVars, stopVars,
                   inputVars, resumeVars>>

-----------------------------------------------------------------------------
(* Close (chat_context.go:81-90).  closeOnce lets one caller in and makes  *)
(* the others wait for it, so who that caller is does not matter.          *)

(* Variants: only the goroutine closes its context; only a stop does.      *)
ClosingByGoroutine(c) == agent[c] = "removed"
ClosingByStop(c) == \E t \in Stops : stop[t] = "closing" /\ target[t] = c

Closing(c) ==
    \/ agent[c] = "removed"
    \/ \E t \in Stops : stop[t] = "closing" /\ target[t] = c

(* The lifecycle context is cancelled, the ring buffer and the closed      *)
(* channel are closed: the agent, the streams and the tools can see it.    *)
CloseSignal(c) ==
    /\ Closing(c)
    /\ context[c] = "open"
    /\ context' = [context EXCEPT ![c] = "closing"]
    /\ UNCHANGED <<active, agent, target, overlapped, httpVars, stopVars,
                   inputVars, resumeVars>>

(* Variant: closing leaves the table to the goroutine's deferred Remove.   *)
CloseKeepsEntry(c) ==
    /\ context[c] = "closing"
    /\ context' = [context EXCEPT ![c] = "closed"]
    /\ UNCHANGED <<active, agent, target, overlapped, httpVars, stopVars,
                   inputVars, resumeVars>>

(* Only then is the session id deleted from the table, whoever has it now. *)
CloseRemove(c) ==
    /\ context[c] = "closing"
    /\ context' = [context EXCEPT ![c] = "closed"]
    /\ Delete(session[c])
    /\ UNCHANGED <<agent, target, overlapped, httpVars, stopVars, inputVars,
                   resumeVars>>

-----------------------------------------------------------------------------
(* StopSession (handlers.go:280-289).                                      *)

(* Variant: the missing session is not noticed.                            *)
StopGetUnchecked(t, s) ==
    /\ stop[t] = "idle"
    /\ target' = [target EXCEPT ![t] = active[s]]
    /\ stop' = [stop EXCEPT ![t] = "closing"]
    /\ UNCHANGED <<active, agent, context, overlapped, httpVars, inputVars,
                   resumeVars>>

StopGet(t, s) ==
    /\ stop[t] = "idle"
    /\ target' = [target EXCEPT ![t] = active[s]]
    /\ stop' = [stop EXCEPT ![t] =
                   IF active[s] = None THEN "refused" ELSE "closing"]
    /\ UNCHANGED <<active, agent, context, overlapped, httpVars, inputVars,
                   resumeVars>>

StopReply(t) ==
    /\ stop[t] = "closing"
    /\ context[target[t]] = "closed"
    /\ stop' = [stop EXCEPT ![t] = "stopped"]
    /\ UNCHANGED <<active, agent, context, target, overlapped, httpVars,
                   inputVars, resumeVars>>

-----------------------------------------------------------------------------
(* RequestInput (chat_context.go:178-220), called by a tool.               *)

Registered(i) == input[i] \in {"waiting", "woken"}

(* The interrupt is entered in the context's maps.  An asynchronous tool   *)
(* may get here after the agent has returned and the context has closed.   *)
Ask(i, c) ==
    /\ input[i] = "idle"
    /\ IF i \in Background THEN agent[c] # "none" ELSE agent[c] = "running"
    /\ input' = [input EXCEPT ![i] = "waiting"]
    /\ owner' = [owner EXCEPT ![i] = c]
    /\ UNCHANGED <<active, agent, context, target, overlapped, httpVars,
                   stopVars, channel, outcome, resumeVars>>

(* The select: with both cases ready either may be taken.                  *)
TakeAnswer(i) ==
    /\ input[i] = "waiting"
    /\ channel[i] # None
    /\ input' = [input EXCEPT ![i] = "woken"]
    /\ outcome' = [outcome EXCEPT ![i] = channel[i]]
    /\ channel' = [channel EXCEPT ![i] = None]
    /\ UNCHANGED <<active, agent, context, target, overlapped, httpVars,
                   stopVars, owner, resumeVars>>

(* Variant: the wait gives up on its own.                                  *)
TakeTimeout(i) ==
    /\ input[i] = "waiting"
    /\ input' = [input EXCEPT ![i] = "woken"]
    /\ outcome' = [outcome EXCEPT ![i] = Aborted]
    /\ UNCHANGED <<active, agent, context, target, overlapped, httpVars,
                   stopVars, owner, channel, resumeVars>>

(* Variant: the wait ends with the goroutine instead of with the context.  *)
TakeExited(i) ==
    /\ input[i] = "waiting"
    /\ agent[owner[i]] = "exited"
    /\ input' = [input EXCEPT ![i] = "woken"]
    /\ outcome' = [outcome EXCEPT ![i] = Aborted]
    /\ UNCHANGED <<active, agent, context, target, overlapped, httpVars,
                   stopVars, owner, channel, resumeVars>>

TakeClosed(i) ==
    /\ input[i] = "waiting"
    /\ context[owner[i]] # "open"
    /\ input' = [input EXCEPT ![i] = "woken"]
    /\ outcome' = [outcome EXCEPT ![i] = Aborted]
    /\ UNCHANGED <<active, agent, context, target, overlapped, httpVars,
                   stopVars, owner, channel, resumeVars>>

(* The deferred deletion of the interrupt from both maps.                  *)
Forget(i) ==
    /\ input[i] = "woken"
    /\ input' = [input EXCEPT ![i] = "done"]
    /\ UNCHANGED <<active, agent, context, target, overlapped, httpVars,
                   stopVars, owner, channel, outcome, resumeVars>>

-----------------------------------------------------------------------------
(* ResumeSession (handlers.go:297-324) and ResolveInput                    *)
(* (chat_context.go:222-231).  The client names an interrupt it was shown. *)

ResumeGet(q, s, i) ==
    /\ resume[q] = "idle"
    /\ input[i] # "idle"
    /\ target' = [target EXCEPT ![q] = active[s]]
    /\ wanted' = [wanted EXCEPT ![q] = i]
    /\ resume' = [resume EXCEPT ![q] =
                     IF active[s] = None THEN "refused" ELSE "found"]
    /\ UNCHANGED <<active, agent, context, overlapped, httpVars, stopVars,
                   inputVars>>

(* The channel is looked up under interruptMu ...                          *)
ResumeLookup(q) ==
    LET i == wanted[q] IN
    /\ resume[q] = "found"
    /\ resume' = [resume EXCEPT ![q] =
                     IF owner[i] = target[q] /\ Registered(i)
                     THEN "sending" ELSE "refused"]
    /\ UNCHANGED <<active, agent, context, target, overlapped, httpVars,
                   stopVars, inputVars, wanted>>

(* Variant: a send that drops the answer when the tool is not receiving.   *)
ResumeSendDrops(q) ==
    /\ resume[q] = "sending"
    /\ resume' = [resume EXCEPT ![q] = "resolved"]
    /\ UNCHANGED <<active, agent, context, target, overlapped, httpVars,
                   stopVars, inputVars, wanted>>

(* ... and sent to after the lock is gone: a full channel blocks.          *)
ResumeSend(q) ==
    LET i == wanted[q] IN
    /\ resume[q] = "sending"
    /\ channel[i] = None
    /\ channel' = [channel EXCEPT ![i] = q]
    /\ resume' = [resume EXCEPT ![q] = "resolved"]
    /\ UNCHANGED <<active, agent, context, target, overlapped, httpVars,
                   stopVars, input, owner, outcome, wanted>>

-----------------------------------------------------------------------------

HandleChat(c) ==
    \/ Refuse(c)
    \/ \E s \in Sessions : Admit(c, s) \/ Reconnect(c, s)
    \/ Register(c)
    \/ Subscribe(c)
    \/ StreamEnd(c)
    \/ Disconnect(c)

AgentGoroutine(c) == AgentReturn(c) \/ AgentRemove(c) \/ AgentExit(c)

Close(c) == CloseSignal(c) \/ CloseRemove(c)

StopSession(t) == (\E s \in Sessions : StopGet(t, s)) \/ StopReply(t)

RequestInput(i) ==
    \/ \E c \in Chats : Ask(i, c)
    \/ TakeAnswer(i)
    \/ TakeClosed(i)
    \/ Forget(i)

ResumeSession(q) ==
    \/ \E s \in Sessions, i \in Inputs : ResumeGet(q, s, i)
    \/ ResumeLookup(q)
    \/ ResumeSend(q)

Next ==
    \/ \E c \in Chats : HandleChat(c) \/ AgentGoroutine(c) \/ Close(c)
    \/ \E t \in Stops : StopSession(t)
    \/ \E i \in Inputs : RequestInput(i)
    \/ \E q \in Resumes : ResumeSession(q)

(* Goroutines are scheduled: a step that stays enabled is taken.  Nothing  *)
(* obliges a client to send a request, to disconnect or to answer, nor a   *)
(* tool to ask; an agent that waits for none of its tools does return,     *)
(* because its loop is bounded (AgentLoop).                                *)
Fairness ==
    /\ \A c \in Chats :
          /\ WF_vars(Register(c))
          /\ WF_vars(Subscribe(c))
          /\ WF_vars(StreamEnd(c))
          /\ WF_vars(AgentGoroutine(c))
          /\ WF_vars(Close(c))
    /\ \A t \in Stops : WF_vars(StopReply(t))
    /\ \A i \in Inputs : WF_vars(TakeAnswer(i) \/ TakeClosed(i) \/ Forget(i))
    /\ \A q \in Resumes : WF_vars(ResumeLookup(q) \/ ResumeSend(q))

Spec == Init /\ [][Next]_vars
FairSpec == Spec /\ Fairness

-----------------------------------------------------------------------------
(* Properties.                                                             *)

(* The table never keeps a chat that is over: an entry goes with the       *)
(* closing of its context and with the deferred Remove of its goroutine,   *)
(* whichever comes first, and is never put back.  A stale entry would make *)
(* the session refuse every later chat (handler.go:53, 63; Close).         *)
TableHoldsOnlyLiveChats ==
    \A s \in Sessions, c \in Chats :
        active[s] = c =>
            /\ session[c] = s
            /\ context[c] \in {"open", "closing"}
            /\ agent[c] \in {"running", "returned"}

(* A running chat that has never shared its session with another one is in *)
(* the table, so that stop, resume and reconnect find it.  Only an overlap *)
(* can hide it: the later Put replaces its entry, and either removal of    *)
(* one chat deletes the entry of the other, because Remove goes by session *)
(* id alone (store.go:38).                                                 *)
ReachableUnlessOverlapped ==
    \A c \in Chats :
        /\ agent[c] \in {"running", "returned"}
        /\ context[c] = "open"
        /\ c \notin overlapped
        => active[session[c]] = c

(* An answer is never lost on the way to a tool that still waits for it:   *)
(* once a resume has replied "resolved", the tool finds the answer in its  *)
(* channel or has already left the select.                                 *)
ResolvedAnswerIsPending ==
    \A q \in Resumes :
        resume[q] = "resolved" /\ input[wanted[q]] = "waiting"
            => channel[wanted[q]] # None

(* RequestInput gives a tool an error only for a context that is closed,   *)
(* and an answer only if a resume was sent for this very interrupt through *)
(* this very context: concurrent interrupts do not swap answers.           *)
OutcomeIsJustified ==
    \A i \in Inputs :
        /\ outcome[i] = Aborted => context[owner[i]] # "open"
        /\ outcome[i] \in Resumes =>
              /\ wanted[outcome[i]] = i
              /\ target[outcome[i]] = owner[i]
              /\ resume[outcome[i]] = "resolved"

(* What the documentation promises (websocket-api.md:48) and the code does *)
(* not keep: one agent loop per session at a time.                         *)
OneActiveAgent ==
    \A c, d \in Chats :
        agent[c] = "running" /\ agent[d] = "running"
            /\ session[c] = session[d] => c = d

(* A context that has been signalled to close releases every tool that     *)
(* waits on it, asynchronous ones that ask afterwards included: stopping a *)
(* session never leaves a tool behind (the select of RequestInput).        *)
ClosedReleasesTools ==
    \A i \in Inputs :
        (input[i] = "waiting" /\ context[owner[i]] # "open") ~> input[i] = "done"

(* A stop that found a chat ends it: the stop is answered, the agent gets  *)
(* past the tools it waited for and every stream of the chat ends, clients *)
(* that reconnected included.                                              *)
StopEndsChat ==
    \A t \in Stops, c \in Chats :
        (stop[t] = "closing" /\ target[t] = c)
            ~> /\ stop[t] = "stopped"
               /\ agent[c] = "exited"
               /\ \A r \in Chats : attached[r] = c => handler[r] # "streaming"

(* The end of the agent loop ends the chat on its own: its context closes  *)
(* and no stream of it stays open.                                         *)
ReturnClosesStreams ==
    \A c, r \in Chats :
        (agent[c] = "returned" /\ attached[r] = c)
            ~> handler[r] = "ended" /\ context[c] = "closed"

(* A resume that reached a registered interrupt is answered: the HTTP API  *)
(* lists 200, 400, 404 and 409 (http-api.md, "Resume Session").  The code  *)
(* sends outside the lock to a channel of capacity one, and nobody empties *)
(* the channel of an interrupt that is over.                               *)
ResumeIsAnswered ==
    \A q \in Resumes : resume[q] = "sending" ~> resume[q] = "resolved"

=============================================================================
