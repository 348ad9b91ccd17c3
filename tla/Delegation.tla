------------------------------ MODULE Delegation ------------------------------
(***************************************************************************)
(* Delegation to sub-agents: DelegateToTool and ReadSubSessionTool         *)
(* (core/capabilities/tools/delegate.go) over engineImpl.Chat              *)
(* (core/agent/engine.go) and the agent registry (core/agent/registry.go). *)
(*                                                                         *)
(* Every chat but the root is the sub-chat of one delegate_to call of      *)
(* another chat, and names that call.  The tool is called synchronously,   *)
(* or concurrently with others of its step, and blocks until the context   *)
(* of the sub-chat is closed.                                              *)
(***************************************************************************)
EXTENDS Naturals, Sequences

CONSTANTS
    Chats,      (* the chats there may be                                  *)
    Root,       (* the one a user started                                  *)
    Agents,     (* ids a model may name                                    *)
    Factories,  (* those with a factory                                    *)
    DepthLimit  (* 3 in the code                                           *)

VARIABLES
    run,        (* engine.Chat of each chat                                *)
    call,       (* the delegate_to call that wants each chat               *)
    parent,     (* the chat that call is made in                           *)
    depth,      (* of the context                                          *)
    cancelled,  (* chats whose lifecycle context is cancelled              *)
    closed,     (* chats whose Closed() channel is closed                  *)
    rows,       (* the message rows of each session                        *)
    summary     (* what each call has returned                             *)

vars == <<run, call, parent, depth, cancelled, closed, rows, summary>>

Subs == Chats \ {Root}

DelegationTypeOK ==
    /\ run \in [Chats -> {"none", "starting", "running", "ended", "refused"}]
    /\ call \in [Subs -> {"none", "created", "waiting", "failed", "returned"}]
    /\ parent \in [Subs -> Chats]
    /\ depth \in [Chats -> Nat]
    /\ cancelled \subseteq Chats
    /\ closed \subseteq Chats
    /\ rows \in [Chats -> Seq({"task", "reply"})]
    /\ summary \in [Subs -> {"nothing", "error", "default", "reply"}]

Init ==
    /\ run = [c \in Chats |-> IF c = Root THEN "running" ELSE "none"]
    /\ call = [c \in Subs |-> "none"]
    /\ parent = [c \in Subs |-> Root]
    /\ depth = [c \in Chats |-> 0]
    /\ cancelled = {}
    /\ closed = {}
    /\ rows = [c \in Chats |-> IF c = Root THEN <<"task">> ELSE <<>>]
    /\ summary = [c \in Subs |-> "nothing"]

-----------------------------------------------------------------------------
(* GetFactory: an id without a factory is an error result, the model goes  *)
(* on; so are an empty id or task.                                         *)
Unknown(a) == a \notin Factories

Reject(c, p, a) ==
    /\ run[p] = "running" /\ call[c] = "none"
    /\ Unknown(a)
    /\ call' = [call EXCEPT ![c] = "failed"]
    /\ summary' = [summary EXCEPT ![c] = "error"]
    /\ UNCHANGED <<run, parent, depth, cancelled, closed, rows>>

(* The sub-session is created with the context of the parent; the          *)
(* sub-chat's own context is a new one, not derived from it.               *)
CreateSession(c, p, a) ==
    /\ run[p] = "running" /\ call[c] = "none" /\ c # p
    /\ ~Unknown(a)
    /\ IF p \in cancelled
       THEN /\ call' = [call EXCEPT ![c] = "failed"]
            /\ summary' = [summary EXCEPT ![c] = "error"]
            /\ UNCHANGED <<parent, depth>>
       ELSE /\ call' = [call EXCEPT ![c] = "created"]
            /\ parent' = [parent EXCEPT ![c] = p]
            /\ depth' = [depth EXCEPT ![c] = depth[p] + 1]
            /\ UNCHANGED summary
    /\ UNCHANGED <<run, cancelled, closed, rows>>

(* The task is stored, the sub-agent's goroutine started, and the tool     *)
(* waits for <-subChatCtx.Closed().                                        *)
StartSubAgent(c) ==
    /\ call[c] = "created"
    /\ IF parent[c] \in cancelled
       THEN /\ call' = [call EXCEPT ![c] = "failed"]
            /\ summary' = [summary EXCEPT ![c] = "error"]
            /\ UNCHANGED <<run, rows>>
       ELSE /\ call' = [call EXCEPT ![c] = "waiting"]
            /\ rows' = [rows EXCEPT ![c] = Append(@, "task")]
            /\ run' = [run EXCEPT ![c] = "starting"]
            /\ UNCHANGED summary
    /\ UNCHANGED <<parent, depth, cancelled, closed>>

(* Chat: the depth is checked; prepareAgentLoop stores the input, here the *)
(* task a second time.                                                     *)
TooDeep(c) == depth[c] >= DepthLimit

Begin(c) ==
    /\ run[c] = "starting"
    /\ IF TooDeep(c)
       THEN run' = [run EXCEPT ![c] = "refused"] /\ UNCHANGED rows
       ELSE /\ run' = [run EXCEPT ![c] = "running"]
            /\ rows' = [rows EXCEPT ![c] = Append(@, "task")]
    /\ UNCHANGED <<call, parent, depth, cancelled, closed, summary>>

Waits(c) == \E d \in Subs : parent[d] = c /\ call[d] \in {"created", "waiting"}

(* The loop ends, with a reply, or without because a store call failed.    *)
End(c) ==
    /\ run[c] = "running"
    /\ ~Waits(c)
    /\ run' = [run EXCEPT ![c] = "ended"]
    /\ \/ c \notin cancelled /\ rows' = [rows EXCEPT ![c] = Append(@, "reply")]
       \/ UNCHANGED rows
    /\ UNCHANGED <<call, parent, depth, cancelled, closed, summary>>

(* Only the root is in the table of active sessions: it is closed by a     *)
(* stop or at the end of its goroutine (core/chat/handler.go:61-65).       *)
CloseRoot ==
    /\ Root \notin closed
    /\ cancelled' = cancelled \cup {Root}
    /\ closed' = closed \cup {Root}
    /\ UNCHANGED <<run, call, parent, depth, rows, summary>>

(* collectSummary lists the messages with the sub-chat's own context, which*)
(* a close has cancelled: the list fails and the default is returned.      *)
CollectSummary(c) ==
    IF c \in cancelled \/ "reply" \notin {rows[c][i] : i \in DOMAIN rows[c]}
    THEN "default" ELSE "reply"

Return(c) ==
    /\ call[c] = "waiting" /\ c \in closed
    /\ call' = [call EXCEPT ![c] = "returned"]
    /\ summary' = [summary EXCEPT ![c] = CollectSummary(c)]
    /\ UNCHANGED <<run, parent, depth, cancelled, closed, rows>>

DelegateTo(c) ==
    \/ \E p \in Chats, a \in Agents : Reject(c, p, a) \/ CreateSession(c, p, a)
    \/ StartSubAgent(c)
    \/ Return(c)

Engine(c) == Begin(c) \/ End(c)

Next ==
    \/ \E c \in Subs : DelegateTo(c)
    \/ \E c \in Chats : Engine(c)
    \/ CloseRoot

Spec == Init /\ [][Next]_vars

(* Goroutines are scheduled, and a model's loop ends; no model has to      *)
(* delegate and nobody has to stop.                                        *)
Fairness ==
    /\ \A c \in Subs : WF_vars(StartSubAgent(c)) /\ WF_vars(Return(c))
    /\ \A c \in Chats : WF_vars(Engine(c))

FairSpec == Spec /\ Fairness

-----------------------------------------------------------------------------
(* No agent loop runs DepthLimit levels below the root (engine.go:126).    *)
DepthBounded ==
    \A c \in Subs : run[c] \in {"running", "ended"} => ~TooDeep(c)

(* The tool "blocks until the sub-agent finishes"                          *)
(* (docs/backend/05-built-in-capabilities/tools/delegate.md:36): when the  *)
(* sub-agent's loop is over, the call returns (delegate.go:130-143).       *)
DelegationReturns ==
    \A c \in Subs : run[c] = "ended" ~> call[c] # "waiting"

=============================================================================
