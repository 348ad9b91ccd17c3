----------------------------- MODULE PromptHooks -----------------------------
(***************************************************************************)
(* What hooks add to the calls of the model: the chain of hooks            *)
(* (core/hook/runner.go), the points of runAgentLoop at which it is run    *)
(* (core/agent/engine.go:398-455), and the hooks that add something: the   *)
(* plan, the skills and the agent's memory to the system prompt; recalled  *)
(* memory files (recall_hook.go) and knowledge base chunks                 *)
(* (kb_recall_hook.go) to the messages.                                    *)
(*                                                                         *)
(* The chats here are of one session.  Messages are built anew for every   *)
(* call, so what a hook adds is part of one call only.  A recalled file is *)
(* recorded in a cache of the session and not recalled again.              *)
(***************************************************************************)
EXTENDS Naturals, Sequences, SequencesExt

CONSTANTS
    Chats,      (* agent loops of the session                              *)
    Files,      (* memory files the model may ask for                      *)
    Sections,   (* hooks that add to the system prompt: of Chain           *)
    MaxNamed,   (* paths taken of an answer (5)                            *)
    MaxCalls    (* bound: calls of the model per chat                      *)

VARIABLES
    disk,       (* the memory files there are                              *)
    stage,      (* where each loop is between two calls of the model       *)
    calls,      (* calls made                                              *)
    added,      (* what hooks have put before the messages of the call     *)
    chosen,     (* the paths the recall hook reads, in the model's order   *)
    reads,      (* how many of them it has read                            *)
    injections, (* the messages it has made of them                        *)
    request,    (* what has been converted for the provider                *)
    cache,      (* the session's recalled files                            *)
    shown,      (* history: the files a call of each chat has carried      *)
    unread,     (* history: chosen files that could not be read            *)
    failed,     (* history: files in a call that failed                    *)
    overlapped  (* history: files chosen by two chats at once              *)

recallVars == <<chosen, reads, injections>>
chatVars == <<stage, calls, added, recallVars, request>>
history == <<shown, unread, failed, overlapped>>
vars == <<disk, chatVars, cache, history>>

Chain == <<"todos", "memory", "skills">>     (* highest priority first *)
Message == Files \cup {"kb", "custom"} \cup Sections

PromptTypeOK ==
    /\ disk \subseteq Files
    /\ stage \in [Chats -> {"prompt", "asked", "chosen", "knowledge", "ready",
                            "calling", "over"}]
    /\ calls \in [Chats -> 0 .. MaxCalls]
    /\ \A c \in Chats : added[c] \in Seq(Message) /\ request[c] \in Seq(Message)
    /\ \A c \in Chats : chosen[c] \in Seq(Files) /\ injections[c] \in Seq(Files)
    /\ reads \in [Chats -> 0 .. MaxNamed]
    /\ cache \subseteq Files
    /\ shown \in [Files -> 0 .. MaxCalls * 2]
    /\ unread \subseteq Files /\ failed \subseteq Files /\ overlapped \subseteq Files

Init ==
    /\ disk = Files
    /\ stage = [c \in Chats |-> "prompt"]
    /\ calls = [c \in Chats |-> 0]
    /\ added = [c \in Chats |-> <<>>]
    /\ chosen = [c \in Chats |-> <<>>]
    /\ reads = [c \in Chats |-> 0]
    /\ injections = [c \in Chats |-> <<>>]
    /\ request = [c \in Chats |-> <<>>]
    /\ cache = {}
    /\ shown = [f \in Files |-> 0]
    /\ unread = {} /\ failed = {} /\ overlapped = {}

At(c, place) == stage[c] = place
Goto(c, place) == stage' = [stage EXCEPT ![c] = place]
Prepend(c, m) == added' = [added EXCEPT ![c] = m \o @]

-----------------------------------------------------------------------------
(* Run: the hooks of a point, highest priority first; an error or a panic  *)
(* of one is logged, and the next is run.  None is run once the chat is    *)
(* stopped, which here is every hook having nothing to add.                *)
Run(S) ==
    LET Part(i) == IF Chain[i] \in S THEN <<Chain[i]>> ELSE <<>> IN
    Part(1) \o Part(2) \o Part(3)

(* OnSystemPrompt, and BuildContext, which fails if the chat is stopped.   *)
OnSystemPrompt(c, S) ==
    /\ At(c, "prompt") /\ calls[c] < MaxCalls
    /\ added' = [added EXCEPT ![c] = Run(S)]
    /\ Goto(c, "asked") \/ Goto(c, "over")
    /\ UNCHANGED <<disk, calls, recallVars, request, cache, history>>

(* MemoryRecallHook: without files, or with an answer that is not a list   *)
(* of paths, it does nothing.  Of a list, paths are what is left without   *)
(* those in the cache, in the model's order; a path it names twice is left *)
(* twice.  Until the cache is updated other chats go on.                   *)
RecallSelect(c, paths) ==
    /\ At(c, "asked")
    /\ disk = {} => paths = <<>>
    /\ ToSet(paths) \cap cache = {}
    /\ chosen' = [chosen EXCEPT ![c] = paths]
    /\ overlapped' = overlapped \cup
          UNION {ToSet(paths) \cap ToSet(chosen[d]) : d \in Chats \ {c}}
    /\ Goto(c, IF paths = <<>> THEN "knowledge" ELSE "chosen")
    /\ UNCHANGED <<disk, calls, added, reads, injections, request, cache, shown,
                   unread, failed>>

(* The next path of the list: a file that cannot be read is skipped.       *)
RecallRead(c) ==
    /\ At(c, "chosen") /\ reads[c] < Len(chosen[c])
    /\ reads' = [reads EXCEPT ![c] = @ + 1]
    /\ LET f == chosen[c][reads[c] + 1] IN
       IF f \in disk
         THEN injections' = [injections EXCEPT ![c] = Append(@, f)] /\ UNCHANGED unread
         ELSE unread' = unread \cup {f} /\ UNCHANGED injections
    /\ UNCHANGED <<disk, stage, calls, added, chosen, request, cache, shown, failed,
                   overlapped>>

(* Variant: once a file was recalled, every file counts as recalled.       *)
RecallInjectAll(c) ==
    /\ At(c, "chosen") /\ reads[c] = Len(chosen[c])
    /\ Prepend(c, injections[c])
    /\ cache' = IF injections[c] = <<>> THEN cache ELSE Files
    /\ chosen' = [chosen EXCEPT ![c] = <<>>]
    /\ reads' = [reads EXCEPT ![c] = 0]
    /\ injections' = [injections EXCEPT ![c] = <<>>]
    /\ Goto(c, "knowledge")
    /\ UNCHANGED <<disk, calls, request, history>>

(* All read: the messages go before the others, one for each path read,    *)
(* and every path of the list is recorded, if one could be read.           *)
RecallInject(c) ==
    /\ At(c, "chosen") /\ reads[c] = Len(chosen[c])
    /\ Prepend(c, injections[c])
    /\ cache' = IF injections[c] = <<>> THEN cache ELSE cache \cup ToSet(chosen[c])
    /\ chosen' = [chosen EXCEPT ![c] = <<>>]
    /\ reads' = [reads EXCEPT ![c] = 0]
    /\ injections' = [injections EXCEPT ![c] = <<>>]
    /\ Goto(c, "knowledge")
    /\ UNCHANGED <<disk, calls, request, history>>

(* KBRecallHook (priority 60, after the recall of memory): one message if  *)
(* the search finds something; its failures are logged.                    *)
KBRecall(c, found) ==
    /\ At(c, "knowledge")
    /\ Goto(c, "ready")
    /\ IF found THEN Prepend(c, <<"kb">>) ELSE UNCHANGED added
    /\ UNCHANGED <<disk, calls, recallVars, request, cache, history>>

(* Variant: the messages are converted after the hooks of BeforeLLMCall.   *)
SendLate(c) ==
    /\ At(c, "ready")
    /\ Goto(c, "calling")
    /\ added' = [added EXCEPT ![c] = <<"custom">> \o @]
    /\ request' = [request EXCEPT ![c] = added'[c]]
    /\ UNCHANGED <<disk, calls, recallVars, cache, history>>

(* convertToLLMMessages (engine.go:444) is before the hooks of             *)
(* BeforeLLMCall, which get the messages; one of them adds to them.        *)
Send(c) ==
    /\ At(c, "ready")
    /\ Goto(c, "calling")
    /\ request' = [request EXCEPT ![c] = added[c]]
    /\ added' = [added EXCEPT ![c] = <<"custom">> \o @]
    /\ UNCHANGED <<disk, calls, recallVars, cache, history>>

(* The call is answered, and the loop goes on or not; or it fails.         *)
CallModel(c) ==
    LET carried == ToSet(request[c]) \cap Files IN
    /\ At(c, "calling")
    /\ calls' = [calls EXCEPT ![c] = @ + 1]
    /\ added' = [added EXCEPT ![c] = <<>>]
    /\ request' = [request EXCEPT ![c] = <<>>]
    /\ \/ /\ Goto(c, "prompt") \/ Goto(c, "over")
          /\ shown' = [f \in Files |-> IF f \in carried THEN shown[f] + 1 ELSE shown[f]]
          /\ UNCHANGED failed
       \/ Goto(c, "over") /\ failed' = failed \cup carried /\ UNCHANGED shown
    /\ UNCHANGED <<disk, recallVars, cache, unread, overlapped>>

-----------------------------------------------------------------------------
(* memory_store and memory_forget, of any chat.                            *)
ChangeMemory(f) ==
    /\ disk' = IF f \in disk THEN disk \ {f} ELSE disk \cup {f}
    /\ UNCHANGED <<chatVars, cache, history>>

Next ==
    \/ \E c \in Chats :
          \/ RecallRead(c) \/ RecallInject(c) \/ Send(c) \/ CallModel(c)
          \/ \E S \in SUBSET Sections : OnSystemPrompt(c, S)
          \/ \E n \in 0 .. MaxNamed : \E paths \in [1 .. n -> Files] : RecallSelect(c, paths)
          \/ \E b \in BOOLEAN : KBRecall(c, b)
    \/ \E f \in Files : ChangeMemory(f)

Spec == Init /\ [][Next]_vars

-----------------------------------------------------------------------------
(* No two calls of a session carry the same memory file, unless two chats  *)
(* chose it at once (recall_hook.go:108-135).  In the one call it is in, it *)
(* is as often as the answer named it.                                     *)
ShownOnce == \A f \in Files : shown[f] > 1 => f \in overlapped

(* recall_hook.go:16: "Per-session dedup prevents double injection": no    *)
(* file is twice in what is sent to the model.  Not so: an answer may name *)
(* one twice.                                                              *)
InjectedOnce ==
    \A c \in Chats : \A i, j \in DOMAIN request[c] :
        request[c][i] = request[c][j] /\ request[c][i] \in Files => i = j

(* A file that will not be recalled again has been shown to the model, or  *)
(* is in a call that is about to be made, or that call has failed, or the  *)
(* file could not be read.                                                 *)
RecordedWasShown ==
    \A f \in cache :
        \/ shown[f] > 0 \/ f \in failed \cup unread
        \/ \E c \in Chats : ~At(c, "over") /\ f \in ToSet(added[c])

(* A call carries what was added up to AfterContextBuild, knowledge before *)
(* memory; what hooks add at BeforeLLMCall is in no call (engine.go:444).  *)
RequestAsHooksLeftIt ==
    \A c \in Chats : At(c, "calling") =>
        /\ "custom" \notin ToSet(request[c])
        /\ added[c] = <<"custom">> \o request[c]
        /\ \A i \in DOMAIN request[c] : request[c][i] = "kb" => i = 1

PromptConsistent == ShownOnce /\ RecordedWasShown /\ RequestAsHooksLeftIt

=============================================================================
