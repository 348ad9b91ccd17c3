------------------------------ MODULE AsyncTools ------------------------------
(***************************************************************************)
(* Asynchronous tools of one session: the goroutine of executeAsync        *)
(* (core/agent/engine_tools.go), its entry in the registry                 *)
(* (core/tool/registry.go), and the completion record it appends to the    *)
(* metadata of the session (plugins/storage-sqlite/session.go).            *)
(*                                                                         *)
(* AgentLoop has what these goroutines do to the message store and to the  *)
(* client; here are the registry and the metadata, which the goroutines    *)
(* share with each other and with whoever cancels or polls.  The registry  *)
(* hands out pointers and takes no lock around their fields, so checking a *)
(* status and setting it are two steps.                                    *)
(*                                                                         *)
(* The tools of core/capabilities/tools/async.go get their registry from   *)
(* whoever builds them; here it is the engine's.  The default harness has  *)
(* only get_tool_status, with an empty registry of its own                 *)
(* (core/plugin/builtin.go:219).                                           *)
(***************************************************************************)
EXTENDS Naturals

CONSTANTS
    Calls,      (* calls of tools with execution_mode "async"              *)
    Cancels     (* calls of Cancel or CancelSession                        *)

VARIABLES
    stopped,    (* the lifecycle context of the chat is cancelled          *)
    task,       (* where the goroutine of each call is                     *)
    entry,      (* the status in the state a call registered               *)
    listed,     (* that state is in the registry's map                     *)
    result,     (* the Result field of that state                          *)
    expired,    (* the call's own context is cancelled or timed out        *)
    told,       (* completion events sent to the client                    *)
    metadata,   (* async_completion_pending of the session, as a set       *)
    snapshot,   (* the list each AppendMetadata in progress has read       *)
    cancel,     (* Cancel: the call found running, then the reply          *)
    fetched,    (* what get_tool_result and get_tool_status have replied   *)
    recorded,   (* history: calls whose AppendMetadata succeeded           *)
    disturbed   (* history: calls whose append overlapped with another one *)

taskVars == <<task, entry, listed, result, told>>
metaVars == <<metadata, snapshot, recorded, disturbed>>
vars == <<stopped, taskVars, expired, metaVars, cancel, fetched>>

Statuses == {"none", "running", "completed", "failed", "cancelled"}

AsyncTypeOK ==
    /\ stopped \in BOOLEAN
    /\ task \in [Calls -> {"none", "acquiring", "running", "finishing", "returned",
                           "stored", "appending", "leaving", "gone"}]
    /\ entry \in [Calls -> Statuses]
    /\ listed \subseteq Calls
    /\ result \in [Calls -> BOOLEAN]
    /\ expired \subseteq Calls
    /\ told \in [Calls -> 0 .. 1]
    /\ metadata \subseteq Calls
    /\ snapshot \in [Calls -> SUBSET Calls]
    /\ cancel \in [Cancels -> Calls \cup {"idle", "yes", "no"}]
    /\ fetched \in [Calls -> {"nothing", "result", "empty"}]
    /\ recorded \subseteq Calls
    /\ disturbed \subseteq Calls

Init ==
    /\ stopped = FALSE
    /\ task = [c \in Calls |-> "none"]
    /\ entry = [c \in Calls |-> "none"]
    /\ listed = {}
    /\ result = [c \in Calls |-> FALSE]
    /\ expired = {}
    /\ told = [c \in Calls |-> 0]
    /\ metadata = {}
    /\ snapshot = [c \in Calls |-> {}]
    /\ cancel = [k \in Cancels |-> "idle"]
    /\ fetched = [c \in Calls |-> "nothing"]
    /\ recorded = {}
    /\ disturbed = {}

-----------------------------------------------------------------------------
(* The goroutine of one call (engine_tools.go:144-367).                    *)

Goto(c, place) == task' = [task EXCEPT ![c] = place]
Mark(c, status) ==
    entry' = IF c \in listed THEN [entry EXCEPT ![c] = status] ELSE entry
Tell(c) == told' = [told EXCEPT ![c] = @ + 1]

Launch(c) ==
    /\ task[c] = "none"
    /\ Goto(c, "acquiring")
    /\ entry' = [entry EXCEPT ![c] = "running"]
    /\ listed' = listed \cup {c}
    /\ UNCHANGED <<stopped, result, told, expired, metaVars, cancel, fetched>>

(* The five minutes are over, before or while the tool runs: the context   *)
(* the permit is waited for with ends; the tool itself does not have it.   *)
TimeOut(c) ==
    /\ task[c] \in {"acquiring", "running"}
    /\ expired' = expired \cup {c}
    /\ UNCHANGED <<stopped, taskVars, metaVars, cancel, fetched>>

(* A permit is given only while the context it is waited for with is open. *)
Acquire(c) ==
    /\ task[c] = "acquiring"
    /\ ~stopped /\ c \notin expired
    /\ Goto(c, "running")
    /\ UNCHANGED <<stopped, entry, listed, result, told, expired, metaVars, cancel,
                   fetched>>

(* Variant: a call that gets no permit leaves without a word.              *)
DeniedSilently(c) ==
    /\ task[c] = "acquiring"
    /\ stopped \/ c \in expired
    /\ Goto(c, "leaving")
    /\ Mark(c, "failed")
    /\ UNCHANGED <<stopped, listed, result, told, expired, metaVars, cancel, fetched>>

Denied(c) ==
    /\ task[c] = "acquiring"
    /\ stopped \/ c \in expired
    /\ Goto(c, "leaving")
    /\ Mark(c, "failed")
    /\ Tell(c)
    /\ UNCHANGED <<stopped, listed, result, expired, metaVars, cancel, fetched>>

(* The tool panics: the deferred function reports and nothing is stored.   *)
Panic(c) ==
    /\ task[c] = "running"
    /\ Goto(c, "leaving")
    /\ Mark(c, "failed")
    /\ Tell(c)
    /\ UNCHANGED <<stopped, listed, result, expired, metaVars, cancel, fetched>>

(* Complete sets the status before the result.                             *)
Succeed(c) ==
    /\ task[c] = "running"
    /\ Goto(c, "finishing")
    /\ Mark(c, "completed")
    /\ UNCHANGED <<stopped, listed, result, told, expired, metaVars, cancel, fetched>>

SetResult(c) ==
    /\ task[c] = "finishing"
    /\ Goto(c, "returned")
    /\ result' = IF c \in listed THEN [result EXCEPT ![c] = TRUE] ELSE result
    /\ Tell(c)
    /\ UNCHANGED <<stopped, entry, listed, expired, metaVars, cancel, fetched>>

Fail(c) ==
    /\ task[c] = "running"
    /\ Goto(c, "returned")
    /\ Mark(c, "failed")
    /\ Tell(c)
    /\ UNCHANGED <<stopped, listed, result, expired, metaVars, cancel, fetched>>

(* The result row: a failure is logged and the goroutine goes on.          *)
AddRow(c) ==
    /\ task[c] = "returned"
    /\ Goto(c, "stored")
    /\ UNCHANGED <<stopped, entry, listed, result, told, expired, metaVars, cancel,
                   fetched>>

(* AppendMetadata (session.go:119-155) reads the session and writes it     *)
(* back; with the lifecycle context cancelled, either of the two fails.    *)
Appending == {c \in Calls : task[c] = "appending"}

ReadMetadata(c) ==
    /\ task[c] = "stored"
    /\ IF stopped
       THEN Goto(c, "leaving") /\ UNCHANGED metaVars
       ELSE /\ Goto(c, "appending")
            /\ snapshot' = [snapshot EXCEPT ![c] = metadata]
            /\ disturbed' = IF Appending = {} THEN disturbed
                            ELSE disturbed \cup Appending \cup {c}
            /\ UNCHANGED <<metadata, recorded>>
    /\ UNCHANGED <<stopped, entry, listed, result, told, expired, cancel, fetched>>

(* Variant: the list is replaced by the new record.                        *)
WriteMetadataReplaces(c) ==
    /\ task[c] = "appending"
    /\ Goto(c, "leaving")
    /\ IF stopped THEN UNCHANGED <<metadata, recorded>>
       ELSE metadata' = {c} /\ recorded' = recorded \cup {c}
    /\ UNCHANGED <<stopped, entry, listed, result, told, expired, snapshot, disturbed,
                   cancel, fetched>>

WriteMetadata(c) ==
    /\ task[c] = "appending"
    /\ Goto(c, "leaving")
    /\ IF stopped THEN UNCHANGED <<metadata, recorded>>
       ELSE metadata' = snapshot[c] \cup {c} /\ recorded' = recorded \cup {c}
    /\ UNCHANGED <<stopped, entry, listed, result, told, expired, snapshot, disturbed,
                   cancel, fetched>>

(* The deferred functions: release the permit, cancel, Unregister.         *)
Leave(c) ==
    /\ task[c] = "leaving"
    /\ Goto(c, "gone")
    /\ expired' = expired \cup {c}
    /\ listed' = listed \ {c}
    /\ UNCHANGED <<stopped, entry, result, told, metaVars, cancel, fetched>>

-----------------------------------------------------------------------------
(* Whoever else uses the registry.                                         *)

Stop ==
    /\ ~stopped
    /\ stopped' = TRUE
    /\ UNCHANGED <<taskVars, expired, metaVars, cancel, fetched>>

(* Cancel: load the state, test it, call its CancelFunc ...                *)
CancelCheck(k, c) ==
    /\ cancel[k] = "idle"
    /\ IF c \in listed /\ entry[c] = "running"
       THEN cancel' = [cancel EXCEPT ![k] = c] /\ expired' = expired \cup {c}
       ELSE cancel' = [cancel EXCEPT ![k] = "no"] /\ UNCHANGED expired
    /\ UNCHANGED <<stopped, taskVars, metaVars, fetched>>

(* ... and set the status of the state it holds, listed or not.            *)
CancelSet(k) ==
    /\ cancel[k] \in Calls
    /\ entry' = [entry EXCEPT ![cancel[k]] = "cancelled"]
    /\ cancel' = [cancel EXCEPT ![k] = "yes"]
    /\ UNCHANGED <<stopped, task, listed, result, told, expired, metaVars, fetched>>

(* get_tool_result: only of a completed call.                              *)
Fetch(c) ==
    /\ c \in listed
    /\ entry[c] = "completed"
    /\ fetched' = [fetched EXCEPT ![c] = IF result[c] THEN "result" ELSE "empty"]
    /\ UNCHANGED <<stopped, taskVars, expired, metaVars, cancel>>

Goroutine(c) ==
    \/ Acquire(c) \/ Denied(c) \/ Panic(c) \/ Succeed(c) \/ SetResult(c) \/ Fail(c)
    \/ AddRow(c) \/ ReadMetadata(c) \/ WriteMetadata(c) \/ Leave(c)

Next ==
    \/ Stop
    \/ \E c \in Calls : Launch(c) \/ TimeOut(c) \/ Goroutine(c) \/ Fetch(c)
    \/ \E k \in Cancels : CancelSet(k) \/ \E c \in Calls : CancelCheck(k, c)

Spec == Init /\ [][Next]_vars

-----------------------------------------------------------------------------
(* A call that is over is out of the registry, and the client was told so  *)
(* once, whether it was denied a permit, panicked, failed or succeeded,    *)
(* and whoever cancelled it (engine_tools.go:177-240).                     *)
EndIsToldOnce ==
    \A c \in Calls :
        /\ task[c] = "gone" => told[c] = 1 /\ c \notin listed
        /\ task[c] \in {"acquiring", "running"} => told[c] = 0 /\ c \in listed

(* The record of a completed append is lost only if the append of another  *)
(* call of the session overlapped with it (session.go:119-155).            *)
RecordLostOnlyByOverlap == recorded \subseteq metadata \cup disturbed

AsyncConsistent == EndIsToldOnce /\ RecordLostOnlyByOverlap

=============================================================================
