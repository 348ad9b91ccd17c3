------------------------------ MODULE AgentLoop ------------------------------
(***************************************************************************)
(* One run of the agent loop: engineImpl.Chat (core/agent/engine.go), the  *)
(* execution of the tool calls of each step (core/agent/engine_tools.go)   *)
(* and what the run leaves in the message store.                           *)
(*                                                                         *)
(* The loop calls the model, streams its reply to the client, runs the     *)
(* tools the reply asks for and persists the step, until a reply asks for  *)
(* none.  All steps of a run are one assistant row of the message store,   *)
(* rewritten from the parts accumulated so far; each tool result is a row  *)
(* of its own.  Three things happen at any time: the session is stopped    *)
(* (its context is cancelled, after which every store operation fails),    *)
(* a store operation fails by itself, and an asynchronous tool finishes.   *)
(*                                                                         *)
(* A tool call is named by its step and its place in the reply: call ids   *)
(* are distinct.  What a part says is left out, its state is kept.         *)
(***************************************************************************)
EXTENDS Integers, Sequences, FiniteSets, SequencesExt

CONSTANTS
    MaxSteps,      (* maxSteps, 50 in the code                             *)
    MaxCalls,      (* bound: tool calls in one reply                       *)
    CallLimit,     (* bound: tool calls in the reply of each step          *)
    MaxDeltas,     (* bound: text chunks in one reply                      *)
    PersistEvery,  (* deltaPersistInterval, 10 in the code                 *)
    Concurrency,   (* permits of concurrencySem, 5 by default              *)
    MaxFaults      (* bound: store operations that fail by themselves      *)

ASSUME LoopBounds ==
    /\ {MaxSteps, MaxCalls, MaxDeltas, MaxFaults} \subseteq Nat
    /\ {PersistEvery, Concurrency} \subseteq Nat \ {0}
    /\ CallLimit \in [0 .. MaxSteps - 1 -> 0 .. MaxCalls]

VARIABLES
    pc,          (* where runAgentLoop is                                  *)
    step,        (* stepIndex                                              *)
    reply,       (* which parts the reply being streamed has so far        *)
    deltas,      (* textDeltaCount                                         *)
    calls,       (* the tool calls of each step: their execution modes     *)
    partIndex,   (* toolCallPartIndices: where the client has each call    *)
    tool,        (* what has become of each tool call                      *)
    handled,     (* calls of this step the loop is done with               *)
    saving,      (* asynchronous calls whose result is about to be stored  *)
    accumulated, (* accumulatedParts                                       *)
    madeCalls,   (* accumulatedToolCalls                                   *)
    row,         (* the assistant row of the message store                 *)
    results,     (* the tool rows of the message store, by call            *)
    shown,       (* the parts a connected client has been sent             *)
    closed,      (* the chat's context is cancelled                        *)
    faults,      (* store operations that have failed by themselves        *)
    outcome,     (* how the run ended                                      *)
    late         (* history: calls whose tool was started after the        *)
                 (* context had been cancelled                             *)

loopVars  == <<pc, step, handled, outcome>>
replyVars == <<reply, deltas>>
toolVars  == <<tool, saving, late>>
partVars  == <<accumulated, madeCalls>>
storeVars == <<row, results, faults>>
vars == <<loopVars, replyVars, calls, partIndex, toolVars, partVars, storeVars,
          shown, closed>>

-----------------------------------------------------------------------------

Steps   == 0 .. MaxSteps - 1
Indexes == 0 .. MaxCalls + 1
CallIds == Steps \X (1 .. MaxCalls)
Modes   == {"sync", "concurrent", "async"}

PartStates == {"streaming", "done", "pending", "running", "complete", "error"}
Kinds      == {"reasoning", "text", "call"}
Absent     == [kind |-> "none", state |-> "absent"]
Parts      == [step : Steps, kind : Kinds, call : 0 .. MaxCalls, state : PartStates]

NoReply == [reasoning |-> FALSE, text |-> FALSE]

Mode(c) == calls[c[1]][c[2]]

(* The calls of the current step that run in a given mode.                 *)
Of(mode) == {k \in 1 .. Len(calls[step]) : calls[step][k] = mode}

Returned(c) == tool[c] \in {"complete", "error"}

TypeOK ==
    /\ pc \in {"prepare", "top", "context", "stream", "calls", "tools",
               "checkpoint", "ended"}
    /\ step \in 0 .. MaxSteps
    /\ reply \in [reasoning : BOOLEAN, text : BOOLEAN]
    /\ deltas \in 0 .. MaxDeltas
    /\ calls \in [Steps -> BoundedSeq(Modes, MaxCalls)]
    /\ partIndex \in [CallIds -> Indexes]
    /\ tool \in [CallIds -> {"idle", "queued", "granted", "announced", "running",
                             "complete", "error", "denied"}]
    /\ handled \subseteq 1 .. MaxCalls
    /\ saving \subseteq CallIds
    /\ accumulated \in Seq(Parts)
    /\ madeCalls \in Seq(CallIds)
    /\ row \in [exists : BOOLEAN, parts : Seq(Parts), calls : Seq(CallIds)]
    /\ results \in [CallIds -> BoundedSeq({"complete", "error", "null"}, 1)]
    /\ shown \in [Steps -> [Indexes -> {Absent} \cup
                               [kind : Kinds, state : PartStates]]]
    /\ closed \in BOOLEAN
    /\ faults \in 0 .. MaxFaults
    /\ outcome \in {"none", "done", "limit", "error"}
    /\ late \subseteq CallIds

Init ==
    /\ pc = "prepare"
    /\ step = 0
    /\ reply = NoReply
    /\ deltas = 0
    /\ calls = [s \in Steps |-> <<>>]
    /\ partIndex = [c \in CallIds |-> 0]
    /\ tool = [c \in CallIds |-> "idle"]
    /\ handled = {}
    /\ saving = {}
    /\ accumulated = <<>>
    /\ madeCalls = <<>>
    /\ row = [exists |-> FALSE, parts |-> <<>>, calls |-> <<>>]
    /\ results = [c \in CallIds |-> <<>>]
    /\ shown = [s \in Steps |-> [i \in Indexes |-> Absent]]
    /\ closed = FALSE
    /\ faults = 0
    /\ outcome = "none"
    /\ late = {}

-----------------------------------------------------------------------------
(* The message store.  Every operation takes the chat's context.           *)

Succeeds == ~closed /\ UNCHANGED faults

Fails ==
    IF closed THEN UNCHANGED faults
              ELSE faults < MaxFaults /\ faults' = faults + 1

(* Upsert overwrites all columns: persistMessageUpsert gives it no calls.  *)
(* Its callers only log a failure.                                         *)
Upsert(parts) ==
    \/ Succeeds /\ row' = [exists |-> TRUE, parts |-> parts, calls |-> <<>>]
    \/ Fails /\ UNCHANGED row

(* Update finds no row when every upsert so far has failed.                *)
UpdateOk(parts, ids) ==
    /\ row.exists
    /\ Succeeds
    /\ row' = [exists |-> TRUE, parts |-> parts, calls |-> ids]

UpdateFails ==
    /\ \/ Fails
       \/ ~row.exists /\ UNCHANGED faults
    /\ UNCHANGED row

AddResult(c, content) ==
    Succeeds /\ results' = [results EXCEPT ![c] = Append(@, content)]

Abort == pc' = "ended" /\ outcome' = "error"

-----------------------------------------------------------------------------
(* The parts of a step.  The client is sent them one by one, each at an    *)
(* index the engine counts up; the store gets the list buildUIParts makes. *)

Part(s, kind, k, state) == [step |-> s, kind |-> kind, call |-> k, state |-> state]

Only(condition, part) == IF condition THEN <<part>> ELSE <<>>

(* buildUIParts: only a call with a tool result is more than pending, and  *)
(* asynchronous calls have none.                                           *)
CallState(k) ==
    IF k \notin Of("async") /\ Returned(<<step, k>>) THEN tool[<<step, k>>]
                                                     ELSE "pending"

PartsOf(cs, states) ==
    Only(reply.reasoning, Part(step, "reasoning", 0, "done"))
    \o Only(reply.text \/ cs = <<>>, Part(step, "text", 0, "done"))
    \o [k \in 1 .. Len(cs) |-> Part(step, "call", k, states[k])]

CurrentParts == PartsOf(calls[step], [k \in 1 .. MaxCalls |-> CallState(k)])

(* Variant: a checkpoint of the step alone.                                *)
StreamingPartsOnly(r) ==
    Only(r.reasoning, Part(step, "reasoning", 0, "streaming"))
    \o Only(r.text, Part(step, "text", 0, "streaming"))

(* checkpointStreamingParts                                                *)
StreamingParts(r) ==
    accumulated
    \o Only(r.reasoning, Part(step, "reasoning", 0, "streaming"))
    \o Only(r.text, Part(step, "text", 0, "streaming"))

Count(b) == IF b THEN 1 ELSE 0

(* Variant: the reasoning part is not counted.                             *)
CallIndexSkipsReasoning(k) == Count(reply.text) + k - 1

(* Where handleToolCalls tells the client to put the k-th call.            *)
CallIndex(k) == Count(reply.reasoning) + Count(reply.text) + k - 1

(* An event reaches the client unless the ring buffer has been closed.     *)
Sent(parts) == IF closed THEN shown ELSE parts

ShowPart(i, kind, state) ==
    shown' = Sent([shown EXCEPT ![step][i] = [kind |-> kind, state |-> state]])

ShowCall(c, state) ==
    shown' = Sent([shown EXCEPT ![c[1]][partIndex[c]] =
                      [kind |-> "call", state |-> state]])

-----------------------------------------------------------------------------
(* prepareAgentLoop (engine.go:138-178): the session and the agent are     *)
(* looked up and the user's message is added, each of which may fail.      *)

Prepare ==
    /\ pc = "prepare"
    /\ \/ Succeeds /\ pc' = "top" /\ UNCHANGED outcome
       \/ Abort /\ UNCHANGED faults
    /\ UNCHANGED <<step, handled, replyVars, calls, partIndex, toolVars,
                   partVars, row, results, shown, closed>>

(* Variant: the loop never gives up.                                       *)
StepLimitIgnored ==
    /\ pc = "top"
    /\ step > MaxSteps
    /\ UNCHANGED vars

(* engine.go:390-396                                                       *)
StepLimit ==
    /\ pc = "top"
    /\ step >= MaxSteps
    /\ pc' = "ended"
    /\ outcome' = "limit"
    /\ UNCHANGED <<step, handled, replyVars, calls, partIndex, toolVars,
                   partVars, storeVars, shown, closed>>

(* engine.go:398-416: every step but the first rewrites the row.           *)
StepCreate ==
    /\ pc = "top"
    /\ step < MaxSteps
    /\ IF step > 0 /\ accumulated # <<>> THEN Upsert(accumulated)
                                         ELSE UNCHANGED <<row, faults>>
    /\ pc' = "context"
    /\ UNCHANGED <<step, handled, outcome, replyVars, calls, partIndex,
                   toolVars, partVars, results, shown, closed>>

(* Variant: the history is read outside the chat's context.                *)
BuildContextDetached ==
    /\ pc = "context"
    /\ pc' = "stream"
    /\ UNCHANGED <<step, handled, outcome, replyVars, calls, partIndex,
                   toolVars, partVars, storeVars, shown, closed>>

(* engine.go:432-435: the history is read back from the store.             *)
BuildContext ==
    /\ pc = "context"
    /\ \/ Succeeds /\ pc' = "stream" /\ UNCHANGED outcome
       \/ Fails /\ Abort
    /\ UNCHANGED <<step, handled, replyVars, calls, partIndex, toolVars,
                   partVars, row, results, shown, closed>>

-----------------------------------------------------------------------------
(* handleStreaming (engine.go:180-371).                                    *)

(* The first chunk of either kind creates a part at the next index; every  *)
(* PersistEvery-th text chunk checkpoints the row (engine.go:216-253).     *)
TextDelta ==
    LET r == [reply EXCEPT !.text = TRUE] IN
    /\ pc = "stream"
    /\ deltas < MaxDeltas
    /\ deltas' = deltas + 1
    /\ reply' = r
    /\ IF reply.text THEN UNCHANGED shown
                     ELSE ShowPart(Count(reply.reasoning), "text", "streaming")
    /\ IF deltas' % PersistEvery = 0 THEN Upsert(StreamingParts(r))
                                     ELSE UNCHANGED <<row, faults>>
    /\ UNCHANGED <<loopVars, calls, partIndex, toolVars, partVars, results,
                   closed>>

(* engine.go:255-283                                                       *)
ReasoningDelta ==
    /\ pc = "stream"
    /\ ~reply.reasoning
    /\ reply' = [reply EXCEPT !.reasoning = TRUE]
    /\ ShowPart(Count(reply.text), "reasoning", "streaming")
    /\ UNCHANGED <<loopVars, deltas, calls, partIndex, toolVars, partVars,
                   storeVars, closed>>

(* engine.go:320-335: the provider reports an error.                       *)
StreamFails ==
    /\ pc = "stream"
    /\ Abort
    /\ UNCHANGED <<step, handled, replyVars, calls, partIndex, toolVars,
                   partVars, storeVars, shown, closed>>

(* Variant: the finished reply is not checkpointed.                        *)
StreamEndsUnsaved(cs) ==
    /\ pc = "stream"
    /\ calls' = [calls EXCEPT ![step] = cs]
    /\ shown' = Sent([shown EXCEPT ![step] =
                         [i \in Indexes |-> IF @[i] = Absent THEN Absent
                                            ELSE [@[i] EXCEPT !.state = "done"]]])
    /\ pc' = IF cs = <<>> THEN "tools" ELSE "calls"
    /\ UNCHANGED <<step, handled, outcome, replyVars, partIndex, toolVars,
                   partVars, storeVars, closed>>

(* engine.go:314-318, 337-370: the channel is closed, because the reply is *)
(* complete or because the context was cancelled on the way.  The parts    *)
(* are done, the calls are collected and the row is checkpointed.          *)
StreamEnds(cs) ==
    /\ pc = "stream"
    /\ calls' = [calls EXCEPT ![step] = cs]
    /\ shown' = Sent([shown EXCEPT ![step] =
                         [i \in Indexes |-> IF @[i] = Absent THEN Absent
                                            ELSE [@[i] EXCEPT !.state = "done"]]])
    /\ Upsert(accumulated \o PartsOf(cs, [k \in 1 .. Len(cs) |-> "pending"]))
    /\ pc' = IF cs = <<>> THEN "tools" ELSE "calls"
    /\ UNCHANGED <<step, handled, outcome, replyVars, partIndex, toolVars,
                   partVars, results, closed>>

-----------------------------------------------------------------------------
(* handleToolCalls (engine_tools.go:498-602): first the synchronous calls, *)
(* then the concurrent ones together, then the asynchronous ones.          *)

CreateParts ==
    LET ks == 1 .. Len(calls[step])
        At == [k \in ks |-> CallIndex(k)]
    IN
    /\ pc = "calls"
    /\ partIndex' = [c \in CallIds |->
                        IF c[1] = step /\ c[2] \in ks THEN At[c[2]]
                                                      ELSE partIndex[c]]
    /\ shown' = Sent([shown EXCEPT ![step] =
                         [i \in Indexes |->
                             IF \E k \in ks : At[k] = i
                             THEN [kind |-> "call", state |-> "pending"]
                             ELSE @[i]]])
    /\ pc' = "tools"
    /\ UNCHANGED <<step, handled, outcome, replyVars, calls, toolVars,
                   partVars, storeVars, closed>>

(* Who holds a permit of concurrencySem: a call that was given one, until  *)
(* its goroutine ends.                                                     *)
Holders == {c \in CallIds : /\ tool[c] \in {"granted", "announced", "running"}
                            /\ Mode(c) # "sync"} \cup saving

HasPermit == Cardinality(Holders) < Concurrency

(* executeSync (engine_tools.go:69-142): it does not look at the context.  *)
(* The client is told first.                                               *)
SyncAnnounce(k) ==
    /\ pc = "tools"
    /\ k \in Of("sync") \ handled
    /\ \A j \in Of("sync") : j < k => j \in handled
    /\ tool[<<step, k>>] = "idle"
    /\ tool' = [tool EXCEPT ![<<step, k>>] = "announced"]
    /\ ShowCall(<<step, k>>, "running")
    /\ UNCHANGED <<loopVars, replyVars, calls, partIndex, saving, late, partVars,
                   storeVars, closed>>

(* Between that event and Execute the hooks of BeforeToolExecute run; the  *)
(* context is not looked at again (86-91, 417-419).                        *)
ToolStart(k) ==
    LET c == <<step, k>> IN
    /\ pc = "tools"
    /\ k \in Of("sync") \cup Of("concurrent")
    /\ tool[c] = "announced"
    /\ tool' = [tool EXCEPT ![c] = "running"]
    /\ late' = IF closed THEN late \cup {c} ELSE late
    /\ UNCHANGED <<loopVars, replyVars, calls, partIndex, saving, partVars,
                   storeVars, shown, closed>>

(* A synchronous or concurrent tool returns, and the client is told.       *)
ToolReturn(k) ==
    LET c == <<step, k>> IN
    /\ pc = "tools"
    /\ k \in Of("sync") \cup Of("concurrent")
    /\ tool[c] = "running"
    /\ \E result \in {"complete", "error"} :
          /\ tool' = [tool EXCEPT ![c] = result]
          /\ ShowCall(c, result)
    /\ UNCHANGED <<loopVars, replyVars, calls, partIndex, saving, late,
                   partVars, storeVars, closed>>

(* Variant: a result that cannot be stored is only logged.                 *)
SyncSaveWarns(k) ==
    LET c == <<step, k>> IN
    /\ pc = "tools"
    /\ k \in Of("sync") \ handled
    /\ Returned(c)
    /\ handled' = handled \cup {k}
    /\ pc' = "checkpoint"
    /\ \/ AddResult(c, tool[c])
       \/ Fails /\ UNCHANGED results
    /\ UNCHANGED <<step, outcome, replyVars, calls, partIndex, toolVars,
                   partVars, row, shown, closed>>

(* Variant: only results are stored, not errors.                           *)
SyncSaveResultsOnly(k) ==
    LET c == <<step, k>> IN
    /\ pc = "tools"
    /\ k \in Of("sync") \ handled
    /\ Returned(c)
    /\ handled' = handled \cup {k}
    /\ pc' = "checkpoint"
    /\ IF tool[c] = "complete" THEN AddResult(c, tool[c])
                               ELSE UNCHANGED <<results, faults>>
    /\ UNCHANGED <<step, outcome, replyVars, calls, partIndex, toolVars,
                   partVars, row, shown, closed>>

(* The result becomes a tool row, or the run is over (132-139).            *)
SyncSave(k) ==
    LET c == <<step, k>> IN
    /\ pc = "tools"
    /\ k \in Of("sync") \ handled
    /\ Returned(c)
    /\ \/ /\ AddResult(c, tool[c])
          /\ handled' = handled \cup {k}
          /\ pc' = "checkpoint"
          /\ UNCHANGED outcome
       \/ Fails /\ Abort /\ UNCHANGED <<results, handled>>
    /\ UNCHANGED <<step, replyVars, calls, partIndex, toolVars, partVars, row,
                   shown, closed>>

(* checkpointToolResult (engine.go:651-672)                                *)
Checkpoint ==
    /\ pc = "checkpoint"
    /\ Upsert(accumulated \o CurrentParts)
    /\ pc' = "tools"
    /\ UNCHANGED <<step, handled, outcome, replyVars, calls, partIndex,
                   toolVars, partVars, results, shown, closed>>

(* executeConcurrent (engine_tools.go:369-496): a goroutine per call waits *)
(* for a permit.  Acquire fails if the context is cancelled.               *)
ConcurrentPhase(k) ==
    /\ pc = "tools"
    /\ Of("sync") \subseteq handled
    /\ k \in Of("concurrent") \ handled

(* Variant: a permit is given to a chat that has been stopped.             *)
ConcurrentAcquireAlways(k) ==
    /\ ConcurrentPhase(k)
    /\ tool[<<step, k>>] = "idle"
    /\ HasPermit
    /\ tool' = [tool EXCEPT ![<<step, k>>] = "granted"]
    /\ UNCHANGED <<loopVars, replyVars, calls, partIndex, saving, late,
                   partVars, storeVars, shown, closed>>

ConcurrentAcquire(k) ==
    /\ ConcurrentPhase(k)
    /\ tool[<<step, k>>] = "idle"
    /\ ~closed
    /\ HasPermit
    /\ tool' = [tool EXCEPT ![<<step, k>>] = "granted"]
    /\ UNCHANGED <<loopVars, replyVars, calls, partIndex, saving, late,
                   partVars, storeVars, shown, closed>>

ConcurrentAnnounce(k) ==
    /\ ConcurrentPhase(k)
    /\ tool[<<step, k>>] = "granted"
    /\ tool' = [tool EXCEPT ![<<step, k>>] = "announced"]
    /\ ShowCall(<<step, k>>, "running")
    /\ UNCHANGED <<loopVars, replyVars, calls, partIndex, saving, late,
                   partVars, storeVars, closed>>

ConcurrentDenied(k) ==
    /\ ConcurrentPhase(k)
    /\ tool[<<step, k>>] = "idle"
    /\ closed
    /\ tool' = [tool EXCEPT ![<<step, k>>] = "denied"]
    /\ UNCHANGED <<loopVars, replyVars, calls, partIndex, saving, late,
                   partVars, storeVars, shown, closed>>

(* Variant: a call whose result is stored is not marked as such.           *)
ConcurrentSaveAgain(k) ==
    LET c == <<step, k>> IN
    /\ ConcurrentPhase(k)
    /\ \A j \in Of("concurrent") : tool[<<step, j>>] \in {"complete", "error", "denied"}
    /\ AddResult(c, IF tool[c] = "denied" THEN "null" ELSE tool[c])
    /\ pc' = "checkpoint"
    /\ UNCHANGED <<step, handled, outcome, replyVars, calls, partIndex, toolVars,
                   partVars, row, shown, closed>>

(* wg.Wait, then one tool row per call in the order of the ids, which are  *)
(* arbitrary strings; a call that got no permit has a null result.         *)
ConcurrentSave(k) ==
    LET c == <<step, k>> IN
    /\ ConcurrentPhase(k)
    /\ \A j \in Of("concurrent") : tool[<<step, j>>] \in {"complete", "error", "denied"}
    /\ \/ /\ AddResult(c, IF tool[c] = "denied" THEN "null" ELSE tool[c])
          /\ handled' = handled \cup {k}
          /\ pc' = IF Of("concurrent") \subseteq handled' THEN "checkpoint"
                                                          ELSE "tools"
          /\ UNCHANGED outcome
       \/ Fails /\ Abort /\ UNCHANGED <<results, handled>>
    /\ UNCHANGED <<step, replyVars, calls, partIndex, toolVars, partVars, row,
                   shown, closed>>

(* executeAsync (engine_tools.go:144-367) starts a goroutine and returns.  *)
AsyncLaunch(k) ==
    /\ pc = "tools"
    /\ Of("sync") \cup Of("concurrent") \subseteq handled
    /\ k \in Of("async") \ handled
    /\ \A j \in Of("async") : j < k => j \in handled
    /\ tool' = [tool EXCEPT ![<<step, k>>] = "queued"]
    /\ handled' = handled \cup {k}
    /\ ShowCall(<<step, k>>, "running")
    /\ UNCHANGED <<pc, step, outcome, replyVars, calls, partIndex, saving, late,
                   partVars, storeVars, closed>>

AsyncAcquire(c) ==
    /\ tool[c] = "queued"
    /\ ~closed
    /\ HasPermit
    /\ tool' = [tool EXCEPT ![c] = "granted"]
    /\ UNCHANGED <<loopVars, replyVars, calls, partIndex, saving, late,
                   partVars, storeVars, shown, closed>>

AsyncStart(c) ==
    /\ tool[c] = "granted"
    /\ Mode(c) = "async"
    /\ tool' = [tool EXCEPT ![c] = "running"]
    /\ late' = IF closed THEN late \cup {c} ELSE late
    /\ UNCHANGED <<loopVars, replyVars, calls, partIndex, saving, partVars,
                   storeVars, shown, closed>>

(* The wait for a permit ends with the context, which also times out after *)
(* five minutes.                                                           *)
AsyncDenied(c) ==
    /\ tool[c] = "queued"
    /\ tool' = [tool EXCEPT ![c] = "denied"]
    /\ ShowCall(c, "error")
    /\ UNCHANGED <<loopVars, replyVars, calls, partIndex, saving, late,
                   partVars, storeVars, closed>>

AsyncReturn(c) ==
    /\ tool[c] = "running"
    /\ Mode(c) = "async"
    /\ saving' = saving \cup {c}
    /\ \E result \in {"complete", "error"} :
          /\ tool' = [tool EXCEPT ![c] = result]
          /\ ShowCall(c, result)
    /\ UNCHANGED <<loopVars, replyVars, calls, partIndex, late, partVars,
                   storeVars, closed>>

(* A panic is recovered: the client is told, no tool row is written.       *)
AsyncPanic(c) ==
    /\ tool[c] = "running"
    /\ Mode(c) = "async"
    /\ tool' = [tool EXCEPT ![c] = "error"]
    /\ ShowCall(c, "error")
    /\ UNCHANGED <<loopVars, replyVars, calls, partIndex, saving, late, partVars,
                   storeVars, closed>>

(* A result that cannot be stored is only logged (271-283, 332-344).       *)
AsyncSave(c) ==
    /\ c \in saving
    /\ saving' = saving \ {c}
    /\ \/ AddResult(c, tool[c])
       \/ Fails /\ UNCHANGED results
    /\ UNCHANGED <<loopVars, replyVars, calls, partIndex, tool, late, partVars,
                   row, shown, closed>>

-----------------------------------------------------------------------------
(* persistMessage (engine.go:524-568) ends the step.  Its Add branch is    *)
(* never taken: handleStreaming always leaves persistedMsgUUID set.        *)

(* Variant: the parts of the step replace those of the steps before.       *)
PersistReplaces ==
    LET ids == [k \in 1 .. Len(calls[step]) |-> <<step, k>>]
        last == ids = <<>>
    IN
    /\ pc = "tools"
    /\ handled = 1 .. Len(ids)
    /\ accumulated' = CurrentParts
    /\ madeCalls' = madeCalls \o ids
    /\ \/ /\ UpdateOk(accumulated', madeCalls')
          /\ IF last THEN outcome' = "done" /\ pc' = "ended" /\ UNCHANGED step
                     ELSE step' = step + 1 /\ pc' = "top" /\ UNCHANGED outcome
       \/ UpdateFails /\ Abort /\ UNCHANGED step
    /\ reply' = NoReply
    /\ deltas' = 0
    /\ handled' = {}
    /\ UNCHANGED <<calls, partIndex, toolVars, results, shown, closed>>

Persist ==
    LET ids == [k \in 1 .. Len(calls[step]) |-> <<step, k>>]
        last == ids = <<>>
    IN
    /\ pc = "tools"
    /\ handled = 1 .. Len(ids)
    /\ accumulated' = accumulated \o CurrentParts
    /\ madeCalls' = madeCalls \o ids
    /\ \/ /\ UpdateOk(accumulated', madeCalls')
          /\ IF last THEN outcome' = "done" /\ pc' = "ended" /\ UNCHANGED step
                     ELSE step' = step + 1 /\ pc' = "top" /\ UNCHANGED outcome
       \/ UpdateFails /\ Abort /\ UNCHANGED step
    /\ reply' = NoReply
    /\ deltas' = 0
    /\ handled' = {}
    /\ UNCHANGED <<calls, partIndex, toolVars, results, shown, closed>>

(* StopSession, or the deferred Close of the chat's goroutine.             *)
Close ==
    /\ ~closed
    /\ closed' = TRUE
    /\ UNCHANGED <<loopVars, replyVars, calls, partIndex, toolVars, partVars,
                   storeVars, shown>>

-----------------------------------------------------------------------------

Streaming ==
    \/ TextDelta
    \/ ReasoningDelta
    \/ StreamFails
    \/ /\ pc = "stream"
       /\ \E cs \in BoundedSeq(Modes, CallLimit[step]) : StreamEnds(cs)

ToolCall(k) ==
    \/ SyncAnnounce(k)
    \/ ToolStart(k)
    \/ ToolReturn(k)
    \/ SyncSave(k)
    \/ ConcurrentAcquire(k)
    \/ ConcurrentAnnounce(k)
    \/ ConcurrentDenied(k)
    \/ ConcurrentSave(k)
    \/ AsyncLaunch(k)

Loop ==
    \/ Prepare
    \/ StepLimit
    \/ StepCreate
    \/ BuildContext
    \/ Streaming
    \/ CreateParts
    \/ \E k \in 1 .. MaxCalls : ToolCall(k)
    \/ Checkpoint
    \/ Persist

AsyncTool(c) ==
    \/ AsyncAcquire(c)
    \/ AsyncStart(c)
    \/ AsyncDenied(c)
    \/ AsyncReturn(c)
    \/ AsyncPanic(c)
    \/ AsyncSave(c)

Next ==
    \/ Loop
    \/ \E c \in CallIds : AsyncTool(c)
    \/ Close

(* The loop and the goroutines of its tools are scheduled, a reply ends    *)
(* and tools return.  Nobody has to stop the session.                      *)
Fairness ==
    /\ WF_vars(Loop)
    /\ \A k \in 1 .. MaxCalls : WF_vars(ToolCall(k))
    /\ \A c \in CallIds : WF_vars(AsyncTool(c))

Spec == Init /\ [][Next]_vars
FairSpec == Spec /\ Fairness

-----------------------------------------------------------------------------
(* Properties.                                                             *)

CallsMade == {c \in CallIds : c[2] <= Len(calls[c[1]])}
CallsBefore(s) == {c \in CallsMade : c[1] < s}
IdOf(part) == <<part.step, part.call>>
CallsIn(parts) == {j \in DOMAIN parts : parts[j].kind = "call"}
IdsIn(parts) == {IdOf(parts[j]) : j \in CallsIn(parts)}

(* The order in which the model asked for the calls.                       *)
Precedes(c, d) == c[1] < d[1] \/ (c[1] = d[1] /\ c[2] < d[2])

(* The place of a part among the parts of its step.                        *)
Place(parts, j) == Cardinality({i \in 1 .. j - 1 : parts[i].step = parts[j].step})

(* A run that ends well leaves a faithful history: the assistant row has   *)
(* every call of every step exactly once, in order, both as part and as    *)
(* tool call; each synchronous or concurrent call has the state its tool   *)
(* ended with and exactly one tool row saying the same.  What makes this   *)
(* hard is that the row is rewritten from three places, with and without   *)
(* the parts of earlier steps and the calls, and that each write may fail. *)
FaithfulHistory ==
    outcome = "done" =>
        /\ ToSet(row.calls) = CallsMade
        /\ \A i, j \in DOMAIN row.calls :
              i < j => Precedes(row.calls[i], row.calls[j])
        /\ IdsIn(row.parts) = CallsMade
        /\ \A i, j \in CallsIn(row.parts) :
              i < j => Precedes(IdOf(row.parts[i]), IdOf(row.parts[j]))
        /\ \A j \in CallsIn(row.parts) :
              LET c == IdOf(row.parts[j]) IN
              Mode(c) # "async" => /\ Returned(c)
                                   /\ row.parts[j].state = tool[c]
                                   /\ results[c] = <<tool[c]>>

(* The live view and the stored one agree on tool calls: when a run ends   *)
(* well with the client connected, each call is at the same place of its   *)
(* step in the stored parts as on the screen, and in the same state unless *)
(* it is asynchronous.  The two places are computed by different code      *)
(* (engine_tools.go:507-533, buildUIParts), and a reload uses the stored.  *)
ClientAgreesOnCalls ==
    outcome = "done" /\ ~closed =>
        \A j \in CallsIn(row.parts) :
            LET part == row.parts[j]
                seen == shown[part.step][Place(row.parts, j)] IN
            /\ seen.kind = "call"
            /\ Mode(IdOf(part)) # "async" => seen.state = part.state

(* Whenever the model is called, the history it is given has the outcome   *)
(* of every tool call of this run: convertPartsToUI takes it from the part *)
(* or, if the part has no output, from the tool row.  An asynchronous call *)
(* may still be without one, but never has a wrong one.                    *)
ContextOutput(part) ==
    IF part.state = "complete" THEN <<"complete">> ELSE results[IdOf(part)]

ModelSeesOutcomes ==
    pc = "context" /\ ~closed =>
        /\ IdsIn(row.parts) = CallsBefore(step)
        /\ \A j \in CallsIn(row.parts) :
              LET c == IdOf(row.parts[j]) IN
              \/ ContextOutput(row.parts[j]) = <<tool[c]>>
              \/ Mode(c) = "async" /\ ContextOutput(row.parts[j]) = <<>>

(* Whatever instant the process dies at, and whichever writes have failed, *)
(* a part stored as complete or failed has its tool row: the tool row is   *)
(* written first (executeSync, then checkpointToolResult).                 *)
StoredResultHasRow ==
    \A j \in DOMAIN row.parts :
        LET p == row.parts[j] IN
        p.state \in {"complete", "error"} => results[IdOf(p)] = <<p.state>>

(* As long as no store operation failed by itself, no instant has a tool   *)
(* row whose call is not among the stored parts: the reply is checkpointed *)
(* before its tools run.  (A failed checkpoint is only logged, so with a   *)
(* fault such a row can be left behind, and the run is then aborted.)      *)
ResultRowHasPart ==
    faults = 0 =>
        \A c \in CallIds :
            results[c] # <<>> => c \in IdsIn(row.parts)

(* Stopping a session halts its tools: what is started all the same is at  *)
(* most one synchronous tool, because executeSync only notices when it     *)
(* stores the result, and the concurrent and asynchronous ones that held a *)
(* permit at that moment, because nothing looks at the context between     *)
(* Acquire and Execute (engine_tools.go:393-419, 181-241).                 *)
StopHaltsTools ==
    /\ Cardinality({c \in late : Mode(c) = "sync"}) <= 1
    /\ Cardinality({c \in late : Mode(c) # "sync"}) <= Concurrency

(* Both have the same parts of the steps before s, at the same positions.  *)
SameBefore(old, new, s) ==
    /\ \A j \in DOMAIN old : old[j].step < s => j \in DOMAIN new /\ new[j] = old[j]
    /\ \A j \in DOMAIN new : new[j].step < s => j \in DOMAIN old

(* No step ever loses or changes what is stored of the steps before it,    *)
(* neither at a checkpoint in the middle of a reply nor when the run is    *)
(* aborted.                                                                *)
FinishedStepsKept ==
    [][SameBefore(row.parts, row'.parts, step)]_vars

(* After a stop the loop does not go back to the model.                    *)
NoModelCallAfterStop ==
    [][closed /\ pc # "stream" => pc' # "stream"]_vars

(* Every run ends, whatever fails, and leaves no tool waiting for a permit *)
(* or holding one: the loop is bounded by maxSteps and its waits by the tools. *)
RunEnds ==
    <>[](/\ pc = "ended"
         /\ saving = {}
         /\ \A c \in CallIds : tool[c] \notin {"queued", "granted", "running"})

=============================================================================
