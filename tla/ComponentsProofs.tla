--------------------------- MODULE ComponentsProofs ---------------------------
(***************************************************************************)
(* What is proved of a component by itself holds of it in Components, for  *)
(* all constants that meet the assumptions there: each step of Components  *)
(* is a step of the component or leaves its variables alone.  Components   *)
(* and the modules with the proofs instantiate the same specifications;    *)
(* the definitions cited are those the two instances have in common.       *)
(***************************************************************************)
EXTENDS Components, FiniteSetTheorems, TLAPS

Parts == INSTANCE PartsProofs

(* A step is one of the chosen component; the others' variables stay.      *)
LEMMA OneAtATime ==
  ASSUME [Next]_vars
  PROVE  /\ RunAsync \/ UNCHANGED asyncVars
         /\ RunClient \/ UNCHANGED clientVars
         /\ RunMcp \/ UNCHANGED mcpVars
         /\ RunPlan \/ UNCHANGED planVars
         /\ RunStore \/ UNCHANGED storeVars
         /\ RunPrompt \/ UNCHANGED promptVars
<1>1. CASE UNCHANGED vars
  BY <1>1 DEF vars
<1>2. CASE Next
  <2>1. \/ part \in {"reply", "knowledge", "chunking", "embedding", "search",
                   "memory", "recall", "summaries", "harness", "history"} /\ Others
        \/ RunAsync \/ RunClient \/ RunMcp \/ RunPlan
        \/ RunStore \/ RunPrompt
    BY <1>2 DEF Next, RunRendering, RunBase, RunChunker, RunEmbedder,
           RunRetrieval, RunMemory, RunRecall, RunSummarizer, RunHarness,
           RunContext
  <2>2. CASE part \in {"reply", "knowledge", "chunking", "embedding", "search",
                   "memory", "recall", "summaries", "harness", "history"} /\ Others
    BY <2>2 DEF Others
  <2>3. CASE RunAsync \/ RunClient \/ RunMcp \/ RunPlan
    BY <2>3 DEF Others, RunAsync, RunClient, RunMcp, RunPlan
  <2>4. CASE RunStore \/ RunPrompt
    BY <2>4 DEF Others, RunStore, RunPrompt
  <2>5. QED
    BY <2>1, <2>2, <2>3, <2>4
<1>3. QED
  BY <1>1, <1>2

LEMMA SameFiniteSets == \A S : IsFiniteSet(S) <=> Parts!IsFiniteSet(S)
  BY DEF IsFiniteSet, Parts!IsFiniteSet

LEMMA SamePosition ==
  \A list, s : /\ Mcp!Position(list, s) = Parts!Mcp!Position(list, s)
               /\ \A i : Mcp!RemoveAt(list, i) = Parts!Mcp!RemoveAt(list, i)
  BY DEF Mcp!Position, Parts!Mcp!Position, Mcp!SelectInSeq, Parts!Mcp!SelectInSeq,
         Mcp!Min, Parts!Mcp!Min, Mcp!RemoveAt, Parts!Mcp!RemoveAt

-----------------------------------------------------------------------------
(* The client is told once of the end of each asynchronous call, and a     *)
(* completion record is lost only when two appends overlap                 *)
(* (engine_tools.go:177-367, storage-sqlite/session.go:119).               *)
THEOREM AsyncHolds == Spec => []AsyncConsistent
<1>1. Init => Parts!Init
  <2>1. Init => Async!Init
    BY DEF Init
  <2>2. QED
    BY <2>1 DEF Async!Init, Parts!Init
<1>2. ASSUME [Next]_vars PROVE [Parts!Next]_Parts!vars
  <2>1. CASE RunAsync
    <3>1. Async!Next
      BY <2>1 DEF RunAsync
    <3>2. QED
      BY <3>1 DEF Async!Next, Parts!Next, Async!Stop, Parts!Stop, Async!Launch,
             Parts!Launch, Async!TimeOut, Parts!TimeOut, Async!Goroutine,
             Parts!Goroutine, Async!Fetch, Parts!Fetch, Async!CancelSet,
             Parts!CancelSet, Async!CancelCheck, Parts!CancelCheck, Async!taskVars,
             Parts!taskVars, Async!metaVars, Parts!metaVars, Async!Goto, Parts!Goto,
             Async!Acquire, Parts!Acquire, Async!Denied, Parts!Denied, Async!Panic,
             Parts!Panic, Async!Succeed, Parts!Succeed, Async!SetResult,
             Parts!SetResult, Async!Fail, Parts!Fail, Async!AddRow, Parts!AddRow,
             Async!ReadMetadata, Parts!ReadMetadata, Async!WriteMetadata,
             Parts!WriteMetadata, Async!Leave, Parts!Leave, Async!Mark, Parts!Mark,
             Async!Tell, Parts!Tell, Async!Appending, Parts!Appending
  <2>2. CASE UNCHANGED asyncVars
    BY <2>2 DEF asyncVars, Parts!vars, Parts!taskVars, Parts!metaVars
  <2>3. QED
    BY <1>2, <2>1, <2>2, OneAtATime
<1>3. Parts!AsyncConsistent => AsyncConsistent
  BY DEF AsyncConsistent, Async!AsyncConsistent, Parts!AsyncConsistent,
         Async!EndIsToldOnce, Parts!EndIsToldOnce, Async!RecordLostOnlyByOverlap,
         Parts!RecordLostOnlyByOverlap
<1>4. Parts!Spec => []Parts!AsyncConsistent
  BY Parts!Consistent
<1>5. QED
  BY <1>1, <1>2, <1>3, <1>4, PTL DEF Spec, Parts!Spec

(* A client that reconnects and reloads applies no event twice, and none   *)
(* before an earlier one (chat-session.ts).                                *)
THEOREM ClientHolds == Spec => []AppliedInOrder
<1>1. Init => Parts!Client!Init
  <2>1. Init => Client!Init
    BY DEF Init
  <2>2. QED
    BY <2>1 DEF Client!Init, Parts!Client!Init
<1>2. ASSUME [Next]_vars PROVE [Parts!Client!Next]_Parts!Client!vars
  <2>1. CASE RunClient
    <3>1. Client!Next
      BY <2>1 DEF RunClient
    <3>2. QED
      BY <3>1 DEF Client!Next, Parts!Client!Next, Client!EmitEvent,
             Parts!Client!EmitEvent, Client!CloseChat, Parts!Client!CloseChat,
             Client!Receive, Parts!Client!Receive, Client!StreamEnds,
             Parts!Client!StreamEnds, Client!Break, Parts!Client!Break,
             Client!Reconnect, Parts!Client!Reconnect, Client!Recover,
             Parts!Client!Recover, Client!Restart, Parts!Client!Restart,
             Client!clientVars, Parts!Client!clientVars, Client!serverVars,
             Parts!Client!serverVars, Client!Answer, Parts!Client!Answer,
             Client!LastSeen, Parts!Client!LastSeen
  <2>2. CASE UNCHANGED clientVars
    BY <2>2 DEF clientVars, Parts!Client!vars, Parts!Client!serverVars,
           Parts!Client!clientVars
  <2>3. QED
    BY <1>2, <2>1, <2>2, OneAtATime
<1>3. Parts!Client!AppliedInOrder => AppliedInOrder
  BY DEF AppliedInOrder, Client!AppliedInOrder, Parts!Client!AppliedInOrder
<1>4. Parts!Client!Spec => []Parts!Client!AppliedInOrder
  <2>1. Last \in Nat /\ MaxBreaks \in Nat
    BY ClientBounds
  <2>2. QED
    BY <2>1, Parts!ClientAppliesInOrder
<1>5. QED
  BY <1>1, <1>2, <1>3, <1>4, PTL DEF Spec, Parts!Client!Spec

(* The configuration file has the servers the plugin has, and a server     *)
(* that was added is not lost, unless requests changed the list at once    *)
(* (mcp_manager.go:122, plugin.go:86).                                     *)
THEOREM AdministrationHolds == Spec => []McpConsistent
<1>1. Init => Parts!Mcp!Init
  <2>1. Init => Mcp!Init
    BY DEF Init
  <2>2. QED
    BY <2>1 DEF Mcp!Init, Parts!Mcp!Init, Mcp!SetToSeq, Parts!Mcp!SetToSeq,
           Mcp!IsInjective, Parts!Mcp!IsInjective, Mcp!Cardinality,
           Parts!Mcp!Cardinality
<1>2. ASSUME [Next]_vars PROVE [Parts!Mcp!Next]_Parts!Mcp!vars
  <2>1. CASE RunMcp
    <3>1. Mcp!Next
      BY <2>1 DEF RunMcp
    <3>2. ASSUME NEW a, NEW s, Mcp!AddServer(a, s) PROVE Parts!Mcp!AddServer(a, s)
      BY <3>2 DEF Mcp!AddServer, Parts!Mcp!AddServer, Mcp!Request, Parts!Mcp!Request,
             Mcp!Changing, Parts!Mcp!Changing, Mcp!memory, Parts!Mcp!memory, Mcp!disk,
             Parts!Mcp!disk
    <3>3. ASSUME NEW a, NEW s, Mcp!RemoveServer(a, s) PROVE Parts!Mcp!RemoveServer(a, s)
      BY <3>3 DEF Mcp!RemoveServer, Parts!Mcp!RemoveServer, Mcp!Listed,
             Parts!Mcp!Listed, Mcp!Request, Parts!Mcp!Request, Mcp!Changing,
             Parts!Mcp!Changing, Mcp!memory, Parts!Mcp!memory, Mcp!disk, Parts!Mcp!disk
    <3>4. ASSUME NEW a, NEW s, Mcp!SetServerEnabled(a, s) PROVE Parts!Mcp!SetServerEnabled(a, s)
      BY <3>4 DEF Mcp!SetServerEnabled, Parts!Mcp!SetServerEnabled, Mcp!Listed,
             Parts!Mcp!Listed, Mcp!Request, Parts!Mcp!Request, Mcp!memory,
             Parts!Mcp!memory, Mcp!disk, Parts!Mcp!disk
    <3>5. ASSUME NEW a, Mcp!AppendConfig(a) PROVE Parts!Mcp!AppendConfig(a)
      BY <3>5 DEF Mcp!AppendConfig, Parts!Mcp!AppendConfig, Mcp!Goto, Parts!Mcp!Goto,
             Mcp!disk, Parts!Mcp!disk, Mcp!history, Parts!Mcp!history
    <3>6. ASSUME NEW a, Mcp!Shift(a) PROVE Parts!Mcp!Shift(a)
      BY <3>6, SamePosition DEF Mcp!Shift, Parts!Mcp!Shift, Mcp!Goto, Parts!Mcp!Goto,
             Mcp!disk, Parts!Mcp!disk
    <3>7. ASSUME NEW a, Mcp!Resize(a) PROVE Parts!Mcp!Resize(a)
      BY <3>7, SamePosition DEF Mcp!Resize, Parts!Mcp!Resize, Mcp!Goto, Parts!Mcp!Goto,
             Mcp!disk, Parts!Mcp!disk
    <3>8. ASSUME NEW a, Mcp!SetFlag(a) PROVE Parts!Mcp!SetFlag(a)
      BY <3>8 DEF Mcp!SetFlag, Parts!Mcp!SetFlag, Mcp!Goto, Parts!Mcp!Goto, Mcp!disk,
             Parts!Mcp!disk, Mcp!history, Parts!Mcp!history
    <3>9. ASSUME NEW a, Mcp!PersistConfig(a) PROVE Parts!Mcp!PersistConfig(a)
      BY <3>9 DEF Mcp!PersistConfig, Parts!Mcp!PersistConfig, Mcp!Saving,
             Parts!Mcp!Saving, Mcp!Finish, Parts!Mcp!Finish, Mcp!Listed,
             Parts!Mcp!Listed, Mcp!disk, Parts!Mcp!disk, Mcp!memory, Parts!Mcp!memory,
             Mcp!Goto, Parts!Mcp!Goto
    <3>10. ASSUME Mcp!Restart PROVE Parts!Mcp!Restart
      BY <3>10 DEF Mcp!Restart, Parts!Mcp!Restart, Mcp!disk, Parts!Mcp!disk
    <3>11. QED
      BY <3>1, <3>2, <3>3, <3>4, <3>5, <3>6, <3>7, <3>8, <3>9, <3>10
         DEF Mcp!Next, Parts!Mcp!Next
  <2>2. CASE UNCHANGED mcpVars
    BY <2>2 DEF mcpVars, Parts!Mcp!vars, Parts!Mcp!memory, Parts!Mcp!disk,
           Parts!Mcp!request, Parts!Mcp!history
  <2>3. QED
    BY <1>2, <2>1, <2>2, OneAtATime
<1>3. Parts!Mcp!McpConsistent => McpConsistent
  BY DEF McpConsistent, Mcp!McpConsistent, Parts!Mcp!McpConsistent, Mcp!FileAgrees,
         Parts!Mcp!FileAgrees, Mcp!AddedStays, Parts!Mcp!AddedStays, Mcp!Quiet,
         Parts!Mcp!Quiet, Mcp!Listed, Parts!Mcp!Listed
<1>4. Parts!Mcp!Spec => []Parts!Mcp!McpConsistent
  <2>1. Parts!IsFiniteSet(Configured) /\ Configured \subseteq Servers
    BY ConfiguredServers, SameFiniteSets
  <2>2. QED
    BY <2>1, Parts!AdministrationConsistent
<1>5. QED
  BY <1>1, <1>2, <1>3, <1>4, PTL DEF Spec, Parts!Mcp!Spec

(* A plan is written whole, and todos of a session stay with it (todo.go). *)
THEOREM PlansHold == Spec => []TodosConsistent
<1>1. Init => Parts!Plan!Init
  <2>1. Init => Plan!Init
    BY DEF Init
  <2>2. QED
    BY <2>1 DEF Plan!Init, Parts!Plan!Init
<1>2. ASSUME [Next]_vars PROVE [Parts!Plan!Next]_Parts!Plan!vars
  <2>1. CASE RunPlan
    <3>1. Plan!Next
      BY <2>1 DEF RunPlan
    <3>2. QED
      BY <3>1 DEF Plan!Next, Parts!Plan!Next, Plan!TodoInjection,
             Parts!Plan!TodoInjection, Plan!HandleCreate, Parts!Plan!HandleCreate,
             Plan!HandleReplan, Parts!Plan!HandleReplan, Plan!Statuses,
             Parts!Plan!Statuses, Plan!UpdateStatus, Parts!Plan!UpdateStatus,
             Plan!ReplanDone, Parts!Plan!ReplanDone, Plan!CreateNext,
             Parts!Plan!CreateNext, Plan!Of, Parts!Plan!Of, Plan!replanVars,
             Parts!Plan!replanVars, Plan!Insert, Parts!Plan!Insert, Plan!Return,
             Parts!Plan!Return, Plan!Fault, Parts!Plan!Fault, Plan!ToSet,
             Parts!Plan!ToSet, Plan!Cardinality, Parts!Plan!Cardinality
  <2>2. CASE UNCHANGED planVars
    BY <2>2 DEF planVars, Parts!Plan!vars, Parts!Plan!replanVars
  <2>3. QED
    BY <1>2, <2>1, <2>2, OneAtATime
<1>3. Parts!Plan!TodosConsistent => TodosConsistent
  BY DEF TodosConsistent, Plan!TodosConsistent, Parts!Plan!TodosConsistent,
         Plan!PlanWhole, Parts!Plan!PlanWhole, Plan!PlansApart, Parts!Plan!PlansApart,
         Plan!Of, Parts!Plan!Of, Plan!ToSet, Parts!Plan!ToSet, Plan!Cardinality,
         Parts!Plan!Cardinality
<1>4. Parts!Plan!Spec => []Parts!Plan!TodosConsistent
  <2>1. Parts!IsFiniteSet(Items)
    BY ItemsAreFinite, SameFiniteSets
  <2>2. QED
    BY <2>1, Parts!PlansConsistent
<1>5. QED
  BY <1>1, <1>2, <1>3, <1>4, PTL DEF Spec, Parts!Plan!Spec

(* Rows of the database belong to a session, the last save is read, and a  *)
(* page listing misses no session (storage-sqlite, storage-postgres).      *)
THEOREM StoreHolds == Spec => []StoreConsistent
<1>1. Init => Parts!Store!Init
  <2>1. Init => Store!Init
    BY DEF Init
  <2>2. QED
    BY <2>1 DEF Store!Init, Parts!Store!Init
<1>2. ASSUME [Next]_vars PROVE [Parts!Store!Next]_Parts!Store!storeVars
  <2>1. CASE RunStore
    <3>1. Store!Next
      BY <2>1 DEF RunStore
    <3>2. \A s : Store!Without(s) = Parts!Store!Without(s)
      BY DEF Store!Without, Parts!Store!Without, Store!Position,
             Parts!Store!Position, Store!RemoveAt, Parts!Store!RemoveAt
    <3>3. ASSUME NEW s,
                 \/ Store!CreateSession(s) \/ Store!Touch(s) \/ Store!CreateTodo(s)
                 \/ Store!DeleteTodos(s) \/ Store!DeleteSession(s)
          PROVE  \/ Parts!Store!CreateSession(s) \/ Parts!Store!Touch(s)
                 \/ Parts!Store!CreateTodo(s) \/ Parts!Store!DeleteTodos(s)
                 \/ Parts!Store!DeleteSession(s)
      BY <3>2, <3>3
         DEF Store!CreateSession, Parts!Store!CreateSession, Store!Touch,
             Parts!Store!Touch, Store!CreateTodo, Parts!Store!CreateTodo,
             Store!DeleteTodos, Parts!Store!DeleteTodos, Store!DeleteSession,
             Parts!Store!DeleteSession, Store!Exists, Parts!Store!Exists,
             Store!Contains, Parts!Store!Contains, Store!RowsOf,
             Parts!Store!RowsOf, Store!rowVars, Parts!Store!rowVars,
             Store!pageVars, Parts!Store!pageVars
    <3>4. ASSUME NEW m, NEW s,
                 \/ Store!AddMessage(m, s) \/ Store!UpdateMessage(m, s)
                 \/ Store!UpsertMessage(m, s)
          PROVE  \/ Parts!Store!AddMessage(m, s) \/ Parts!Store!UpdateMessage(m, s)
                 \/ Parts!Store!UpsertMessage(m, s)
      BY <3>4
         DEF Store!AddMessage, Parts!Store!AddMessage, Store!UpdateMessage,
             Parts!Store!UpdateMessage, Store!UpsertMessage,
             Parts!Store!UpsertMessage, Store!Save, Parts!Store!Save,
             Store!Insert, Parts!Store!Insert, Store!Replace, Parts!Store!Replace,
             Store!HasRow, Parts!Store!HasRow, Store!RowsOf, Parts!Store!RowsOf,
             Store!Exists, Parts!Store!Exists, Store!Contains,
             Parts!Store!Contains, Store!tableVars, Parts!Store!tableVars,
             Store!pageVars, Parts!Store!pageVars
    <3>5. ASSUME Store!StartListing \/ Store!ListSessions
          PROVE  Parts!Store!StartListing \/ Parts!Store!ListSessions
      BY <3>5
         DEF Store!StartListing, Parts!Store!StartListing, Store!ListSessions,
             Parts!Store!ListSessions, Store!PageAt, Parts!Store!PageAt,
             Store!tableVars, Parts!Store!tableVars, Store!rowVars,
             Parts!Store!rowVars
    <3>6. QED
      BY <3>1, <3>3, <3>4, <3>5 DEF Store!Next, Parts!Store!Next
  <2>2. CASE UNCHANGED storeVars
    BY <2>2 DEF storeVars, Parts!Store!storeVars, Parts!Store!tableVars,
           Parts!Store!rowVars, Parts!Store!pageVars
  <2>3. QED
    BY <1>2, <2>1, <2>2, OneAtATime
<1>3. Parts!Store!StoreConsistent => StoreConsistent
  BY DEF StoreConsistent, Store!StoreConsistent, Parts!Store!StoreConsistent, Store!NoOrphans,
             Parts!Store!NoOrphans, Store!SavedIsRead, Parts!Store!SavedIsRead,
             Store!ListingMissesNone, Parts!Store!ListingMissesNone, Store!Exists,
             Parts!Store!Exists, Store!Contains, Parts!Store!Contains
<1>4. Parts!Store!Spec => []Parts!Store!StoreConsistent
  BY StoreBounds, Parts!TablesConsistent
<1>5. QED
  BY <1>1, <1>2, <1>3, <1>4, PTL DEF Spec, Parts!Store!Spec

(* A recalled file is in one call only, unless two chats chose it at once, *)
(* it reached the model or is accounted for, and a call is what the hooks  *)
(* left (engine.go:418-450, recall_hook.go).                               *)
THEOREM PromptHolds == Spec => []PromptConsistent
<1>1. Init => Parts!Prompt!Init
  <2>1. Init => Prompt!Init
    BY DEF Init
  <2>2. QED
    BY <2>1 DEF Prompt!Init, Parts!Prompt!Init
<1>2. ASSUME [Next]_vars PROVE [Parts!Prompt!Next]_Parts!Prompt!vars
  <2>1. CASE RunPrompt
    <3>1. Prompt!Next
      BY <2>1 DEF RunPrompt
    <3>2. ASSUME NEW c, Prompt!RecallRead(c) PROVE Parts!Prompt!RecallRead(c)
      BY <3>2 DEF Prompt!RecallRead, Parts!Prompt!RecallRead, Prompt!At, Parts!Prompt!At
    <3>3. ASSUME NEW c, NEW S, Prompt!OnSystemPrompt(c, S) PROVE Parts!Prompt!OnSystemPrompt(c, S)
      <4>1. Prompt!Run(S) = Parts!Prompt!Run(S)
        BY DEF Prompt!Run, Parts!Prompt!Run, Prompt!Chain, Parts!Prompt!Chain
      <4>2. QED
        BY <3>3, <4>1
           DEF Prompt!OnSystemPrompt, Parts!Prompt!OnSystemPrompt, Prompt!At,
             Parts!Prompt!At, Prompt!Goto, Parts!Prompt!Goto, Prompt!history,
             Parts!Prompt!history, Prompt!recallVars, Parts!Prompt!recallVars
    <3>4. ASSUME NEW c, NEW named, Prompt!RecallSelect(c, named)
          PROVE  Parts!Prompt!RecallSelect(c, named)
      BY <3>4 DEF Prompt!RecallSelect, Parts!Prompt!RecallSelect, Prompt!At,
             Parts!Prompt!At, Prompt!Goto, Parts!Prompt!Goto, Prompt!ToSet,
             Parts!Prompt!ToSet
    <3>5. ASSUME NEW c, Prompt!RecallInject(c) PROVE Parts!Prompt!RecallInject(c)
      BY <3>5 DEF Prompt!RecallInject, Parts!Prompt!RecallInject, Prompt!At,
             Parts!Prompt!At, Prompt!Goto, Parts!Prompt!Goto, Prompt!Prepend,
             Parts!Prompt!Prepend, Prompt!ToSet, Parts!Prompt!ToSet, Prompt!history,
             Parts!Prompt!history
    <3>6. ASSUME NEW c, NEW b, Prompt!KBRecall(c, b) PROVE Parts!Prompt!KBRecall(c, b)
      BY <3>6 DEF Prompt!KBRecall, Parts!Prompt!KBRecall, Prompt!At, Parts!Prompt!At,
             Prompt!Goto, Parts!Prompt!Goto, Prompt!Prepend, Parts!Prompt!Prepend,
             Prompt!history, Parts!Prompt!history, Prompt!recallVars,
             Parts!Prompt!recallVars
    <3>7. ASSUME NEW c, Prompt!Send(c) PROVE Parts!Prompt!Send(c)
      BY <3>7 DEF Prompt!Send, Parts!Prompt!Send, Prompt!At, Parts!Prompt!At,
             Prompt!Goto, Parts!Prompt!Goto, Prompt!history, Parts!Prompt!history,
             Prompt!recallVars, Parts!Prompt!recallVars
    <3>8. ASSUME NEW c, Prompt!CallModel(c) PROVE Parts!Prompt!CallModel(c)
      BY <3>8 DEF Prompt!CallModel, Parts!Prompt!CallModel, Prompt!At, Parts!Prompt!At,
             Prompt!Goto, Parts!Prompt!Goto, Prompt!ToSet, Parts!Prompt!ToSet,
             Prompt!recallVars, Parts!Prompt!recallVars
    <3>9. ASSUME NEW f, Prompt!ChangeMemory(f) PROVE Parts!Prompt!ChangeMemory(f)
      BY <3>9 DEF Prompt!ChangeMemory, Parts!Prompt!ChangeMemory, Prompt!chatVars,
             Parts!Prompt!chatVars, Prompt!recallVars, Parts!Prompt!recallVars,
             Prompt!history, Parts!Prompt!history
    <3>10. QED
      BY <3>1, <3>2, <3>3, <3>4, <3>5, <3>6, <3>7, <3>8, <3>9
         DEF Prompt!Next, Parts!Prompt!Next
  <2>2. CASE UNCHANGED promptVars
    BY <2>2 DEF promptVars, Parts!Prompt!vars, Parts!Prompt!chatVars,
           Parts!Prompt!recallVars, Parts!Prompt!history
  <2>3. QED
    BY <1>2, <2>1, <2>2, OneAtATime
<1>3. Parts!Prompt!PromptConsistent => PromptConsistent
  BY DEF PromptConsistent, Prompt!PromptConsistent, Parts!Prompt!PromptConsistent,
             Prompt!ShownOnce, Parts!Prompt!ShownOnce, Prompt!RecordedWasShown,
             Parts!Prompt!RecordedWasShown, Prompt!RequestAsHooksLeftIt,
             Parts!Prompt!RequestAsHooksLeftIt, Prompt!At, Parts!Prompt!At,
             Prompt!ToSet, Parts!Prompt!ToSet
<1>4. Parts!Prompt!Spec => []Parts!Prompt!PromptConsistent
  <2>1. MaxNamed \in Nat
    BY RecalledFilesAreFiles
  <2>2. Parts!HooksApart
    BY RecalledFilesAreFiles DEF Parts!HooksApart, Parts!HookNames
  <2>3. QED
    BY <2>1, <2>2, Parts!RecallsAreShown
<1>5. QED
  BY <1>1, <1>2, <1>3, <1>4, PTL DEF Spec, Parts!Prompt!Spec

=============================================================================
