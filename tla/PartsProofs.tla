------------------------------ MODULE PartsProofs ------------------------------
(***************************************************************************)
(* Proofs about the smaller components: asynchronous calls of tools with   *)
(* the client's Stop, the todo tool, the client of a stream, the           *)
(* administration of MCP servers, the embedding client, the tables of      *)
(* sessions and messages, and what hooks add to a call of the model.       *)
(* They share no variable, and their constants are any that are assumed of *)
(* them.                                                                   *)
(***************************************************************************)
EXTENDS AsyncTools, Integers, Sequences, FiniteSetTheorems, TLAPS

CONSTANTS
    Sessions, Callers, Items,
    Last, Window, MaxBreaks,
    Admins, Servers, Configured, MaxChanges,
    MaxTexts, BatchSize, MaxRetries,
    Messages, MaxSaves, PageSize,
    Chats, RecalledFiles, Sections, MaxNamed, PromptCalls,
    MaxFaults, MaxRestarts

VARIABLES
    rows, status, planCall, owner, want, made, planDisturbed, refused, prompt,
    planFaults,
    written, over, mode, next, seq, bubble, reloads, breaks,
    configs, mcpEnabled, saved, env, admin, target, seen, changes, mcpFaults,
    mcpRestarts, mcpRaced, unsaved, mcpAdded,
    texts, vectors, batch, attempt, phase, cancelled,
    storeShown, storeSaved, storeRows, storeOwner, storeMade, storeRefused,
    backend, recent, saves, todos, offset, skipped,
    promptStage, promptOverlapped, promptChosen, reads, injections, disk, calls,
    added, request, cache, shown, unread, failed

Plan == INSTANCE Todos WITH disturbed <- planDisturbed,
  faults <- planFaults, call <- planCall
Client == INSTANCE StreamClient
Mcp == INSTANCE McpAdmin WITH faults <- mcpFaults, restarts <- mcpRestarts,
  raced <- mcpRaced, added <- mcpAdded, enabled <- mcpEnabled
Embedder == INSTANCE Embedding
Store == INSTANCE SessionStore WITH shown <- storeShown,
  saved <- storeSaved, rows <- storeRows, owner <- storeOwner,
  made <- storeMade, refused <- storeRefused
Prompt == INSTANCE PromptHooks WITH Files <- RecalledFiles,
  MaxCalls <- PromptCalls, stage <- promptStage,
  overlapped <- promptOverlapped, chosen <- promptChosen

-----------------------------------------------------------------------------
(* Asynchronous calls.                                                     *)

(* How far the client has been told, and the registry has the call, at     *)
(* each place of its goroutine.                                            *)
PlaceInv ==
    \A c \in Calls :
        /\ told[c] = IF task[c] \in {"none", "acquiring", "running", "finishing"}
                     THEN 0 ELSE 1
        /\ c \in listed <=> task[c] \notin {"none", "gone"}

(* Two appends that overlap are both on record; an append that is not has  *)
(* read whatever was recorded before it writes.                            *)
AppendInv ==
    /\ \A c, d \in Calls :
          c # d /\ task[c] = "appending" /\ task[d] = "appending" => c \in disturbed
    /\ \A c \in Calls :
          task[c] = "appending" => recorded \subseteq snapshot[c] \cup disturbed
    /\ RecordLostOnlyByOverlap

Inv == AsyncTypeOK /\ PlaceInv /\ AppendInv

-----------------------------------------------------------------------------
(* Every step of a goroutine moves it from one place to another.           *)
Move(c, from, to) == task[c] = from /\ Goto(c, to)

LEMMA Moves ==
  ASSUME AsyncTypeOK, NEW c \in Calls, NEW from, NEW to, Move(c, from, to)
  PROVE  /\ task[c] = from /\ task'[c] = to
         /\ \A d \in Calls \ {c} : task'[d] = task[d]
  BY DEF Move, Goto, AsyncTypeOK

(* The client is told at one of these moves, and at no other.              *)
LEMMA GoroutineMoves ==
  ASSUME NEW c \in Calls, Goroutine(c)
  PROVE  \/ /\ \/ Move(c, "acquiring", "leaving") \/ Move(c, "running", "leaving")
               \/ Move(c, "finishing", "returned") \/ Move(c, "running", "returned")
            /\ told' = [told EXCEPT ![c] = @ + 1] /\ listed' = listed /\ UNCHANGED metaVars
         \/ /\ \/ Move(c, "acquiring", "running") \/ Move(c, "running", "finishing")
               \/ Move(c, "returned", "stored")
            /\ told' = told /\ listed' = listed /\ UNCHANGED metaVars
         \/ /\ Move(c, "stored", "leaving") \/ Move(c, "appending", "leaving")
            /\ told' = told /\ listed' = listed /\ UNCHANGED metaVars
         \/ ReadMetadata(c) /\ Move(c, "stored", "appending")
         \/ WriteMetadata(c) /\ Move(c, "appending", "leaving") /\ ~stopped
         \/ Move(c, "leaving", "gone") /\ told' = told /\ listed' = listed \ {c} /\ UNCHANGED metaVars
<1>1. CASE Acquire(c) \/ Denied(c) \/ Panic(c) \/ Succeed(c)
  BY <1>1 DEF Acquire, Denied, Panic, Succeed, Move, Tell
<1>2. CASE SetResult(c) \/ Fail(c) \/ AddRow(c) \/ Leave(c)
  BY <1>2 DEF SetResult, Fail, AddRow, Leave, Move, Tell
<1>3. CASE ReadMetadata(c)
  BY <1>3 DEF ReadMetadata, Move
<1>4. CASE WriteMetadata(c)
  BY <1>4 DEF WriteMetadata, Move, metaVars
<1>5. QED
  BY <1>1, <1>2, <1>3, <1>4 DEF Goroutine

(* Whoever else uses the registry leaves the places and the metadata alone.*)
LEMMA OtherSteps ==
  ASSUME [Next]_vars
  PROVE  \/ \E c \in Calls : Launch(c) \/ Goroutine(c)
         \/ UNCHANGED <<task, listed, told, metaVars>>
<1>1. CASE Stop
  BY <1>1 DEF Stop, taskVars
<1>2. ASSUME NEW c \in Calls, TimeOut(c) \/ Fetch(c)
      PROVE  UNCHANGED <<task, listed, told, metaVars>>
  BY <1>2 DEF TimeOut, Fetch, taskVars
<1>3. ASSUME NEW k \in Cancels, CancelSet(k) \/ \E c \in Calls : CancelCheck(k, c)
      PROVE  UNCHANGED <<task, listed, told, metaVars>>
  BY <1>3 DEF CancelSet, CancelCheck, taskVars
<1>4. CASE UNCHANGED vars
  BY <1>4 DEF vars, taskVars
<1>5. QED
  BY <1>1, <1>2, <1>3, <1>4 DEF Next

-----------------------------------------------------------------------------
(* What an action keeps.                                                   *)

LEMMA TypeNext ==
  ASSUME Inv, [Next]_vars
  PROVE  AsyncTypeOK'
<1>a. AsyncTypeOK /\ PlaceInv
  BY DEF Inv
<1>1. CASE Stop
  BY <1>a, <1>1 DEF AsyncTypeOK, Stop, taskVars, metaVars
<1>2. ASSUME NEW c \in Calls, Launch(c)
      PROVE  AsyncTypeOK'
  BY <1>a, <1>2 DEF AsyncTypeOK, Launch, Goto, metaVars, Statuses
<1>3. ASSUME NEW c \in Calls, TimeOut(c) \/ Fetch(c)
      PROVE  AsyncTypeOK'
  BY <1>a, <1>3 DEF AsyncTypeOK, TimeOut, Fetch, taskVars, metaVars
<1>4. ASSUME NEW c \in Calls, Acquire(c) \/ Succeed(c) \/ AddRow(c) \/ Leave(c)
      PROVE  AsyncTypeOK'
  BY <1>a, <1>4 DEF AsyncTypeOK, Acquire, Succeed, AddRow, Leave, Goto, Mark, metaVars, Statuses
<1>5. ASSUME NEW c \in Calls, Denied(c) \/ Panic(c) \/ SetResult(c) \/ Fail(c)
      PROVE  AsyncTypeOK'
  <2>1. told[c] = 0
    BY <1>a, <1>5 DEF PlaceInv, Denied, Panic, SetResult, Fail
  <2>2. told' = [told EXCEPT ![c] = 1]
    BY <1>5, <2>1 DEF Denied, Panic, SetResult, Fail, Tell
  <2>3. told' \in [Calls -> 0 .. 1]
    BY <1>a, <2>2 DEF AsyncTypeOK
  <2>4. /\ task' \in [Calls -> {"none", "acquiring", "running", "finishing", "returned",
                                "stored", "appending", "leaving", "gone"}]
        /\ entry' \in [Calls -> Statuses] /\ result' \in [Calls -> BOOLEAN]
    BY <1>a, <1>5 DEF AsyncTypeOK, Denied, Panic, SetResult, Fail, Goto, Mark, Statuses
  <2>5. UNCHANGED <<stopped, listed, expired, metaVars, cancel, fetched>>
    BY <1>5 DEF Denied, Panic, SetResult, Fail
  <2>6. QED
    BY <1>a, <2>3, <2>4, <2>5 DEF AsyncTypeOK, metaVars
<1>6. ASSUME NEW c \in Calls, ReadMetadata(c)
      PROVE  AsyncTypeOK'
  BY <1>a, <1>6 DEF AsyncTypeOK, ReadMetadata, Appending, Goto, metaVars
<1>7. ASSUME NEW c \in Calls, WriteMetadata(c)
      PROVE  AsyncTypeOK'
  BY <1>a, <1>7 DEF AsyncTypeOK, WriteMetadata, Goto
<1>8. ASSUME NEW k \in Cancels, CancelSet(k) \/ \E c \in Calls : CancelCheck(k, c)
      PROVE  AsyncTypeOK'
  BY <1>a, <1>8 DEF AsyncTypeOK, CancelSet, CancelCheck, taskVars, metaVars, Statuses
<1>9. CASE UNCHANGED vars
  BY <1>a, <1>9 DEF AsyncTypeOK, vars, taskVars, metaVars
<1>10. QED
  BY <1>1, <1>2, <1>3, <1>4, <1>5, <1>6, <1>7, <1>8, <1>9 DEF Next, Goroutine

LEMMA PlaceNext ==
  ASSUME Inv, [Next]_vars
  PROVE  PlaceInv'
<1>a. AsyncTypeOK /\ PlaceInv
  BY DEF Inv
<1>1. ASSUME NEW c \in Calls, Launch(c)
      PROVE  PlaceInv'
  BY <1>a, <1>1 DEF PlaceInv, Launch, Goto, AsyncTypeOK
<1>2. ASSUME NEW c \in Calls, Goroutine(c)
      PROVE  PlaceInv'
  <2>1. \A e \in Calls \ {c} : \/ task'[e] = task[e]
    BY <1>a, <1>2, GoroutineMoves, Moves
  <2>2. DOMAIN told = Calls
    BY <1>a DEF AsyncTypeOK
  <2>3. CASE /\ \/ Move(c, "acquiring", "leaving") \/ Move(c, "running", "leaving")
                \/ Move(c, "finishing", "returned") \/ Move(c, "running", "returned")
             /\ told' = [told EXCEPT ![c] = @ + 1] /\ listed' = listed
    <3>1. /\ task[c] \in {"acquiring", "running", "finishing"}
          /\ task'[c] \in {"leaving", "returned"}
      BY <1>a, <2>3, Moves
    <3>2. told'[c] = 1 /\ \A e \in Calls \ {c} : told'[e] = told[e]
      BY <1>a, <2>2, <2>3, <3>1 DEF PlaceInv
    <3>3. QED
      BY <1>a, <2>1, <2>3, <3>1, <3>2 DEF PlaceInv
  <2>4. CASE /\ \/ Move(c, "acquiring", "running") \/ Move(c, "running", "finishing")
                \/ Move(c, "returned", "stored")
                \/ Move(c, "stored", "leaving") \/ Move(c, "appending", "leaving")
                \/ Move(c, "stored", "appending")
             /\ told' = told /\ listed' = listed
    <3>1. \/ task[c] \in {"acquiring", "running"} /\ task'[c] \in {"running", "finishing"}
          \/ /\ task[c] \in {"returned", "stored", "appending"}
             /\ task'[c] \in {"stored", "appending", "leaving"}
      BY <1>a, <2>4, Moves
    <3>2. QED
      BY <1>a, <2>1, <2>4, <3>1 DEF PlaceInv
  <2>5. CASE Move(c, "leaving", "gone") /\ told' = told /\ listed' = listed \ {c}
    <3>1. task[c] = "leaving" /\ task'[c] = "gone"
      BY <1>a, <2>5, Moves
    <3>2. QED
      BY <1>a, <2>1, <2>5, <3>1 DEF PlaceInv
  <2>6. QED
    BY <1>2, <2>3, <2>4, <2>5, GoroutineMoves DEF ReadMetadata, WriteMetadata
<1>3. CASE UNCHANGED <<task, listed, told, metaVars>>
  BY <1>a, <1>3 DEF PlaceInv
<1>4. QED
  BY <1>1, <1>2, <1>3, OtherSteps

LEMMA AppendNext ==
  ASSUME Inv, [Next]_vars
  PROVE  AppendInv'
<1>a. AsyncTypeOK /\ AppendInv
  BY DEF Inv
<1>0. ASSUME UNCHANGED metaVars, \A d \in Calls : task'[d] = "appending" => task[d] = "appending"
      PROVE  AppendInv'
  BY <1>a, <1>0 DEF AppendInv, RecordLostOnlyByOverlap, metaVars
<1>1. ASSUME NEW c \in Calls, Launch(c)
      PROVE  AppendInv'
  BY <1>a, <1>0, <1>1 DEF Launch, Goto, AsyncTypeOK
<1>2. ASSUME NEW c \in Calls, NEW from, NEW to, Move(c, from, to), to # "appending",
             UNCHANGED metaVars
      PROVE  AppendInv'
  BY <1>a, <1>0, <1>2, Moves
<1>3. ASSUME NEW c \in Calls, ReadMetadata(c), Move(c, "stored", "appending")
      PROVE  AppendInv'
  <2>1. /\ task[c] = "stored" /\ task'[c] = "appending"
        /\ \A d \in Calls \ {c} : task'[d] = task[d]
    BY <1>a, <1>3, Moves
  <2>2. /\ snapshot' = [snapshot EXCEPT ![c] = metadata]
        /\ disturbed' = IF Appending = {} THEN disturbed ELSE disturbed \cup Appending \cup {c}
        /\ metadata' = metadata /\ recorded' = recorded
    <3>1. ~Goto(c, "leaving")
      BY <1>a, <2>1 DEF Goto, AsyncTypeOK
    <3>2. QED
      BY <1>3, <3>1 DEF ReadMetadata
  <2>3. snapshot'[c] = metadata /\ \A d \in Calls \ {c} : snapshot'[d] = snapshot[d]
    BY <1>a, <2>2 DEF AsyncTypeOK
  <2>4. disturbed \subseteq disturbed'
    BY <2>2
  <2>5. \A d \in Calls \ {c} : task[d] = "appending" => c \in disturbed' /\ d \in disturbed'
    BY <2>2 DEF Appending
  <2>6. \A d, e \in Calls : d # e /\ task'[d] = "appending" /\ task'[e] = "appending" => d \in disturbed'
    BY <1>a, <2>1, <2>4, <2>5 DEF AppendInv
  <2>7. \A d \in Calls : task'[d] = "appending" => recorded' \subseteq snapshot'[d] \cup disturbed'
    BY <1>a, <2>1, <2>2, <2>3, <2>4 DEF AppendInv, RecordLostOnlyByOverlap
  <2>8. RecordLostOnlyByOverlap'
    BY <1>a, <2>2, <2>4 DEF AppendInv, RecordLostOnlyByOverlap
  <2>9. QED
    BY <2>6, <2>7, <2>8 DEF AppendInv
<1>4. ASSUME NEW c \in Calls, WriteMetadata(c), Move(c, "appending", "leaving"), ~stopped
      PROVE  AppendInv'
  <2>1. /\ task[c] = "appending" /\ task'[c] = "leaving"
        /\ \A d \in Calls \ {c} : task'[d] = task[d]
    BY <1>a, <1>4, Moves
  <2>2. /\ metadata' = snapshot[c] \cup {c} /\ recorded' = recorded \cup {c}
        /\ snapshot' = snapshot /\ disturbed' = disturbed
    BY <1>4 DEF WriteMetadata
  <2>3. \A d \in Calls : task'[d] = "appending" => recorded' \subseteq snapshot'[d] \cup disturbed'
    BY <1>a, <2>1, <2>2 DEF AppendInv
  <2>4. RecordLostOnlyByOverlap'
    BY <1>a, <2>1, <2>2 DEF AppendInv, RecordLostOnlyByOverlap
  <2>5. QED
    BY <1>a, <2>1, <2>2, <2>3, <2>4 DEF AppendInv
<1>5. CASE UNCHANGED <<task, listed, told, metaVars>>
  BY <1>0, <1>5
<1>6. QED
  BY <1>1, <1>2, <1>3, <1>4, <1>5, OtherSteps, GoroutineMoves

-----------------------------------------------------------------------------
(* The invariant.                                                          *)

THEOREM Invariance == Spec => []Inv
<1>1. Init => Inv
  <2>1. SUFFICES ASSUME Init PROVE Inv
    OBVIOUS
  <2>2. result \in [Calls -> BOOLEAN]
    BY <2>1 DEF Init
  <2>3. AsyncTypeOK
    <3>1. /\ task \in [Calls -> {"none", "acquiring", "running", "finishing", "returned",
                                "stored", "appending", "leaving", "gone"}]
          /\ entry \in [Calls -> Statuses] /\ told \in [Calls -> 0 .. 1]
      BY <2>1 DEF Init, Statuses
    <3>2. /\ snapshot \in [Calls -> SUBSET Calls]
          /\ cancel \in [Cancels -> Calls \cup {"idle", "yes", "no"}]
          /\ fetched \in [Calls -> {"nothing", "result", "empty"}]
      BY <2>1 DEF Init
    <3>3. stopped \in BOOLEAN /\ {listed, expired, metadata, recorded, disturbed} \subseteq SUBSET Calls
      BY <2>1 DEF Init
    <3>4. QED
      BY <2>2, <3>1, <3>2, <3>3 DEF AsyncTypeOK
  <2>4. PlaceInv /\ AppendInv
    BY <2>1 DEF Init, PlaceInv, AppendInv, RecordLostOnlyByOverlap
  <2>5. QED
    BY <2>3, <2>4 DEF Inv
<1>2. Inv /\ [Next]_vars => Inv'
  BY TypeNext, PlaceNext, AppendNext DEF Inv
<1>3. QED
  BY <1>1, <1>2, PTL DEF Spec

(* Every variable keeps to its type: no call is told of its end twice.     *)
THEOREM TypeCorrect == Spec => []AsyncTypeOK
<1>1. Inv => AsyncTypeOK
  BY DEF Inv
<1>2. QED
  BY <1>1, Invariance, PTL

(* Of any number of calls, each that is over is out of the registry, and   *)
(* the client was told so once (engine_tools.go:177-240); and the record   *)
(* of its end is lost only when two appends overlapped (session.go:119).   *)
THEOREM Consistent == Spec => []AsyncConsistent
<1>1. Inv => AsyncConsistent
  BY DEF Inv, PlaceInv, AppendInv, AsyncConsistent, EndIsToldOnce
<1>2. QED
  BY <1>1, Invariance, PTL

-----------------------------------------------------------------------------
(* The plans of sessions.                                                  *)

Used == {i \in Items : status[i] # "none"}

PlanShape ==
    /\ rows \in [Sessions -> Seq(Items)]
    /\ status \in [Items -> Plan!Statuses \cup {"none"}]
    /\ owner \in [Callers -> Sessions \cup {"none"}]
    /\ planCall \in [Callers -> Nat] /\ want \in [Callers -> Nat]
    /\ made \in [Callers -> SUBSET Items]
    /\ prompt \in [Sessions -> SUBSET Items]

(* Todos are used up in order, each by one plan, and plans never shrink.   *)
ApartInv ==
    /\ \E k \in Nat : Used = 1 .. k
    /\ \A s \in Sessions : Plan!Of(s) \subseteq Used /\ prompt[s] \subseteq Plan!Of(s)
    /\ \A s, t \in Sessions : s # t => Plan!Of(s) \cap Plan!Of(t) = {}

WholeInv == Plan!PlanWhole /\ \A c \in Callers : owner[c] = "none" => made[c] = {}

PlanInv == PlanShape /\ ApartInv /\ WholeInv

LEMMA AppendedItem ==
  ASSUME NEW S, NEW list \in Seq(S), NEW x \in S
  PROVE  /\ Append(list, x) \in Seq(S)
         /\ Plan!ToSet(Append(list, x)) = Plan!ToSet(list) \cup {x}
<1>1. /\ DOMAIN list = 1 .. Len(list) /\ Len(list) \in Nat
      /\ DOMAIN Append(list, x) = 1 .. Len(list) + 1
      /\ \A i \in 1 .. Len(list) : Append(list, x)[i] = list[i]
      /\ Append(list, x)[Len(list) + 1] = x
  OBVIOUS
<1>2. \A i \in 1 .. Len(list) + 1 : i \in 1 .. Len(list) \/ i = Len(list) + 1
  BY <1>1
<1>3. \A i \in 1 .. Len(list) : i \in 1 .. Len(list) + 1
  BY <1>1
<1>4. Len(list) + 1 \in 1 .. Len(list) + 1
  BY <1>1
<1>5. QED
  BY <1>1, <1>2, <1>3, <1>4 DEF Plan!ToSet

(* A new todo is in no plan yet, and then in one.                          *)
LEMMA InsertedItem ==
  ASSUME PlanShape, ApartInv, NEW s \in Sessions, NEW i \in Items, Plan!Insert(s, i)
  PROVE  /\ rows' \in [Sessions -> Seq(Items)]
         /\ status' \in [Items -> Plan!Statuses \cup {"none"}]
         /\ i \notin Used /\ Used' = Used \cup {i} /\ \E k \in Nat : Used' = 1 .. k
         /\ Plan!Of(s)' = Plan!Of(s) \cup {i}
         /\ \A t \in Sessions \ {s} : Plan!Of(t)' = Plan!Of(t)
<1>1. PICK k \in Nat : Used = 1 .. k
  BY DEF ApartInv
<1>2. Plan!Cardinality(Used) = Cardinality(Used)
  BY DEF Cardinality, Plan!Cardinality
<1>3. Cardinality(1 .. k) = k
  BY FS_Interval
<1>4. /\ i = k + 1 /\ status' = [status EXCEPT ![i] = "pending"]
      /\ rows' = [rows EXCEPT ![s] = Append(rows[s], i)]
  BY <1>1, <1>2, <1>3 DEF Plan!Insert, Used
<1>5. i \notin Used /\ Used \cup {i} = 1 .. k + 1
  BY <1>1, <1>4
<1>6. status' \in [Items -> Plan!Statuses \cup {"none"}] /\ Used' = Used \cup {i}
  BY <1>4 DEF PlanShape, Plan!Statuses, Used
<1>7. /\ Append(rows[s], i) \in Seq(Items)
      /\ Plan!ToSet(Append(rows[s], i)) = Plan!ToSet(rows[s]) \cup {i}
  BY AppendedItem DEF PlanShape
<1>8. /\ rows' \in [Sessions -> Seq(Items)] /\ rows'[s] = Append(rows[s], i)
      /\ \A t \in Sessions \ {s} : rows'[t] = rows[t]
  BY <1>4, <1>7 DEF PlanShape
<1>9. QED
  BY <1>5, <1>6, <1>7, <1>8 DEF Plan!Of

LEMMA ApartAfterInsert ==
  ASSUME PlanShape, ApartInv, NEW s \in Sessions, NEW i \in Items, Plan!Insert(s, i),
         prompt' = prompt
  PROVE  ApartInv'
<1>1. /\ i \notin Used /\ Used' = Used \cup {i} /\ \E k \in Nat : Used' = 1 .. k
      /\ Plan!Of(s)' = Plan!Of(s) \cup {i}
      /\ \A t \in Sessions \ {s} : Plan!Of(t)' = Plan!Of(t)
  BY InsertedItem
<1>2. \A t \in Sessions : Plan!Of(t) \subseteq Used /\ prompt[t] \subseteq Plan!Of(t)
  BY DEF ApartInv
<1>3. \A t \in Sessions : Plan!Of(t)' \subseteq Used' /\ prompt'[t] \subseteq Plan!Of(t)'
  BY <1>1, <1>2
<1>4. \A t, u \in Sessions : t # u => Plan!Of(t)' \cap Plan!Of(u)' = {}
  BY <1>1, <1>2 DEF ApartInv
<1>5. QED
  BY <1>1, <1>3, <1>4 DEF ApartInv

LEMMA CreateKeeps ==
  ASSUME PlanInv, NEW s \in Sessions, NEW i \in Items, Plan!HandleCreate(s, i)
  PROVE  PlanInv'
<1>1. /\ Plan!Insert(s, i) /\ UNCHANGED <<planCall, owner, want, made, prompt>>
      /\ planDisturbed' = planDisturbed \cup {c \in Callers : owner[c] = s}
  BY DEF Plan!HandleCreate
<1>2. PlanShape' /\ ApartInv'
  BY <1>1, InsertedItem, ApartAfterInsert DEF PlanInv, PlanShape
<1>3. /\ Plan!Of(s)' = Plan!Of(s) \cup {i}
      /\ \A t \in Sessions \ {s} : Plan!Of(t)' = Plan!Of(t)
  BY <1>1, InsertedItem DEF PlanInv
<1>4. ASSUME NEW c \in Callers, owner[c] # "none"
      PROVE  /\ made[c] \subseteq Plan!Of(owner[c])'
             /\ Plan!Of(owner[c])' = made[c] \/ c \in planDisturbed'
  <2>1. /\ owner[c] \in Sessions /\ made[c] \subseteq Plan!Of(owner[c])
        /\ Plan!Of(owner[c]) = made[c] \/ c \in planDisturbed
    BY <1>4 DEF PlanInv, PlanShape, WholeInv, Plan!PlanWhole
  <2>2. CASE owner[c] = s
    BY <1>1, <1>3, <2>1, <2>2
  <2>3. CASE owner[c] # s
    BY <1>1, <1>3, <2>1, <2>3
  <2>4. QED
    BY <2>2, <2>3
<1>5. WholeInv'
  BY <1>1, <1>4 DEF PlanInv, WholeInv, Plan!PlanWhole
<1>6. QED
  BY <1>2, <1>5 DEF PlanInv

(* A caller returns: with all it was asked for, or with an error.          *)
LEMMA ReturnKeeps ==
  ASSUME PlanInv, NEW c \in Callers, Plan!Return(c), planDisturbed' = planDisturbed \ {c},
         UNCHANGED <<rows, status>>
  PROVE  PlanInv'
<1>1. /\ owner' = [owner EXCEPT ![c] = "none"] /\ planCall' = [planCall EXCEPT ![c] = 0]
      /\ want' = [want EXCEPT ![c] = 0] /\ made' = [made EXCEPT ![c] = {}]
      /\ prompt' = prompt
  BY DEF Plan!Return
<1>2. PlanShape'
  BY <1>1 DEF PlanInv, PlanShape
<1>3. \A s \in Sessions \cup {"none"} : Plan!Of(s)' = Plan!Of(s)
  BY DEF Plan!Of
<1>4. ApartInv'
  BY <1>1, <1>3 DEF PlanInv, ApartInv, Used
<1>5. /\ owner'[c] = "none" /\ made'[c] = {}
      /\ \A d \in Callers \ {c} : /\ owner'[d] = owner[d] /\ made'[d] = made[d]
                                  /\ planCall'[d] = planCall[d] /\ want'[d] = want[d]
  BY <1>1 DEF PlanInv, PlanShape
<1>6. ASSUME NEW d \in Callers, owner'[d] # "none"
      PROVE  /\ Plan!Cardinality(made'[d]) + planCall'[d] = want'[d]
             /\ made'[d] \subseteq Plan!Of(owner[d])'
             /\ Plan!Of(owner[d])' = made'[d] \/ d \in planDisturbed'
  <2>1. d # c
    BY <1>5, <1>6
  <2>2. /\ Plan!Cardinality(made[d]) + planCall[d] = want[d]
        /\ made[d] \subseteq Plan!Of(owner[d])
        /\ Plan!Of(owner[d]) = made[d] \/ d \in planDisturbed
    BY <1>5, <1>6, <2>1 DEF PlanInv, WholeInv, Plan!PlanWhole
  <2>3. /\ owner'[d] = owner[d] /\ made'[d] = made[d]
        /\ planCall'[d] = planCall[d] /\ want'[d] = want[d]
    BY <1>5, <2>1
  <2>4. Plan!Of(owner[d])' = Plan!Of(owner[d])
    BY <2>3 DEF Plan!Of
  <2>5. QED
    BY <2>1, <2>2, <2>3, <2>4
<1>7. WholeInv'
  <2>1. \A d \in Callers : owner'[d] = "none" => made'[d] = {}
    BY <1>5 DEF PlanInv, WholeInv
  <2>2. QED
    BY <1>6, <2>1 DEF WholeInv, Plan!PlanWhole
<1>8. QED
  BY <1>2, <1>4, <1>7 DEF PlanInv


(* A replan starts with an empty plan, or is refused.                      *)
LEMMA ReplanKeeps ==
  ASSUME PlanInv, NEW c \in Callers, NEW s \in Sessions, NEW n \in Nat, Plan!HandleReplan(c, s, n)
  PROVE  PlanInv'
<1>1. /\ owner[c] = "none" /\ UNCHANGED <<rows, status, made, planDisturbed, prompt>>
      /\ \/ /\ rows[s] = <<>> /\ owner' = [owner EXCEPT ![c] = s]
            /\ planCall' = [planCall EXCEPT ![c] = n] /\ want' = [want EXCEPT ![c] = n]
         \/ UNCHANGED <<owner, planCall, want>>
  BY DEF Plan!HandleReplan
<1>2. PlanShape'
  BY <1>1 DEF PlanInv, PlanShape
<1>3. ApartInv'
  BY <1>1 DEF PlanInv, ApartInv, Used, Plan!Of
<1>4. CASE UNCHANGED <<owner, planCall, want>>
  BY <1>1, <1>2, <1>3, <1>4 DEF PlanInv, WholeInv, Plan!PlanWhole, Plan!Of
<1>5. CASE /\ rows[s] = <<>> /\ owner' = [owner EXCEPT ![c] = s]
           /\ planCall' = [planCall EXCEPT ![c] = n] /\ want' = [want EXCEPT ![c] = n]
  <2>1. /\ owner'[c] = s /\ planCall'[c] = n /\ want'[c] = n
        /\ \A d \in Callers \ {c} : owner'[d] = owner[d] /\ planCall'[d] = planCall[d] /\ want'[d] = want[d]
    BY <1>5 DEF PlanInv, PlanShape
  <2>2. made[c] = {}
    BY <1>1 DEF PlanInv, WholeInv
  <2>3. Plan!Of(s) = {}
    BY <1>5 DEF Plan!Of, Plan!ToSet
  <2>4. Plan!Cardinality({}) = 0
    <3>1. Plan!Cardinality({}) = Cardinality({})
      BY DEF Cardinality, Plan!Cardinality
    <3>2. QED
      BY <3>1, FS_EmptySet
  <2>5. \A d \in Callers : owner'[d] = "none" => made'[d] = {}
    BY <1>1, <2>1, <2>2 DEF PlanInv, WholeInv
  <2>6. ASSUME NEW d \in Callers, owner'[d] # "none"
        PROVE  /\ Plan!Cardinality(made[d]) + planCall'[d] = want'[d]
               /\ made[d] \subseteq Plan!Of(owner'[d])
               /\ Plan!Of(owner'[d]) = made[d] \/ d \in planDisturbed
    <3>1. CASE d = c
      BY <2>1, <2>2, <2>3, <2>4, <3>1
    <3>2. CASE d # c
      <4>1. owner'[d] = owner[d] /\ planCall'[d] = planCall[d] /\ want'[d] = want[d]
        BY <2>1, <3>2
      <4>2. /\ Plan!Cardinality(made[d]) + planCall[d] = want[d]
            /\ made[d] \subseteq Plan!Of(owner[d])
            /\ Plan!Of(owner[d]) = made[d] \/ d \in planDisturbed
        BY <2>6, <4>1 DEF PlanInv, WholeInv, Plan!PlanWhole
      <4>3. QED
        BY <4>1, <4>2
    <3>3. QED
      BY <3>1, <3>2
  <2>7. Plan!PlanWhole'
    BY <1>1, <2>6 DEF Plan!PlanWhole, Plan!Of
  <2>8. QED
    BY <1>2, <1>3, <2>5, <2>7 DEF PlanInv, WholeInv
<1>6. QED
  BY <1>1, <1>4, <1>5

(* One of the new todos is created: one less to go, and other replans of   *)
(* the session have company.                                               *)
LEMMA CreateNextKeeps ==
  ASSUME PlanInv, NEW c \in Callers, NEW i \in Items,
         owner[c] # "none", planCall[c] > 0, Plan!Insert(owner[c], i),
         made' = [made EXCEPT ![c] = @ \cup {i}], planCall' = [planCall EXCEPT ![c] = @ - 1],
         planDisturbed' = planDisturbed \cup {d \in Callers \ {c} : owner[d] = owner[c]},
         UNCHANGED <<owner, want, prompt>>
  PROVE  PlanInv'
<1>a. PlanShape /\ ApartInv /\ WholeInv
  BY DEF PlanInv
<1>1. PICK s \in Sessions : s = owner[c]
  BY <1>a DEF PlanShape
<1>2. Plan!Insert(s, i)
  BY <1>1
<1>3. /\ rows' \in [Sessions -> Seq(Items)]
      /\ status' \in [Items -> Plan!Statuses \cup {"none"}]
      /\ i \notin Used /\ Plan!Of(s)' = Plan!Of(s) \cup {i}
      /\ \A t \in Sessions \ {s} : Plan!Of(t)' = Plan!Of(t)
  BY <1>a, <1>2, InsertedItem
<1>4. /\ planCall'[c] = planCall[c] - 1 /\ made'[c] = made[c] \cup {i}
      /\ \A d \in Callers \ {c} : planCall'[d] = planCall[d] /\ made'[d] = made[d]
      /\ planCall[c] \in Nat /\ want[c] \in Nat
  BY <1>a DEF PlanShape
<1>5. PlanShape'
  <2>1. planCall' \in [Callers -> Nat]
    BY <1>a DEF PlanShape
  <2>2. made' \in [Callers -> SUBSET Items]
    BY <1>a DEF PlanShape
  <2>3. QED
    BY <1>a, <1>3, <2>1, <2>2 DEF PlanShape
<1>6. ApartInv'
  BY <1>a, <1>2, ApartAfterInsert
<1>7. Plan!Cardinality(made[c] \cup {i}) = Plan!Cardinality(made[c]) + 1
      /\ Plan!Cardinality(made[c]) \in Nat
  <2>1. made[c] \subseteq Used
    BY <1>a, <1>1 DEF ApartInv, WholeInv, Plan!PlanWhole
  <2>2. PICK k \in Nat : Used = 1 .. k
    BY <1>a DEF ApartInv
  <2>3. IsFiniteSet(1 .. k)
    BY FS_Interval
  <2>4. IsFiniteSet(made[c]) /\ i \notin made[c]
    BY <1>3, <2>1, <2>2, <2>3, FS_Subset
  <2>5. Cardinality(made[c] \cup {i}) = Cardinality(made[c]) + 1 /\ Cardinality(made[c]) \in Nat
    BY <2>4, FS_AddElement, FS_CardinalityType
  <2>6. /\ Plan!Cardinality(made[c] \cup {i}) = Cardinality(made[c] \cup {i})
        /\ Plan!Cardinality(made[c]) = Cardinality(made[c])
    BY DEF Cardinality, Plan!Cardinality
  <2>7. QED
    BY <2>5, <2>6
<1>8. ASSUME NEW d \in Callers, owner[d] # "none"
      PROVE  /\ Plan!Cardinality(made'[d]) + planCall'[d] = want[d]
             /\ made'[d] \subseteq Plan!Of(owner[d])'
             /\ Plan!Of(owner[d])' = made'[d] \/ d \in planDisturbed'
  <2>1. /\ Plan!Cardinality(made[d]) + planCall[d] = want[d]
        /\ made[d] \subseteq Plan!Of(owner[d])
        /\ Plan!Of(owner[d]) = made[d] \/ d \in planDisturbed
        /\ owner[d] \in Sessions
    BY <1>a, <1>8 DEF WholeInv, Plan!PlanWhole, PlanShape
  <2>2. CASE d = c
    <3>1. made'[d] = made[c] \cup {i} /\ planCall'[d] = planCall[c] - 1 /\ owner[d] = s
      BY <1>1, <1>4, <2>2
    <3>2. Plan!Cardinality(made'[d]) = Plan!Cardinality(made[c]) + 1
      BY <1>7, <3>1
    <3>3. Plan!Cardinality(made'[d]) + planCall'[d] = want[d]
      BY <1>4, <1>7, <2>1, <2>2, <3>1, <3>2
    <3>4. Plan!Of(owner[d])' = Plan!Of(s) \cup {i}
      BY <1>3, <3>1
    <3>5. \/ Plan!Of(s) = made[c] \/ c \in planDisturbed
      BY <2>1, <2>2, <3>1
    <3>6. QED
      BY <2>1, <2>2, <3>1, <3>3, <3>4, <3>5
  <2>3. CASE d # c /\ owner[d] = s
    BY <1>1, <1>3, <1>4, <2>1, <2>3
  <2>4. CASE d # c /\ owner[d] # s
    BY <1>3, <1>4, <2>1, <2>4
  <2>5. QED
    BY <2>2, <2>3, <2>4
<1>9. \A d \in Callers : owner[d] = "none" => made'[d] = {}
  BY <1>a, <1>4 DEF WholeInv
<1>10. WholeInv'
  <2>1. owner' = owner /\ want' = want
    OBVIOUS
  <2>2. Plan!PlanWhole'
    BY <1>8, <2>1 DEF Plan!PlanWhole
  <2>3. QED
    BY <1>9, <2>1, <2>2 DEF WholeInv
<1>11. QED
  BY <1>5, <1>6, <1>10 DEF PlanInv

LEMMA PlanInvariance ==
  ASSUME IsFiniteSet(Items)
  PROVE  Plan!Spec => []PlanInv
<1>1. Plan!Init => PlanInv
  <2>1. SUFFICES ASSUME Plan!Init PROVE PlanInv
    OBVIOUS
  <2>2. PlanShape
    <3>1. <<>> \in Seq(Items)
      OBVIOUS
    <3>2. QED
      BY <2>1, <3>1 DEF Plan!Init, PlanShape
  <2>3. Used = {} /\ \A s \in Sessions : Plan!Of(s) = {} /\ prompt[s] = {}
    BY <2>1 DEF Plan!Init, Used, Plan!Of, Plan!ToSet
  <2>4. Used = 1 .. 0
    BY <2>3
  <2>5. ApartInv
    BY <2>3, <2>4 DEF ApartInv
  <2>6. WholeInv
    BY <2>1 DEF Plan!Init, WholeInv, Plan!PlanWhole
  <2>7. QED
    BY <2>2, <2>5, <2>6 DEF PlanInv
<1>2. PlanInv /\ [Plan!Next]_Plan!vars => PlanInv'
  <2>1. SUFFICES ASSUME PlanInv, [Plan!Next]_Plan!vars PROVE PlanInv'
    OBVIOUS
  <2>2. CASE \E s \in Sessions : Plan!TodoInjection(s)
    <3>1. PICK s \in Sessions : Plan!TodoInjection(s)
      BY <2>2
    <3>2. /\ prompt' = [prompt EXCEPT ![s] = Plan!Of(s)]
          /\ UNCHANGED <<rows, status, planCall, owner, want, made, planDisturbed>>
      BY <3>1 DEF Plan!TodoInjection, Plan!replanVars
    <3>3. Plan!Of(s) \subseteq Items
      BY <2>1 DEF PlanInv, ApartInv, Used
    <3>4. PlanShape'
      BY <2>1, <3>2, <3>3 DEF PlanInv, PlanShape
    <3>5. \A t \in Sessions : prompt'[t] = prompt[t] \/ prompt'[t] = Plan!Of(t)
      BY <2>1, <3>2 DEF PlanInv, PlanShape
    <3>6. ApartInv'
      BY <2>1, <3>2, <3>5 DEF PlanInv, ApartInv, Used, Plan!Of
    <3>7. WholeInv'
      BY <2>1, <3>2 DEF PlanInv, WholeInv, Plan!PlanWhole, Plan!Of
    <3>8. QED
      BY <3>4, <3>6, <3>7 DEF PlanInv
  <2>3. CASE \E s \in Sessions : \E i \in Items : Plan!HandleCreate(s, i)
    BY <2>1, <2>3, CreateKeeps
  <2>4. CASE \E s \in Sessions : \E c \in Callers, n \in 1 .. Plan!Cardinality(Items) : Plan!HandleReplan(c, s, n)
    <3>1. Plan!Cardinality(Items) \in Nat
      <4>1. Plan!Cardinality(Items) = Cardinality(Items)
        BY DEF Cardinality, Plan!Cardinality
      <4>2. QED
        BY <4>1, FS_CardinalityType
    <3>2. \A n \in 1 .. Plan!Cardinality(Items) : n \in Nat
      BY <3>1
    <3>3. QED
      BY <2>1, <2>4, <3>2, ReplanKeeps
  <2>5. CASE \E i \in Items, new \in Plan!Statuses \ {"pending"} : Plan!UpdateStatus(i, new)
    <3>1. PICK i \in Items, new \in Plan!Statuses \ {"pending"} : Plan!UpdateStatus(i, new)
      BY <2>5
    <3>2. /\ status[i] # "none" /\ status' = [status EXCEPT ![i] = new]
          /\ UNCHANGED <<rows, planCall, owner, want, made, planDisturbed, prompt>>
      BY <3>1 DEF Plan!UpdateStatus, Plan!replanVars
    <3>3. status' \in [Items -> Plan!Statuses \cup {"none"}] /\ new # "none"
      BY <2>1, <3>2 DEF PlanInv, PlanShape, Plan!Statuses
    <3>4. PlanShape'
      BY <2>1, <3>2, <3>3 DEF PlanInv, PlanShape
    <3>5. Used' = Used
      BY <2>1, <3>2, <3>3 DEF PlanInv, PlanShape, Used
    <3>6. ApartInv' /\ WholeInv'
      BY <2>1, <3>2, <3>5 DEF PlanInv, ApartInv, WholeInv, Plan!PlanWhole, Plan!Of
    <3>7. QED
      BY <3>4, <3>6 DEF PlanInv
  <2>6. CASE \E c \in Callers : Plan!ReplanDone(c)
    <3>1. PICK c \in Callers : Plan!ReplanDone(c)
      BY <2>6
    <3>2. QED
      BY <2>1, <3>1, ReturnKeeps DEF Plan!ReplanDone
  <2>7. CASE \E c \in Callers : \E i \in Items : Plan!CreateNext(c, i)
    <3>1. PICK c \in Callers, i \in Items : Plan!CreateNext(c, i)
      BY <2>7
    <3>2. CASE Plan!Return(c) /\ planDisturbed' = planDisturbed \ {c} /\ UNCHANGED <<rows, status>>
      BY <2>1, <3>2, ReturnKeeps
    <3>3. CASE /\ Plan!Insert(owner[c], i) /\ made' = [made EXCEPT ![c] = @ \cup {i}]
               /\ planCall' = [planCall EXCEPT ![c] = @ - 1]
               /\ planDisturbed' = planDisturbed \cup {d \in Callers \ {c} : owner[d] = owner[c]}
               /\ UNCHANGED <<owner, want, prompt>>
      BY <2>1, <3>1, <3>3, CreateNextKeeps DEF Plan!CreateNext
    <3>4. QED
      BY <3>1, <3>2, <3>3 DEF Plan!CreateNext
  <2>8. CASE UNCHANGED Plan!vars
    <3>1. UNCHANGED <<rows, status, planCall, owner, want, made, planDisturbed, prompt>>
      BY <2>8 DEF Plan!vars, Plan!replanVars
    <3>2. PlanShape'
      BY <2>1, <3>1 DEF PlanInv, PlanShape
    <3>3. ApartInv' /\ WholeInv'
      BY <2>1, <3>1 DEF PlanInv, ApartInv, Used, WholeInv, Plan!PlanWhole, Plan!Of
    <3>4. QED
      BY <3>2, <3>3 DEF PlanInv
  <2>9. QED
    BY <2>1, <2>2, <2>3, <2>4, <2>5, <2>6, <2>7, <2>8 DEF Plan!Next
<1>3. QED
  BY <1>1, <1>2, PTL DEF Plan!Spec

(* For any number of sessions, callers, todos and failures of the store: a *)
(* replan in progress has created what it no longer has to create, and all *)
(* of it is in its session's plan, which has nothing else unless another   *)
(* call created todos meanwhile (todo.go:197-262); and no todo is in two   *)
(* plans or in the prompt of another session (todo_injection.go:36).       *)
THEOREM PlansConsistent ==
  ASSUME IsFiniteSet(Items)
  PROVE  Plan!Spec => []Plan!TodosConsistent
<1>1. PlanInv => Plan!TodosConsistent
  BY DEF PlanInv, ApartInv, WholeInv, Plan!TodosConsistent, Plan!PlansApart
<1>2. QED
  BY <1>1, PlanInvariance, PTL

-----------------------------------------------------------------------------
(* The client of a stream.                                                 *)

(* What it applies next comes after all it has applied: its count may be   *)
(* one behind the next event, never more, so that a reconnect asks for a   *)
(* later one still.                                                        *)
FollowInv ==
    /\ mode \in {"reading", "rereading"} =>
          seq <= next /\ next <= written /\ \A i \in DOMAIN bubble : bubble[i] < next
    /\ mode = "reading" => next <= seq + 1
    /\ mode = "lost" => seq <= written /\ \A i \in DOMAIN bubble : bubble[i] <= seq
    /\ mode = "restarting" => seq = 0 /\ bubble = <<>>

ClientInv == Client!ClientTypeOK /\ FollowInv /\ Client!AppliedInOrder

LEMMA ClientTypeNext ==
  ASSUME Last \in Nat, MaxBreaks \in Nat, ClientInv, [Client!Next]_Client!vars
  PROVE  Client!ClientTypeOK'
<1> USE DEF Client!ClientTypeOK, Client!serverVars, Client!clientVars, Client!Modes
<1>a. Client!ClientTypeOK /\ FollowInv
  BY DEF ClientInv
<1>1. CASE Client!EmitEvent \/ Client!CloseChat
  <2>0. over' = over \/ over' = TRUE
    BY <1>1 DEF Client!EmitEvent, Client!CloseChat
  <2>1. over' \in BOOLEAN
    BY <1>a, <2>0
  <2>b. written' \in 0 .. Last + 1
    BY <1>a, <1>1 DEF Client!EmitEvent, Client!CloseChat
  <2>2. UNCHANGED <<mode, next, seq, bubble, reloads, breaks>>
    BY <1>1 DEF Client!EmitEvent, Client!CloseChat
  <2>3. QED
    BY <1>a, <2>1, <2>b, <2>2
<1>2. CASE Client!Receive
  <2>1. next \in 0 .. Last /\ seq + 1 \in 0 .. Last + 2
    BY <1>a, <1>2 DEF Client!Receive, FollowInv
  <2>2. Append(bubble, next) \in Seq(0 .. Last)
    BY <1>a, <2>1
  <2>3. QED
    BY <1>a, <1>2, <2>1, <2>2 DEF Client!Receive
<1>3. CASE Client!StreamEnds \/ Client!Break
  BY <1>a, <1>3 DEF Client!StreamEnds, Client!Break
<1>4. CASE Client!Reconnect
  BY <1>a, <1>4 DEF Client!Reconnect, Client!Answer, Client!LastSeen, FollowInv
<1>5. CASE Client!Recover
  <2>1. <<>> \in Seq(0 .. Last)
    OBVIOUS
  <2>2. QED
    BY <1>a, <1>5, <2>1 DEF Client!Recover
<1>6. CASE Client!Restart
  BY <1>a, <1>6 DEF Client!Restart, Client!Answer
<1>7. CASE UNCHANGED Client!vars
  BY <1>a, <1>7 DEF Client!vars
<1>8. QED
  BY <1>1, <1>2, <1>3, <1>4, <1>5, <1>6, <1>7 DEF Client!Next

LEMMA FollowNext ==
  ASSUME Last \in Nat, MaxBreaks \in Nat, ClientInv, [Client!Next]_Client!vars
  PROVE  FollowInv' /\ Client!AppliedInOrder'
<1> USE DEF Client!serverVars, Client!clientVars
<1>a. Client!ClientTypeOK /\ FollowInv /\ Client!AppliedInOrder
  BY DEF ClientInv
<1>b. /\ next \in Int /\ seq \in Int /\ written \in Int
      /\ bubble \in Seq(0 .. Last) /\ \A i \in DOMAIN bubble : bubble[i] \in Int
  BY <1>a DEF Client!ClientTypeOK
<1>1. CASE Client!Receive
  <2>1. Append(bubble, next) \in Seq(Int)
    BY <1>b
  <2>2. /\ DOMAIN bubble = 1 .. Len(bubble) /\ Len(bubble) \in Nat
        /\ DOMAIN Append(bubble, next) = 1 .. Len(bubble) + 1
        /\ \A i \in 1 .. Len(bubble) : Append(bubble, next)[i] = bubble[i]
        /\ Append(bubble, next)[Len(bubble) + 1] = next
    BY <1>b
  <2>3. \A i \in DOMAIN bubble : bubble[i] < next
    BY <1>a, <1>1 DEF Client!Receive, FollowInv
  <2>4. \A i \in 1 .. Len(bubble) + 1 : i \in 1 .. Len(bubble) \/ i = Len(bubble) + 1
    BY <2>2
  <2>5. \A i \in DOMAIN bubble' : bubble'[i] < next + 1
    BY <1>b, <1>1, <2>2, <2>3, <2>4 DEF Client!Receive
  <2>6. Client!AppliedInOrder'
    <3>1. SUFFICES ASSUME NEW i \in DOMAIN bubble', NEW j \in DOMAIN bubble', i < j
                   PROVE  bubble'[i] < bubble'[j]
      BY DEF Client!AppliedInOrder
    <3>2. bubble' = Append(bubble, next) /\ i \in 1 .. Len(bubble)
      BY <1>1, <2>2, <3>1 DEF Client!Receive
    <3>3. CASE j \in 1 .. Len(bubble)
      BY <1>a, <2>2, <3>1, <3>2, <3>3 DEF Client!AppliedInOrder
    <3>4. CASE j = Len(bubble) + 1
      BY <2>2, <2>3, <3>2, <3>4
    <3>5. QED
      BY <2>2, <2>4, <3>1, <3>2, <3>3, <3>4
  <2>7. QED
    BY <1>a, <1>b, <1>1, <2>5, <2>6 DEF Client!Receive, FollowInv
<1>2. CASE Client!EmitEvent \/ Client!CloseChat \/ Client!StreamEnds \/ Client!Break
  <2>1. bubble' = bubble /\ next' = next /\ seq' = seq /\ written <= written'
    BY <1>b, <1>2 DEF Client!EmitEvent, Client!CloseChat, Client!StreamEnds, Client!Break
  <2>2. written' \in Int
    BY <1>b, <1>2 DEF Client!EmitEvent, Client!CloseChat, Client!StreamEnds, Client!Break
  <2>3. \/ mode' = mode \/ mode' \in {"idle", "failed"}
        \/ mode \in {"reading", "restarting"} /\ mode' = "lost"
    BY <1>2 DEF Client!EmitEvent, Client!CloseChat, Client!StreamEnds, Client!Break
  <2>4. Client!AppliedInOrder'
    BY <1>a, <2>1 DEF Client!AppliedInOrder
  <2>5. mode = "restarting" => 0 <= written /\ DOMAIN bubble = {}
    BY <1>a DEF FollowInv, Client!ClientTypeOK
  <2>6. FollowInv'
    BY <1>a, <1>b, <2>1, <2>2, <2>3, <2>5 DEF FollowInv
  <2>7. QED
    BY <2>4, <2>6
<1>3. CASE Client!Reconnect
  BY <1>a, <1>b, <1>3 DEF Client!Reconnect, Client!Answer, Client!LastSeen, FollowInv, Client!AppliedInOrder
<1>4. CASE Client!Recover \/ Client!Restart
  <2>1. bubble' = <<>>
    BY <1>a, <1>4 DEF Client!Recover, Client!Restart, FollowInv
  <2>2. Client!AppliedInOrder'
    BY <2>1 DEF Client!AppliedInOrder
  <2>3. \/ mode' = "restarting" /\ seq' = 0
        \/ mode' = "reading" /\ next' = 1 /\ seq' = 0 /\ written' = written /\ 1 <= written
        \/ mode' = "idle"
    <3>1. CASE Client!Recover
      BY <3>1 DEF Client!Recover
    <3>2. CASE Client!Restart
      BY <1>b, <3>2 DEF Client!Restart, Client!Answer
    <3>3. QED
      BY <1>4, <3>1, <3>2
  <2>4. \A i \in DOMAIN bubble' : FALSE
    BY <2>1
  <2>5. FollowInv'
    BY <1>b, <2>1, <2>3, <2>4 DEF FollowInv
  <2>6. QED
    BY <2>2, <2>5
<1>5. CASE UNCHANGED Client!vars
  BY <1>a, <1>5 DEF Client!vars, FollowInv, Client!AppliedInOrder
<1>6. QED
  BY <1>1, <1>2, <1>3, <1>4, <1>5 DEF Client!Next

LEMMA ClientInvariance ==
  ASSUME Last \in Nat, MaxBreaks \in Nat
  PROVE  Client!Spec => []ClientInv
<1>1. Client!Init => ClientInv
  <2>1. SUFFICES ASSUME Client!Init PROVE ClientInv
    OBVIOUS
  <2>2. <<>> \in Seq(0 .. Last)
    OBVIOUS
  <2>3. Client!ClientTypeOK
    <3>1. over \in BOOLEAN
      BY <2>1 DEF Client!Init
    <3>2. QED
      BY <2>1, <2>2, <3>1 DEF Client!Init, Client!ClientTypeOK, Client!Modes
  <2>4. FollowInv /\ Client!AppliedInOrder
    BY <2>1 DEF Client!Init, FollowInv, Client!AppliedInOrder
  <2>5. QED
    BY <2>3, <2>4 DEF ClientInv
<1>2. ClientInv /\ [Client!Next]_Client!vars => ClientInv'
  BY ClientTypeNext, FollowNext DEF ClientInv
<1>3. QED
  BY <1>1, <1>2, PTL DEF Client!Spec

(* For any length of the chat, any window and any number of failures: no   *)
(* event is applied twice to a message, and none before an earlier one     *)
(* (chat-session.ts:160, 222).                                             *)
THEOREM ClientAppliesInOrder ==
  ASSUME Last \in Nat, MaxBreaks \in Nat
  PROVE  Client!Spec => []Client!AppliedInOrder
<1>1. ClientInv => Client!AppliedInOrder
  BY DEF ClientInv
<1>2. QED
  BY <1>1, ClientInvariance, PTL

-----------------------------------------------------------------------------
(* The first position of a name in a list, and lists of names as sets.     *)

LEMMA LeastNatural ==
  ASSUME NEW T \in SUBSET Nat, T # {}
  PROVE  \E x \in T : \A y \in T : x <= y
<1>1. IsWellFoundedOn({r \in Nat \X Nat : r[1] < r[2]}, Nat)
  BY NatLessThanWellFounded DEF OpToRel
<1>2. PICK x \in T : \A y \in T : <<y, x>> \notin {r \in Nat \X Nat : r[1] < r[2]}
  BY <1>1, WFMin
<1>3. ASSUME NEW y \in T PROVE x <= y
  <2>1. <<y, x>> \in Nat \X Nat /\ x \in Nat /\ y \in Nat
    OBVIOUS
  <2>2. ~(y < x)
    BY <1>2, <2>1
  <2>3. QED
    BY <2>1, <2>2
<1>4. QED
  BY <1>3

LEMMA PositionOf ==
  ASSUME NEW S, NEW list \in Seq(S), NEW s, NEW i \in DOMAIN list, list[i] = s
  PROVE  Mcp!Position(list, s) \in 1 .. Len(list) /\ list[Mcp!Position(list, s)] = s
<1>1. PICK P : P = {j \in 1 .. Len(list) : list[j] = s}
  OBVIOUS
<1>2. P \subseteq Nat /\ i \in P
  BY <1>1
<1>3. PICK x \in P : \A y \in P : x <= y
  BY <1>2, LeastNatural
<1>4. Mcp!Min(P) \in P
  BY <1>3 DEF Mcp!Min
<1>5. Mcp!Position(list, s) = Mcp!Min(P)
  BY <1>1, <1>2 DEF Mcp!Position, Mcp!SelectInSeq
<1>6. QED
  BY <1>1, <1>4, <1>5

LEMMA ListOfSet ==
  ASSUME NEW S, IsFiniteSet(S)
  PROVE  Mcp!SetToSeq(S) \in Seq(S)
<1>1. Mcp!Cardinality(S) = Cardinality(S)
  BY DEF Cardinality, Mcp!Cardinality
<1>2. Cardinality(S) \in Nat /\ ExistsBijection(1 .. Cardinality(S), S)
  BY FS_CardinalityType
<1>3. PICK f \in [1 .. Cardinality(S) -> S] : IsInjective(f)
  BY <1>2 DEF ExistsBijection, Bijection, Injection
<1>4. Mcp!IsInjective(f)
  BY <1>3 DEF IsInjective, Mcp!IsInjective
<1>5. Mcp!SetToSeq(S) \in [1 .. Cardinality(S) -> S]
  BY <1>1, <1>3, <1>4 DEF Mcp!SetToSeq
<1>6. QED
  BY <1>2, <1>5

Elements(list) == {list[i] : i \in DOMAIN list}

LEMMA AppendElements ==
  ASSUME NEW S, NEW list \in Seq(S), NEW s \in S
  PROVE  /\ Append(list, s) \in Seq(S)
         /\ Elements(Append(list, s)) = Elements(list) \cup {s}
<1>1. /\ DOMAIN list = 1 .. Len(list) /\ Len(list) \in Nat
      /\ DOMAIN Append(list, s) = 1 .. Len(list) + 1
      /\ \A i \in 1 .. Len(list) : Append(list, s)[i] = list[i]
      /\ Append(list, s)[Len(list) + 1] = s
  OBVIOUS
<1>2. \A i \in 1 .. Len(list) + 1 : i \in 1 .. Len(list) \/ i = Len(list) + 1
  BY <1>1
<1>3. \A i \in 1 .. Len(list) : i \in 1 .. Len(list) + 1
  BY <1>1
<1>4. Len(list) + 1 \in 1 .. Len(list) + 1
  BY <1>1
<1>5. QED
  BY <1>1, <1>2, <1>3, <1>4 DEF Elements

LEMMA FrontElements ==
  ASSUME NEW S, NEW list \in Seq(S), NEW n \in 0 .. Len(list)
  PROVE  /\ SubSeq(list, 1, n) \in Seq(S)
         /\ Elements(SubSeq(list, 1, n)) = {list[i] : i \in 1 .. n}
         /\ n = Len(list) => SubSeq(list, 1, n) = list
<1>1. /\ DOMAIN list = 1 .. Len(list) /\ Len(list) \in Nat /\ n \in Nat
      /\ SubSeq(list, 1, n) \in Seq(S) /\ Len(SubSeq(list, 1, n)) = n
      /\ \A i \in 1 .. n : SubSeq(list, 1, n)[i] = list[i]
  OBVIOUS
<1>2. DOMAIN SubSeq(list, 1, n) = 1 .. n
  BY <1>1
<1>3. n = Len(list) => SubSeq(list, 1, n) = list
  <2>1. \A q, r \in Seq(S) :
           Len(q) = Len(r) /\ (\A i \in 1 .. Len(r) : q[i] = r[i]) => q = r
    OBVIOUS
  <2>2. QED
    BY <1>1, <2>1
<1>4. Elements(SubSeq(list, 1, n)) = {list[i] : i \in 1 .. n}
  BY <1>1, <1>2 DEF Elements
<1>5. QED
  BY <1>1, <1>3, <1>4

-----------------------------------------------------------------------------
(* The administration of MCP servers.                                      *)

(* The shape of the lists; a request that removes a name has read a list   *)
(* with it.                                                                *)
McpShape ==
    /\ configs \in Seq(Servers) /\ saved \in Seq(Servers)
    /\ admin \in [Admins -> {"idle", "adding", "removing", "shifting", "flagging",
                             "save-add", "save-remove", "save-flag"}]
    /\ target \in [Admins -> Servers \cup {"none"}]
    /\ seen \in [Admins -> Seq(Servers)]
    /\ mcpRaced \in BOOLEAN /\ unsaved \in BOOLEAN
    /\ \A a \in Admins : admin[a] # "idle" => target[a] \in Servers
    /\ \A a \in Admins : admin[a] \in {"removing", "shifting"} =>
                            target[a] \in Elements(seen[a])

(* A change of the list that is not in the file is about to be written.    *)
FileInv ==
    \/ unsaved \/ saved = configs
    \/ \E a \in Admins : admin[a] \in {"shifting", "save-add", "save-remove", "save-flag"}

(* Without a race one request at a time changes the list, from the list    *)
(* there is; while it removes a name the rest is before the last place.    *)
AloneInv ==
    /\ \A a, b \in Mcp!Changing : a = b
    /\ \A a \in Admins : admin[a] \in {"adding", "removing"} => seen[a] = configs
    /\ \A a \in Admins : admin[a] = "shifting" =>
          /\ Len(configs) = Len(seen[a])
          /\ Elements(configs) \ {target[a]} \subseteq {configs[i] : i \in 1 .. Len(configs) - 1}

AddedInv == mcpRaced \/ (AloneInv /\ mcpAdded \subseteq Elements(saved) \cap Elements(configs))

McpInv == McpShape /\ FileInv /\ AddedInv

LEMMA RequestKeeps ==
  ASSUME McpInv, NEW a \in Admins, NEW s \in Servers, NEW place,
         Mcp!Request(a, s, place),
         \/ place = "adding" /\ mcpRaced' = (mcpRaced \/ Mcp!Changing # {})
         \/ place = "removing" /\ s \in Mcp!Listed /\ mcpRaced' = (mcpRaced \/ Mcp!Changing # {})
         \/ place = "flagging" /\ mcpRaced' = mcpRaced
  PROVE  McpInv'
<1>a. McpShape /\ FileInv /\ AddedInv
  BY DEF McpInv
<1>1. /\ UNCHANGED <<configs, saved, unsaved, mcpAdded>>
      /\ admin[a] = "idle" /\ admin' = [admin EXCEPT ![a] = place]
      /\ target' = [target EXCEPT ![a] = s] /\ seen' = [seen EXCEPT ![a] = configs]
  BY DEF Mcp!Request, Mcp!memory, Mcp!disk
<1>2. /\ admin'[a] = place /\ target'[a] = s /\ seen'[a] = configs
      /\ \A b \in Admins \ {a} : admin'[b] = admin[b] /\ target'[b] = target[b] /\ seen'[b] = seen[b]
  BY <1>a, <1>1 DEF McpShape
<1>3. s \in Mcp!Listed => s \in Elements(configs)
  BY DEF Mcp!Listed, Elements
<1>4. McpShape'
  <2>1. mcpRaced' \in BOOLEAN
    BY <1>a DEF McpShape
  <2>2. /\ admin' \in [Admins -> {"idle", "adding", "removing", "shifting", "flagging",
                                  "save-add", "save-remove", "save-flag"}]
        /\ target' \in [Admins -> Servers \cup {"none"}]
        /\ seen' \in [Admins -> Seq(Servers)]
    BY <1>a, <1>1 DEF McpShape
  <2>3. ASSUME NEW b \in Admins
        PROVE  /\ admin'[b] # "idle" => target'[b] \in Servers
               /\ admin'[b] \in {"removing", "shifting"} => target'[b] \in Elements(seen'[b])
    BY <1>a, <1>2, <1>3 DEF McpShape
  <2>4. QED
    BY <1>a, <1>1, <2>1, <2>2, <2>3 DEF McpShape
<1>5. FileInv'
  BY <1>a, <1>1, <1>2 DEF FileInv
<1>6. AddedInv'
  <2>1. SUFFICES ASSUME ~mcpRaced' PROVE AloneInv' /\ mcpAdded' \subseteq Elements(saved)' \cap Elements(configs)'
    BY DEF AddedInv
  <2>2. ~mcpRaced /\ (place \in {"adding", "removing"} => Mcp!Changing = {})
    <3>1. CASE mcpRaced' = (mcpRaced \/ Mcp!Changing # {})
      BY <2>1, <3>1
    <3>2. CASE place = "flagging" /\ mcpRaced' = mcpRaced
      BY <2>1, <3>2
    <3>3. QED
      BY <3>1, <3>2
  <2>3. AloneInv /\ mcpAdded \subseteq Elements(saved) \cap Elements(configs)
    BY <1>a, <2>2 DEF AddedInv
  <2>4. \A b, c \in Mcp!Changing' : b = c
    BY <1>2, <2>2, <2>3 DEF AloneInv, Mcp!Changing
  <2>5. \A b \in Admins : admin'[b] \in {"adding", "removing"} => seen'[b] = configs'
    BY <1>1, <1>2, <2>3 DEF AloneInv
  <2>6. \A b \in Admins : admin'[b] = "shifting" =>
          /\ Len(configs') = Len(seen'[b])
          /\ Elements(configs') \ {target'[b]} \subseteq {configs'[i] : i \in 1 .. Len(configs') - 1}
    BY <1>1, <1>2, <2>3 DEF AloneInv
  <2>7. QED
    BY <1>1, <2>3, <2>4, <2>5, <2>6 DEF AloneInv
<1>7. QED
  BY <1>4, <1>5, <1>6 DEF McpInv

(* A step of a request after the first.                                    *)
LEMMA StepShape ==
  ASSUME McpShape, NEW a \in Admins, NEW place \in {"shifting", "save-add", "save-remove", "save-flag"},
         Mcp!Goto(a, place), UNCHANGED <<target, seen, saved, mcpRaced, unsaved>>,
         admin[a] # "idle", configs' \in Seq(Servers),
         place = "shifting" => admin[a] = "removing"
  PROVE  /\ McpShape'
         /\ admin'[a] = place /\ \A b \in Admins \ {a} : admin'[b] = admin[b]
<1>1. /\ admin'[a] = place /\ \A b \in Admins \ {a} : admin'[b] = admin[b]
      /\ admin' \in [Admins -> {"idle", "adding", "removing", "shifting", "flagging",
                                "save-add", "save-remove", "save-flag"}]
  BY DEF Mcp!Goto, McpShape
<1>2. ASSUME NEW b \in Admins
      PROVE  /\ admin'[b] # "idle" => target'[b] \in Servers
             /\ admin'[b] \in {"removing", "shifting"} => target'[b] \in Elements(seen'[b])
  BY <1>1 DEF McpShape
<1>3. QED
  BY <1>1, <1>2 DEF McpShape

LEMMA AppendKeeps ==
  ASSUME McpInv, NEW a \in Admins, Mcp!AppendConfig(a)
  PROVE  McpInv'
<1>a. McpShape /\ FileInv /\ AddedInv
  BY DEF McpInv
<1>1. /\ admin[a] = "adding" /\ Mcp!Goto(a, "save-add")
      /\ UNCHANGED <<saved, target, seen, mcpRaced, unsaved, mcpAdded>>
      /\ target[a] \in Servers /\ seen[a] \in Seq(Servers)
  BY <1>a DEF Mcp!AppendConfig, Mcp!disk, Mcp!history, McpShape
<1>2. /\ configs' \in Seq(Servers)
      /\ seen[a] = configs => Elements(configs)' = Elements(configs) \cup {target[a]}
  <2>1. CASE configs' = Append(seen[a], target[a])
    BY <1>1, <2>1, AppendElements
  <2>2. CASE /\ Len(configs) >= Len(seen[a])
             /\ configs' = Append(SubSeq(configs, 1, Len(seen[a])), target[a])
    <3>1. Len(seen[a]) \in 0 .. Len(configs) /\ configs \in Seq(Servers)
      BY <1>a, <1>1, <2>2 DEF McpShape
    <3>2. SubSeq(configs, 1, Len(seen[a])) \in Seq(Servers)
      BY <3>1, FrontElements
    <3>3. seen[a] = configs => SubSeq(configs, 1, Len(seen[a])) = configs
      BY <3>1, FrontElements
    <3>4. PICK list \in Seq(Servers) : list = SubSeq(configs, 1, Len(seen[a]))
      BY <3>2
    <3>5. configs' = Append(list, target[a]) /\ (seen[a] = configs => list = configs)
      BY <2>2, <3>3, <3>4
    <3>6. QED
      BY <1>1, <3>5, AppendElements
  <2>3. QED
    BY <2>1, <2>2 DEF Mcp!AppendConfig
<1>3. McpShape' /\ admin'[a] = "save-add" /\ \A b \in Admins \ {a} : admin'[b] = admin[b]
  BY <1>a, <1>1, <1>2, StepShape
<1>4. FileInv'
  BY <1>3 DEF FileInv
<1>5. AddedInv'
  <2>1. SUFFICES ASSUME ~mcpRaced PROVE AddedInv'
    BY <1>1 DEF AddedInv
  <2>2. AloneInv /\ mcpAdded \subseteq Elements(saved) \cap Elements(configs)
    BY <1>a, <2>1 DEF AddedInv
  <2>3. a \in Mcp!Changing /\ seen[a] = configs
    BY <1>1, <2>2 DEF Mcp!Changing, AloneInv
  <2>4. \A b \in Admins : admin'[b] \notin {"adding", "removing", "shifting"}
    BY <1>3, <2>2, <2>3 DEF Mcp!Changing, AloneInv
  <2>5. AloneInv'
    BY <2>4 DEF Mcp!Changing, AloneInv
  <2>6. QED
    BY <1>1, <1>2, <2>2, <2>3, <2>5 DEF AddedInv, Elements
<1>6. QED
  BY <1>3, <1>4, <1>5 DEF McpInv

(* The first of the name is overwritten by what follows it.                *)
LEMMA ShiftKeeps ==
  ASSUME McpInv, NEW a \in Admins, Mcp!Shift(a)
  PROVE  McpInv'
<1>a. McpShape /\ FileInv /\ AddedInv
  BY DEF McpInv
<1>1. /\ admin[a] = "removing" /\ Mcp!Goto(a, "shifting")
      /\ UNCHANGED <<saved, target, seen, mcpRaced, unsaved>>
      /\ mcpAdded' = mcpAdded \ {target[a]}
  BY DEF Mcp!Shift, Mcp!disk
<1>2. PICK n, i : n = Len(seen[a]) /\ i = Mcp!Position(seen[a], target[a])
  OBVIOUS
<1>3. /\ seen[a] \in Seq(Servers) /\ n \in Nat
      /\ i \in 1 .. n /\ seen[a][i] = target[a]
  BY <1>a, <1>1, <1>2, PositionOf DEF McpShape, Elements
<1>4. configs' = IF Len(configs) < n THEN configs
                 ELSE [j \in DOMAIN configs |->
                         IF i <= j /\ j < n THEN configs[j + 1] ELSE configs[j]]
  BY <1>2 DEF Mcp!Shift
<1>5. configs \in Seq(Servers) /\ DOMAIN configs = 1 .. Len(configs) /\ Len(configs) \in Nat
  BY <1>a DEF McpShape
<1>6. configs' \in Seq(Servers)
  <2>1. CASE Len(configs) < n
    BY <1>4, <1>5, <2>1
  <2>2. CASE ~(Len(configs) < n)
    <3>1. configs' = [j \in 1 .. Len(configs) |->
                        IF i <= j /\ j < n THEN configs[j + 1] ELSE configs[j]]
      BY <1>4, <1>5, <2>2
    <3>2. ASSUME NEW j \in 1 .. Len(configs)
          PROVE  (IF i <= j /\ j < n THEN configs[j + 1] ELSE configs[j]) \in Servers
      <4>1. CASE i <= j /\ j < n
        <5>1. j + 1 \in 1 .. Len(configs)
          BY <1>3, <1>5, <2>2, <4>1
        <5>2. QED
          BY <1>5, <4>1, <5>1
      <4>2. CASE ~(i <= j /\ j < n)
        BY <1>5, <4>2
      <4>3. QED
        BY <4>1, <4>2
    <3>3. QED
      BY <1>5, <3>1, <3>2
  <2>3. QED
    BY <2>1, <2>2
<1>7. McpShape' /\ admin'[a] = "shifting" /\ \A b \in Admins \ {a} : admin'[b] = admin[b]
  BY <1>a, <1>1, <1>6, StepShape
<1>8. FileInv'
  BY <1>7 DEF FileInv
<1>9. AddedInv'
  <2>1. SUFFICES ASSUME ~mcpRaced PROVE AddedInv'
    BY <1>1 DEF AddedInv
  <2>2. AloneInv /\ mcpAdded \subseteq Elements(saved) \cap Elements(configs)
    BY <1>a, <2>1 DEF AddedInv
  <2>3. a \in Mcp!Changing /\ seen[a] = configs
    BY <1>1, <2>2 DEF Mcp!Changing, AloneInv
  <2>4. \A b \in Admins \ {a} : admin'[b] \notin {"adding", "removing", "shifting"}
    BY <1>7, <2>2, <2>3 DEF Mcp!Changing, AloneInv
  <2>5. n = Len(configs) /\ configs[i] = target[a]
    BY <1>2, <1>3, <2>3
  <2>6. /\ DOMAIN configs' = 1 .. n
        /\ \A j \in 1 .. n : configs'[j] = IF i <= j /\ j < n THEN configs[j + 1] ELSE configs[j]
    BY <1>4, <1>5, <2>5
  <2>7. Len(configs') = n
    BY <1>3, <1>6, <2>6
  <2>8. ASSUME NEW j \in 1 .. n, configs[j] # target[a]
        PROVE  configs[j] \in {configs'[k] : k \in 1 .. n - 1}
    <3>1. j # i
      BY <2>5, <2>8
    <3>2. CASE j < i
      <4>1. j \in 1 .. n - 1 /\ configs'[j] = configs[j]
        BY <1>3, <2>6, <3>2
      <4>2. QED
        BY <4>1
    <3>3. CASE i < j
      <4>1. j - 1 \in 1 .. n - 1 /\ j - 1 \in 1 .. n /\ configs'[j - 1] = configs[j]
        BY <1>3, <2>6, <3>3
      <4>2. QED
        BY <4>1
    <3>4. QED
      BY <1>3, <3>1, <3>2, <3>3
  <2>9. \A j \in 1 .. n : configs'[j] \in Elements(configs)
    <3>1. TAKE j \in 1 .. n
    <3>2. CASE i <= j /\ j < n
      <4>1. j + 1 \in 1 .. n
        BY <1>3, <3>2
      <4>2. QED
        BY <1>5, <2>5, <2>6, <3>2, <4>1 DEF Elements
    <3>3. CASE ~(i <= j /\ j < n)
      BY <1>5, <2>5, <2>6, <3>3 DEF Elements
    <3>4. QED
      BY <3>2, <3>3
  <2>10. Elements(configs') \ {target[a]} \subseteq {configs'[k] : k \in 1 .. n - 1}
    <3>1. ASSUME NEW x \in Elements(configs'), x # target[a]
          PROVE  x \in {configs'[k] : k \in 1 .. n - 1}
      <4>1. x \in Elements(configs)
        BY <2>6, <2>9, <3>1 DEF Elements
      <4>2. PICK j \in 1 .. n : configs[j] = x
        BY <1>5, <2>5, <4>1 DEF Elements
      <4>3. QED
        BY <2>8, <3>1, <4>2
    <3>2. QED
      BY <3>1
  <2>11. mcpAdded' \subseteq Elements(configs')
    <3>1. ASSUME NEW x \in mcpAdded'
          PROVE  x \in Elements(configs')
      <4>1. x \in Elements(configs) /\ x # target[a]
        BY <1>1, <2>2, <3>1
      <4>2. PICK j \in 1 .. n : configs[j] = x
        BY <1>5, <2>5, <4>1 DEF Elements
      <4>3. PICK k \in 1 .. n - 1 : configs'[k] = x
        BY <2>8, <4>1, <4>2
      <4>4. k \in 1 .. n
        BY <1>3
      <4>5. QED
        BY <2>6, <4>3, <4>4 DEF Elements
    <3>2. QED
      BY <3>1
  <2>12. AloneInv'
    <3>1. \A b, c \in Mcp!Changing' : b = c
      BY <2>4 DEF Mcp!Changing
    <3>2. ASSUME NEW b \in Admins, admin'[b] = "shifting"
          PROVE  /\ Len(configs') = Len(seen'[b])
                 /\ Elements(configs') \ {target'[b]} \subseteq {configs'[k] : k \in 1 .. Len(configs') - 1}
      BY <1>1, <1>2, <2>4, <2>7, <2>10, <3>2
    <3>3. \A b \in Admins : admin'[b] \notin {"adding", "removing"}
      BY <1>7, <2>4
    <3>4. QED
      BY <3>1, <3>2, <3>3 DEF AloneInv
  <2>13. mcpAdded' \subseteq Elements(saved)
    BY <1>1, <2>2
  <2>14. QED
    BY <1>1, <2>11, <2>12, <2>13 DEF AddedInv
<1>10. QED
  BY <1>7, <1>8, <1>9 DEF McpInv

(* The last place is dropped.                                              *)
LEMMA ResizeKeeps ==
  ASSUME McpInv, NEW a \in Admins, Mcp!Resize(a)
  PROVE  McpInv'
<1>a. McpShape /\ FileInv /\ AddedInv
  BY DEF McpInv
<1>1. /\ admin[a] = "shifting" /\ Mcp!Goto(a, "save-remove")
      /\ UNCHANGED <<saved, target, seen, mcpRaced, unsaved>>
      /\ mcpAdded' = mcpAdded \ {target[a]}
  BY DEF Mcp!Resize, Mcp!disk
<1>2. PICK n, i : n = Len(seen[a]) /\ i = Mcp!Position(seen[a], target[a])
  OBVIOUS
<1>3. /\ seen[a] \in Seq(Servers) /\ n \in Nat
      /\ i \in 1 .. n /\ seen[a][i] = target[a]
  BY <1>a, <1>1, <1>2, PositionOf DEF McpShape, Elements
<1>4. configs' = IF Len(configs) >= n THEN SubSeq(configs, 1, n - 1)
                 ELSE SubSeq(seen[a], 1, i - 1) \o SubSeq(seen[a], i + 1, n)
  BY <1>2 DEF Mcp!Resize, Mcp!RemoveAt
<1>5. configs \in Seq(Servers) /\ Len(configs) \in Nat
  BY <1>a DEF McpShape
<1>6. /\ configs' \in Seq(Servers)
      /\ Len(configs) = n => Elements(configs') = {configs[j] : j \in 1 .. n - 1}
  <2>1. CASE Len(configs) >= n
    <3>1. n - 1 \in 0 .. Len(configs)
      BY <1>3, <1>5, <2>1
    <3>2. configs' = SubSeq(configs, 1, n - 1)
      BY <1>4, <2>1
    <3>3. QED
      BY <1>5, <3>1, <3>2, FrontElements
  <2>2. CASE ~(Len(configs) >= n)
    <3>1. SubSeq(seen[a], 1, i - 1) \in Seq(Servers) /\ SubSeq(seen[a], i + 1, n) \in Seq(Servers)
      BY <1>2, <1>3
    <3>2. QED
      BY <1>3, <1>4, <1>5, <2>2, <3>1
  <2>3. QED
    BY <2>1, <2>2
<1>7. McpShape' /\ admin'[a] = "save-remove" /\ \A b \in Admins \ {a} : admin'[b] = admin[b]
  BY <1>a, <1>1, <1>6, StepShape
<1>8. FileInv'
  BY <1>7 DEF FileInv
<1>9. AddedInv'
  <2>1. SUFFICES ASSUME ~mcpRaced PROVE AddedInv'
    BY <1>1 DEF AddedInv
  <2>2. AloneInv /\ mcpAdded \subseteq Elements(saved) \cap Elements(configs)
    BY <1>a, <2>1 DEF AddedInv
  <2>3. /\ a \in Mcp!Changing /\ Len(configs) = n
        /\ Elements(configs) \ {target[a]} \subseteq {configs[j] : j \in 1 .. n - 1}
    BY <1>1, <1>2, <2>2 DEF Mcp!Changing, AloneInv
  <2>4. \A b \in Admins : admin'[b] \notin {"adding", "removing", "shifting"}
    BY <1>7, <2>2, <2>3 DEF Mcp!Changing, AloneInv
  <2>5. AloneInv'
    BY <2>4 DEF Mcp!Changing, AloneInv
  <2>6. mcpAdded' \subseteq Elements(configs')
    BY <1>1, <1>6, <2>2, <2>3
  <2>7. QED
    BY <1>1, <2>2, <2>5, <2>6 DEF AddedInv
<1>10. QED
  BY <1>7, <1>8, <1>9 DEF McpInv

LEMMA FlagKeeps ==
  ASSUME McpInv, NEW a \in Admins, Mcp!SetFlag(a)
  PROVE  McpInv'
<1>a. McpShape /\ FileInv /\ AddedInv
  BY DEF McpInv
<1>1. /\ admin[a] = "flagging" /\ Mcp!Goto(a, "save-flag")
      /\ UNCHANGED <<configs, saved, target, seen, mcpRaced, unsaved, mcpAdded>>
  BY DEF Mcp!SetFlag, Mcp!disk, Mcp!history
<1>2. McpShape' /\ admin'[a] = "save-flag" /\ \A b \in Admins \ {a} : admin'[b] = admin[b]
  BY <1>a, <1>1, StepShape DEF McpShape
<1>3. FileInv'
  BY <1>2 DEF FileInv
<1>4. AddedInv'
  BY <1>a, <1>1, <1>2 DEF AddedInv, AloneInv, Mcp!Changing
<1>5. QED
  BY <1>2, <1>3, <1>4 DEF McpInv

(* What is written is the list there is, whoever changed it.               *)
LEMMA PersistKeeps ==
  ASSUME McpInv, NEW a \in Admins, Mcp!PersistConfig(a)
  PROVE  McpInv'
<1>a. McpShape /\ FileInv /\ AddedInv
  BY DEF McpInv
<1>1. /\ Mcp!Saving(a) /\ UNCHANGED <<configs, mcpRaced>>
      /\ admin' = [admin EXCEPT ![a] = "idle"]
      /\ target' = [target EXCEPT ![a] = "none"]
      /\ seen' = [seen EXCEPT ![a] = <<>>]
  BY DEF Mcp!PersistConfig, Mcp!Finish, Mcp!Goto, Mcp!memory
<1>2. /\ admin'[a] = "idle"
      /\ \A b \in Admins \ {a} : admin'[b] = admin[b] /\ target'[b] = target[b] /\ seen'[b] = seen[b]
  BY <1>a, <1>1 DEF McpShape
<1>3. \/ saved' = configs /\ unsaved' = FALSE /\ mcpAdded' \subseteq mcpAdded \cup Elements(configs)
      \/ UNCHANGED <<saved, mcpAdded>> /\ unsaved' = TRUE
  BY DEF Mcp!PersistConfig, Mcp!disk, Mcp!Listed, Elements
<1>4. McpShape'
  <2>1. /\ admin' \in [Admins -> {"idle", "adding", "removing", "shifting", "flagging",
                                  "save-add", "save-remove", "save-flag"}]
        /\ target' \in [Admins -> Servers \cup {"none"}]
        /\ seen' \in [Admins -> Seq(Servers)]
    BY <1>a, <1>1 DEF McpShape
  <2>2. configs' \in Seq(Servers) /\ saved' \in Seq(Servers) /\ mcpRaced' \in BOOLEAN
    BY <1>a, <1>1, <1>3 DEF McpShape
  <2>3. unsaved' \in BOOLEAN
    BY <1>3
  <2>4. ASSUME NEW b \in Admins
        PROVE  /\ admin'[b] # "idle" => target'[b] \in Servers
               /\ admin'[b] \in {"removing", "shifting"} => target'[b] \in Elements(seen'[b])
    BY <1>a, <1>2 DEF McpShape
  <2>5. QED
    BY <2>1, <2>2, <2>3, <2>4 DEF McpShape
<1>5. FileInv'
  BY <1>1, <1>3 DEF FileInv
<1>6. AddedInv'
  <2>1. SUFFICES ASSUME ~mcpRaced PROVE AddedInv'
    BY <1>1 DEF AddedInv
  <2>2. AloneInv /\ mcpAdded \subseteq Elements(saved) \cap Elements(configs)
    BY <1>a, <2>1 DEF AddedInv
  <2>3. AloneInv'
    <3>1. \A b, c \in Mcp!Changing' : b = c
      BY <1>2, <2>2 DEF AloneInv, Mcp!Changing
    <3>2. \A b \in Admins : admin'[b] \in {"adding", "removing"} => seen'[b] = configs'
      BY <1>1, <1>2, <2>2 DEF AloneInv
    <3>3. \A b \in Admins : admin'[b] = "shifting" =>
             /\ Len(configs') = Len(seen'[b])
             /\ Elements(configs') \ {target'[b]} \subseteq {configs'[i] : i \in 1 .. Len(configs') - 1}
      BY <1>1, <1>2, <2>2 DEF AloneInv
    <3>4. QED
      BY <3>1, <3>2, <3>3 DEF AloneInv
  <2>4. mcpAdded' \subseteq Elements(saved') \cap Elements(configs')
    BY <1>1, <1>3, <2>2
  <2>5. QED
    BY <2>3, <2>4 DEF AddedInv, Elements
<1>7. QED
  BY <1>4, <1>5, <1>6 DEF McpInv

(* The list is read from the file again, and no request is in progress.    *)
LEMMA RestartKeeps ==
  ASSUME McpInv, Mcp!Restart
  PROVE  McpInv'
<1>a. McpShape /\ FileInv /\ AddedInv
  BY DEF McpInv
<1>1. /\ configs' = saved /\ UNCHANGED <<saved, mcpRaced, mcpAdded>> /\ unsaved' = FALSE
      /\ admin' = [a \in Admins |-> "idle"]
      /\ target' = [a \in Admins |-> "none"]
      /\ seen' = [a \in Admins |-> <<>>]
  BY DEF Mcp!Restart, Mcp!disk
<1>2. McpShape'
  <2>1. unsaved' \in BOOLEAN
    BY <1>1
  <2>2. <<>> \in Seq(Servers)
    OBVIOUS
  <2>3. QED
    BY <1>a, <1>1, <2>1, <2>2 DEF McpShape
<1>3. FileInv'
  BY <1>1 DEF FileInv
<1>4. AddedInv'
  <2>1. \A b \in Admins : admin'[b] = "idle"
    BY <1>1
  <2>2. AloneInv'
    BY <2>1 DEF AloneInv, Mcp!Changing
  <2>3. mcpRaced \/ mcpAdded' \subseteq Elements(saved') \cap Elements(configs')
    BY <1>a, <1>1 DEF AddedInv
  <2>4. QED
    BY <1>1, <2>2, <2>3 DEF AddedInv, Elements
<1>5. QED
  BY <1>2, <1>3, <1>4 DEF McpInv

LEMMA McpInvariance ==
  ASSUME IsFiniteSet(Configured), Configured \subseteq Servers
  PROVE  Mcp!Spec => []McpInv
<1>1. Mcp!Init => McpInv
  <2>1. SUFFICES ASSUME Mcp!Init PROVE McpInv
    OBVIOUS
  <2>2. configs \in Seq(Configured) /\ saved = configs
    BY <2>1, ListOfSet DEF Mcp!Init
  <2>3. configs \in Seq(Servers) /\ <<>> \in Seq(Servers)
    BY <2>2
  <2>4. mcpRaced \in BOOLEAN /\ unsaved \in BOOLEAN
    BY <2>1 DEF Mcp!Init
  <2>5. McpShape
    BY <2>1, <2>2, <2>3, <2>4 DEF Mcp!Init, McpShape
  <2>6. FileInv
    BY <2>2 DEF FileInv
  <2>7. AddedInv
    BY <2>1 DEF Mcp!Init, AddedInv, AloneInv, Mcp!Changing
  <2>8. QED
    BY <2>5, <2>6, <2>7 DEF McpInv
<1>2. McpInv /\ [Mcp!Next]_Mcp!vars => McpInv'
  <2>1. SUFFICES ASSUME McpInv, [Mcp!Next]_Mcp!vars PROVE McpInv'
    OBVIOUS
  <2>2. CASE \E a \in Admins, s \in Servers :
               Mcp!AddServer(a, s) \/ Mcp!RemoveServer(a, s) \/ Mcp!SetServerEnabled(a, s)
    <3>1. PICK a \in Admins, s \in Servers :
             Mcp!AddServer(a, s) \/ Mcp!RemoveServer(a, s) \/ Mcp!SetServerEnabled(a, s)
      BY <2>2
    <3>2. CASE Mcp!AddServer(a, s)
      BY <2>1, <3>2, RequestKeeps DEF Mcp!AddServer
    <3>3. CASE Mcp!RemoveServer(a, s)
      BY <2>1, <3>3, RequestKeeps DEF Mcp!RemoveServer
    <3>4. CASE Mcp!SetServerEnabled(a, s)
      BY <2>1, <3>4, RequestKeeps DEF Mcp!SetServerEnabled
    <3>5. QED
      BY <3>1, <3>2, <3>3, <3>4
  <2>3. CASE \E a \in Admins : Mcp!AppendConfig(a) \/ Mcp!Shift(a) \/ Mcp!Resize(a)
                               \/ Mcp!SetFlag(a) \/ Mcp!PersistConfig(a)
    BY <2>1, <2>3, AppendKeeps, ShiftKeeps, ResizeKeeps, FlagKeeps, PersistKeeps
  <2>4. CASE Mcp!Restart
    BY <2>1, <2>4, RestartKeeps
  <2>5. CASE UNCHANGED Mcp!vars
    <3>1. UNCHANGED <<configs, saved, admin, target, seen, mcpRaced, unsaved, mcpAdded>>
      BY <2>5 DEF Mcp!vars, Mcp!memory, Mcp!disk, Mcp!request, Mcp!history
    <3>2. McpShape' /\ FileInv'
      BY <2>1, <3>1 DEF McpInv, McpShape, FileInv, Elements
    <3>3. AloneInv => AloneInv'
      BY <3>1 DEF AloneInv, Mcp!Changing, Elements
    <3>4. AddedInv'
      BY <2>1, <3>1, <3>3 DEF McpInv, AddedInv, Elements
    <3>5. QED
      BY <3>2, <3>4 DEF McpInv
  <2>6. QED
    BY <2>1, <2>2, <2>3, <2>4, <2>5 DEF Mcp!Next
<1>3. QED
  BY <1>1, <1>2, PTL DEF Mcp!Spec

(* For any number of clients and servers, failed writes and restarts: with *)
(* no request in progress the file has the list in memory unless it could  *)
(* not be written (mcp_manager.go:117), and a server whose addition was    *)
(* acknowledged stays, over restarts, until it is removed, unless requests *)
(* changed the list at the same time (plugin.go:78-92).                    *)
THEOREM AdministrationConsistent ==
  ASSUME IsFiniteSet(Configured), Configured \subseteq Servers
  PROVE  Mcp!Spec => []Mcp!McpConsistent
<1>1. McpInv => Mcp!McpConsistent
  <2>1. SUFFICES ASSUME McpInv PROVE Mcp!FileAgrees /\ Mcp!AddedStays
    BY DEF Mcp!McpConsistent
  <2>2. Mcp!FileAgrees
    BY <2>1 DEF McpInv, FileInv, Mcp!FileAgrees, Mcp!Quiet
  <2>3. Mcp!AddedStays
    BY <2>1 DEF McpInv, AddedInv, Elements, Mcp!AddedStays, Mcp!Listed
  <2>4. QED
    BY <2>2, <2>3
<1>2. QED
  BY <1>1, McpInvariance, PTL


-----------------------------------------------------------------------------
(* The embedding client.                                                   *)

(* The texts of the batches that were sent.                                *)
Sent == IF batch * BatchSize < texts THEN batch * BatchSize ELSE texts

(* There are at most as many vectors as texts were sent, and if there are  *)
(* as many, no answer was short: each vector is at its text's place.       *)
VectorsInv ==
    /\ texts \in Nat /\ batch \in Nat /\ vectors \in Seq(Int)
    /\ Len(vectors) <= Sent
    /\ Len(vectors) = Sent => \A i \in 1 .. Len(vectors) : vectors[i] = i
    /\ phase = "stored" => Len(vectors) = texts

(* The sum, batch * BatchSize + BatchSize, is all the arithmetic needed of *)
(* the product.                                                            *)
LEMMA AnsweredKeeps ==
  ASSUME BatchSize \in Nat \ {0}, VectorsInv, NEW n \in 1 .. BatchSize, Embedder!Answered(n)
  PROVE  VectorsInv'
<1>1. PICK sofar : sofar = batch * BatchSize
  OBVIOUS
<1>2. sofar \in Nat /\ (batch + 1) * BatchSize = sofar + BatchSize
  BY <1>1 DEF VectorsInv
<1>3. PICK old, new : /\ old = vectors /\ old \in Seq(Int)
                      /\ new = [i \in 1 .. n |-> sofar + 1 + i - 1]
  BY DEF VectorsInv
<1>4. /\ vectors' = old \o new /\ batch' = batch + 1 /\ texts' = texts
      /\ phase' \in {"embedded", "sending"}
  BY <1>1, <1>3 DEF Embedder!Answered, Embedder!First
<1>5. PICK least : least = IF sofar < texts THEN sofar ELSE texts
  OBVIOUS
<1>6. /\ least \in Nat /\ Len(old) \in Nat /\ Len(old) <= least
      /\ Len(old) = least => \A i \in 1 .. Len(old) : old[i] = i
  BY <1>1, <1>2, <1>3, <1>5 DEF VectorsInv, Sent
<1>7. sofar + n <= texts
  BY <1>1, <1>2 DEF Embedder!Answered, Embedder!First, Embedder!LastOf, VectorsInv
<1>8. new \in Seq(Int) /\ Len(new) = n
  BY <1>2, <1>3
<1>9. /\ old \o new \in Seq(Int) /\ Len(old \o new) = Len(old) + n
      /\ \A i \in 1 .. Len(old) : (old \o new)[i] = old[i]
      /\ \A i \in 1 .. n : (old \o new)[Len(old) + i] = new[i]
  BY <1>3, <1>6, <1>8
<1>10. PICK most : most = IF sofar + BatchSize < texts THEN sofar + BatchSize ELSE texts
  OBVIOUS
<1>11. Sent' = most
  BY <1>2, <1>4, <1>10 DEF Sent
<1>12. least = sofar /\ Len(old) + n <= most
  BY <1>2, <1>5, <1>6, <1>7, <1>10
<1>13. ASSUME Len(old) + n = most, NEW i \in 1 .. Len(old) + n
       PROVE  (old \o new)[i] = i
  <2>1. Len(old) = sofar
    BY <1>2, <1>6, <1>7, <1>10, <1>12, <1>13
  <2>2. CASE i \in 1 .. Len(old)
    BY <1>6, <1>9, <1>12, <2>1, <2>2
  <2>3. CASE i \notin 1 .. Len(old)
    <3>1. PICK j \in 1 .. n : i = Len(old) + j
      <4>1. i - Len(old) \in 1 .. n /\ i = Len(old) + (i - Len(old))
        BY <1>6, <1>13, <2>3
      <4>2. QED
        BY <4>1
    <3>2. new[j] = sofar + j
      BY <1>2, <1>3, <3>1
    <3>3. QED
      BY <1>9, <2>1, <3>1, <3>2
  <2>4. QED
    BY <2>2, <2>3
<1>14. QED
  BY <1>4, <1>8, <1>9, <1>11, <1>12, <1>13 DEF VectorsInv

LEMMA EmbeddingInvariance ==
  ASSUME BatchSize \in Nat \ {0}
  PROVE  Embedder!Spec => []VectorsInv
<1>1. Embedder!Init => VectorsInv
  <2>1. SUFFICES ASSUME Embedder!Init PROVE VectorsInv
    OBVIOUS
  <2>2. texts \in Nat /\ batch = 0 /\ vectors = <<>> /\ phase = "sending"
    BY <2>1 DEF Embedder!Init
  <2>3. <<>> \in Seq(Int) /\ Len(<<>>) = 0 /\ 0 * BatchSize = 0
    OBVIOUS
  <2>4. QED
    BY <2>2, <2>3 DEF VectorsInv, Sent
<1>2. VectorsInv /\ [Embedder!Next]_Embedder!embedVars => VectorsInv'
  <2>1. SUFFICES ASSUME VectorsInv, [Embedder!Next]_Embedder!embedVars PROVE VectorsInv'
    OBVIOUS
  <2>2. CASE \E n \in 1 .. BatchSize : Embedder!Answered(n)
    BY <2>1, <2>2, AnsweredKeeps
  <2>3. CASE \/ Embedder!CancelContext \/ Embedder!Refused \/ Embedder!Failed
             \/ Embedder!Retry \/ Embedder!StoreVectors \/ UNCHANGED Embedder!embedVars
    <3>1. /\ UNCHANGED <<texts, vectors, batch>>
          /\ phase' = phase \/ phase' # "stored" \/ Len(vectors) = texts
      BY <2>3 DEF Embedder!CancelContext, Embedder!Refused, Embedder!Failed,
                  Embedder!Retry, Embedder!StoreVectors, Embedder!embedVars
    <3>2. QED
      BY <2>1, <3>1 DEF VectorsInv, Sent
  <2>4. QED
    BY <2>1, <2>2, <2>3 DEF Embedder!Next, Embedder!Embed
<1>3. QED
  BY <1>1, <1>2, PTL DEF Embedder!Spec

(* For any number of texts and any size of a batch: what is stored with a  *)
(* chunk is the vector of that chunk's text, however batches were answered *)
(* short, failed and repeated (openai.go:140, knowledge.go:202).           *)
THEOREM StoredVectorsMatch ==
  ASSUME BatchSize \in Nat \ {0}
  PROVE  Embedder!Spec => []Embedder!VectorsMatchTexts
<1>1. VectorsInv => Embedder!VectorsMatchTexts
  <2>1. SUFFICES ASSUME VectorsInv, phase = "stored"
                 PROVE  vectors = [i \in 1 .. texts |-> i]
    BY DEF Embedder!VectorsMatchTexts
  <2>2. /\ vectors \in Seq(Int) /\ texts \in Nat /\ Len(vectors) = texts /\ texts <= Sent
    BY <2>1 DEF VectorsInv
  <2>3. PICK sofar : sofar = batch * BatchSize /\ sofar \in Nat
    BY <2>1 DEF VectorsInv
  <2>4. Sent = texts
    BY <2>2, <2>3 DEF Sent
  <2>5. \A i \in 1 .. texts : vectors[i] = i
    BY <2>1, <2>2, <2>4 DEF VectorsInv
  <2>6. QED
    BY <2>2, <2>5
<1>2. QED
  BY <1>1, EmbeddingInvariance, PTL

-----------------------------------------------------------------------------
(* The sessions, messages and todos tables.                                *)

StoreShape ==
    /\ recent \in Seq(Sessions) /\ storeMade \subseteq Sessions
    /\ storeRows \subseteq [id : Messages, session : Sessions, parts : Nat]
    /\ saves \in [Messages -> Nat] /\ storeSaved \in [Messages -> Nat]
    /\ storeOwner \in [Messages -> Sessions \cup {"none"}]
    /\ todos \subseteq Sessions /\ offset \in Nat

(* A session has one row, and none unless it was created.                  *)
ListedInv ==
    /\ \A i, j \in 1 .. Len(recent) : recent[i] = recent[j] => i = j
    /\ \A i \in 1 .. Len(recent) : recent[i] \in storeMade

(* A message has one row, of the session it is written in and with what    *)
(* was last saved of it.                                                   *)
RowsInv ==
    /\ \A r \in storeRows : r.session = storeOwner[r.id] /\ r.parts = storeSaved[r.id]
    /\ \A m \in Messages : storeSaved[m] > 0 /\ Store!Exists(storeOwner[m]) =>
          Store!HasRow(m)

(* A message is written in one session, which was created, from its first  *)
(* save on.                                                                *)
OwnerInv ==
    \A m \in Messages :
        /\ storeOwner[m] # "none" => storeOwner[m] \in storeMade
        /\ storeSaved[m] > 0 => storeOwner[m] # "none"

(* What the listing client has passed it was shown, or need not be.        *)
PassedInv ==
    \A i \in 1 .. Len(recent) : i <= offset => recent[i] \in storeShown \cup skipped

StoreInv ==
    StoreShape /\ ListedInv /\ Store!NoOrphans /\ RowsInv /\ OwnerInv /\ PassedInv

LEMMA Concatenated ==
  ASSUME NEW S, NEW f \in Seq(S), NEW b \in Seq(S)
  PROVE  /\ f \o b \in Seq(S) /\ Len(f \o b) = Len(f) + Len(b)
         /\ \A i \in 1 .. Len(f) + Len(b) :
               (f \o b)[i] = IF i <= Len(f) THEN f[i] ELSE b[i - Len(f)]
  OBVIOUS

(* Taking a session out of the list.                                       *)
LEMMA ListWithout ==
  ASSUME StoreShape, ListedInv, NEW s \in Sessions, Store!Exists(s)
  PROVE  \E p \in 1 .. Len(recent) :
            /\ recent[p] = s
            /\ Store!Without(s) \in Seq(Sessions)
            /\ Len(Store!Without(s)) = Len(recent) - 1
            /\ \A i \in 1 .. Len(recent) - 1 :
                  Store!Without(s)[i] = IF i < p THEN recent[i] ELSE recent[i + 1]
<1> DEFINE p == Store!Position(s)
<1>1. p \in 1 .. Len(recent) /\ recent[p] = s
  BY DEF StoreShape, Store!Exists, Store!Contains, Store!Position
<1> HIDE DEF p
<1>2. PICK q \in 1 .. Len(recent) : q = p
  BY <1>1
<1>3. Store!Without(s) = SubSeq(recent, 1, q - 1) \o SubSeq(recent, q + 1, Len(recent))
  BY <1>2 DEF Store!Without, Store!RemoveAt, p
<1>4. PICK front : front = SubSeq(recent, 1, q - 1)
  OBVIOUS
<1>5. PICK back : back = SubSeq(recent, q + 1, Len(recent))
  OBVIOUS
<1>6. /\ front \in Seq(Sessions) /\ Len(front) = q - 1
      /\ \A i \in 1 .. q - 1 : front[i] = recent[i]
  BY <1>4 DEF StoreShape
<1>7. /\ back \in Seq(Sessions) /\ Len(back) = Len(recent) - q
      /\ \A i \in 1 .. Len(recent) - q : back[i] = recent[i + q]
  BY <1>5 DEF StoreShape
<1>8. front \o back \in Seq(Sessions) /\ Len(front \o back) = Len(recent) - 1
  <2>1. Len(recent) \in Nat
    BY DEF StoreShape
  <2>2. q - 1 + (Len(recent) - q) = Len(recent) - 1
    BY <2>1
  <2>3. Len(front \o back) = Len(front) + Len(back)
    BY <1>6, <1>7, Concatenated
  <2>4. front \o back \in Seq(Sessions)
    BY <1>6, <1>7, Concatenated
  <2>5. QED
    BY <1>6, <1>7, <2>2, <2>3, <2>4
<1>9. ASSUME NEW i \in 1 .. Len(recent) - 1
      PROVE  (front \o back)[i] = IF i < q THEN recent[i] ELSE recent[i + 1]
  <2>1. Len(recent) \in Nat
    BY DEF StoreShape
  <2>2. CASE i < q
    <3>1. i \in 1 .. q - 1 /\ i \in 1 .. Len(front)
      BY <2>2, <2>1, <1>6
    <3>2. (front \o back)[i] = front[i]
      BY <3>1, <1>6, <1>7, Concatenated
    <3>3. QED
      BY <3>1, <3>2, <2>2, <1>6
  <2>3. CASE ~(i < q)
    <3>1. i - (q - 1) \in 1 .. Len(recent) - q /\ i > Len(front) /\ i <= Len(front) + Len(back)
      BY <2>3, <2>1, <1>6, <1>7
    <3>2. (front \o back)[i] = back[i - Len(front)]
      BY <3>1, <1>6, <1>7
    <3>3. i - Len(front) = i - (q - 1) /\ (i - (q - 1)) + q = i + 1
      BY <2>1, <1>6
    <3>4. QED
      BY <3>1, <3>2, <3>3, <2>3, <1>7
  <2>4. QED
    BY <2>2, <2>3
<1>10. Store!Without(s) = front \o back /\ recent[q] = s
  BY <1>1, <1>2, <1>3, <1>4, <1>5
<1>11. QED
  BY <1>8, <1>9, <1>10

(* The list after an action that changes it: a new session in front, one   *)
(* moved to the front, or one taken out.                                   *)
Put(s)  == recent' = <<s>> \o recent /\ s \notin storeMade /\ storeMade' = storeMade \cup {s}
MoveUp(s) == recent' = <<s>> \o Store!Without(s) /\ Store!Exists(s) /\ storeMade' = storeMade
TakeOut(s) == recent' = Store!Without(s) /\ Store!Exists(s) /\ storeMade' = storeMade

LEMMA ListChange ==
  ASSUME StoreShape, ListedInv, PassedInv, NEW s \in Sessions,
         Put(s) \/ MoveUp(s) \/ TakeOut(s),
         offset' = offset, storeShown' = storeShown,
         skipped' = IF TakeOut(s) THEN Sessions ELSE skipped \cup {s}
  PROVE  /\ recent' \in Seq(Sessions) /\ ListedInv' /\ PassedInv'
         /\ \A t : Store!Contains(recent', t) <=>
               IF TakeOut(s) THEN t # s /\ Store!Contains(recent, t)
                          ELSE t = s \/ Store!Contains(recent, t)
<1> DEFINE n == Len(recent)
<1>0. n \in Nat /\ recent \in Seq(Sessions) /\ offset \in Nat
  BY DEF StoreShape
<1>1. CASE Put(s)
  <2>1. Len(recent') = n + 1 /\ recent' \in Seq(Sessions)
        /\ \A i \in 1 .. n + 1 : recent'[i] = IF i = 1 THEN s ELSE recent[i - 1]
    BY <1>0, <1>1, Concatenated DEF Put
  <2>2. ListedInv'
    BY <1>0, <1>1, <2>1 DEF ListedInv, Put
  <2>3. PassedInv'
    BY <1>0, <1>1, <2>1 DEF PassedInv, Put, TakeOut
  <2>4. ASSUME NEW t PROVE Store!Contains(recent', t) <=> t = s \/ Store!Contains(recent, t)
    <3>1. recent'[1] = s /\ 1 \in 1 .. n + 1
      BY <1>0, <2>1
    <3>2. ASSUME NEW j \in 1 .. n PROVE j + 1 \in 1 .. n + 1 /\ recent'[j + 1] = recent[j]
      BY <1>0, <2>1
    <3>3. ASSUME NEW i \in 1 .. n + 1, i # 1 PROVE i - 1 \in 1 .. n /\ recent'[i] = recent[i - 1]
      BY <1>0, <2>1, <3>3
    <3>4. QED
      BY <2>1, <3>1, <3>2, <3>3 DEF Store!Contains
  <2>5. ~TakeOut(s)
    BY <1>1 DEF Put, TakeOut, Store!Exists, Store!Contains, ListedInv
  <2>6. QED
    BY <2>1, <2>2, <2>3, <2>4, <2>5
<1>2. CASE MoveUp(s)
  <2>1. PICK p \in 1 .. n :
            /\ recent[p] = s
            /\ Store!Without(s) \in Seq(Sessions)
            /\ Len(Store!Without(s)) = n - 1
            /\ \A i \in 1 .. n - 1 :
                  Store!Without(s)[i] = IF i < p THEN recent[i] ELSE recent[i + 1]
    BY <1>2, ListWithout DEF MoveUp
  <2>2. Len(recent') = n /\ recent' \in Seq(Sessions)
    BY <1>0, <1>2, <2>1, Concatenated DEF MoveUp
  <2>3. \A i \in 1 .. n : recent'[i] =
            recent[IF i = 1 THEN p ELSE IF i <= p THEN i - 1 ELSE i]
    BY <1>0, <1>2, <2>1, Concatenated DEF MoveUp
  <2>4. ListedInv'
    <3>1. ASSUME NEW i \in 1 .. n
          PROVE  (IF i = 1 THEN p ELSE IF i <= p THEN i - 1 ELSE i) \in 1 .. n
      BY <1>0, <2>1
    <3>2. \A i \in 1 .. n : recent'[i] \in storeMade'
      BY <1>2, <2>3, <3>1 DEF ListedInv, MoveUp
    <3>3. ASSUME NEW i \in 1 .. n, NEW j \in 1 .. n, recent'[i] = recent'[j]
          PROVE  i = j
      <4>1. (IF i = 1 THEN p ELSE IF i <= p THEN i - 1 ELSE i)
              = (IF j = 1 THEN p ELSE IF j <= p THEN j - 1 ELSE j)
        BY <2>3, <3>1, <3>3 DEF ListedInv
      <4>2. QED
        BY <4>1, <1>0, <2>1
    <3>4. QED
      BY <2>2, <3>2, <3>3 DEF ListedInv
  <2>5. ~TakeOut(s)
    BY <1>0, <1>2, <2>1, <2>2 DEF MoveUp, TakeOut
  <2>6. PassedInv'
    BY <1>0, <2>1, <2>2, <2>3, <2>5 DEF PassedInv
  <2>7. \A t : Store!Contains(recent', t) <=> Store!Contains(recent, t)
    <3>1. \A j \in 1 .. n : \E i \in 1 .. n : recent'[i] = recent[j]
      <4> TAKE j \in 1 .. n
      <4>1. CASE j = p
        BY <4>1, <1>0, <2>1, <2>3
      <4>2. CASE j < p
        <5>1. j + 1 \in 1 .. n /\ j + 1 # 1 /\ j + 1 <= p /\ (j + 1) - 1 = j
          BY <4>2, <1>0, <2>1
        <5>2. QED
          BY <5>1, <2>3
      <4>3. CASE j > p
        BY <4>3, <1>0, <2>1, <2>3
      <4>4. QED
        BY <4>1, <4>2, <4>3, <1>0, <2>1
    <3>2. \A i \in 1 .. n : \E j \in 1 .. n : recent'[i] = recent[j]
      BY <1>0, <2>1, <2>3
    <3>3. QED
      BY <3>1, <3>2, <2>2 DEF Store!Contains
  <2>8. Store!Contains(recent, s)
    BY <1>2 DEF MoveUp, Store!Exists
  <2>9. QED
    BY <2>2, <2>4, <2>5, <2>6, <2>7, <2>8
<1>3. CASE TakeOut(s)
  <2>1. PICK p \in 1 .. n :
            /\ recent[p] = s
            /\ recent' \in Seq(Sessions)
            /\ Len(recent') = n - 1
            /\ \A i \in 1 .. n - 1 :
                  recent'[i] = IF i < p THEN recent[i] ELSE recent[i + 1]
    BY <1>3, ListWithout DEF TakeOut
  <2>2. ListedInv'
    <3>1. ASSUME NEW i \in 1 .. n - 1
          PROVE  /\ (IF i < p THEN i ELSE i + 1) \in 1 .. n
                 /\ recent'[i] = recent[IF i < p THEN i ELSE i + 1]
      BY <1>0, <2>1
    <3>2. \A i \in 1 .. n - 1 : recent'[i] \in storeMade'
      BY <1>3, <3>1 DEF ListedInv, TakeOut
    <3>3. ASSUME NEW i \in 1 .. n - 1, NEW j \in 1 .. n - 1, recent'[i] = recent'[j]
          PROVE  i = j
      <4>1. (IF i < p THEN i ELSE i + 1) = (IF j < p THEN j ELSE j + 1)
        BY <3>1, <3>3 DEF ListedInv
      <4>2. QED
        BY <4>1, <1>0, <2>1
    <3>4. QED
      BY <2>1, <3>2, <3>3 DEF ListedInv
  <2>3. PassedInv'
    BY <1>0, <1>3, <2>1 DEF PassedInv
  <2>4. ASSUME NEW t PROVE Store!Contains(recent', t) <=> t # s /\ Store!Contains(recent, t)
    <3>1. ASSUME NEW i \in 1 .. n - 1, recent'[i] = t
          PROVE  t # s /\ \E j \in 1 .. n : recent[j] = t
      BY <1>0, <2>1, <3>1 DEF ListedInv
    <3>2. ASSUME NEW j \in 1 .. n, recent[j] = t, t # s
          PROVE  \E i \in 1 .. n - 1 : recent'[i] = t
      <4>1. CASE j < p
        BY <4>1, <3>2, <1>0, <2>1
      <4>2. CASE j > p
        <5>1. j - 1 \in 1 .. n - 1 /\ ~(j - 1 < p) /\ (j - 1) + 1 = j
          BY <4>2, <1>0, <2>1
        <5>2. QED
          BY <5>1, <3>2, <2>1
      <4>3. QED
        BY <4>1, <4>2, <3>2, <1>0, <2>1
    <3>3. QED
      BY <3>1, <3>2, <2>1 DEF Store!Contains
  <2>5. QED
    BY <1>3, <2>1, <2>2, <2>3, <2>4
<1>4. QED
  BY <1>1, <1>2, <1>3

(* Whether a session exists is not changed by a step that leaves the list. *)
LEMMA ListStays ==
  ASSUME StoreShape, ListedInv, PassedInv, recent' = recent, storeMade' = storeMade,
         offset' = offset, storeShown' = storeShown, skipped' = skipped
  PROVE  recent' \in Seq(Sessions) /\ ListedInv' /\ PassedInv'
  BY DEF StoreShape, ListedInv, PassedInv

(* A save replaces the row of its message, or adds it, or fails.           *)
LEMMA SaveKeeps ==
  ASSUME "none" \notin Sessions, StoreInv, NEW m \in Messages, NEW s \in Sessions,
         Store!AddMessage(m, s) \/ Store!UpdateMessage(m, s) \/ Store!UpsertMessage(m, s)
  PROVE  StoreInv'
<1>1. /\ Store!Save(m, s)
      /\ \/ Store!Insert(m, s)
         \/ Store!HasRow(m) /\ Store!Replace(m, s)
         \/ UNCHANGED <<storeRows, storeSaved>>
  BY DEF Store!AddMessage, Store!UpdateMessage, Store!UpsertMessage, Store!RowsOf,
         Store!HasRow
<1>2. /\ UNCHANGED <<recent, storeMade, todos, offset, storeShown, skipped>>
      /\ s \in storeMade /\ storeOwner[m] \in {"none", s}
      /\ storeOwner' = [storeOwner EXCEPT ![m] = s]
      /\ saves' = [saves EXCEPT ![m] = saves[m] + 1]
  BY <1>1 DEF Store!Save, Store!tableVars, Store!pageVars
<1>3. recent' \in Seq(Sessions) /\ ListedInv' /\ PassedInv'
  BY <1>2, ListStays DEF StoreInv
<1>4. StoreShape /\ RowsInv /\ OwnerInv /\ Store!NoOrphans
  BY DEF StoreInv
<1>5. \A t : Store!Exists(t)' <=> Store!Exists(t)
  BY <1>2 DEF Store!Exists
<1>6. saves[m] + 1 \in Nat /\ saves[m] + 1 > 0
  BY <1>4 DEF StoreShape
<1>7. OwnerInv'
  <2>1. \A k \in Messages : k # m => storeOwner'[k] = storeOwner[k]
    BY <1>2, <1>4 DEF StoreShape
  <2>2. storeOwner'[m] = s
    BY <1>2, <1>4 DEF StoreShape
  <2>3. \A k \in Messages : k # m => storeSaved'[k] = storeSaved[k]
    BY <1>1, <1>4 DEF StoreShape, Store!Insert, Store!Replace
  <2>4. QED
    BY <1>2, <1>4, <2>1, <2>2, <2>3 DEF OwnerInv
<1>8. \A r \in storeRows : r.id = m => r.session = s /\ storeOwner[m] = s
  BY <1>2, <1>4 DEF RowsInv, StoreShape
<1>9. \A r \in storeRows : r.session = storeOwner'[r.id]
  BY <1>2, <1>4, <1>8 DEF RowsInv, StoreShape
<1>10. ASSUME Store!Insert(m, s), Store!Exists(s), ~Store!HasRow(m)
       PROVE  StoreShape' /\ RowsInv' /\ Store!NoOrphans'
  <2>1. PICK new : new = [id |-> m, session |-> s, parts |-> saves[m] + 1]
    OBVIOUS
  <2>2. /\ new \in [id : Messages, session : Sessions, parts : Nat]
        /\ new.id = m /\ new.session = s /\ new.parts = saves[m] + 1
    BY <2>1, <1>6
  <2>3. /\ storeRows' = storeRows \cup {new}
        /\ storeSaved' = [storeSaved EXCEPT ![m] = saves[m] + 1]
    BY <2>1, <1>10 DEF Store!Insert
  <2>4. StoreShape'
    BY <1>2, <1>3, <1>4, <1>6, <2>2, <2>3 DEF StoreShape
  <2>5. \A r \in storeRows : r.id \in Messages /\ r.id # m
    BY <1>4, <1>10 DEF StoreShape, Store!HasRow
  <2>6. ASSUME NEW r \in storeRows' PROVE r.session = storeOwner'[r.id] /\ r.parts = storeSaved'[r.id]
    BY <1>2, <1>4, <1>9, <2>2, <2>3, <2>5 DEF StoreShape, RowsInv
  <2>7. ASSUME NEW k \in Messages, storeSaved'[k] > 0, Store!Contains(recent', storeOwner'[k])
        PROVE  \E r \in storeRows' : r.id = k
    <3>1. CASE k = m
      BY <3>1, <2>2, <2>3
    <3>2. CASE k # m
      <4>1. storeSaved[k] > 0 /\ Store!Exists(storeOwner[k])
        BY <3>2, <2>7, <1>2, <1>4, <2>3 DEF StoreShape, Store!Exists
      <4>2. QED
        BY <4>1, <1>4, <2>3 DEF RowsInv, Store!HasRow
    <3>3. QED
      BY <3>1, <3>2
  <2>8. RowsInv'
    BY <2>6, <2>7 DEF RowsInv, Store!HasRow, Store!Exists
  <2>9. Store!NoOrphans'
    BY <1>2, <1>4, <1>10, <2>2, <2>3 DEF Store!NoOrphans, Store!Exists
  <2>10. QED
    BY <2>4, <2>8, <2>9
<1>11. ASSUME Store!HasRow(m), Store!Replace(m, s)
       PROVE  StoreShape' /\ RowsInv' /\ Store!NoOrphans'
  <2> DEFINE After(r) == IF r.id = m THEN [r EXCEPT !.parts = saves[m] + 1] ELSE r
  <2>1. /\ storeRows' = {After(r) : r \in storeRows}
        /\ storeSaved' = [storeSaved EXCEPT ![m] = saves[m] + 1]
    BY <1>11 DEF Store!Replace
  <2>2. ASSUME NEW r \in storeRows
        PROVE  /\ After(r) \in [id : Messages, session : Sessions, parts : Nat]
               /\ After(r).id = r.id /\ After(r).session = r.session
               /\ After(r).parts = IF r.id = m THEN saves[m] + 1 ELSE r.parts
    BY <1>4, <1>6 DEF StoreShape
  <2> HIDE DEF After
  <2>3. \A r \in storeRows : r.id \in Messages /\ r.parts \in Nat
    BY <1>4 DEF StoreShape
  <2>4. StoreShape'
    BY <1>2, <1>3, <1>4, <1>6, <2>1, <2>2 DEF StoreShape
  <2>5. ASSUME NEW r \in storeRows
        PROVE  After(r).session = storeOwner'[r.id] /\ After(r).parts = storeSaved'[r.id]
    BY <1>4, <1>9, <2>1, <2>2, <2>3 DEF RowsInv, StoreShape
  <2>6. ASSUME NEW k \in Messages, storeSaved'[k] > 0, Store!Contains(recent', storeOwner'[k])
        PROVE  \E r \in storeRows : r.id = k
    <3>1. CASE k = m
      BY <3>1, <1>11 DEF Store!HasRow
    <3>2. CASE k # m
      <4>1. storeSaved[k] > 0 /\ Store!Exists(storeOwner[k])
        BY <3>2, <2>6, <1>2, <1>4, <2>1 DEF StoreShape, Store!Exists
      <4>2. QED
        BY <4>1, <1>4 DEF RowsInv, Store!HasRow
    <3>3. QED
      BY <3>1, <3>2
  <2>7. RowsInv'
    BY <2>1, <2>2, <2>5, <2>6 DEF RowsInv, Store!HasRow, Store!Exists
  <2>8. Store!NoOrphans'
    BY <1>2, <1>4, <2>1, <2>2 DEF Store!NoOrphans, Store!Exists
  <2>9. QED
    BY <2>4, <2>7, <2>8
<1>12. ASSUME UNCHANGED <<storeRows, storeSaved>>
       PROVE  StoreShape' /\ RowsInv' /\ Store!NoOrphans'
  <2>1. StoreShape'
    BY <1>2, <1>3, <1>4, <1>6, <1>12 DEF StoreShape
  <2>2. ASSUME NEW k \in Messages, storeSaved[k] > 0, Store!Contains(recent, storeOwner'[k])
        PROVE  Store!HasRow(k)
    <3>1. CASE k # m \/ storeOwner[m] = s
      BY <3>1, <2>2, <1>2, <1>4 DEF RowsInv, StoreShape, Store!Exists
    <3>2. CASE k = m /\ storeOwner[m] = "none"
      BY <3>2, <2>2, <1>4 DEF OwnerInv
    <3>3. QED
      BY <3>1, <3>2, <1>2
  <2>3. RowsInv'
    BY <1>2, <1>4, <1>9, <1>12, <2>2 DEF RowsInv, Store!HasRow, Store!Exists
  <2>4. Store!NoOrphans'
    BY <1>2, <1>4, <1>12 DEF Store!NoOrphans, Store!Exists
  <2>5. QED
    BY <2>1, <2>3, <2>4
<1>13. StoreShape' /\ RowsInv' /\ Store!NoOrphans'
  BY <1>1, <1>10, <1>11, <1>12 DEF Store!Insert
<1>14. QED
  BY <1>3, <1>7, <1>13 DEF StoreInv

(* Deleting a session takes its rows along, or is refused because of them. *)
LEMMA DeleteKeeps ==
  ASSUME StoreInv, NEW s \in Sessions, Store!DeleteSession(s)
  PROVE  StoreInv'
<1>1. /\ Store!Exists(s)
      /\ UNCHANGED <<storeMade, saves, storeSaved, storeOwner, offset, storeShown>>
  BY DEF Store!DeleteSession
<1>2. StoreShape /\ ListedInv /\ PassedInv /\ RowsInv /\ OwnerInv /\ Store!NoOrphans
  BY DEF StoreInv
<1>3. OwnerInv'
  BY <1>1, <1>2 DEF OwnerInv
<1>4. CASE UNCHANGED <<recent, storeRows, todos, skipped>>
  <2>1. recent' \in Seq(Sessions) /\ ListedInv' /\ PassedInv'
    BY <1>1, <1>2, <1>4, ListStays
  <2>2. StoreShape' /\ Store!NoOrphans' /\ RowsInv'
    BY <1>1, <1>2, <1>4 DEF StoreShape, RowsInv, Store!NoOrphans, Store!Exists, Store!HasRow
  <2>3. QED
    BY <1>3, <2>1, <2>2 DEF StoreInv
<1>5. CASE /\ recent' = Store!Without(s) /\ storeRows' = storeRows \ Store!RowsOf(s)
           /\ todos' = todos \ {s} /\ skipped' = Sessions
  <2>1. TakeOut(s)
    BY <1>1, <1>5 DEF TakeOut
  <2>2. /\ recent' \in Seq(Sessions) /\ ListedInv' /\ PassedInv'
        /\ \A t : Store!Contains(recent', t) <=> t # s /\ Store!Contains(recent, t)
    BY <1>1, <1>2, <1>5, <2>1, ListChange
  <2>3. \A r : r \in storeRows' <=> r \in storeRows /\ r.session # s
    BY <1>5 DEF Store!RowsOf
  <2>4. StoreShape'
    BY <1>1, <1>2, <1>5, <2>2, <2>3 DEF StoreShape
  <2>5. Store!NoOrphans'
    BY <1>2, <1>5, <2>2, <2>3 DEF Store!NoOrphans, Store!Exists
  <2>6. RowsInv'
    BY <1>1, <1>2, <2>2, <2>3 DEF RowsInv, Store!Exists, Store!HasRow
  <2>7. QED
    BY <1>3, <2>2, <2>4, <2>5, <2>6 DEF StoreInv
<1>6. QED
  BY <1>4, <1>5 DEF Store!DeleteSession

LEMMA ListedKeeps ==
  ASSUME StoreInv, NEW s \in Sessions, Store!CreateSession(s) \/ Store!Touch(s)
  PROVE  StoreInv'
<1>1. /\ Put(s) \/ MoveUp(s)
      /\ UNCHANGED <<todos, storeRows, saves, storeSaved, storeOwner, offset, storeShown>>
      /\ skipped' = skipped \cup {s}
  BY DEF Store!CreateSession, Store!Touch, Store!rowVars, Put, MoveUp
<1>2. StoreShape /\ ListedInv /\ PassedInv /\ RowsInv /\ OwnerInv /\ Store!NoOrphans
  BY DEF StoreInv
<1>3. ~TakeOut(s)
  <2>1. CASE Put(s)
    BY <1>2, <2>1 DEF Put, TakeOut, ListedInv, Store!Exists, Store!Contains
  <2>2. CASE MoveUp(s)
    <3>1. PICK list : list = Store!Without(s) /\ list \in Seq(Sessions)
      BY <1>2, <2>2, ListWithout DEF MoveUp
    <3>2. Len(<<s>> \o list) = 1 + Len(list) /\ Len(list) \in Nat
      BY <3>1, Concatenated
    <3>3. <<s>> \o list # list
      BY <3>2
    <3>4. QED
      BY <3>1, <3>3, <2>2 DEF MoveUp, TakeOut
  <2>3. QED
    BY <1>1, <2>1, <2>2
<1>4. /\ recent' \in Seq(Sessions) /\ ListedInv' /\ PassedInv'
      /\ \A t : Store!Contains(recent', t) <=> t = s \/ Store!Contains(recent, t)
  BY <1>1, <1>2, <1>3, ListChange
<1>5. storeMade \subseteq storeMade' /\ storeMade' \subseteq Sessions
  BY <1>1, <1>2 DEF Put, MoveUp, StoreShape
<1>6. StoreShape' /\ OwnerInv'
  BY <1>1, <1>2, <1>4, <1>5 DEF StoreShape, OwnerInv
<1>7. Store!NoOrphans'
  BY <1>1, <1>2, <1>4 DEF Store!NoOrphans, Store!Exists
<1>8. ASSUME NEW m \in Messages, storeSaved[m] > 0, storeOwner[m] = s, Store!Contains(recent', s)
      PROVE  Store!Exists(s)
  <2>1. CASE Put(s)
    BY <2>1, <1>2, <1>8 DEF Put, OwnerInv
  <2>2. CASE MoveUp(s)
    BY <2>2 DEF MoveUp
  <2>3. QED
    BY <1>1, <2>1, <2>2
<1>9. RowsInv'
  BY <1>1, <1>2, <1>4, <1>8 DEF RowsInv, Store!HasRow, Store!Exists
<1>10. QED
  BY <1>4, <1>6, <1>7, <1>9 DEF StoreInv

LEMMA TodosKeep ==
  ASSUME StoreInv, NEW s \in Sessions, Store!CreateTodo(s) \/ Store!DeleteTodos(s)
  PROVE  StoreInv'
<1>1. /\ UNCHANGED <<recent, storeMade, storeRows, saves, storeSaved, storeOwner, offset,
                     storeShown, skipped>>
      /\ \/ todos' = todos \cup {s} /\ Store!Exists(s)
         \/ todos' = todos \ {s}
  BY DEF Store!CreateTodo, Store!DeleteTodos, Store!rowVars, Store!pageVars
<1>2. recent' \in Seq(Sessions) /\ ListedInv' /\ PassedInv'
  BY <1>1, ListStays DEF StoreInv
<1>3. StoreShape' /\ Store!NoOrphans'
  BY <1>1 DEF StoreInv, StoreShape, Store!NoOrphans, Store!Exists
<1>4. RowsInv' /\ OwnerInv'
  BY <1>1 DEF StoreInv, RowsInv, OwnerInv, Store!HasRow, Store!Exists
<1>5. QED
  BY <1>2, <1>3, <1>4 DEF StoreInv

LEMMA PagesKeep ==
  ASSUME PageSize \in Nat, StoreInv,
         Store!StartListing \/ Store!ListSessions \/ UNCHANGED Store!storeVars
  PROVE  StoreInv'
<1>1. /\ UNCHANGED <<recent, storeMade, storeRows, saves, storeSaved, storeOwner, todos>>
      /\ \/ offset' = 0
         \/ /\ offset' = offset + PageSize /\ skipped' = skipped
            /\ storeShown' = storeShown \cup {recent[i] : i \in Store!PageAt(offset)}
         \/ UNCHANGED <<offset, storeShown, skipped>>
  BY DEF Store!StartListing, Store!ListSessions, Store!storeVars, Store!tableVars,
         Store!rowVars, Store!pageVars
<1>2. StoreShape' /\ ListedInv' /\ Store!NoOrphans' /\ RowsInv' /\ OwnerInv'
  BY <1>1 DEF StoreInv, StoreShape, ListedInv, Store!NoOrphans, RowsInv, OwnerInv,
              Store!HasRow, Store!Exists
<1>3. PassedInv'
  BY <1>1 DEF StoreInv, StoreShape, PassedInv, Store!PageAt
<1>4. QED
  BY <1>2, <1>3 DEF StoreInv

LEMMA StoreInvariance ==
  ASSUME "none" \notin Sessions, PageSize \in Nat
  PROVE  Store!Spec => []StoreInv
<1>1. Store!Init => StoreInv
  BY DEF Store!Init, StoreInv, StoreShape, ListedInv, RowsInv, OwnerInv, PassedInv,
         Store!NoOrphans, Store!HasRow
<1>2. ASSUME StoreInv, [Store!Next]_Store!storeVars PROVE StoreInv'
  <2>1. ASSUME NEW s \in Sessions, Store!CreateSession(s) \/ Store!Touch(s)
                  \/ Store!CreateTodo(s) \/ Store!DeleteTodos(s) \/ Store!DeleteSession(s)
        PROVE  StoreInv'
    BY <1>2, <2>1, ListedKeeps, TodosKeep, DeleteKeeps
  <2>2. ASSUME NEW m \in Messages, NEW s \in Sessions,
               Store!AddMessage(m, s) \/ Store!UpdateMessage(m, s) \/ Store!UpsertMessage(m, s)
        PROVE  StoreInv'
    BY <1>2, <2>2, SaveKeeps
  <2>3. QED
    BY <1>2, <2>1, <2>2, PagesKeep DEF Store!Next
<1>3. QED
  BY <1>1, <1>2, PTL DEF Store!Spec

(* No row outlives its session, a message that was saved is read back as   *)
(* it was last saved, and paging misses no session (message.go,            *)
(* session.go, handlers.go).                                               *)
THEOREM TablesConsistent ==
  ASSUME "none" \notin Sessions, PageSize \in Nat
  PROVE  Store!Spec => []Store!StoreConsistent
<1>1. StoreInv => Store!StoreConsistent
  <2> SUFFICES ASSUME StoreInv PROVE Store!StoreConsistent
    OBVIOUS
  <2>1. Store!ListingMissesNone
    BY DEF StoreInv, StoreShape, PassedInv, Store!ListingMissesNone
  <2>2. ASSUME NEW m \in Messages, storeSaved[m] > 0, Store!Exists(storeOwner[m])
        PROVE  {r \in storeRows : r.id = m}
                  = {[id |-> m, session |-> storeOwner[m], parts |-> storeSaved[m]]}
    <3> DEFINE row == [id |-> m, session |-> storeOwner[m], parts |-> storeSaved[m]]
    <3>1. ASSUME NEW r \in storeRows, r.id = m PROVE r = row
      BY <3>1 DEF StoreInv, StoreShape, RowsInv
    <3>2. \E r \in storeRows : r.id = m
      BY <2>2 DEF StoreInv, RowsInv, Store!HasRow
    <3>3. row \in storeRows /\ row.id = m
      BY <3>1, <3>2
    <3>4. QED
      BY <3>1, <3>3
  <2>3. QED
    BY <2>1, <2>2 DEF StoreInv, Store!StoreConsistent, Store!SavedIsRead
<1>2. QED
  BY <1>1, StoreInvariance, PTL

-----------------------------------------------------------------------------
(* What hooks add to a call of the model.                                  *)

HookNames == {"kb", "custom", "todos", "memory", "skills"}
Carried == RecalledFiles \cup HookNames

PromptShape ==
    /\ promptStage \in [Chats -> {"prompt", "asked", "chosen", "knowledge", "ready",
                                  "calling", "over"}]
    /\ calls \in [Chats -> Nat]
    /\ added \in [Chats -> Seq(Carried)] /\ request \in [Chats -> Seq(Carried)]
    /\ promptChosen \in [Chats -> Seq(RecalledFiles)] /\ reads \in [Chats -> Nat]
    /\ injections \in [Chats -> Seq(RecalledFiles)]
    /\ disk \subseteq RecalledFiles /\ cache \subseteq RecalledFiles
    /\ shown \in [RecalledFiles -> Nat]

Held(c) == Prompt!ToSet(added[c])
Named(c) == Prompt!ToSet(promptChosen[c])
Ready(c) == Prompt!ToSet(injections[c])
KbFirst(m) == \A i \in 1 .. Len(m) : m[i] = "kb" => i = 1

(* What may be before the messages of a call, at each place of a loop.     *)
PromptPlaces ==
    \A c \in Chats :
        /\ promptStage[c] \in {"prompt", "asked", "chosen", "over"} =>
              Held(c) \cap (RecalledFiles \cup {"kb", "custom"}) = {}
        /\ promptStage[c] = "knowledge" => Held(c) \cap {"kb", "custom"} = {}
        /\ promptStage[c] = "ready" => "custom" \notin Held(c) /\ KbFirst(added[c])
        /\ promptStage[c] = "calling" =>
              /\ added[c] = <<"custom">> \o request[c]
              /\ "custom" \notin Prompt!ToSet(request[c]) /\ KbFirst(request[c])

(* A path that was read has become a message, or could not be read.        *)
ReadInv ==
    \A c \in Chats :
        /\ promptStage[c] # "chosen" => Named(c) = {} /\ Ready(c) = {} /\ reads[c] = 0
        /\ Ready(c) \subseteq Named(c)
        /\ \A i \in 1 .. reads[c] : promptChosen[c][i] \in Ready(c) \cup unread

(* A file that two chats have not chosen at once is in one place at most:  *)
(* chosen by one chat, in the call of one, or shown.                       *)
FilesInv ==
    /\ \A c \in Chats : Held(c) \cap RecalledFiles \subseteq cache
    /\ \A f \in RecalledFiles : shown[f] > 0 => f \in cache
    /\ \A f \in RecalledFiles \ promptOverlapped :
        /\ shown[f] <= 1
        /\ \A c \in Chats :
              /\ f \in Named(c) => f \notin cache
              /\ f \in Held(c) => shown[f] = 0
              /\ \A d \in Chats \ {c} :
                    /\ f \in Named(c) => f \notin Named(d)
                    /\ f \in Held(c) => f \notin Held(d)

PromptInv ==
    PromptShape /\ PromptPlaces /\ ReadInv /\ FilesInv /\ Prompt!RecordedWasShown

LEMMA InFront ==
  ASSUME NEW S, NEW f \in Seq(S), NEW b \in Seq(S)
  PROVE  /\ f \o b \in Seq(S)
         /\ Prompt!ToSet(f \o b) = Prompt!ToSet(f) \cup Prompt!ToSet(b)
<1>1. /\ DOMAIN f = 1 .. Len(f) /\ DOMAIN b = 1 .. Len(b)
      /\ Len(f) \in Nat /\ Len(b) \in Nat
  OBVIOUS
<1>2. f \o b \in Seq(S) /\ Len(f \o b) = Len(f) + Len(b)
  BY Concatenated
<1>3. DOMAIN (f \o b) = 1 .. Len(f) + Len(b)
  BY <1>2
<1>4. ASSUME NEW i \in 1 .. Len(f)
      PROVE  i \in 1 .. Len(f) + Len(b) /\ (f \o b)[i] = f[i]
  BY <1>1, Concatenated
<1>5. ASSUME NEW i \in 1 .. Len(b)
      PROVE  Len(f) + i \in 1 .. Len(f) + Len(b) /\ (f \o b)[Len(f) + i] = b[i]
  <2>1. /\ Len(f) + i \in 1 .. Len(f) + Len(b) /\ ~(Len(f) + i <= Len(f))
        /\ (Len(f) + i) - Len(f) = i
    BY <1>1
  <2>2. QED
    BY <2>1, Concatenated
<1>6. ASSUME NEW i \in 1 .. Len(f) + Len(b)
      PROVE  \/ i \in 1 .. Len(f) /\ (f \o b)[i] = f[i]
             \/ i - Len(f) \in 1 .. Len(b) /\ (f \o b)[i] = b[i - Len(f)]
  <2>1. CASE i <= Len(f)
    BY <2>1, <1>1, Concatenated
  <2>2. CASE ~(i <= Len(f))
    <3>1. i - Len(f) \in 1 .. Len(b)
      BY <2>2, <1>1
    <3>2. QED
      BY <2>2, <3>1, Concatenated
  <2>3. QED
    BY <2>1, <2>2
<1>7. Prompt!ToSet(f \o b) \subseteq Prompt!ToSet(f) \cup Prompt!ToSet(b)
  BY <1>1, <1>3, <1>6 DEF Prompt!ToSet
<1>8. Prompt!ToSet(f) \subseteq Prompt!ToSet(f \o b)
  BY <1>1, <1>3, <1>4 DEF Prompt!ToSet
<1>9. Prompt!ToSet(b) \subseteq Prompt!ToSet(f \o b)
  BY <1>1, <1>3, <1>5 DEF Prompt!ToSet
<1>10. QED
  BY <1>2, <1>7, <1>8, <1>9

LEMMA OneInFront ==
  ASSUME NEW S, NEW w \in S, NEW m \in Seq(S)
  PROVE  /\ <<w>> \o m \in Seq(S)
         /\ Prompt!ToSet(<<w>> \o m) = Prompt!ToSet(m) \cup {w}
<1>1. PICK f : f = <<w>>
  OBVIOUS
<1>2. f \in Seq(S)
  BY <1>1
<1>3. Prompt!ToSet(f) = {w}
  BY <1>1 DEF Prompt!ToSet
<1>4. f \o m \in Seq(S) /\ Prompt!ToSet(f \o m) = Prompt!ToSet(f) \cup Prompt!ToSet(m)
  BY <1>2, InFront
<1>5. QED
  BY <1>1, <1>3, <1>4

LEMMA SectionsRun ==
  ASSUME NEW S
  PROVE  /\ Prompt!Run(S) \in Seq(Carried)
         /\ Prompt!ToSet(Prompt!Run(S)) \subseteq {"todos", "memory", "skills"}
<1> DEFINE N == {"todos", "memory", "skills"}
           Part(i) == IF Prompt!Chain[i] \in S THEN <<Prompt!Chain[i]>> ELSE <<>>
<1>1. ASSUME NEW i \in 1 .. 3 PROVE Part(i) \in Seq(N)
  <2>1. Prompt!Chain[i] \in N
    <3>1. i = 1 \/ i = 2 \/ i = 3
      OBVIOUS
    <3>2. /\ Prompt!Chain[1] = "todos" /\ Prompt!Chain[2] = "memory"
          /\ Prompt!Chain[3] = "skills"
      BY DEF Prompt!Chain
    <3>3. QED
      BY <3>1, <3>2
  <2>2. PICK h \in N : h = Prompt!Chain[i]
    BY <2>1
  <2>3. Part(i) = <<h>> \/ Part(i) = <<>>
    BY <2>2
  <2>4. <<h>> \in Seq(N) /\ <<>> \in Seq(N)
    BY <2>2
  <2>5. QED
    BY <2>3, <2>4
<1>2. Prompt!Run(S) = Part(1) \o Part(2) \o Part(3)
  BY DEF Prompt!Run
<1> HIDE DEF Part
<1>3. Part(1) \in Seq(N) /\ Part(2) \in Seq(N) /\ Part(3) \in Seq(N)
  BY <1>1
<1>4. Part(1) \o Part(2) \in Seq(N)
  BY <1>3
<1>5. Part(1) \o Part(2) \o Part(3) \in Seq(N)
  BY <1>3, <1>4, Concatenated
<1>6. PICK r : r = Prompt!Run(S)
  OBVIOUS
<1>7. r \in Seq(N)
  BY <1>2, <1>5, <1>6
<1>8. r \in Seq(Carried) /\ Prompt!ToSet(r) \subseteq N
  <2>1. Len(r) \in Nat /\ DOMAIN r = 1 .. Len(r) /\ \A i \in 1 .. Len(r) : r[i] \in N
    BY <1>7
  <2>2. N \subseteq Carried
    BY DEF Carried, HookNames
  <2>3. r \in [1 .. Len(r) -> Carried]
    BY <1>7, <2>1, <2>2
  <2>4. QED
    BY <2>1, <2>3 DEF Prompt!ToSet
<1>9. QED
  BY <1>6, <1>8

HooksApart == RecalledFiles \cap HookNames = {}

LEMMA PromptAt ==
  \A c : \A place : Prompt!At(c, place) <=> promptStage[c] = place
  BY DEF Prompt!At

LEMMA HeldAfter ==
  ASSUME PromptShape, NEW c \in Chats, NEW m, added' = [added EXCEPT ![c] = m]
  PROVE  /\ added'[c] = m /\ Held(c)' = Prompt!ToSet(m)
         /\ \A d \in Chats \ {c} : added'[d] = added[d] /\ Held(d)' = Held(d)
  BY DEF PromptShape, Held

LEMMA StageAfter ==
  ASSUME PromptShape, NEW c \in Chats, NEW place, Prompt!Goto(c, place)
  PROVE  /\ promptStage'[c] = place
         /\ \A d \in Chats \ {c} : promptStage'[d] = promptStage[d]
  BY DEF PromptShape, Prompt!Goto

(* The places of the other chats.                                          *)
LEMMA PlacesOfOthers ==
  ASSUME PromptPlaces, NEW c \in Chats,
         \A d \in Chats \ {c} :
            /\ promptStage'[d] = promptStage[d] /\ added'[d] = added[d]
            /\ request'[d] = request[d],
         /\ promptStage'[c] \in {"prompt", "asked", "chosen", "over"} =>
               Held(c)' \cap (RecalledFiles \cup {"kb", "custom"}) = {}
         /\ promptStage'[c] = "knowledge" => Held(c)' \cap {"kb", "custom"} = {}
         /\ promptStage'[c] = "ready" => "custom" \notin Held(c)' /\ KbFirst(added'[c])
         /\ promptStage'[c] = "calling" =>
               /\ added'[c] = <<"custom">> \o request'[c]
               /\ "custom" \notin Prompt!ToSet(request'[c]) /\ KbFirst(request'[c])
  PROVE  PromptPlaces'
<1> SUFFICES ASSUME NEW d \in Chats
             PROVE  /\ promptStage'[d] \in {"prompt", "asked", "chosen", "over"} =>
                          Held(d)' \cap (RecalledFiles \cup {"kb", "custom"}) = {}
                    /\ promptStage'[d] = "knowledge" => Held(d)' \cap {"kb", "custom"} = {}
                    /\ promptStage'[d] = "ready" =>
                          "custom" \notin Held(d)' /\ KbFirst(added'[d])
                    /\ promptStage'[d] = "calling" =>
                          /\ added'[d] = <<"custom">> \o request'[d]
                          /\ "custom" \notin Prompt!ToSet(request'[d])
                          /\ KbFirst(request'[d])
  BY DEF PromptPlaces, KbFirst
<1>1. CASE d = c
  BY <1>1
<1>2. CASE d # c
  <2>1. /\ promptStage'[d] = promptStage[d] /\ added'[d] = added[d]
        /\ request'[d] = request[d]
    BY <1>2
  <2>2. Held(d)' = Held(d)
    BY <2>1 DEF Held
  <2>3. QED
    BY <2>1, <2>2 DEF PromptPlaces
<1>3. QED
  BY <1>1, <1>2

(* A step that leaves the paths a chat reads alone.                        *)
LEMMA ReadStays ==
  ASSUME ReadInv, UNCHANGED <<promptChosen, injections, reads, unread>>,
         \A d \in Chats : promptStage[d] = "chosen" => promptStage'[d] = "chosen"
  PROVE  ReadInv'
<1>1. \A d : Named(d)' = Named(d) /\ Ready(d)' = Ready(d)
  BY DEF Named, Ready
<1>2. QED
  BY <1>1 DEF ReadInv

(* A step that adds no file to a call, and takes none from one.            *)
LEMMA FilesStay ==
  ASSUME FilesInv, Prompt!RecordedWasShown,
         UNCHANGED <<promptChosen, cache, shown, promptOverlapped, failed, unread>>,
         \A d \in Chats :
            /\ Held(d)' \cap RecalledFiles = Held(d) \cap RecalledFiles
            /\ promptStage'[d] = "over" =>
                  promptStage[d] = "over" \/ Held(d) \cap RecalledFiles = {},
         cache \subseteq RecalledFiles
  PROVE  FilesInv' /\ Prompt!RecordedWasShown'
<1>1. /\ \A d \in Chats : \A f \in RecalledFiles : f \in Held(d)' <=> f \in Held(d)
      /\ \A d : Named(d)' = Named(d)
  BY DEF Named
<1>2. FilesInv'
  BY <1>1 DEF FilesInv
<1>3. ASSUME NEW f \in cache
      PROVE  \/ shown[f] > 0 \/ f \in failed \cup unread
             \/ \E c \in Chats : promptStage'[c] # "over" /\ f \in Held(c)'
  <2>1. CASE \E c \in Chats : promptStage[c] # "over" /\ f \in Held(c)
    BY <1>1, <2>1
  <2>2. QED
    BY <2>1 DEF Prompt!RecordedWasShown, Prompt!At, Held
<1>4. Prompt!RecordedWasShown'
  BY <1>3 DEF Prompt!RecordedWasShown, Prompt!At, Held
<1>5. QED
  BY <1>2, <1>4

LEMMA OnSystemPromptKeeps ==
  ASSUME HooksApart, PromptInv, NEW c \in Chats, NEW S, Prompt!OnSystemPrompt(c, S)
  PROVE  PromptInv'
<1> DEFINE m == Prompt!Run(S)
<1>1. /\ promptStage[c] = "prompt" /\ added' = [added EXCEPT ![c] = m]
      /\ UNCHANGED <<disk, calls, promptChosen, reads, injections, request, cache,
                     shown, unread, failed, promptOverlapped>>
      /\ PromptShape /\ PromptPlaces /\ ReadInv /\ FilesInv /\ Prompt!RecordedWasShown
  BY DEF Prompt!OnSystemPrompt, Prompt!At, Prompt!recallVars, Prompt!history, PromptInv
<1>2. PICK place \in {"asked", "over"} : Prompt!Goto(c, place)
  BY DEF Prompt!OnSystemPrompt
<1>3. m \in Seq(Carried) /\ Prompt!ToSet(m) \subseteq {"todos", "memory", "skills"}
  BY SectionsRun
<1> HIDE DEF m
<1>4. /\ added'[c] = m /\ Held(c)' = Prompt!ToSet(m)
      /\ \A d \in Chats \ {c} : added'[d] = added[d] /\ Held(d)' = Held(d)
  BY <1>1, HeldAfter
<1>5. /\ promptStage'[c] = place
      /\ \A d \in Chats \ {c} : promptStage'[d] = promptStage[d]
  BY <1>1, <1>2, StageAfter
<1>6. Held(c)' \cap (RecalledFiles \cup {"kb", "custom"}) = {}
  BY <1>3, <1>4 DEF HooksApart, HookNames
<1>7. PromptShape'
  BY <1>1, <1>2, <1>3 DEF PromptShape, Prompt!Goto
<1>8. Held(c) \cap RecalledFiles = {}
  BY <1>1 DEF PromptPlaces
<1>9. PromptPlaces' /\ ReadInv'
  <2>1. PromptPlaces'
    BY <1>1, <1>2, <1>4, <1>5, <1>6, PlacesOfOthers
  <2>2. QED
    BY <2>1, <1>1, <1>5, ReadStays
<1>10. FilesInv' /\ Prompt!RecordedWasShown'
  <2>1. ASSUME NEW d \in Chats
        PROVE  /\ Held(d)' \cap RecalledFiles = Held(d) \cap RecalledFiles
               /\ promptStage'[d] = "over" =>
                     promptStage[d] = "over" \/ Held(d) \cap RecalledFiles = {}
    BY <1>4, <1>5, <1>6, <1>8
  <2>2. cache \subseteq RecalledFiles
    BY <1>1 DEF PromptShape
  <2>3. QED
    BY <1>1, <2>1, <2>2, FilesStay
<1>11. QED
  BY <1>7, <1>9, <1>10 DEF PromptInv

LEMMA KBRecallKeeps ==
  ASSUME HooksApart, PromptInv, NEW c \in Chats, NEW b, Prompt!KBRecall(c, b)
  PROVE  PromptInv'
<1>1. /\ promptStage[c] = "knowledge" /\ Prompt!Goto(c, "ready")
      /\ UNCHANGED <<disk, calls, promptChosen, reads, injections, request, cache,
                     shown, unread, failed, promptOverlapped>>
      /\ PromptShape /\ PromptPlaces /\ ReadInv /\ FilesInv /\ Prompt!RecordedWasShown
  BY DEF Prompt!KBRecall, Prompt!At, Prompt!recallVars, Prompt!history, PromptInv
<1>2. PICK m : m = added[c]
  OBVIOUS
<1>3. m \in Seq(Carried) /\ Held(c) = Prompt!ToSet(m) /\ Held(c) \cap {"kb", "custom"} = {}
  BY <1>1, <1>2 DEF PromptShape, PromptPlaces, Held
<1>4. PICK n : n = <<"kb">> \o m
  OBVIOUS
<1>5. "kb" \in Carried
  BY DEF Carried, HookNames
<1>6. n \in Seq(Carried) /\ Prompt!ToSet(n) = Held(c) \cup {"kb"}
  BY <1>3, <1>4, <1>5, OneInFront
<1>7. \A i \in 1 .. Len(m) : m[i] # "kb"
  BY <1>3 DEF Prompt!ToSet
<1>8. KbFirst(m)
  BY <1>7 DEF KbFirst
<1>9. KbFirst(n)
  <2>1. /\ Len(<<"kb">>) = 1 /\ Len(m) \in Nat /\ Len(n) = 1 + Len(m)
        /\ \A i \in 1 .. 1 + Len(m) : n[i] = IF i <= 1 THEN <<"kb">>[i] ELSE m[i - 1]
    <3>1. <<"kb">> \in Seq(Carried)
      BY <1>5
    <3>2. QED
      BY <1>3, <1>4, <3>1, Concatenated
  <2>2. ASSUME NEW i \in 1 .. Len(n), i # 1 PROVE n[i] # "kb"
    <3>1. i - 1 \in 1 .. Len(m) /\ ~(i <= 1) /\ i \in 1 .. 1 + Len(m)
      BY <2>1, <2>2
    <3>2. QED
      BY <3>1, <2>1, <1>7
  <2>3. QED
    BY <2>2 DEF KbFirst
<1>10. PICK k : /\ k \in {m, n} /\ added' = [added EXCEPT ![c] = k]
  <2>1. CASE b
    BY <2>1, <1>2, <1>4 DEF Prompt!KBRecall, Prompt!Prepend
  <2>2. CASE ~b
    BY <2>2, <1>1, <1>2 DEF Prompt!KBRecall, PromptShape
  <2>3. QED
    BY <2>1, <2>2
<1>11. /\ added'[c] = k /\ Held(c)' = Prompt!ToSet(k)
       /\ \A d \in Chats \ {c} : added'[d] = added[d] /\ Held(d)' = Held(d)
  BY <1>1, <1>10, HeldAfter
<1>12. /\ promptStage'[c] = "ready"
       /\ \A d \in Chats \ {c} : promptStage'[d] = promptStage[d]
  BY <1>1, StageAfter
<1>13. k \in Seq(Carried) /\ KbFirst(k) /\ Held(c)' \subseteq Held(c) \cup {"kb"}
       /\ Held(c) \subseteq Held(c)'
  BY <1>3, <1>6, <1>8, <1>9, <1>10, <1>11
<1>14. PromptShape'
  BY <1>1, <1>10, <1>13 DEF PromptShape, Prompt!Goto
<1>15. "custom" \notin Held(c)'
  BY <1>1, <1>3, <1>13 DEF PromptPlaces
<1>16. PromptPlaces' /\ ReadInv'
  <2>1. PromptPlaces'
    BY <1>1, <1>11, <1>12, <1>13, <1>15, PlacesOfOthers
  <2>2. QED
    BY <2>1, <1>1, <1>12, ReadStays
<1>17. FilesInv' /\ Prompt!RecordedWasShown'
  <2>1. "kb" \notin RecalledFiles
    BY DEF HooksApart, HookNames
  <2>2. ASSUME NEW d \in Chats
        PROVE  /\ Held(d)' \cap RecalledFiles = Held(d) \cap RecalledFiles
               /\ promptStage'[d] = "over" =>
                     promptStage[d] = "over" \/ Held(d) \cap RecalledFiles = {}
    BY <2>1, <1>11, <1>12, <1>13
  <2>3. cache \subseteq RecalledFiles
    BY <1>1 DEF PromptShape
  <2>4. QED
    BY <1>1, <2>2, <2>3, FilesStay
<1>18. QED
  BY <1>14, <1>16, <1>17 DEF PromptInv

LEMMA SendKeeps ==
  ASSUME HooksApart, PromptInv, NEW c \in Chats, Prompt!Send(c)
  PROVE  PromptInv'
<1>1. /\ promptStage[c] = "ready" /\ Prompt!Goto(c, "calling")
      /\ request' = [request EXCEPT ![c] = added[c]]
      /\ added' = [added EXCEPT ![c] = <<"custom">> \o added[c]]
      /\ UNCHANGED <<disk, calls, promptChosen, reads, injections, cache, shown,
                     unread, failed, promptOverlapped>>
      /\ PromptShape /\ PromptPlaces /\ ReadInv /\ FilesInv /\ Prompt!RecordedWasShown
  BY DEF Prompt!Send, Prompt!At, Prompt!recallVars, Prompt!history, PromptInv
<1>2. PICK m : m = added[c]
  OBVIOUS
<1>3. /\ m \in Seq(Carried) /\ Held(c) = Prompt!ToSet(m)
      /\ "custom" \notin Held(c) /\ KbFirst(m)
  BY <1>1, <1>2 DEF PromptShape, PromptPlaces, Held
<1>4. PICK n : n = <<"custom">> \o m
  OBVIOUS
<1>5. "custom" \in Carried
  BY DEF Carried, HookNames
<1>6. n \in Seq(Carried) /\ Prompt!ToSet(n) = Held(c) \cup {"custom"}
  BY <1>3, <1>4, <1>5, OneInFront
<1>7. added' = [added EXCEPT ![c] = n] /\ request' = [request EXCEPT ![c] = m]
  BY <1>1, <1>2, <1>4
<1>8. /\ added'[c] = n /\ Held(c)' = Prompt!ToSet(n)
      /\ \A d \in Chats \ {c} : added'[d] = added[d] /\ Held(d)' = Held(d)
  BY <1>1, <1>7, HeldAfter
<1>9. /\ promptStage'[c] = "calling"
      /\ \A d \in Chats \ {c} : promptStage'[d] = promptStage[d]
  BY <1>1, StageAfter
<1>10. request'[c] = m /\ \A d \in Chats \ {c} : request'[d] = request[d]
  BY <1>1, <1>7 DEF PromptShape
<1>11. PromptShape'
  BY <1>1, <1>3, <1>6, <1>7 DEF PromptShape, Prompt!Goto
<1>12. PromptPlaces' /\ ReadInv'
  <2>1. PromptPlaces'
    BY <1>1, <1>3, <1>4, <1>8, <1>9, <1>10, PlacesOfOthers
  <2>2. QED
    BY <2>1, <1>1, <1>9, ReadStays
<1>13. FilesInv' /\ Prompt!RecordedWasShown'
  <2>1. "custom" \notin RecalledFiles
    BY DEF HooksApart, HookNames
  <2>2. ASSUME NEW d \in Chats
        PROVE  /\ Held(d)' \cap RecalledFiles = Held(d) \cap RecalledFiles
               /\ promptStage'[d] = "over" =>
                     promptStage[d] = "over" \/ Held(d) \cap RecalledFiles = {}
    BY <2>1, <1>6, <1>8, <1>9
  <2>3. cache \subseteq RecalledFiles
    BY <1>1 DEF PromptShape
  <2>4. QED
    BY <1>1, <2>2, <2>3, FilesStay
<1>14. QED
  BY <1>11, <1>12, <1>13 DEF PromptInv

LEMMA RecallSelectKeeps ==
  ASSUME PromptInv, NEW c \in Chats, NEW named \in Seq(RecalledFiles),
         Prompt!RecallSelect(c, named)
  PROVE  PromptInv'
<1> DEFINE new == Prompt!ToSet(named)
<1>1. /\ promptStage[c] = "asked"
      /\ Prompt!Goto(c, IF named = <<>> THEN "knowledge" ELSE "chosen")
      /\ promptChosen' = [promptChosen EXCEPT ![c] = named]
      /\ promptOverlapped' = promptOverlapped
            \cup UNION {new \cap Named(d) : d \in Chats \ {c}}
      /\ UNCHANGED <<disk, calls, added, reads, injections, request, cache, shown,
                     unread, failed>>
      /\ PromptShape /\ PromptPlaces /\ ReadInv /\ FilesInv /\ Prompt!RecordedWasShown
  BY DEF Prompt!RecallSelect, Prompt!At, PromptInv, Named
<1>2. new \subseteq RecalledFiles /\ new \cap cache = {} /\ (named = <<>> => new = {})
  BY DEF Prompt!RecallSelect, Prompt!ToSet
<1> HIDE DEF new
<1>3. PICK place \in {"knowledge", "chosen"} :
          /\ Prompt!Goto(c, place) /\ (place = "knowledge" => new = {})
  BY <1>1, <1>2
<1>4. /\ promptStage'[c] = place
      /\ \A d \in Chats \ {c} : promptStage'[d] = promptStage[d]
  BY <1>1, <1>3, StageAfter
<1>5. /\ Named(c)' = new /\ promptChosen'[c] = named
      /\ \A d \in Chats \ {c} : promptChosen'[d] = promptChosen[d] /\ Named(d)' = Named(d)
  BY <1>1 DEF PromptShape, Named, new
<1>6. \A d : Held(d)' = Held(d) /\ Ready(d)' = Ready(d)
  BY <1>1 DEF Held, Ready
<1>7. Held(c) \cap (RecalledFiles \cup {"kb", "custom"}) = {}
  BY <1>1 DEF PromptPlaces
<1>8. PromptShape'
  BY <1>1, <1>3 DEF PromptShape, Prompt!Goto
<1>9. PromptPlaces' /\ ReadInv'
  <2>1. PromptPlaces'
    BY <1>1, <1>3, <1>4, <1>6, <1>7, PlacesOfOthers
  <2>2. Named(c) = {} /\ Ready(c) = {} /\ reads[c] = 0
    BY <1>1 DEF ReadInv
  <2>3. ReadInv'
    BY <2>2, <1>1, <1>3, <1>4, <1>5, <1>6 DEF ReadInv
  <2>4. QED
    BY <2>1, <2>3
<1>10. \A f \in new : \A d \in Chats \ {c} : f \in Named(d) => f \in promptOverlapped'
  BY <1>1
<1>11. promptOverlapped \subseteq promptOverlapped'
  BY <1>1
<1>12. FilesInv'
  <2>1. ASSUME NEW f \in RecalledFiles \ promptOverlapped', NEW x \in Chats,
               NEW y \in Chats \ {x}, f \in Named(x)'
        PROVE  f \notin cache /\ f \notin Named(y)'
    <3>1. f \in RecalledFiles \ promptOverlapped
      BY <1>11
    <3>2. CASE x = c
      BY <3>2, <2>1, <1>2, <1>5, <1>10
    <3>3. CASE x # c
      <4>1. f \in Named(x)
        BY <3>3, <2>1, <1>5
      <4>2. f \notin cache
        BY <3>1, <4>1, <1>1 DEF FilesInv
      <4>3. CASE y = c
        <5>1. SUFFICES ASSUME f \in new PROVE FALSE
          BY <4>2, <4>3, <1>5
        <5>3. x \in Chats \ {c} /\ f \notin promptOverlapped'
          BY <3>3, <2>1
        <5>2. QED
          BY <5>1, <5>3, <4>1, <1>10
      <4>4. CASE y # c
        BY <4>4, <4>1, <4>2, <3>1, <1>1, <1>5 DEF FilesInv
      <4>5. QED
        BY <4>2, <4>3, <4>4
    <3>4. QED
      BY <3>2, <3>3
  <2>2. ASSUME NEW f \in RecalledFiles \ promptOverlapped', NEW x \in Chats,
               f \in Named(x)'
        PROVE  f \notin cache
    <3>1. f \in RecalledFiles \ promptOverlapped
      BY <1>11
    <3>2. CASE x = c
      BY <3>2, <2>2, <1>2, <1>5
    <3>3. CASE x # c
      BY <3>1, <3>3, <2>2, <1>1, <1>5 DEF FilesInv
    <3>4. QED
      BY <3>2, <3>3
  <2>3. QED
    BY <2>1, <2>2, <1>1, <1>6, <1>11 DEF FilesInv
<1>13. Prompt!RecordedWasShown'
  <2>1. ASSUME NEW f \in cache
        PROVE  \/ shown[f] > 0 \/ f \in failed \cup unread
               \/ \E d \in Chats : promptStage'[d] # "over" /\ f \in Held(d)
    <3>1. CASE \E d \in Chats : promptStage[d] # "over" /\ f \in Held(d)
      BY <3>1, <1>3, <1>4
    <3>2. QED
      BY <1>1, <3>1 DEF Prompt!RecordedWasShown, Prompt!At, Held
  <2>2. QED
    BY <1>1, <2>1 DEF Prompt!RecordedWasShown, Prompt!At, Held
<1>14. QED
  BY <1>8, <1>9, <1>12, <1>13 DEF PromptInv

LEMMA RecallReadKeeps ==
  ASSUME PromptInv, NEW c \in Chats, Prompt!RecallRead(c)
  PROVE  PromptInv'
<1>1. /\ promptStage[c] = "chosen" /\ reads[c] < Len(promptChosen[c])
      /\ reads' = [reads EXCEPT ![c] = reads[c] + 1]
      /\ UNCHANGED <<disk, promptStage, calls, added, promptChosen, request, cache,
                     shown, failed, promptOverlapped>>
      /\ PromptShape /\ PromptPlaces /\ ReadInv /\ FilesInv /\ Prompt!RecordedWasShown
  BY DEF Prompt!RecallRead, Prompt!At, PromptInv
<1>2. PICK list : list = promptChosen[c]
  OBVIOUS
<1>3. PICK k : k = reads[c]
  OBVIOUS
<1>4. /\ list \in Seq(RecalledFiles) /\ k \in Nat /\ k < Len(list)
      /\ k + 1 \in 1 .. Len(list) /\ DOMAIN list = 1 .. Len(list)
  BY <1>1, <1>2, <1>3 DEF PromptShape
<1>5. PICK f \in RecalledFiles : f = list[k + 1]
  BY <1>4
<1>6. f \in Named(c)
  BY <1>2, <1>4, <1>5 DEF Named, Prompt!ToSet
<1>7. \/ /\ injections' = [injections EXCEPT ![c] = Append(injections[c], f)]
         /\ unread' = unread
      \/ /\ unread' = unread \cup {f} /\ injections' = injections
  BY <1>2, <1>3, <1>5 DEF Prompt!RecallRead
<1>8. \A d : Held(d)' = Held(d) /\ Named(d)' = Named(d)
  BY <1>1 DEF Held, Named
<1>9. /\ unread \subseteq unread' /\ injections' \in [Chats -> Seq(RecalledFiles)]
      /\ Ready(c) \subseteq Ready(c)' /\ Ready(c)' \subseteq Ready(c) \cup {f}
      /\ f \in Ready(c)' \cup unread'
      /\ \A d \in Chats \ {c} : Ready(d)' = Ready(d)
  <2>1. CASE injections' = [injections EXCEPT ![c] = Append(injections[c], f)]
             /\ unread' = unread
    <3>1. PICK w : w = injections[c]
      OBVIOUS
    <3>2. w \in Seq(RecalledFiles) /\ Ready(c) = Prompt!ToSet(w)
      BY <3>1, <1>1 DEF PromptShape, Ready
    <3>3. PICK v : v = Append(w, f)
      OBVIOUS
    <3>4. /\ v \in Seq(RecalledFiles) /\ DOMAIN v = 1 .. Len(w) + 1
          /\ DOMAIN w = 1 .. Len(w) /\ Len(w) \in Nat
          /\ v[Len(w) + 1] = f /\ \A i \in 1 .. Len(w) : v[i] = w[i]
      BY <3>2, <3>3
    <3>5. Prompt!ToSet(v) = Prompt!ToSet(w) \cup {f}
      BY <3>4 DEF Prompt!ToSet
    <3>6. /\ injections' \in [Chats -> Seq(RecalledFiles)] /\ injections'[c] = v
          /\ \A d \in Chats \ {c} : injections'[d] = injections[d]
      BY <2>1, <3>1, <3>3, <3>4, <1>1 DEF PromptShape
    <3>7. QED
      BY <2>1, <3>2, <3>5, <3>6 DEF Ready
  <2>2. CASE unread' = unread \cup {f} /\ injections' = injections
    BY <2>2, <1>1 DEF PromptShape, Ready
  <2>3. QED
    BY <1>7, <2>1, <2>2
<1>10. PromptShape'
  <2>1. reads' = [reads EXCEPT ![c] = k + 1] /\ k + 1 \in Nat
    BY <1>1, <1>3, <1>4
  <2>2. reads' \in [Chats -> Nat]
    BY <2>1, <1>1 DEF PromptShape
  <2>3. UNCHANGED <<disk, promptStage, calls, added, promptChosen, request, cache, shown>>
    BY <1>1
  <2>4. PromptShape
    BY <1>1
  <2>5. injections' \in [Chats -> Seq(RecalledFiles)]
    BY <1>9
  <2>6. QED
    BY <2>2, <2>3, <2>4, <2>5 DEF PromptShape
<1>11. PromptPlaces'
  BY <1>1, <1>8 DEF PromptPlaces, KbFirst
<1>12. ReadInv'
  <2> SUFFICES ASSUME NEW d \in Chats
               PROVE  /\ promptStage'[d] # "chosen" =>
                            Named(d)' = {} /\ Ready(d)' = {} /\ reads'[d] = 0
                      /\ Ready(d)' \subseteq Named(d)'
                      /\ \A i \in 1 .. reads'[d] :
                            promptChosen'[d][i] \in Ready(d)' \cup unread'
    BY DEF ReadInv
  <2>1. CASE d # c
    <3>1. reads'[d] = reads[d] /\ Ready(d)' = Ready(d)
      BY <2>1, <1>1, <1>9 DEF PromptShape
    <3>2. QED
      BY <3>1, <1>1, <1>8, <1>9 DEF ReadInv
  <2>2. CASE d = c
    <3>1. reads'[c] = k + 1
      BY <1>1, <1>3 DEF PromptShape
    <3>2. Ready(c) \subseteq Named(c) /\ \A i \in 1 .. k : list[i] \in Ready(c) \cup unread
      BY <1>1, <1>2, <1>3 DEF ReadInv
    <3>3. ASSUME NEW i \in 1 .. k + 1 PROVE list[i] \in Ready(c)' \cup unread'
      <4>1. i = k + 1 \/ i \in 1 .. k
        BY <1>4
      <4>2. QED
        BY <4>1, <3>2, <1>5, <1>9
    <3>4. QED
      BY <2>2, <3>1, <3>2, <3>3, <1>1, <1>2, <1>6, <1>8, <1>9
  <2>3. QED
    BY <2>1, <2>2
<1>13. FilesInv'
  BY <1>1, <1>8 DEF FilesInv
<1>14. Prompt!RecordedWasShown'
  BY <1>1, <1>9 DEF Prompt!RecordedWasShown, Prompt!At
<1>15. QED
  BY <1>10, <1>11, <1>12, <1>13, <1>14 DEF PromptInv

LEMMA RecallInjectKeeps ==
  ASSUME HooksApart, PromptInv, NEW c \in Chats, Prompt!RecallInject(c)
  PROVE  PromptInv'
<1> DEFINE readable == Ready(c)
<1>1. /\ promptStage[c] = "chosen" /\ Prompt!Goto(c, "knowledge")
      /\ reads[c] = Len(promptChosen[c])
      /\ added' = [added EXCEPT ![c] = injections[c] \o added[c]]
      /\ cache' = IF injections[c] = <<>> THEN cache ELSE cache \cup Named(c)
      /\ promptChosen' = [promptChosen EXCEPT ![c] = <<>>]
      /\ reads' = [reads EXCEPT ![c] = 0]
      /\ injections' = [injections EXCEPT ![c] = <<>>]
      /\ UNCHANGED <<disk, calls, request, shown, unread, failed, promptOverlapped>>
      /\ PromptShape /\ PromptPlaces /\ ReadInv /\ FilesInv /\ Prompt!RecordedWasShown
  BY DEF Prompt!RecallInject, Prompt!At, Prompt!Prepend, Prompt!history, PromptInv, Named
<1>2. readable \subseteq Named(c) /\ Named(c) \subseteq RecalledFiles
  <2>1. Named(c) \subseteq RecalledFiles
    BY <1>1 DEF PromptShape, Named, Prompt!ToSet
  <2>2. QED
    BY <2>1, <1>1 DEF ReadInv
<1>3. \A f \in Named(c) \ readable : f \in unread
  <2>1. PICK q : q = promptChosen[c]
    OBVIOUS
  <2>2. q \in Seq(RecalledFiles) /\ DOMAIN q = 1 .. Len(q) /\ Named(c) = Prompt!ToSet(q)
    BY <2>1, <1>1 DEF PromptShape, Named
  <2>3. \A i \in 1 .. Len(q) : q[i] \in readable \cup unread
    BY <2>1, <1>1 DEF ReadInv
  <2>4. QED
    BY <2>2, <2>3 DEF Prompt!ToSet
<1>4. PICK list : list = injections[c]
  OBVIOUS
<1>5. /\ list \in Seq(Carried) /\ Prompt!ToSet(list) = readable
      /\ list = <<>> => readable = {}
  <2>1. list \in Seq(RecalledFiles) /\ Prompt!ToSet(list) = readable
    BY <1>1, <1>4 DEF PromptShape, Ready
  <2>2. RecalledFiles \subseteq Carried
    BY DEF Carried
  <2>3. Len(list) \in Nat /\ list \in [1 .. Len(list) -> Carried]
    BY <2>1, <2>2
  <2>4. list = <<>> => Prompt!ToSet(list) = {}
    BY DEF Prompt!ToSet
  <2>5. QED
    BY <2>1, <2>3, <2>4
<1> HIDE DEF readable
<1>6. PICK m : m = added[c]
  OBVIOUS
<1>7. m \in Seq(Carried) /\ Prompt!ToSet(m) = Held(c)
      /\ Held(c) \cap (RecalledFiles \cup {"kb", "custom"}) = {}
  BY <1>1, <1>6 DEF PromptShape, PromptPlaces, Held
<1>8. PICK n : n = list \o m
  OBVIOUS
<1>9. n \in Seq(Carried) /\ Prompt!ToSet(n) = readable \cup Held(c)
  BY <1>5, <1>7, <1>8, InFront
<1>10. added' = [added EXCEPT ![c] = n]
  BY <1>1, <1>4, <1>6, <1>8
<1>11. /\ added'[c] = n /\ Held(c)' = readable \cup Held(c)
       /\ \A d \in Chats \ {c} : added'[d] = added[d] /\ Held(d)' = Held(d)
  BY <1>1, <1>9, <1>10, HeldAfter
<1>12. /\ promptStage'[c] = "knowledge"
       /\ \A d \in Chats \ {c} : promptStage'[d] = promptStage[d]
  BY <1>1, StageAfter
<1>13. /\ Named(c)' = {} /\ Ready(c)' = {} /\ reads'[c] = 0
       /\ promptChosen' \in [Chats -> Seq(RecalledFiles)] /\ reads' \in [Chats -> Nat]
       /\ injections' \in [Chats -> Seq(RecalledFiles)]
       /\ \A d \in Chats \ {c} : /\ Named(d)' = Named(d) /\ Ready(d)' = Ready(d)
                                 /\ promptChosen'[d] = promptChosen[d]
                                 /\ reads'[d] = reads[d]
  <2>1. PICK e : e = <<>>
    OBVIOUS
  <2>2. e \in Seq(RecalledFiles) /\ Prompt!ToSet(e) = {}
    BY <2>1 DEF Prompt!ToSet
  <2>3. /\ promptChosen' = [promptChosen EXCEPT ![c] = e]
        /\ injections' = [injections EXCEPT ![c] = e]
    BY <2>1, <1>1
  <2>4. /\ promptChosen'[c] = e /\ promptChosen' \in [Chats -> Seq(RecalledFiles)]
        /\ \A d \in Chats \ {c} : promptChosen'[d] = promptChosen[d]
    BY <2>2, <2>3, <1>1 DEF PromptShape
  <2>5. /\ injections'[c] = e /\ injections' \in [Chats -> Seq(RecalledFiles)]
        /\ \A d \in Chats \ {c} : injections'[d] = injections[d]
    BY <2>2, <2>3, <1>1 DEF PromptShape
  <2>6. /\ reads'[c] = 0 /\ reads' \in [Chats -> Nat]
        /\ \A d \in Chats \ {c} : reads'[d] = reads[d]
    BY <1>1 DEF PromptShape
  <2>7. QED
    BY <2>2, <2>4, <2>5, <2>6 DEF Named, Ready
<1>14. cache \subseteq cache' /\ cache' \subseteq cache \cup Named(c)
       /\ readable \subseteq cache'
  BY <1>1, <1>2, <1>4, <1>5
<1>15. PromptShape'
  <2>1. PromptShape /\ UNCHANGED <<disk, calls, request, shown>>
    BY <1>1
  <2>2. promptStage' \in [Chats -> {"prompt", "asked", "chosen", "knowledge", "ready",
                                    "calling", "over"}]
    <3>1. promptStage' = [promptStage EXCEPT ![c] = "knowledge"]
      BY <1>1 DEF Prompt!Goto
    <3>2. QED
      BY <2>1, <3>1 DEF PromptShape
  <2>3. added' \in [Chats -> Seq(Carried)]
    BY <2>1, <1>9, <1>10 DEF PromptShape
  <2>4. cache' \subseteq RecalledFiles
    BY <2>1, <1>2, <1>14 DEF PromptShape
  <2>5. /\ promptChosen' \in [Chats -> Seq(RecalledFiles)] /\ reads' \in [Chats -> Nat]
        /\ injections' \in [Chats -> Seq(RecalledFiles)]
    BY <1>13
  <2>6. QED
    BY <2>1, <2>2, <2>3, <2>4, <2>5 DEF PromptShape
<1>16. PromptPlaces' /\ ReadInv'
  <2>1. Held(c)' \cap {"kb", "custom"} = {}
    BY <1>2, <1>7, <1>11 DEF HooksApart, HookNames
  <2>2. PromptPlaces'
    BY <1>1, <1>11, <1>12, <2>1, PlacesOfOthers
  <2>3. ReadInv'
    BY <1>1, <1>12, <1>13 DEF ReadInv
  <2>4. QED
    BY <2>2, <2>3
<1>17. FilesInv'
  <2>1. \A d \in Chats : Held(d)' \cap RecalledFiles \subseteq cache'
    BY <1>1, <1>7, <1>11, <1>14 DEF FilesInv
  <2>2. \A f \in RecalledFiles : shown[f] > 0 => f \in cache'
    BY <1>1, <1>14 DEF FilesInv
  <2>3. ASSUME NEW f \in RecalledFiles \ promptOverlapped
        PROVE  /\ f \in readable => f \notin cache
               /\ f \in readable => \A d \in Chats : f \notin Held(d)
               /\ f \in readable => shown[f] = 0
    <3>1. f \in readable => f \notin cache
      BY <1>1, <1>2 DEF FilesInv
    <3>2. f \notin cache => \A d \in Chats : f \notin Held(d)
      BY <1>1 DEF FilesInv
    <3>3. f \notin cache => shown[f] = 0
      BY <1>1 DEF FilesInv, PromptShape
    <3>4. QED
      BY <3>1, <3>2, <3>3
  <2>4. ASSUME NEW f \in RecalledFiles \ promptOverlapped, NEW x \in Chats,
               f \in Named(x)'
        PROVE  /\ f \notin cache'
               /\ \A y \in Chats \ {x} : f \notin Named(y)'
    <3>1. x # c /\ f \in Named(x)
      BY <2>4, <1>13
    <3>2. f \notin cache /\ f \notin Named(c)
          /\ \A y \in Chats \ {x} : f \notin Named(y)
      BY <3>1, <1>1 DEF FilesInv
    <3>3. QED
      BY <3>1, <3>2, <1>13, <1>14
  <2>5. ASSUME NEW f \in RecalledFiles \ promptOverlapped, NEW x \in Chats, f \in Held(x)'
        PROVE  /\ shown[f] = 0
               /\ \A y \in Chats \ {x} : f \notin Held(y)'
    <3>1. CASE x = c
      <4>1. f \in readable
        BY <3>1, <2>5, <1>7, <1>11
      <4>2. QED
        BY <3>1, <4>1, <2>3, <1>11
    <3>2. CASE x # c
      <4>1. f \in Held(x) /\ f \notin readable
        BY <3>2, <2>5, <2>3, <1>11
      <4>2. shown[f] = 0 /\ \A y \in Chats \ {x} : f \notin Held(y)
        BY <4>1, <1>1 DEF FilesInv
      <4>3. QED
        BY <3>2, <4>1, <4>2, <1>11
    <3>3. QED
      BY <3>1, <3>2
  <2>6. \A f \in RecalledFiles \ promptOverlapped : shown[f] <= 1
    BY <1>1 DEF FilesInv
  <2>7. QED
    BY <1>1, <2>1, <2>2, <2>4, <2>5, <2>6 DEF FilesInv
<1>18. Prompt!RecordedWasShown'
  <2>1. ASSUME NEW f \in cache'
        PROVE  \/ shown[f] > 0 \/ f \in failed \cup unread
               \/ \E d \in Chats : promptStage'[d] # "over" /\ f \in Held(d)'
    <3>1. CASE f \in readable
      BY <3>1, <1>11, <1>12
    <3>2. CASE f \in Named(c) \ readable
      BY <3>2, <1>3
    <3>3. CASE f \in cache
      <4>1. CASE \E d \in Chats : promptStage[d] # "over" /\ f \in Held(d)
        BY <4>1, <1>11, <1>12
      <4>2. QED
        BY <3>3, <4>1, <1>1 DEF Prompt!RecordedWasShown, Prompt!At, Held
    <3>4. QED
      BY <2>1, <3>1, <3>2, <3>3, <1>14
  <2>2. QED
    BY <1>1, <2>1 DEF Prompt!RecordedWasShown, Prompt!At, Held
<1>19. QED
  BY <1>15, <1>16, <1>17, <1>18 DEF PromptInv

LEMMA CallModelKeeps ==
  ASSUME HooksApart, PromptInv, NEW c \in Chats, Prompt!CallModel(c)
  PROVE  PromptInv'
<1> DEFINE carried == Prompt!ToSet(request[c]) \cap RecalledFiles
<1>1. /\ promptStage[c] = "calling"
      /\ calls' = [calls EXCEPT ![c] = calls[c] + 1]
      /\ added' = [added EXCEPT ![c] = <<>>]
      /\ request' = [request EXCEPT ![c] = <<>>]
      /\ UNCHANGED <<disk, promptChosen, reads, injections, cache, unread,
                     promptOverlapped>>
      /\ PromptShape /\ PromptPlaces /\ ReadInv /\ FilesInv /\ Prompt!RecordedWasShown
  BY DEF Prompt!CallModel, Prompt!At, Prompt!recallVars, PromptInv
<1>2. PICK place \in {"prompt", "over"} : Prompt!Goto(c, place)
  BY DEF Prompt!CallModel
<1>3. \/ /\ shown' = [f \in RecalledFiles |-> IF f \in carried THEN shown[f] + 1 ELSE shown[f]]
         /\ failed' = failed
      \/ shown' = shown /\ failed' = failed \cup carried
  BY DEF Prompt!CallModel
<1>4. carried = Held(c) \cap RecalledFiles
  <2>1. PICK m : m = request[c]
    OBVIOUS
  <2>2. m \in Seq(Carried) /\ "custom" \in Carried
    BY <1>1, <2>1 DEF PromptShape, Carried, HookNames
  <2>3. added[c] = <<"custom">> \o m
    BY <1>1, <2>1 DEF PromptPlaces
  <2>4. Prompt!ToSet(added[c]) = Prompt!ToSet(m) \cup {"custom"}
    BY <2>2, <2>3, OneInFront
  <2>5. "custom" \notin RecalledFiles
    BY DEF HooksApart, HookNames
  <2>6. QED
    BY <2>1, <2>4, <2>5 DEF Held
<1> HIDE DEF carried
<1>5. Prompt!ToSet(<<>>) = {} /\ <<>> \in Seq(Carried)
  BY DEF Prompt!ToSet
<1>6. /\ added'[c] = <<>> /\ Held(c)' = {}
      /\ \A d \in Chats \ {c} : added'[d] = added[d] /\ Held(d)' = Held(d)
  BY <1>1, <1>5, HeldAfter
<1>7. /\ promptStage'[c] = place
      /\ \A d \in Chats \ {c} : promptStage'[d] = promptStage[d]
  BY <1>1, <1>2, StageAfter
<1>8. \A d \in Chats \ {c} : request'[d] = request[d]
  BY <1>1 DEF PromptShape
<1>9. /\ shown' \in [RecalledFiles -> Nat]
      /\ \A f \in RecalledFiles : shown'[f] \in Nat /\ shown[f] \in Nat
            /\ (shown'[f] = shown[f] \/ (f \in carried /\ shown'[f] = shown[f] + 1))
            /\ (f \in carried => shown'[f] = shown[f] + 1 \/ f \in failed')
            /\ (f \notin carried => shown'[f] = shown[f])
  <2>1. shown \in [RecalledFiles -> Nat]
    BY <1>1 DEF PromptShape
  <2>2. \A f \in RecalledFiles : shown[f] \in Nat /\ shown[f] + 1 \in Nat
    BY <2>1
  <2>3. CASE shown' = [f \in RecalledFiles |->
                          IF f \in carried THEN shown[f] + 1 ELSE shown[f]]
    <3>1. \A f \in RecalledFiles :
            shown'[f] = IF f \in carried THEN shown[f] + 1 ELSE shown[f]
      BY <2>3
    <3>2. \A f \in RecalledFiles :
            (IF f \in carried THEN shown[f] + 1 ELSE shown[f]) \in Nat
      BY <2>2
    <3>3. shown' \in [RecalledFiles -> Nat]
      BY <2>3, <3>2
    <3>4. QED
      BY <2>2, <3>1, <3>3
  <2>4. CASE shown' = shown /\ failed' = failed \cup carried
    <3>1. shown' \in [RecalledFiles -> Nat]
      BY <2>1, <2>4
    <3>2. \A f \in RecalledFiles : shown'[f] = shown[f]
      BY <2>4
    <3>3. \A f \in carried : f \in failed'
      BY <2>4
    <3>4. QED
      BY <2>2, <3>1, <3>2, <3>3
  <2>5. QED
    BY <1>3, <2>3, <2>4
<1>10. PromptShape'
  BY <1>1, <1>2, <1>5, <1>9 DEF PromptShape, Prompt!Goto
<1>11. ReadInv' /\ \A d : Named(d)' = Named(d)
  BY <1>1, <1>7, ReadStays DEF Named
<1>12. PromptPlaces'
  BY <1>1, <1>2, <1>6, <1>7, <1>8, PlacesOfOthers
<1>13. failed \subseteq failed'
  BY <1>3
<1>14. FilesInv'
  <2>1. \A d \in Chats : Held(d)' \cap RecalledFiles \subseteq cache
    BY <1>1, <1>6 DEF FilesInv
  <2>2. \A f \in RecalledFiles : shown'[f] > 0 => f \in cache
    <3>1. \A f \in carried : f \in cache
      BY <1>1, <1>4 DEF FilesInv
    <3>2. QED
      BY <1>1, <1>9, <3>1 DEF FilesInv
  <2>3. ASSUME NEW f \in RecalledFiles \ promptOverlapped
        PROVE  /\ shown'[f] <= 1
               /\ \A x \in Chats : f \in Held(x)' => shown'[f] = 0
    <3>1. CASE f \in carried
      <4>1. shown[f] = 0 /\ \A x \in Chats \ {c} : f \notin Held(x)
        BY <3>1, <1>1, <1>4 DEF FilesInv
      <4>2. shown'[f] <= 1
        BY <4>1, <1>9
      <4>3. \A x \in Chats : f \notin Held(x)'
        BY <4>1, <1>6
      <4>4. QED
        BY <4>2, <4>3
    <3>2. CASE f \notin carried
      <4>1. shown'[f] = shown[f]
        BY <3>2, <1>9
      <4>2. QED
        BY <4>1, <1>1, <1>6 DEF FilesInv
    <3>3. QED
      BY <3>1, <3>2
  <2>4. ASSUME NEW f \in RecalledFiles \ promptOverlapped, NEW x \in Chats, NEW y \in Chats \ {x},
               f \in Held(x)'
        PROVE  f \notin Held(y)'
    BY <2>4, <1>1, <1>6 DEF FilesInv
  <2>5. QED
    BY <1>1, <1>11, <2>1, <2>2, <2>3, <2>4 DEF FilesInv
<1>15. Prompt!RecordedWasShown'
  <2>1. ASSUME NEW f \in cache
        PROVE  \/ shown'[f] > 0 \/ f \in failed' \cup unread
               \/ \E d \in Chats : promptStage'[d] # "over" /\ f \in Held(d)'
    <3>0. f \in RecalledFiles
      BY <1>1 DEF PromptShape
    <3>1. CASE f \in carried
      <4>1. shown'[f] = shown[f] + 1 \/ f \in failed'
        BY <3>0, <3>1, <1>9
      <4>2. QED
        BY <4>1, <3>0, <1>9
    <3>2. CASE f \notin carried
      <4>1. f \notin Held(c)
        BY <3>0, <3>2, <1>4
      <4>2. CASE \E d \in Chats : promptStage[d] # "over" /\ f \in Held(d)
        BY <4>1, <4>2, <1>6, <1>7
      <4>3. shown'[f] = shown[f] /\ failed \subseteq failed'
        BY <3>0, <3>2, <1>9, <1>13
      <4>4. QED
        BY <4>2, <4>3, <1>1 DEF Prompt!RecordedWasShown, Prompt!At, Held
    <3>3. QED
      BY <3>1, <3>2
  <2>2. QED
    BY <1>1, <2>1 DEF Prompt!RecordedWasShown, Prompt!At, Held
<1>16. QED
  BY <1>10, <1>11, <1>12, <1>14, <1>15 DEF PromptInv

LEMMA MemoryChanges ==
  ASSUME PromptInv,
         (\E f \in RecalledFiles : Prompt!ChangeMemory(f)) \/ UNCHANGED Prompt!vars
  PROVE  PromptInv'
<1>1. /\ UNCHANGED <<promptStage, calls, added, promptChosen, reads, injections,
                     request, cache, shown, unread, failed, promptOverlapped>>
      /\ disk \subseteq RecalledFiles => disk' \subseteq RecalledFiles
  BY DEF Prompt!ChangeMemory, Prompt!vars, Prompt!chatVars, Prompt!recallVars,
         Prompt!history
<1>2. \A d : Held(d)' = Held(d) /\ Named(d)' = Named(d)
  BY <1>1 DEF Held, Named
<1>3. PromptShape' /\ PromptPlaces' /\ FilesInv'
  BY <1>1, <1>2 DEF PromptInv, PromptShape, PromptPlaces, FilesInv, KbFirst
<1>4. Prompt!RecordedWasShown'
  BY <1>1 DEF PromptInv, Prompt!RecordedWasShown, Prompt!At
<1>5. ReadInv'
  BY <1>1, ReadStays DEF PromptInv
<1>6. QED
  BY <1>3, <1>4, <1>5 DEF PromptInv

LEMMA PromptInvariance ==
  ASSUME MaxNamed \in Nat, HooksApart
  PROVE  Prompt!Spec => []PromptInv
<1>1. Prompt!Init => PromptInv
  <2> SUFFICES ASSUME Prompt!Init PROVE PromptInv
    OBVIOUS
  <2>1. /\ <<>> \in Seq(Carried) /\ <<>> \in Seq(RecalledFiles)
        /\ Prompt!ToSet(<<>>) = {}
    BY DEF Prompt!ToSet
  <2>2. \A c \in Chats : Held(c) = {} /\ Named(c) = {} /\ Ready(c) = {}
    BY <2>1 DEF Prompt!Init, Held, Named, Ready
  <2>3. PromptShape
    BY <2>1 DEF Prompt!Init, PromptShape
  <2>4. PromptPlaces
    BY <2>2 DEF Prompt!Init, PromptPlaces
  <2>5. FilesInv
    BY <2>2 DEF Prompt!Init, FilesInv
  <2>6. Prompt!RecordedWasShown
    BY DEF Prompt!Init, Prompt!RecordedWasShown
  <2>7. ReadInv
    BY <2>2 DEF Prompt!Init, ReadInv
  <2>8. QED
    BY <2>3, <2>4, <2>5, <2>6, <2>7 DEF PromptInv
<1>2. ASSUME PromptInv, [Prompt!Next]_Prompt!vars PROVE PromptInv'
  <2>1. ASSUME NEW c \in Chats,
               \/ Prompt!RecallRead(c) \/ Prompt!RecallInject(c)
               \/ Prompt!Send(c) \/ Prompt!CallModel(c)
               \/ \E S \in SUBSET Sections : Prompt!OnSystemPrompt(c, S)
               \/ \E b \in BOOLEAN : Prompt!KBRecall(c, b)
        PROVE  PromptInv'
    BY <1>2, <2>1, RecallReadKeeps, RecallInjectKeeps, SendKeeps, CallModelKeeps,
       OnSystemPromptKeeps, KBRecallKeeps
  <2>2. ASSUME NEW c \in Chats, NEW n \in 0 .. MaxNamed,
               NEW named \in [1 .. n -> RecalledFiles], Prompt!RecallSelect(c, named)
        PROVE  PromptInv'
    <3>1. named \in Seq(RecalledFiles)
      BY <2>2
    <3>2. QED
      BY <1>2, <2>2, <3>1, RecallSelectKeeps
  <2>3. QED
    BY <1>2, <2>1, <2>2, MemoryChanges DEF Prompt!Next
<1>3. QED
  BY <1>1, <1>2, PTL DEF Prompt!Spec

(* No two calls carry the same memory file, unless two chats chose it at   *)
(* once; a file that will not be recalled again was in a call or is        *)
(* accounted for; a call carries what hooks added in time                  *)
(* (recall_hook.go:108-135, engine.go:443).                                *)
THEOREM RecallsAreShown ==
  ASSUME MaxNamed \in Nat, HooksApart
  PROVE  Prompt!Spec => []Prompt!PromptConsistent
<1>1. PromptInv => Prompt!PromptConsistent
  <2> SUFFICES ASSUME PromptInv PROVE Prompt!PromptConsistent
    OBVIOUS
  <2>1. Prompt!ShownOnce
    BY DEF PromptInv, PromptShape, FilesInv, Prompt!ShownOnce
  <2>2. Prompt!RequestAsHooksLeftIt
    <3> SUFFICES ASSUME NEW c \in Chats, promptStage[c] = "calling"
                 PROVE  /\ "custom" \notin Prompt!ToSet(request[c])
                        /\ added[c] = <<"custom">> \o request[c]
                        /\ \A i \in DOMAIN request[c] : request[c][i] = "kb" => i = 1
      BY DEF Prompt!RequestAsHooksLeftIt, Prompt!At
    <3>1. /\ "custom" \notin Prompt!ToSet(request[c])
          /\ added[c] = <<"custom">> \o request[c] /\ KbFirst(request[c])
      BY DEF PromptInv, PromptPlaces
    <3>2. DOMAIN request[c] = 1 .. Len(request[c])
      BY DEF PromptInv, PromptShape
    <3>3. QED
      BY <3>1, <3>2 DEF KbFirst
  <2>3. QED
    BY <2>1, <2>2 DEF PromptInv, Prompt!PromptConsistent
<1>2. QED
  BY <1>1, PromptInvariance, PTL

================================================================================
