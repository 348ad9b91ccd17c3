------------------------------ MODULE FileMemory ------------------------------
(***************************************************************************)
(* The memory files of one agent (plugins/memory-file): the tools          *)
(* memory_store and memory_forget, the exclusive writes of the store's own *)
(* interface, and the goroutine that extracts facts.  Each changes files   *)
(* first, without the mutex, and then takes it to rebuild INDEX.md and     *)
(* FACTS.md from what it finds on disk.                                    *)
(*                                                                         *)
(* A file is identified by its directory and name, and its content is the  *)
(* request that wrote it.                                                  *)
(***************************************************************************)
EXTENDS Naturals, FiniteSets

CONSTANTS
    Requests,   (* tool calls, store calls and extractions                 *)
    Names,      (* file names: naturals, in the order of the names         *)
    MaxEntries, (* entries INDEX.md has room for                           *)
    MaxFaults,  (* bound: writes that fail                                 *)
    MaxRestarts (* bound: restarts of the server                           *)

VARIABLES
    file,       (* the request that wrote each file, or "none"             *)
    index, facts,
    kind, pc, paths, reply,
    holder,     (* the request that holds the store's mutex                *)
    snapshot,   (* what that request has found on disk                     *)
    manual,     (* the manual-store flag of the session                    *)
    faults, restarts,
    stale,      (* history: index or facts known not to have been rebuilt  *)
    raced       (* history: exclusive writes overtaken by another write    *)

diskVars == <<file, index, facts>>
lockVars == <<holder, snapshot>>
vars == <<diskVars, kind, pc, paths, reply, lockVars, manual, faults, restarts, stale, raced>>

Paths == {"archive", "knowledge", "system"} \X Names
Indexable == {p \in Paths : p[1] # "system" /\ file[p] # "none"}
Exclusive(r) == kind[r] = "exclusive"

MemoryTypeOK ==
    /\ file \in [Paths -> Requests \cup {"none"}]
    /\ index \subseteq Paths /\ facts \subseteq Paths
    /\ kind \in [Requests -> {"none", "store", "exclusive", "forget", "extract"}]
    /\ pc \in [Requests -> {"idle", "change", "wait", "index", "facts", "done"}]
    /\ paths \in [Requests -> SUBSET Paths]
    /\ reply \in [Requests -> {"none", "ok", "replaced", "error"}]
    /\ holder \in Requests \cup {"none"} /\ snapshot \subseteq Paths
    /\ manual \in BOOLEAN
    /\ faults \in 0 .. MaxFaults /\ restarts \in 0 .. MaxRestarts
    /\ stale \subseteq {"index", "facts"} /\ raced \subseteq Requests

Init ==
    /\ file = [p \in Paths |-> "none"]
    /\ index = {} /\ facts = {}
    /\ kind = [r \in Requests |-> "none"]
    /\ pc = [r \in Requests |-> "idle"]
    /\ paths = [r \in Requests |-> {}]
    /\ reply = [r \in Requests |-> "none"]
    /\ holder = "none" /\ snapshot = {}
    /\ manual = FALSE
    /\ faults = 0 /\ restarts = 0
    /\ stale = {} /\ raced = {}

Fault == faults < MaxFaults /\ faults' = faults + 1
NoFault == UNCHANGED faults
Goto(r, place) == pc' = [pc EXCEPT ![r] = place]
Answer(r, a) == reply' = [reply EXCEPT ![r] = a]

-----------------------------------------------------------------------------
(* What is on disk when a rebuild looks.                                   *)
Before(p, q) ==
    \/ p[1] = "archive" /\ q[1] = "knowledge"
    \/ p[1] = q[1] /\ p[2] < q[2]

(* formatIndex and truncateIndex: the first entries by path.               *)
FirstEntries(S) == {p \in S : Cardinality({q \in S : Before(q, p)}) < MaxEntries}

(* collectFacts: Store and WriteFile give their files no session.          *)
WithSession == {p \in Indexable : kind[file[p]] \in {"store", "extract"}}

-----------------------------------------------------------------------------
(* The requests.                                                           *)

Begin(r, k, S) ==
    /\ pc[r] = "idle"
    /\ kind' = [kind EXCEPT ![r] = k]
    /\ paths' = [paths EXCEPT ![r] = S]

(* memory_store: the flag, before anything is written.                     *)
StoreTool(r, p) ==
    /\ Begin(r, "store", {p})
    /\ Goto(r, "change")
    /\ manual' = TRUE
    /\ UNCHANGED <<diskVars, reply, lockVars, faults, restarts, stale, raced>>

(* Store and WriteFile: the file must not exist.                           *)
WriteFile(r, p) ==
    /\ Begin(r, "exclusive", {p})
    /\ IF file[p] = "none" THEN Goto(r, "change") /\ UNCHANGED reply
       ELSE Goto(r, "done") /\ Answer(r, "error")
    /\ UNCHANGED <<diskVars, lockVars, manual, faults, restarts, stale, raced>>

(* memory_forget by name: knowledge, then archive; never system.           *)
ForgetTool(r, n) ==
    LET found == {p \in Indexable : p[2] = n}
        first == {p \in found : p[1] = "knowledge" \/ <<"knowledge", n>> \notin found} IN
    /\ Begin(r, "forget", first)
    /\ IF first = {} THEN Goto(r, "done") /\ Answer(r, "error")
       ELSE Goto(r, "change") /\ UNCHANGED reply
    /\ UNCHANGED <<diskVars, lockVars, manual, faults, restarts, stale, raced>>

(* FactExtractionHook, and the goroutine's model call: some facts, unless  *)
(* the flag was set when the message was persisted.                        *)
ExtractionHook(r, S) ==
    /\ ~manual
    /\ S # {} /\ \A p \in S : p[1] = "knowledge"
    /\ Begin(r, "extract", S)
    /\ Goto(r, "change")
    /\ UNCHANGED <<diskVars, reply, lockVars, manual, faults, restarts, stale, raced>>

(* The write of a file; an extraction goes on after one that fails.        *)
Overtakes(r, p) == {q \in Requests \ {r} : Exclusive(q) /\ pc[q] = "change" /\ p \in paths[q]}

ChangeFile(r, p) ==
    /\ pc[r] = "change" /\ p \in paths[r]
    /\ paths' = [paths EXCEPT ![r] = @ \ {p}]
    /\ \/ /\ kind[r] # "forget"
          /\ file' = [file EXCEPT ![p] = r]
          /\ raced' = raced \cup Overtakes(r, p)
          /\ IF Exclusive(r) THEN Answer(r, IF file[p] = "none" THEN "ok" ELSE "replaced")
             ELSE UNCHANGED reply
          /\ Goto(r, IF paths[r] = {p} THEN "wait" ELSE "change")
          /\ NoFault
       \/ /\ kind[r] = "forget" /\ file[p] # "none"
          /\ file' = [file EXCEPT ![p] = "none"]
          /\ Goto(r, "wait")
          /\ NoFault /\ UNCHANGED <<reply, raced>>
       \/ /\ IF kind[r] = "forget" /\ file[p] = "none" THEN NoFault ELSE Fault
          /\ IF kind[r] = "extract"
             THEN Goto(r, IF paths[r] = {p} THEN "wait" ELSE "change") /\ UNCHANGED reply
             ELSE Goto(r, "done") /\ Answer(r, "error")
          /\ UNCHANGED <<file, raced>>
    /\ UNCHANGED <<index, facts, kind, lockVars, manual, restarts, stale>>

-----------------------------------------------------------------------------
(* The rebuild: BuildIndex, then BuildFacts, under the mutex.              *)

(* Variant: the directory is read before the mutex is taken.               *)
ScanUnlocked(r) ==
    /\ pc[r] = "wait"
    /\ holder' = r /\ snapshot' = Indexable
    /\ Goto(r, "index")
    /\ UNCHANGED <<diskVars, kind, paths, reply, manual, faults, restarts, stale, raced>>

LockAndScan(r) ==
    /\ pc[r] = "wait" /\ holder = "none"
    /\ holder' = r /\ snapshot' = Indexable
    /\ Goto(r, "index")
    /\ UNCHANGED <<diskVars, kind, paths, reply, manual, faults, restarts, stale, raced>>

(* A failure ends an exclusive write; the others ignore it.                *)
WriteIndex(r) ==
    /\ pc[r] = "index"
    /\ \/ /\ index' = FirstEntries(snapshot) /\ stale' = stale \ {"index"}
          /\ Goto(r, "facts") /\ snapshot' = WithSession
          /\ NoFault /\ UNCHANGED <<holder, reply>>
       \/ /\ Fault /\ UNCHANGED index
          /\ IF Exclusive(r)
             THEN /\ Goto(r, "done") /\ Answer(r, "error")
                  /\ stale' = {"index", "facts"}
                  /\ holder' = "none" /\ snapshot' = {}
             ELSE /\ Goto(r, "facts") /\ snapshot' = WithSession
                  /\ stale' = stale \cup {"index"}
                  /\ UNCHANGED <<holder, reply>>
    /\ UNCHANGED <<file, facts, kind, paths, manual, restarts, raced>>

WriteFacts(r) ==
    /\ pc[r] = "facts"
    /\ \/ /\ facts' = snapshot /\ stale' = stale \ {"facts"}
          /\ NoFault /\ UNCHANGED reply
       \/ /\ Fault /\ UNCHANGED facts /\ stale' = stale \cup {"facts"}
          /\ IF Exclusive(r) THEN Answer(r, "error") ELSE UNCHANGED reply
    /\ Goto(r, "done")
    /\ holder' = "none" /\ snapshot' = {}
    /\ UNCHANGED <<file, index, kind, paths, manual, restarts, raced>>

(* Nothing rebuilds at start-up; the flags were in memory.                 *)
Restart ==
    /\ restarts < MaxRestarts
    /\ restarts' = restarts + 1
    /\ stale' = IF \E r \in Requests : pc[r] \in {"change", "wait", "index", "facts"}
                THEN {"index", "facts"} ELSE stale
    /\ pc' = [r \in Requests |-> IF pc[r] = "idle" THEN "idle" ELSE "done"]
    /\ holder' = "none" /\ snapshot' = {} /\ manual' = FALSE
    /\ UNCHANGED <<diskVars, kind, paths, reply, faults, raced>>

Next ==
    \/ \E r \in Requests, p \in Paths : StoreTool(r, p) \/ WriteFile(r, p) \/ ChangeFile(r, p)
    \/ \E r \in Requests, n \in Names : ForgetTool(r, n)
    \/ \E r \in Requests, S \in SUBSET Paths : ExtractionHook(r, S)
    \/ \E r \in Requests : LockAndScan(r) \/ WriteIndex(r) \/ WriteFacts(r)
    \/ Restart

Spec == Init /\ [][Next]_vars

-----------------------------------------------------------------------------
Quiet == \A r \in Requests : pc[r] \in {"idle", "done"}

(* When no request is in progress, INDEX.md lists the files there are, as  *)
(* far as it has room, and FACTS.md those with a session, unless the last  *)
(* rebuild of it failed or was cut short: whatever the order in which the  *)
(* requests changed files and rebuilt (filememory.go:117-138).             *)
RebuiltWhenQuiet ==
    Quiet => /\ "index" \in stale \/ index = FirstEntries(Indexable)
             /\ "facts" \in stale \/ facts = WithSession

(* An exclusive write replaces a file only if another request wrote it     *)
(* between the check and the write (filememory.go:117).                    *)
ReplacedOnlyByRace == \A r \in Requests : reply[r] = "replaced" => r \in raced

MemoryConsistent == RebuiltWhenQuiet /\ ReplacedOnlyByRace

=============================================================================
