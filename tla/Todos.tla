--------------------------------- MODULE Todos ---------------------------------
(***************************************************************************)
(* The plans of sessions: the todo tool (core/capabilities/tools/todo.go), *)
(* the adapter that gives it the store (core/plugin/builtin.go), the store *)
(* (plugins/storage-sqlite/todo.go), and the hook that adds the plan to    *)
(* the system prompt (core/capabilities/hooks/todo_injection.go).          *)
(*                                                                         *)
(* A replan is a list, deletions and creations, each a call of the store;  *)
(* tool calls of one session, and of its sub-agents, run concurrently.     *)
(***************************************************************************)
EXTENDS Naturals, Sequences, FiniteSets, SequencesExt

CONSTANTS
    Sessions,
    Callers,    (* tool calls that may be in progress at a time            *)
    Items,      (* todos: naturals from 1, used up in order                *)
    MaxFaults   (* bound: failures of the store                            *)

VARIABLES
    rows,       (* the todos of each session, oldest first                 *)
    status,     (* of each todo                                            *)
    call,       (* the replan each caller is in: the creations left        *)
    owner,      (* the session the caller works for                        *)
    want, made, (* history: todos the replan in progress asks for, and has *)
                (* created                                                 *)
    disturbed,  (* history: replans during which another call created one  *)
    refused,    (* history: sessions where a replan was refused            *)
    prompt,     (* the todos the last system prompt of each session shows  *)
    faults

replanVars == <<call, owner, want, made, disturbed>>
vars == <<rows, status, replanVars, refused, prompt, faults>>

Statuses == {"pending", "in_progress", "completed", "failed"}
Of(s) == ToSet(rows[s])

TodosTypeOK ==
    /\ \A s \in Sessions : rows[s] \in Seq(Items) /\ Of(s) \subseteq Items
    /\ status \in [Items -> Statuses \cup {"none"}]
    /\ call \in [Callers -> 0 .. Cardinality(Items)]
    /\ owner \in [Callers -> Sessions \cup {"none"}]
    /\ made \in [Callers -> SUBSET Items]
    /\ want \in [Callers -> 0 .. Cardinality(Items)]
    /\ disturbed \subseteq Callers /\ refused \subseteq Sessions
    /\ prompt \in [Sessions -> SUBSET Items]
    /\ faults \in 0 .. MaxFaults

Init ==
    /\ rows = [s \in Sessions |-> <<>>]
    /\ status = [i \in Items |-> "none"]
    /\ call = [c \in Callers |-> 0]
    /\ owner = [c \in Callers |-> "none"]
    /\ made = [c \in Callers |-> {}]
    /\ want = [c \in Callers |-> 0]
    /\ disturbed = {} /\ refused = {}
    /\ prompt = [s \in Sessions |-> {}]
    /\ faults = 0

Fault == faults < MaxFaults /\ faults' = faults + 1

Insert(s, i) ==
    /\ i = Cardinality({j \in Items : status[j] # "none"}) + 1
    /\ rows' = [rows EXCEPT ![s] = Append(@, i)]
    /\ status' = [status EXCEPT ![i] = "pending"]

(* create: with dependencies that name todos, or anything else.            *)
HandleCreate(s, i) ==
    /\ Insert(s, i)
    /\ disturbed' = disturbed \cup {c \in Callers : owner[c] = s}
    /\ UNCHANGED <<call, owner, want, made, refused, prompt, faults>>

(* start, complete and fail: by id, whatever the session, the status and   *)
(* the dependencies; the result and the reason are dropped.                *)
UpdateStatus(i, new) ==
    /\ status[i] # "none"
    /\ status' = [status EXCEPT ![i] = new]
    /\ UNCHANGED <<rows, replanVars, refused, prompt, faults>>

(* replan: with a todo in the list the adapter's Delete fails, and so does *)
(* the replan; otherwise the new ones are created.                         *)
HandleReplan(c, s, n) ==
    /\ owner[c] = "none"
    /\ IF rows[s] = <<>>
       THEN /\ owner' = [owner EXCEPT ![c] = s]
            /\ call' = [call EXCEPT ![c] = n]
            /\ want' = [want EXCEPT ![c] = n]
            /\ UNCHANGED refused
       ELSE refused' = refused \cup {s} /\ UNCHANGED <<owner, call, want>>
    /\ UNCHANGED <<rows, status, made, disturbed, prompt, faults>>

Return(c) ==
    /\ owner' = [owner EXCEPT ![c] = "none"]
    /\ call' = [call EXCEPT ![c] = 0]
    /\ want' = [want EXCEPT ![c] = 0]
    /\ made' = [made EXCEPT ![c] = {}]
    /\ UNCHANGED <<refused, prompt>>

(* Variant: a todo the store refuses is left out, and the rest created.    *)
CreateNextSkips(c, i) ==
    /\ owner[c] # "none" /\ call[c] > 0
    /\ call' = [call EXCEPT ![c] = @ - 1]
    /\ \/ Insert(owner[c], i) /\ made' = [made EXCEPT ![c] = @ \cup {i}] /\ UNCHANGED faults
       \/ Fault /\ UNCHANGED <<rows, status, made>>
    /\ UNCHANGED <<owner, want, disturbed, refused, prompt>>

(* The first creation that fails ends the replan with an error; what has   *)
(* been created stays.                                                     *)
CreateNext(c, i) ==
    /\ owner[c] # "none" /\ call[c] > 0
    /\ \/ /\ Insert(owner[c], i)
          /\ made' = [made EXCEPT ![c] = @ \cup {i}]
          /\ call' = [call EXCEPT ![c] = @ - 1]
          /\ disturbed' = disturbed \cup {d \in Callers \ {c} : owner[d] = owner[c]}
          /\ UNCHANGED <<owner, want, refused, prompt, faults>>
       \/ /\ Fault /\ Return(c)
          /\ disturbed' = disturbed \ {c}
          /\ UNCHANGED <<rows, status>>

ReplanDone(c) ==
    /\ owner[c] # "none" /\ call[c] = 0
    /\ Return(c)
    /\ disturbed' = disturbed \ {c}
    /\ UNCHANGED <<rows, status, faults>>

(* OnSystemPrompt: the list, in groups by status.                          *)
TodoInjection(s) ==
    /\ rows[s] # <<>>
    /\ prompt' = [prompt EXCEPT ![s] = Of(s)]
    /\ UNCHANGED <<rows, status, replanVars, refused, faults>>

Next ==
    \/ \E s \in Sessions :
          \/ TodoInjection(s)
          \/ \E i \in Items : HandleCreate(s, i)
          \/ \E c \in Callers, n \in 1 .. Cardinality(Items) : HandleReplan(c, s, n)
    \/ \E i \in Items, new \in Statuses \ {"pending"} : UpdateStatus(i, new)
    \/ \E c \in Callers : ReplanDone(c) \/ \E i \in Items : CreateNext(c, i)

Spec == Init /\ [][Next]_vars

-----------------------------------------------------------------------------
(* A replan that goes through gives the session all it was asked for, and  *)
(* nothing else unless other calls created todos meanwhile: an error in    *)
(* the middle is never passed over (todo.go:197-262).                      *)
PlanWhole ==
    \A c \in Callers : owner[c] # "none" =>
        /\ Cardinality(made[c]) + call[c] = want[c]
        /\ made[c] \subseteq Of(owner[c])
        /\ Of(owner[c]) = made[c] \/ c \in disturbed

(* No todo is in two plans, and the prompt of a session shows only its own *)
(* (todo_injection.go:36).                                                 *)
PlansApart ==
    \A s, t \in Sessions : s # t =>
        Of(s) \cap Of(t) = {} /\ prompt[s] \cap Of(t) = {}

TodosConsistent == PlanWhole /\ PlansApart

(* "Deletes all existing todos for the session and creates a fresh set"    *)
(* (docs/backend/05-built-in-capabilities/tools/todo.md:163): a replan is  *)
(* not refused because the session has a plan.                             *)
ReplanReplaces == refused = {}

=============================================================================
