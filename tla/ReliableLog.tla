----------------------------- MODULE ReliableLog -----------------------------
(***************************************************************************)
(* What the event stream of a chat promises, without its ring buffer,      *)
(* channels and goroutines: a log that is written, then closed, and        *)
(* readers that each get a run of consecutive entries.  A reader may be    *)
(* refused, and its run may break off, but one that completes has got      *)
(* everything from its first entry to the last of the closed log.          *)
(***************************************************************************)
EXTENDS Naturals, Sequences

CONSTANTS Readers, MaxEntries   (* bound: entries of the log               *)

VARIABLES
    length,     (* entries written                                         *)
    over,       (* the log is closed                                       *)
    status,     (* idle, open, or how the run of a reader has ended        *)
    first,      (* the entry each reader's run starts with                 *)
    read        (* the entries each reader has got                         *)

vars == <<length, over, status, first, read>>

Init ==
    /\ length = 0
    /\ over = FALSE
    /\ status = [r \in Readers |-> "idle"]
    /\ first = [r \in Readers |-> 0]
    /\ read = [r \in Readers |-> <<>>]

Write ==
    /\ ~over /\ length < MaxEntries
    /\ length' = length + 1
    /\ UNCHANGED <<over, status, first, read>>

CloseLog ==
    /\ ~over /\ over' = TRUE
    /\ UNCHANGED <<length, status, first, read>>

Set(r, to) == status' = [status EXCEPT ![r] = to]

Refuse(r) ==
    /\ status[r] = "idle" /\ Set(r, "refused")
    /\ UNCHANGED <<length, over, first, read>>

Open(r, k) ==
    /\ status[r] = "idle" /\ Set(r, "open")
    /\ first' = [first EXCEPT ![r] = k]
    /\ UNCHANGED <<length, over, read>>

Read(r) ==
    LET entry == first[r] + Len(read[r]) IN
    /\ status[r] = "open" /\ entry < length
    /\ read' = [read EXCEPT ![r] = Append(@, entry)]
    /\ UNCHANGED <<length, over, status, first>>

Complete(r) ==
    /\ status[r] = "open" /\ over /\ first[r] + Len(read[r]) = length
    /\ Set(r, "complete")
    /\ UNCHANGED <<length, over, first, read>>

(* The reader leaves, or has been too slow.                                *)
BreakOff(r) ==
    /\ status[r] = "open" /\ Set(r, "broken")
    /\ UNCHANGED <<length, over, first, read>>

Next ==
    \/ Write \/ CloseLog
    \/ \E r \in Readers :
          \/ Refuse(r) \/ Read(r) \/ Complete(r) \/ BreakOff(r)
          \/ \E k \in 0 .. length : Open(r, k)

Spec == Init /\ [][Next]_vars

(* A reader that stays is served.                                          *)
FairSpec == Spec /\ \A r \in Readers : WF_vars(Read(r) \/ Complete(r))

=============================================================================
