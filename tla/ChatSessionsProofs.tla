------------------------- MODULE ChatSessionsProofs -------------------------
(***************************************************************************)
(* Invariants of ChatSessions for every set of requests, sessions and      *)
(* interrupts; and what the code of delegate_to, which makes chats of its  *)
(* own (Delegation), comes to, for any number of chats, agents and any     *)
(* depth limit.                                                            *)
(***************************************************************************)
EXTENDS ChatSessions, Naturals, TLAPS

(* Of the tree of chats that delegation makes.                             *)
CONSTANTS Root, Agents, Factories, DepthLimit
VARIABLES run, call, parent, depth, cancelled, closed, rows, summary

Tree == INSTANCE Delegation

(* One action at a time: Next without its nesting.                         *)
LEMMA NextCases ==
    ASSUME Next
    PROVE  \/ \E c \in Chats : Refuse(c) \/ Register(c) \/ Subscribe(c)
                                 \/ StreamEnd(c) \/ Disconnect(c)
           \/ \E c \in Chats, s \in Sessions : Admit(c, s) \/ Reconnect(c, s)
           \/ \E c \in Chats : AgentReturn(c) \/ AgentRemove(c) \/ AgentExit(c)
                                 \/ CloseSignal(c) \/ CloseRemove(c)
           \/ \E t \in Stops : StopReply(t) \/ \E s \in Sessions : StopGet(t, s)
           \/ \E i \in Inputs : TakeAnswer(i) \/ TakeClosed(i) \/ Forget(i)
                                 \/ \E c \in Chats : Ask(i, c)
           \/ \E q \in Resumes : ResumeLookup(q) \/ ResumeSend(q)
                \/ \E s \in Sessions, i \in Inputs : ResumeGet(q, s, i)
  BY DEF Next, HandleChat, AgentGoroutine, Close, StopSession, RequestInput,
         ResumeSession

-----------------------------------------------------------------------------
(* Every variable has its type, and no handler or goroutine dereferences   *)
(* a session id, a context or an interrupt it does not have.               *)
THEOREM TypeCorrect == Spec => []TypeOK
<1> USE NoneIsNoProcess, AbortedIsNoAnswer, BackgroundInputs, StopIsNoResume
<1>1. Init => TypeOK
  BY DEF Init, TypeOK, NoNilDereference, Callers
<1>2. TypeOK /\ [Next]_vars => TypeOK'
  <2> SUFFICES ASSUME TypeOK, [Next]_vars PROVE TypeOK'
    OBVIOUS
  <2> USE DEF TypeOK, NoNilDereference, Callers, httpVars, stopVars, inputVars,
              resumeVars, Put, Delete
  <2>1. ASSUME NEW c \in Chats, Refuse(c) PROVE TypeOK'
    BY <2>1 DEF Refuse
  <2>2. ASSUME NEW c \in Chats, NEW s \in Sessions, Admit(c, s) PROVE TypeOK'
    BY <2>2 DEF Admit
  <2>3. ASSUME NEW c \in Chats, Register(c) PROVE TypeOK'
    BY <2>3 DEF Register, Live
  <2>4. ASSUME NEW c \in Chats, NEW s \in Sessions, Reconnect(c, s) PROVE TypeOK'
    BY <2>4 DEF Reconnect
  <2>5. ASSUME NEW c \in Chats, Subscribe(c) PROVE TypeOK'
    BY <2>5 DEF Subscribe
  <2>6. ASSUME NEW c \in Chats, StreamEnd(c) PROVE TypeOK'
    BY <2>6 DEF StreamEnd
  <2>7. ASSUME NEW c \in Chats, Disconnect(c) PROVE TypeOK'
    BY <2>7 DEF Disconnect
  <2>8. ASSUME NEW c \in Chats, AgentReturn(c) PROVE TypeOK'
    BY <2>8 DEF AgentReturn
  <2>9. ASSUME NEW c \in Chats, AgentRemove(c) PROVE TypeOK'
    BY <2>9 DEF AgentRemove
  <2>10. ASSUME NEW c \in Chats, AgentExit(c) PROVE TypeOK'
    BY <2>10 DEF AgentExit
  <2>11. ASSUME NEW c \in Chats, CloseSignal(c) PROVE TypeOK'
    BY <2>11 DEF CloseSignal
  <2>12. ASSUME NEW c \in Chats, CloseRemove(c) PROVE TypeOK'
    BY <2>12 DEF CloseRemove
  <2>13. ASSUME NEW t \in Stops, NEW s \in Sessions, StopGet(t, s) PROVE TypeOK'
    BY <2>13 DEF StopGet
  <2>14. ASSUME NEW t \in Stops, StopReply(t) PROVE TypeOK'
    BY <2>14 DEF StopReply
  <2>15. ASSUME NEW i \in Inputs, NEW c \in Chats, Ask(i, c) PROVE TypeOK'
    BY <2>15 DEF Ask
  <2>16. ASSUME NEW i \in Inputs, TakeAnswer(i) PROVE TypeOK'
    BY <2>16 DEF TakeAnswer
  <2>17. ASSUME NEW i \in Inputs, TakeClosed(i) PROVE TypeOK'
    BY <2>17 DEF TakeClosed
  <2>18. ASSUME NEW i \in Inputs, Forget(i) PROVE TypeOK'
    BY <2>18 DEF Forget
  <2>19. ASSUME NEW q \in Resumes, NEW s \in Sessions, NEW i \in Inputs,
                ResumeGet(q, s, i)
         PROVE TypeOK'
    BY <2>19 DEF ResumeGet
  <2>20. ASSUME NEW q \in Resumes, ResumeLookup(q) PROVE TypeOK'
    BY <2>20 DEF ResumeLookup
  <2>21. ASSUME NEW q \in Resumes, ResumeSend(q) PROVE TypeOK'
    BY <2>21 DEF ResumeSend
  <2>22. CASE UNCHANGED vars
    BY <2>22 DEF vars
  <2>23. QED
    BY <2>1, <2>2, <2>3, <2>4, <2>5, <2>6, <2>7, <2>8, <2>9, <2>10, <2>11,
       <2>12, <2>13, <2>14, <2>15, <2>16, <2>17, <2>18, <2>19, <2>20, <2>21,
       <2>22, NextCases
<1>3. QED
  BY <1>1, <1>2, PTL DEF Spec

-----------------------------------------------------------------------------
(* The table, the phases of a chat and the overlaps between chats.         *)

(* A chat's goroutine starts after its request was admitted; it exits with *)
(* its context closed; nobody starts to close a context without an owner.  *)
Phases ==
    \A c \in Chats :
        /\ handler[c] \in {"idle", "checked"} => agent[c] = "none"
        /\ context[c] = "closing" => Live(c)
        /\ agent[c] = "exited" => context[c] = "closed"

(* Two chats that live at once in one session are both on record.          *)
OverlapsRecorded ==
    \A c, d \in Chats :
        c # d /\ session[c] = session[d] /\ Live(c) /\ Live(d)
            => c \in overlapped /\ d \in overlapped

TableInv ==
    /\ Phases
    /\ TableHoldsOnlyLiveChats
    /\ OverlapsRecorded
    /\ ReachableUnlessOverlapped

LEMMA TableInvInductive ==
    /\ Init => TableInv
    /\ TypeOK /\ TableInv /\ [Next]_vars => TableInv'
<1> USE NoneIsNoProcess, StopIsNoResume
<1>1. Init => TableInv
  BY DEF Init, TableInv, Phases, TableHoldsOnlyLiveChats, OverlapsRecorded,
         ReachableUnlessOverlapped, Live
<1>2. TypeOK /\ TableInv /\ [Next]_vars => TableInv'
  <2> SUFFICES ASSUME TypeOK, TableInv, [Next]_vars PROVE TableInv'
    OBVIOUS
  <2> USE DEF TypeOK, NoNilDereference, TableInv, Phases,
              TableHoldsOnlyLiveChats, OverlapsRecorded,
              ReachableUnlessOverlapped, Live, httpVars, stopVars, inputVars,
              resumeVars, Put, Delete
  <2>1. ASSUME NEW c \in Chats, Refuse(c) PROVE TableInv'
    BY <2>1 DEF Refuse
  <2>2. ASSUME NEW c \in Chats, NEW s \in Sessions, Admit(c, s) PROVE TableInv'
    BY <2>2 DEF Admit
  <2>3. ASSUME NEW c \in Chats, Register(c) PROVE TableInv'
    BY <2>3 DEF Register
  <2>4. ASSUME NEW c \in Chats, NEW s \in Sessions, Reconnect(c, s) PROVE TableInv'
    BY <2>4 DEF Reconnect
  <2>5. ASSUME NEW c \in Chats, Subscribe(c) PROVE TableInv'
    BY <2>5 DEF Subscribe
  <2>6. ASSUME NEW c \in Chats, StreamEnd(c) PROVE TableInv'
    BY <2>6 DEF StreamEnd
  <2>7. ASSUME NEW c \in Chats, Disconnect(c) PROVE TableInv'
    BY <2>7 DEF Disconnect
  <2>8. ASSUME NEW c \in Chats, AgentReturn(c) PROVE TableInv'
    BY <2>8 DEF AgentReturn
  <2>9. ASSUME NEW c \in Chats, AgentRemove(c) PROVE TableInv'
    BY <2>9 DEF AgentRemove
  <2>10. ASSUME NEW c \in Chats, AgentExit(c) PROVE TableInv'
    BY <2>10 DEF AgentExit
  <2>11. ASSUME NEW c \in Chats, CloseSignal(c) PROVE TableInv'
    BY <2>11 DEF CloseSignal, Closing
  <2>12. ASSUME NEW c \in Chats, CloseRemove(c) PROVE TableInv'
    BY <2>12 DEF CloseRemove
  <2>13. ASSUME NEW t \in Stops, NEW s \in Sessions, StopGet(t, s) PROVE TableInv'
    BY <2>13 DEF StopGet
  <2>14. ASSUME NEW t \in Stops, StopReply(t) PROVE TableInv'
    BY <2>14 DEF StopReply
  <2>15. ASSUME NEW i \in Inputs, NEW c \in Chats, Ask(i, c) PROVE TableInv'
    BY <2>15 DEF Ask
  <2>16. ASSUME NEW i \in Inputs, TakeAnswer(i) PROVE TableInv'
    BY <2>16 DEF TakeAnswer
  <2>17. ASSUME NEW i \in Inputs, TakeClosed(i) PROVE TableInv'
    BY <2>17 DEF TakeClosed
  <2>18. ASSUME NEW i \in Inputs, Forget(i) PROVE TableInv'
    BY <2>18 DEF Forget
  <2>19. ASSUME NEW q \in Resumes, NEW s \in Sessions, NEW i \in Inputs, ResumeGet(q, s, i) PROVE TableInv'
    BY <2>19 DEF ResumeGet
  <2>20. ASSUME NEW q \in Resumes, ResumeLookup(q) PROVE TableInv'
    BY <2>20 DEF ResumeLookup
  <2>21. ASSUME NEW q \in Resumes, ResumeSend(q) PROVE TableInv'
    BY <2>21 DEF ResumeSend
  <2>22. CASE UNCHANGED vars
    BY <2>22 DEF vars
  <2>23. QED
    BY <2>1, <2>2, <2>3, <2>4, <2>5, <2>6, <2>7, <2>8, <2>9, <2>10, <2>11,
       <2>12, <2>13, <2>14, <2>15, <2>16, <2>17, <2>18, <2>19, <2>20, <2>21, <2>22,
       NextCases
<1>3. QED
  BY <1>1, <1>2

THEOREM TableInvariant == Spec => []TableInv
  BY TypeCorrect, TableInvInductive, PTL DEF Spec

(* The table holds only chats that are not over.                           *)
THEOREM TableSound == Spec => []TableHoldsOnlyLiveChats
  BY TableInvariant, PTL DEF TableInv

(* A running chat that never shared its session is found in the table.     *)
THEOREM TableComplete == Spec => []ReachableUnlessOverlapped
  BY TableInvariant, PTL DEF TableInv

-----------------------------------------------------------------------------
(* Interrupts and their answers.                                           *)

(* What an interrupt holds comes from resumes that looked up this very     *)
(* interrupt, and is fixed once the tool has asked.                        *)
AnswerInv ==
    /\ \A c \in Chats : handler[c] \in {"idle", "checked"} => agent[c] = "none"
    /\ \A i \in Inputs :
          /\ input[i] # "idle" => agent[owner[i]] # "none"
          /\ input[i] = "idle" => outcome[i] = None
          /\ channel[i] # None => /\ wanted[channel[i]] = i
                                  /\ target[channel[i]] = owner[i]
                                  /\ resume[channel[i]] = "resolved"
    /\ \A q \in Resumes :
          /\ resume[q] \in {"found", "sending", "resolved"}
                => input[wanted[q]] # "idle"
          /\ resume[q] = "sending" => target[q] = owner[wanted[q]]
    /\ ResolvedAnswerIsPending
    /\ OutcomeIsJustified

LEMMA AnswerInvInductive ==
    /\ Init => AnswerInv
    /\ TypeOK /\ AnswerInv /\ [Next]_vars => AnswerInv'
<1> USE NoneIsNoProcess, AbortedIsNoAnswer, StopIsNoResume
<1>1. Init => AnswerInv
  BY DEF Init, AnswerInv, ResolvedAnswerIsPending, OutcomeIsJustified
<1>2. TypeOK /\ AnswerInv /\ [Next]_vars => AnswerInv'
  <2> SUFFICES ASSUME TypeOK, AnswerInv, [Next]_vars PROVE AnswerInv'
    OBVIOUS
  <2> USE DEF TypeOK, NoNilDereference, AnswerInv, ResolvedAnswerIsPending,
              OutcomeIsJustified, Callers, httpVars, stopVars, inputVars,
              resumeVars, Put, Delete
  <2>1. ASSUME NEW c \in Chats, Refuse(c) PROVE AnswerInv'
    BY <2>1 DEF Refuse
  <2>2. ASSUME NEW c \in Chats, NEW s \in Sessions, Admit(c, s) PROVE AnswerInv'
    BY <2>2 DEF Admit
  <2>3. ASSUME NEW c \in Chats, Register(c) PROVE AnswerInv'
    BY <2>3 DEF Register
  <2>4. ASSUME NEW c \in Chats, NEW s \in Sessions, Reconnect(c, s) PROVE AnswerInv'
    BY <2>4 DEF Reconnect
  <2>5. ASSUME NEW c \in Chats, Subscribe(c) PROVE AnswerInv'
    BY <2>5 DEF Subscribe
  <2>6. ASSUME NEW c \in Chats, StreamEnd(c) PROVE AnswerInv'
    BY <2>6 DEF StreamEnd
  <2>7. ASSUME NEW c \in Chats, Disconnect(c) PROVE AnswerInv'
    BY <2>7 DEF Disconnect
  <2>8. ASSUME NEW c \in Chats, AgentReturn(c) PROVE AnswerInv'
    BY <2>8 DEF AgentReturn
  <2>9. ASSUME NEW c \in Chats, AgentRemove(c) PROVE AnswerInv'
    BY <2>9 DEF AgentRemove
  <2>10. ASSUME NEW c \in Chats, AgentExit(c) PROVE AnswerInv'
    BY <2>10 DEF AgentExit
  <2>11. ASSUME NEW c \in Chats, CloseSignal(c) PROVE AnswerInv'
    BY <2>11 DEF CloseSignal
  <2>12. ASSUME NEW c \in Chats, CloseRemove(c) PROVE AnswerInv'
    BY <2>12 DEF CloseRemove
  <2>13. ASSUME NEW t \in Stops, NEW s \in Sessions, StopGet(t, s) PROVE AnswerInv'
    BY <2>13 DEF StopGet
  <2>14. ASSUME NEW t \in Stops, StopReply(t) PROVE AnswerInv'
    BY <2>14 DEF StopReply
  <2>15. ASSUME NEW i \in Inputs, NEW c \in Chats, Ask(i, c) PROVE AnswerInv'
    BY <2>15 DEF Ask
  <2>16. ASSUME NEW i \in Inputs, TakeAnswer(i) PROVE AnswerInv'
    BY <2>16 DEF TakeAnswer
  <2>17. ASSUME NEW i \in Inputs, TakeClosed(i) PROVE AnswerInv'
    BY <2>17 DEF TakeClosed
  <2>18. ASSUME NEW i \in Inputs, Forget(i) PROVE AnswerInv'
    BY <2>18 DEF Forget
  <2>19. ASSUME NEW q \in Resumes, NEW s \in Sessions, NEW i \in Inputs, ResumeGet(q, s, i) PROVE AnswerInv'
    BY <2>19 DEF ResumeGet
  <2>20. ASSUME NEW q \in Resumes, ResumeLookup(q) PROVE AnswerInv'
    BY <2>20 DEF ResumeLookup, Registered
  <2>21. ASSUME NEW q \in Resumes, ResumeSend(q) PROVE AnswerInv'
    BY <2>21 DEF ResumeSend
  <2>22. CASE UNCHANGED vars
    BY <2>22 DEF vars
  <2>23. QED
    BY <2>1, <2>2, <2>3, <2>4, <2>5, <2>6, <2>7, <2>8, <2>9, <2>10, <2>11,
       <2>12, <2>13, <2>14, <2>15, <2>16, <2>17, <2>18, <2>19, <2>20, <2>21, <2>22,
       NextCases
<1>3. QED
  BY <1>1, <1>2

THEOREM AnswerInvariant == Spec => []AnswerInv
  BY TypeCorrect, AnswerInvInductive, PTL DEF Spec

(* A tool that still waits has every answer a resume was told it resolved. *)
THEOREM AnswerNotLost == Spec => []ResolvedAnswerIsPending
  BY AnswerInvariant, PTL DEF AnswerInv

(* An answer reaches the tool that asked; an error needs a closed context. *)
THEOREM AnswerJustified == Spec => []OutcomeIsJustified
  BY AnswerInvariant, PTL DEF AnswerInv

-----------------------------------------------------------------------------
(* Delegation.                                                             *)

(* A loop below the root has passed the check of its depth; no context but *)
(* the root's is ever closed.                                              *)
DelegationInv ==
    /\ run \in [Chats -> {"none", "starting", "running", "ended", "refused"}]
    /\ call \in [Tree!Subs -> {"none", "created", "waiting", "failed", "returned"}]
    /\ depth \in [Chats -> Nat]
    /\ \A c \in Tree!Subs : run[c] # "none" => call[c] \in {"waiting", "returned"}
    /\ Tree!DepthBounded
    /\ closed \subseteq {Root}
    /\ \A c \in Tree!Subs : call[c] # "returned"

LEMMA DelegationInvInit == Tree!Init => DelegationInv
  BY DEF Tree!Init, DelegationInv, Tree!DepthBounded, Tree!Subs

LEMMA RejectKeeps ==
    ASSUME DelegationInv, NEW c \in Tree!Subs, NEW p \in Chats, NEW a \in Agents,
           Tree!Reject(c, p, a)
    PROVE  DelegationInv'
  BY DEF DelegationInv, Tree!DepthBounded, Tree!TooDeep, Tree!Subs, Tree!Reject

(* The depth of a sub-chat is set before its loop can run.                 *)
LEMMA CreateSessionKeeps ==
    ASSUME DelegationInv, NEW c \in Tree!Subs, NEW p \in Chats, NEW a \in Agents,
           Tree!CreateSession(c, p, a)
    PROVE  DelegationInv'
<1>1. run[c] = "none" /\ c \in Chats /\ c # Root
  BY DEF DelegationInv, Tree!Subs, Tree!CreateSession
<1>2. /\ run' = run /\ closed' = closed
      /\ call' \in [Tree!Subs -> {"none", "created", "waiting", "failed", "returned"}]
      /\ \A d \in Tree!Subs : d # c => call'[d] = call[d]
      /\ call'[c] # "returned"
  BY DEF DelegationInv, Tree!CreateSession
<1>3. depth' \in [Chats -> Nat] /\ \A d \in Chats : d # c => depth'[d] = depth[d]
  BY <1>1 DEF DelegationInv, Tree!CreateSession
<1>4. Tree!DepthBounded'
  BY <1>1, <1>2, <1>3 DEF DelegationInv, Tree!DepthBounded, Tree!TooDeep, Tree!Subs
<1>5. QED
  BY <1>1, <1>2, <1>3, <1>4 DEF DelegationInv

LEMMA StartSubAgentKeeps ==
    ASSUME DelegationInv, NEW c \in Tree!Subs, Tree!StartSubAgent(c)
    PROVE  DelegationInv'
<1>1. c \in Chats
  BY DEF Tree!Subs
<1>2. /\ call' \in [Tree!Subs -> {"none", "created", "waiting", "failed", "returned"}]
      /\ run' \in [Chats -> {"none", "starting", "running", "ended", "refused"}]
      /\ depth' = depth /\ closed' = closed
  BY <1>1 DEF DelegationInv, Tree!StartSubAgent
<1>3. /\ \A d \in Chats : run'[d] \in {"running", "ended"} => run'[d] = run[d]
      /\ \A d \in Tree!Subs : d # c => call'[d] = call[d] /\ run'[d] = run[d]
      /\ call'[c] # "returned"
      /\ run'[c] # "none" => call'[c] = "waiting"
  BY <1>1 DEF DelegationInv, Tree!StartSubAgent, Tree!Subs
<1>4. QED
  BY <1>2, <1>3 DEF DelegationInv, Tree!DepthBounded, Tree!TooDeep, Tree!Subs

(* A call returns once its sub-chat's context is closed, which never is.   *)
LEMMA NoReturn ==
    ASSUME DelegationInv, NEW c \in Tree!Subs
    PROVE  ~Tree!Return(c)
  BY DEF DelegationInv, Tree!Return, Tree!Subs

LEMMA EngineKeeps ==
    ASSUME DelegationInv, NEW c \in Chats, Tree!Engine(c)
    PROVE  DelegationInv'
<1>1. CASE Tree!Begin(c)
  <2>1. /\ run' \in [Chats -> {"none", "starting", "running", "ended", "refused"}]
        /\ run[c] = "starting" /\ UNCHANGED <<call, depth, closed>>
        /\ \A d \in Chats : d # c => run'[d] = run[d]
    BY <1>1 DEF DelegationInv, Tree!Begin
  <2>2. run'[c] \in {"running", "ended"} => ~Tree!TooDeep(c)
    BY <1>1 DEF DelegationInv, Tree!Begin
  <2>3. QED
    BY <2>1, <2>2 DEF DelegationInv, Tree!DepthBounded, Tree!TooDeep, Tree!Subs
<1>2. CASE Tree!End(c)
  BY <1>2 DEF DelegationInv, Tree!DepthBounded, Tree!TooDeep, Tree!Subs, Tree!End
<1>3. QED
  BY <1>1, <1>2 DEF Tree!Engine

LEMMA DelegationInvNext == DelegationInv /\ [Tree!Next]_(Tree!vars) => DelegationInv'
<1> SUFFICES ASSUME DelegationInv, [Tree!Next]_(Tree!vars) PROVE DelegationInv'
  OBVIOUS
<1>1. CASE \E c \in Tree!Subs : Tree!DelegateTo(c)
  BY <1>1, RejectKeeps, CreateSessionKeeps, StartSubAgentKeeps, NoReturn
     DEF Tree!DelegateTo
<1>2. CASE \E c \in Chats : Tree!Engine(c)
  BY <1>2, EngineKeeps
<1>3. CASE Tree!CloseRoot
  BY <1>3 DEF DelegationInv, Tree!DepthBounded, Tree!TooDeep, Tree!CloseRoot
<1>4. CASE UNCHANGED Tree!vars
  BY <1>4 DEF DelegationInv, Tree!DepthBounded, Tree!TooDeep, Tree!vars
<1>5. QED
  BY <1>1, <1>2, <1>3, <1>4 DEF Tree!Next

(* No agent loop runs at the depth limit or below it (engine.go:126).      *)
THEOREM DepthIsBounded == Tree!Spec => []Tree!DepthBounded
<1>1. DelegationInv => Tree!DepthBounded
  BY DEF DelegationInv
<1>2. QED
  BY <1>1, DelegationInvInit, DelegationInvNext, PTL DEF Tree!Spec

(* The finding of the run on delegation, in general: no delegating call    *)
(* ever returns, in any execution (delegate.go:132).                       *)
THEOREM NoCallReturns == Tree!Spec => [](\A c \in Tree!Subs : call[c] # "returned")
<1>1. DelegationInv => \A c \in Tree!Subs : call[c] # "returned"
  BY DEF DelegationInv
<1>2. QED
  BY <1>1, DelegationInvInit, DelegationInvNext, PTL DEF Tree!Spec

=============================================================================
