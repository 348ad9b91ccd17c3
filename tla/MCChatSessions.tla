--------------------------- MODULE MCChatSessions ---------------------------
(***************************************************************************)
(* ChatSessions on small instances: one session id, because the table and  *)
(* every lookup in it go by session id and contexts of different sessions  *)
(* share nothing.  Requests and interrupts are few and clients need not    *)
(* use them all, so behaviours end: the system may really stop.  The       *)
(* members of each set are interchangeable, which the safety run uses.     *)
(***************************************************************************)
EXTENDS ChatSessions, TLC

Interchangeable == Permutations(Chats) \cup Permutations(Resumes)
=============================================================================
