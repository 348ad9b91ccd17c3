---------------------------- MODULE SessionStore ----------------------------
(***************************************************************************)
(* The sessions, messages and todos tables, on either database the server  *)
(* can be configured with, and the HTTP handlers that create, list and     *)
(* delete sessions.  The two packages share their code; what differs is    *)
(* the foreign key of messages and todos: with PostgreSQL the rows go with *)
(* their session (OnDelete:CASCADE), with SQLite, opened with              *)
(* foreign_keys(1), a session that has rows cannot be deleted.             *)
(*                                                                         *)
(* Running chats keep writing the messages of a session while a client     *)
(* deletes it, and another client pages through the list of sessions while *)
(* it changes.  A database statement is one step.                          *)
(***************************************************************************)
EXTENDS Integers, Sequences, SequencesExt

CONSTANTS
  Sessions,    \* session identifiers; a model uses each for one session
  Messages,    \* message identifiers, drawn by the engine before the first save
  MaxSaves,    \* bound: saves of one message
  PageSize     \* the limit a client lists sessions with

VARIABLES
  backend,  \* the database the server was configured with
  recent,   \* the session rows, in the order of updated_at, latest first
  made,     \* the sessions created so far
  rows,     \* the message rows (History has their order)
  saves,    \* how often each message was saved, the failed saves included
  saved,    \* history: the content of each message that was last saved with success
  owner,    \* the session in which the engine writes a message
  todos,    \* the sessions that have todo rows
  refused,  \* history: the sessions whose deletion was answered 404 while they existed
  offset,   \* how far the listing client has read
  shown,    \* history: the sessions its pages showed
  skipped   \* history: sessions it cannot count on: created, touched or deleted since it began

tableVars == <<backend, recent, made, todos, refused>>
rowVars   == <<rows, saves, saved, owner>>
pageVars  == <<offset, shown, skipped>>
storeVars == <<tableVars, rowVars, pageVars>>

Exists(s)  == Contains(recent, s)
HasRow(m)  == \E r \in rows : r.id = m
RowsOf(s)  == {r \in rows : r.session = s}

\* The list without a session that is in it; a session has one row.
Position(s) == CHOOSE i \in DOMAIN recent : recent[i] = s
Without(s)  == RemoveAt(recent, Position(s))

SessionStoreTypeOK ==
  /\ backend \in {"sqlite", "postgres"}
  /\ ToSet(recent) \subseteq made /\ made \subseteq Sessions
  /\ rows \subseteq [id : Messages, session : Sessions, parts : 1 .. MaxSaves]
  /\ saves \in [Messages -> 0 .. MaxSaves] /\ saved \in [Messages -> 0 .. MaxSaves]
  /\ owner \in [Messages -> Sessions \cup {"none"}]
  /\ todos \subseteq Sessions /\ refused \subseteq Sessions
  /\ offset \in Nat /\ shown \subseteq Sessions /\ skipped \subseteq Sessions

Init ==
  /\ backend \in {"sqlite", "postgres"}
  /\ recent = <<>> /\ made = {} /\ rows = {}
  /\ saves = [m \in Messages |-> 0] /\ saved = [m \in Messages |-> 0]
  /\ owner = [m \in Messages |-> "none"]
  /\ todos = {} /\ refused = {}
  /\ offset = 0 /\ shown = {} /\ skipped = Sessions

\* POST /sessions: a row of its own id, created and updated now.
CreateSession(s) ==
  /\ s \notin made
  /\ made' = made \cup {s}
  /\ recent' = <<s>> \o recent
  /\ skipped' = skipped \cup {s}
  /\ UNCHANGED <<backend, todos, refused, rowVars, offset, shown>>

\* UpdateTitle, UpdateMetadata and the write of AppendMetadata: gorm sets updated_at.
Touch(s) ==
  /\ Exists(s)
  /\ recent' = <<s>> \o Without(s)
  /\ skipped' = skipped \cup {s}
  /\ UNCHANGED <<backend, made, todos, refused, rowVars, offset, shown>>

\* What a save of message m in session s brings: its next content.
Save(m, s) ==
  /\ saves[m] < MaxSaves
  /\ s \in made
  /\ owner[m] \in {"none", s}
  /\ owner' = [owner EXCEPT ![m] = s]
  /\ saves' = [saves EXCEPT ![m] = @ + 1]
  /\ UNCHANGED <<tableVars, pageVars>>

\* The insert is refused when the session's row is gone or the id is taken.
Insert(m, s) ==
  IF Exists(s) /\ ~HasRow(m)
  THEN /\ rows' = rows \cup {[id |-> m, session |-> s, parts |-> saves[m] + 1]}
       /\ saved' = [saved EXCEPT ![m] = saves[m] + 1]
  ELSE UNCHANGED <<rows, saved>>

\* Content, reasoning, parts and tool calls are replaced; the rest of the row stays.
Replace(m, s) ==
  /\ rows' = {IF r.id = m THEN [r EXCEPT !.parts = saves[m] + 1] ELSE r : r \in rows}
  /\ saved' = [saved EXCEPT ![m] = saves[m] + 1]

AddMessage(m, s) == Save(m, s) /\ Insert(m, s)

\* Without a row of this id and this session there is nothing to update: an error.
UpdateMessage(m, s) ==
  /\ Save(m, s)
  /\ IF \E r \in RowsOf(s) : r.id = m
     THEN Replace(m, s) ELSE UNCHANGED <<rows, saved>>

\* Variant: the conflict clause does nothing instead of listing the columns to assign.
UpsertDoesNothing(m, s) ==
  /\ Save(m, s)
  /\ IF HasRow(m) THEN UNCHANGED rows /\ saved' = [saved EXCEPT ![m] = saves[m] + 1]
                  ELSE Insert(m, s)

UpsertMessage(m, s) ==
  /\ Save(m, s)
  /\ IF HasRow(m) THEN Replace(m, s) ELSE Insert(m, s)

CreateTodo(s) ==
  /\ Exists(s)
  /\ todos' = todos \cup {s}
  /\ UNCHANGED <<backend, recent, made, refused, rowVars, pageVars>>

\* TodoStore.DeleteBySession, of a replan.
DeleteTodos(s) ==
  /\ s \in todos
  /\ todos' = todos \ {s}
  /\ UNCHANGED <<backend, recent, made, refused, rowVars, pageVars>>

\* DELETE /sessions/{id}: whatever error the store reports is answered 404.
DeleteSession(s) ==
  /\ Exists(s)
  /\ IF backend = "sqlite" /\ (RowsOf(s) # {} \/ s \in todos)
     THEN refused' = refused \cup {s} /\ UNCHANGED <<recent, rows, todos, skipped>>
     ELSE /\ recent' = Without(s)
          /\ rows' = rows \ RowsOf(s)
          /\ todos' = todos \ {s}
          /\ skipped' = Sessions
          /\ UNCHANGED refused
  /\ UNCHANGED <<backend, made, saves, saved, owner, offset, shown>>

\* A client starts to page through GET /sessions.
StartListing ==
  /\ offset' = 0 /\ shown' = {} /\ skipped' = {}
  /\ UNCHANGED <<tableVars, rowVars>>

PageAt(from) == (from + 1 .. from + PageSize) \cap DOMAIN recent

\* Variant: rows ordered by updated_at ascending: a touched session moves behind the page.
ListOldestFirst ==
  /\ offset < Len(recent)
  /\ shown' = shown \cup {Reverse(recent)[i] : i \in PageAt(offset)}
  /\ offset' = offset + PageSize
  /\ UNCHANGED <<tableVars, rowVars, skipped>>

\* One page: the rows from offset on, latest updated first.
ListSessions ==
  /\ offset < Len(recent)
  /\ shown' = shown \cup {recent[i] : i \in PageAt(offset)}
  /\ offset' = offset + PageSize
  /\ UNCHANGED <<tableVars, rowVars, skipped>>

Next ==
  \/ \E s \in Sessions : CreateSession(s) \/ Touch(s) \/ CreateTodo(s) \/ DeleteTodos(s) \/ DeleteSession(s)
  \/ \E m \in Messages, s \in Sessions : AddMessage(m, s) \/ UpdateMessage(m, s) \/ UpsertMessage(m, s)
  \/ StartListing \/ ListSessions

Spec == Init /\ [][Next]_storeVars

-----------------------------------------------------------------------------
\* No row outlives its session: not one written by a chat that still ran when the
\* session was deleted (models.go:253 CASCADE; factory.go:49 foreign_keys).
NoOrphans ==
  /\ \A r \in rows : Exists(r.session)
  /\ \A s \in todos : Exists(s)

\* A message whose save was reported as done is read back, once and with the content
\* of that save, however adds, updates and upserts of it followed each other.
SavedIsRead ==
  \A m \in Messages : saved[m] > 0 /\ Exists(owner[m]) =>
    {r \in rows : r.id = m} = {[id |-> m, session |-> owner[m], parts |-> saved[m]]}

\* Paging: when the pages have reached the end, they showed every session that was
\* there from the first page on and was not touched meanwhile, if none was deleted
\* meanwhile; sessions that come in or move to the front only shift the others on.
ListingMissesNone ==
  offset >= Len(recent) => \A i \in DOMAIN recent : recent[i] \in shown \cup skipped

\* SessionStore as a whole (message.go, session.go, handlers.go).
StoreConsistent == NoOrphans /\ SavedIsRead /\ ListingMissesNone

\* http-api.md:204: DELETE deletes a session and all its messages.  Not so with
\* SQLite, which refuses it for a session that has rows.
DeleteSucceeds == refused = {}

=============================================================================
