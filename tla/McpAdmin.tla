------------------------------- MODULE McpAdmin -------------------------------
(***************************************************************************)
(* The configured MCP servers: the HTTP handlers that add, remove, enable  *)
(* and disable them (server/internal/api/mcp.go), the manager that writes  *)
(* the list back to the configuration file (manager/mcp_manager.go), and   *)
(* the plugin's list and flags (plugins/mcp/plugin.go).                    *)
(*                                                                         *)
(* Only the writing of the file is under a mutex: the list is a slice that *)
(* concurrent requests append to and shift in place.                       *)
(***************************************************************************)
EXTENDS Naturals, Sequences, SequencesExt

CONSTANTS
    Admins,     (* clients of the administration API                       *)
    Servers,    (* server names                                            *)
    Configured, (* those in the configuration file, with an environment    *)
    MaxChanges, (* bound: requests that change something                   *)
    MaxFaults,  (* bound: failures to write the file                       *)
    MaxRestarts (* bound: restarts of the server                           *)

VARIABLES
    configs,    (* the plugin's list of names                              *)
    enabled,    (* enabledServers                                          *)
    saved, env, (* the servers in the file, and those with an environment  *)
    admin,      (* where each client's request is                          *)
    target, seen, (* the server it is about, and the list it has read      *)
    changes, faults, restarts,
    raced,      (* history: two requests have changed the list at once     *)
    unsaved,    (* history: the last write of the file failed              *)
    added       (* history: servers added with success, and not removed    *)

memory == <<configs, enabled>>
disk == <<saved, env>>
request == <<admin, target, seen>>
history == <<raced, unsaved, added>>
vars == <<memory, disk, request, changes, faults, restarts, history>>

Listed == {configs[i] : i \in DOMAIN configs}

McpTypeOK ==
    /\ configs \in Seq(Servers) /\ saved \in Seq(Servers)
    /\ enabled \subseteq Servers /\ env \subseteq Servers
    /\ admin \in [Admins -> {"idle", "adding", "removing", "shifting", "flagging",
                             "save-add", "save-remove", "save-flag"}]
    /\ target \in [Admins -> Servers \cup {"none"}]
    /\ \A a \in Admins : seen[a] \in Seq(Servers)
    /\ changes \in 0 .. MaxChanges
    /\ faults \in 0 .. MaxFaults /\ restarts \in 0 .. MaxRestarts
    /\ raced \in BOOLEAN /\ unsaved \in BOOLEAN
    /\ added \subseteq Servers

Init ==
    /\ configs = SetToSeq(Configured) /\ enabled = Configured
    /\ saved = SetToSeq(Configured) /\ env = Configured
    /\ admin = [a \in Admins |-> "idle"]
    /\ target = [a \in Admins |-> "none"]
    /\ seen = [a \in Admins |-> <<>>]
    /\ changes = 0 /\ faults = 0 /\ restarts = 0
    /\ raced = FALSE /\ unsaved = FALSE /\ added = {}

Changing == {a \in Admins : admin[a] \in {"adding", "removing", "shifting"}}
Goto(a, place) == admin' = [admin EXCEPT ![a] = place]

Finish(a) ==
    /\ Goto(a, "idle")
    /\ target' = [target EXCEPT ![a] = "none"]
    /\ seen' = [seen EXCEPT ![a] = <<>>]

Request(a, s, place) ==
    /\ admin[a] = "idle" /\ changes < MaxChanges
    /\ changes' = changes + 1
    /\ admin' = [admin EXCEPT ![a] = place]
    /\ target' = [target EXCEPT ![a] = s]
    /\ seen' = [seen EXCEPT ![a] = configs]
    /\ UNCHANGED <<memory, disk, faults, restarts, unsaved, added>>

-----------------------------------------------------------------------------
(* AddServer: append, without a look at the names there are.  The array is *)
(* the one other requests use if it has room for one more.                 *)
AddServer(a, s) ==
    /\ Request(a, s, "adding")
    /\ raced' = (raced \/ Changing # {})

AppendConfig(a) ==
    /\ admin[a] = "adding"
    /\ \/ configs' = Append(seen[a], target[a])
       \/ Len(configs) >= Len(seen[a])
          /\ configs' = Append(SubSeq(configs, 1, Len(seen[a])), target[a])
    /\ enabled' = enabled \cup {target[a]}
    /\ Goto(a, "save-add")
    /\ UNCHANGED <<disk, target, seen, changes, faults, restarts, history>>

(* RemoveServer: the first of the name; the rest are shifted in place, and *)
(* the length is reduced.                                                  *)
Position(list, s) == SelectInSeq(list, LAMBDA x : x = s)

RemoveServer(a, s) ==
    /\ s \in Listed
    /\ Request(a, s, "removing")
    /\ raced' = (raced \/ Changing # {})

Shift(a) ==
    /\ admin[a] = "removing"
    /\ LET n == Len(seen[a])
           i == Position(seen[a], target[a]) IN
       configs' = IF Len(configs) < n THEN configs
                  ELSE [j \in DOMAIN configs |->
                          IF i <= j /\ j < n THEN configs[j + 1] ELSE configs[j]]
    /\ added' = added \ {target[a]}
    /\ Goto(a, "shifting")
    /\ UNCHANGED <<enabled, disk, target, seen, changes, faults, restarts, raced, unsaved>>

Resize(a) ==
    /\ admin[a] = "shifting"
    /\ configs' = IF Len(configs) >= Len(seen[a])
                  THEN SubSeq(configs, 1, Len(seen[a]) - 1)
                  ELSE RemoveAt(seen[a], Position(seen[a], target[a]))
    /\ enabled' = enabled \ {target[a]}
    /\ added' = added \ {target[a]}
    /\ Goto(a, "save-remove")
    /\ UNCHANGED <<disk, target, seen, changes, faults, restarts, raced, unsaved>>

(* SetServerEnabled: the name is looked up, then its flag is set.          *)
SetServerEnabled(a, s) ==
    /\ s \in Listed
    /\ Request(a, s, "flagging")
    /\ UNCHANGED raced

SetFlag(a) ==
    /\ admin[a] = "flagging"
    /\ \/ enabled' = enabled \cup {target[a]}
       \/ enabled' = enabled \ {target[a]}
    /\ Goto(a, "save-flag")
    /\ UNCHANGED <<configs, disk, target, seen, changes, faults, restarts, history>>

(* persistConfig: under the mutex; the environment of a server is taken    *)
(* from the file, and the file is replaced by a rename.  Without success   *)
(* the change stays in memory.                                             *)
Saving(a) == admin[a] \in {"save-add", "save-remove", "save-flag"}

(* Variant: what is written is the list the request has read.              *)
PersistStale(a) ==
    /\ Saving(a)
    /\ Finish(a)
    /\ \/ /\ saved' = seen[a]
          /\ env' = env \cap {seen[a][i] : i \in DOMAIN seen[a]}
          /\ unsaved' = FALSE
          /\ added' = IF admin[a] = "save-add" THEN added \cup {target[a]} ELSE added
          /\ UNCHANGED faults
       \/ /\ faults < MaxFaults /\ faults' = faults + 1
          /\ unsaved' = TRUE
          /\ UNCHANGED <<disk, added>>
    /\ UNCHANGED <<memory, changes, restarts, raced>>

PersistConfig(a) ==
    /\ Saving(a)
    /\ Finish(a)
    /\ \/ /\ saved' = configs /\ env' = env \cap Listed
          /\ unsaved' = FALSE
          /\ added' = IF admin[a] = "save-add" /\ target[a] \in Listed
                      THEN added \cup {target[a]} ELSE added
          /\ UNCHANGED faults
       \/ /\ faults < MaxFaults /\ faults' = faults + 1
          /\ unsaved' = TRUE
          /\ UNCHANGED <<disk, added>>
    /\ UNCHANGED <<memory, changes, restarts, raced>>

(* Init, from the file: every server is enabled, whatever the flag was.    *)
Restart ==
    /\ restarts < MaxRestarts
    /\ restarts' = restarts + 1
    /\ configs' = saved
    /\ enabled' = {saved[i] : i \in DOMAIN saved}
    /\ admin' = [a \in Admins |-> "idle"]
    /\ target' = [a \in Admins |-> "none"]
    /\ seen' = [a \in Admins |-> <<>>]
    /\ unsaved' = FALSE
    /\ UNCHANGED <<disk, changes, faults, raced, added>>

Next ==
    \/ \E a \in Admins, s \in Servers :
          AddServer(a, s) \/ RemoveServer(a, s) \/ SetServerEnabled(a, s)
    \/ \E a \in Admins :
          AppendConfig(a) \/ Shift(a) \/ Resize(a) \/ SetFlag(a) \/ PersistConfig(a)
    \/ Restart

Spec == Init /\ [][Next]_vars

-----------------------------------------------------------------------------
Quiet == \A a \in Admins : admin[a] = "idle"

(* With no request in progress the file has the list in memory, unless it  *)
(* could not be written (mcp_manager.go:117).                              *)
FileAgrees == Quiet /\ ~unsaved => saved = configs

(* A server whose addition was acknowledged is in the file and, after any  *)
(* restart, in the list, until it is removed, unless requests changed the  *)
(* list at the same time (plugin.go:78-92).                                *)
AddedStays == raced \/ added \subseteq {saved[i] : i \in DOMAIN saved} \cap Listed

McpConsistent == FileAgrees /\ AddedStays

=============================================================================
