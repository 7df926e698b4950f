----------------------------- MODULE MCFileStores -----------------------------
(***************************************************************************)
(* The file-backed stores share no file: a behaviour has the requests of   *)
(* one of them, whichever it is, and the others are as at the start.       *)
(***************************************************************************)
EXTENDS FileStores

VARIABLE store  \* whose requests these are

mcVars == <<store, storeVars>>

MCInit ==
  /\ store \in {"settings", "mcp", "skills", "memory", "history"}
  /\ FileStoresInit
  /\ store # "settings" => doc = "system"
  /\ store # "skills" => skFirst = NoSkill
  /\ store # "memory" => memFile = NoFile
  /\ store # "history" => hMade = [f \in Folders |-> 0]

MCNext ==
  /\ UNCHANGED store
  /\ \/ store = "settings" /\ SettingsNext /\ UNCHANGED <<mcpVars, skVars, memVars, histVars>>
     \/ store = "mcp" /\ McpNext /\ UNCHANGED <<setVars, skVars, memVars, histVars>>
     \/ store = "skills" /\ SkillsNext /\ UNCHANGED <<setVars, mcpVars, memVars, histVars>>
     \/ store = "memory" /\ MemoryNext /\ UNCHANGED <<setVars, mcpVars, skVars, histVars>>
     \/ store = "history" /\ HistoryNext /\ UNCHANGED <<setVars, mcpVars, skVars, memVars>>

MCSpec == MCInit /\ [][MCNext]_mcVars
=============================================================================
