------------------------------ MODULE FileStores ------------------------------
(***************************************************************************)
(* The file-backed stores side by side. They share no file and no          *)
(* variable; the requests of each interleave with one another.             *)
(***************************************************************************)
EXTENDS SettingsStore, McpServersStore, SkillsStore, MemoryStore, TerminalHistory

storeVars == <<setVars, mcpVars, skVars, memVars, histVars>>

FileStoresInit == SettingsInit /\ McpInit /\ SkillsInit /\ MemoryInit /\ HistoryInit

FileStoresNext ==
  \/ SettingsNext /\ UNCHANGED <<mcpVars, skVars, memVars, histVars>>
  \/ McpNext /\ UNCHANGED <<setVars, skVars, memVars, histVars>>
  \/ SkillsNext /\ UNCHANGED <<setVars, mcpVars, memVars, histVars>>
  \/ MemoryNext /\ UNCHANGED <<setVars, mcpVars, skVars, histVars>>
  \/ HistoryNext /\ UNCHANGED <<setVars, mcpVars, skVars, memVars>>

FileStoresSpec == FileStoresInit /\ [][FileStoresNext]_storeVars

-----------------------------------------------------------------------------
\* No store loses an update that did not overlap another one, keeps a trace of one that
\* was refused or failed, or leaves a temporary file behind.
UpdatesKept == SettingsKept /\ TmpHasOwner /\ ServersKept /\ SkillKept /\ AppendsKept

\* The cache of a memory file agrees with it unless requests overlapped, and an
\* answer about terminal histories that leaves nothing out, or is about the latest ones, is
\* not older than what was in memory when its request looked.
\* Nothing is said of pages, searches, lists with a filter and details.
AnswersFresh == CacheCoherent /\ AnswerNotStale
=============================================================================
