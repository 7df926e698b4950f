----------------------------- MODULE SkillsStore -----------------------------
(***************************************************************************)
(* One skill of a user (services/skills.py): a directory with SKILL.md     *)
(* when the skill is enabled, SKILL.md.disabled when it is not. The names  *)
(* are "on" and "off"; skName says which file each refers to.              *)
(***************************************************************************)
EXTENDS FileSystem, Naturals, Sequences, FiniteSetsExt

\* A file is named after the request that made it: none has the name of no file, or of
\* the file that was there first.
ASSUME SkillsAssumption == "no skill" \notin Requests /\ "first" \notin Requests

VARIABLES
  skDir,     \* the directory exists
  skName,    \* the file of each name: NoSkill, the first one, or the request that made it
  skText,    \* contents of the files
  skReq,     \* the requests
  skFirst,   \* history: the name the skill had at the start, or NoSkill
  skLog,     \* history: the changes that took effect, in order
  skRaced    \* history: two changes overlapped

skVars == <<skDir, skName, skText, skReq, skFirst, skLog, skRaced>>
skHistory == <<skFirst, skLog, skRaced>>

NoSkill == "no skill"
Names == {"on", "off"}
NameOf(enabled) == IF enabled THEN "on" ELSE "off"

SkillsInit ==
  /\ skFirst \in Names \cup {NoSkill}
  /\ skDir = (skFirst # NoSkill)
  /\ skName = [n \in Names |-> IF n = skFirst THEN "first" ELSE NoSkill]
  /\ skText = [f \in Requests \cup {"first"} |-> IF f = "first" THEN Whole("first") ELSE NoFile]
  /\ skReq = [r \in Requests |-> NoRequest]
  /\ skLog = <<>>
  /\ skRaced = FALSE

\* _map_skills_error
Reply(r, status) == skReq' = [skReq EXCEPT ![r] = Done(@, status)]
Goes(r, at) == skReq' = [skReq EXCEPT ![r].at = at]

\* A request: its stage is "look" while it has yet to find the file it works on, and
\* "detail" when it reads the skill for its answer.
Begins(op, arg) ==
  [op |-> op, at |-> "look on", answer |-> "none", arg |-> arg,
   stage |-> IF op \in {"get", "list"} THEN "detail" ELSE "look", found |-> NoSkill,
   file |-> NoSkill, left |-> {}]

\* get and list start by looking for the file; a directory that is not there is 404 for
\* get, and no candidate for list.
StartReading(r, op) ==
  /\ skReq[r].at = "new"
  /\ skReq' = [skReq EXCEPT ![r] =
       IF skDir THEN Begins(op, "none")
       ELSE Done(Begins(op, "none"), IF op = "get" THEN "404" ELSE "200")]
  /\ UNCHANGED <<skDir, skName, skText, skHistory>>

StartsChange(r, rec) ==
  /\ skReq' = [skReq EXCEPT ![r] = rec]
  /\ skRaced' = (skRaced \/ \E q \in Requests : Open(skReq, q) /\ skReq[q].op \notin {"get", "list"})
  /\ UNCHANGED <<skName, skText, skFirst, skLog>>

\* _upsert_user_skill: too large is refused first, then the directory is made.
PutSkill(r, text) ==
  /\ skReq[r].at = "new"
  /\ IF text = "huge"
     THEN /\ skReq' = [skReq EXCEPT ![r] = [Done(@, "400") EXCEPT !.op = "put"]]
          /\ UNCHANGED <<skDir, skName, skText, skHistory>>
     ELSE skDir' = TRUE /\ StartsChange(r, Begins("put", text))

PatchSkillState(r, enabled) ==
  /\ skReq[r].at = "new" /\ skDir
  /\ StartsChange(r, Begins("patch", enabled))
  /\ UNCHANGED skDir

DeleteSkill(r) ==
  /\ skReq[r].at = "new" /\ skDir
  /\ StartsChange(r, [Begins("delete", "none") EXCEPT !.at = "scan"])
  /\ UNCHANGED skDir

\* patch and delete of a skill whose directory is not there
ChangeOfNothing(r, op) ==
  /\ skReq[r].at = "new" /\ ~skDir
  /\ skReq' = [skReq EXCEPT ![r] = [Done(@, "404") EXCEPT !.op = op]]
  /\ UNCHANGED <<skDir, skName, skText, skHistory>>

\* Seeded fault: a disabled skill that is written to is enabled again.
UpsertTargetEnabled(found) == "on"

\* The file an upsert writes: the one there is, SKILL.md when there is none.
UpsertTarget(found) == IF found = NoSkill THEN "on" ELSE found

\* Where the look-up of r goes on once it has found a name, or none.
Resolved(r, n) ==
  LET rec == [skReq[r] EXCEPT !.found = n]
  IN skReq' = [skReq EXCEPT ![r] =
       IF rec.stage = "detail"
         THEN IF n # NoSkill THEN [rec EXCEPT !.at = "read"]
              ELSE Done(rec, IF rec.op = "list" THEN "200" ELSE "404")
       ELSE IF rec.op = "put" THEN [rec EXCEPT !.at = "open", !.found = UpsertTarget(n)]
       ELSE IF n = NoSkill THEN Done(rec, "404")
       ELSE IF n = NameOf(rec.arg) THEN [rec EXCEPT !.at = "look on", !.stage = "detail"]
       ELSE [rec EXCEPT !.at = "check"]]

\* _resolve_skill_file: first one name, then the other.
LookOn(r) ==
  /\ skReq[r].at = "look on"
  /\ IF skName["on"] # NoSkill THEN Resolved(r, "on") ELSE Goes(r, "look off")
  /\ UNCHANGED <<skDir, skName, skText, skHistory>>

LookOff(r) ==
  /\ skReq[r].at = "look off"
  /\ Resolved(r, IF skName["off"] # NoSkill THEN "off" ELSE NoSkill)
  /\ UNCHANGED <<skDir, skName, skText, skHistory>>

\* stat and read_text by the name that was found
ReadDetail(r) ==
  /\ skReq[r].at = "read"
  /\ Reply(r, IF skName[skReq[r].found] = NoSkill THEN "404" ELSE "200")
  /\ UNCHANGED <<skDir, skName, skText, skHistory>>

\* write_text: open by name, which makes the file when it is not there
OpenSkillFile(r) ==
  LET n == skReq[r].found
      f == IF skName[n] = NoSkill THEN r ELSE skName[n]
  IN /\ skReq[r].at = "open"
     /\ IF skDir
        THEN /\ skName' = [skName EXCEPT ![n] = f]
             /\ skText' = [skText EXCEPT ![f] = Empty]
             /\ skReq' = [skReq EXCEPT ![r].at = "write", ![r].file = f]
        ELSE Reply(r, "404") /\ UNCHANGED <<skName, skText>>
     /\ UNCHANGED <<skDir, skHistory>>

TookEffect(r) == skLog' = Append(skLog, r) /\ UNCHANGED <<skFirst, skRaced>>

WriteSkillFile(r) ==
  /\ skReq[r].at = "write"
  /\ \E c \in WrittenOver(skText[skReq[r].file], skReq[r].arg) :
       skText' = [skText EXCEPT ![skReq[r].file] = c]
  /\ skReq' = [skReq EXCEPT ![r].at = "look on", ![r].stage = "detail"]
  /\ TookEffect(r)
  /\ UNCHANGED <<skDir, skName>>

-----------------------------------------------------------------------------
\* _set_user_skill_enabled: is there a file under the other name, remove it, rename.
CheckTarget(r) ==
  /\ skReq[r].at = "check"
  /\ Goes(r, IF skName[NameOf(skReq[r].arg)] # NoSkill THEN "unlink" ELSE "rename")
  /\ UNCHANGED <<skDir, skName, skText, skHistory>>

UnlinkTarget(r) ==
  LET n == NameOf(skReq[r].arg)
  IN /\ skReq[r].at = "unlink"
     /\ IF skName[n] = NoSkill THEN Reply(r, "404") ELSE Goes(r, "rename")
     /\ skName' = [skName EXCEPT ![n] = NoSkill]
     /\ UNCHANGED <<skDir, skText, skHistory>>

RenameSkill(r) ==
  LET n == skReq[r].found
  IN /\ skReq[r].at = "rename"
     /\ IF skName[n] = NoSkill
        THEN Reply(r, "404") /\ UNCHANGED <<skName, skHistory>>
        ELSE /\ skName' = [skName EXCEPT ![NameOf(skReq[r].arg)] = skName[n], ![n] = NoSkill]
             /\ skReq' = [skReq EXCEPT ![r].at = "look on", ![r].stage = "detail"]
             /\ TookEffect(r)
     /\ UNCHANGED <<skDir, skText>>

-----------------------------------------------------------------------------
\* shutil.rmtree: list the directory, remove what was listed, remove the directory.
ScanDir(r) ==
  /\ skReq[r].at = "scan"
  /\ skReq' = [skReq EXCEPT ![r].at = "remove", ![r].left = {n \in Names : skName[n] # NoSkill}]
  /\ UNCHANGED <<skDir, skName, skText, skHistory>>

RemoveEntry(r, n) ==
  /\ skReq[r].at = "remove" /\ n \in skReq[r].left
  /\ IF skName[n] = NoSkill THEN Reply(r, "404")
     ELSE skReq' = [skReq EXCEPT ![r].left = @ \ {n}]
  /\ skName' = [skName EXCEPT ![n] = NoSkill]
  /\ UNCHANGED <<skDir, skText, skHistory>>

RemoveDir(r) ==
  /\ skReq[r].at = "remove" /\ skReq[r].left = {}
  /\ IF \E n \in Names : skName[n] # NoSkill
     THEN Reply(r, "500") /\ UNCHANGED <<skDir, skHistory>>
     ELSE IF ~skDir THEN Reply(r, "404") /\ UNCHANGED <<skDir, skHistory>>
     ELSE skDir' = FALSE /\ Reply(r, "200") /\ TookEffect(r)
  /\ UNCHANGED <<skName, skText>>

SkillsNext ==
  \E r \in Requests :
    \/ \E op \in {"get", "list"} : StartReading(r, op)
    \/ \E text \in {"new", "huge"} : PutSkill(r, text)
    \/ \E e \in BOOLEAN : PatchSkillState(r, e)
    \/ DeleteSkill(r)
    \/ \E op \in {"patch", "delete"} : ChangeOfNothing(r, op)
    \/ LookOn(r) \/ LookOff(r) \/ ReadDetail(r)
    \/ OpenSkillFile(r) \/ WriteSkillFile(r)
    \/ CheckTarget(r) \/ UnlinkTarget(r) \/ RenameSkill(r)
    \/ ScanDir(r) \/ (\E n \in Names : RemoveEntry(r, n)) \/ RemoveDir(r)

-----------------------------------------------------------------------------
\* The positions in skLog of the changes by op; the life of the skill starts after the
\* last time it was deleted.
Effects(op) == {i \in DOMAIN skLog : skReq[skLog[i]].op = op}
LifeStart == Max(Effects("delete") \cup {0})
InLife(op) == {i \in Effects(op) : i > LifeStart}
ArgAt(i) == skReq[skLog[i]].arg
SkillExpected == InLife("put") # {} \/ (LifeStart = 0 /\ skFirst # NoSkill)
TextExpected == IF InLife("put") = {} THEN "first" ELSE ArgAt(Max(InLife("put")))
NameExpected == IF InLife("patch") # {} THEN NameOf(ArgAt(Max(InLife("patch"))))
                ELSE IF LifeStart = 0 /\ skFirst # NoSkill THEN skFirst ELSE "on"

\* Unless changes overlapped, the skill is, whenever no change is in the middle of its
\* file operations, what the changes add up to: one file, under the name of the last state
\* that was asked for, with the text of the last write; writing does not enable a disabled
\* skill, and switching it on or off does not touch its text.
SkillKept ==
  (~skRaced /\ \A r \in Requests : skReq[r].at \notin {"write", "remove"}) =>
    /\ {n \in Names : skName[n] # NoSkill} = IF SkillExpected THEN {NameExpected} ELSE {}
    /\ SkillExpected => skText[skName[NameExpected]] = Whole(TextExpected)

\* "Enable or disable one user-owned skill without changing its content": a skill that is
\* only read, enabled and disabled still has its file and text. Two requests for the same
\* state may both find the old name; the second one then removes the file that the first
\* one has just renamed, and has nothing left to rename.
TogglesKeepSkill ==
  (skFirst # NoSkill /\ \A r \in Requests : skReq[r].op \in {"none", "get", "list", "patch"}) =>
    \E n \in Names : skName[n] = "first" /\ skText["first"] = Whole("first")
=============================================================================
