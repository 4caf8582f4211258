------------------------------- MODULE ClientFiles -------------------------------
(***************************************************************************)
(* The files of other programs that BrainCell edits in one project, and    *)
(* the hook that one of them runs.                                         *)
(*                                                                         *)
(* Two commands, of a terminal and of the GUI, without any lock between    *)
(* them, connect and disconnect a client, enable and disable Automatic     *)
(* Pool recall, add and remove the packaged skill; setup does the first of *)
(* each in a row.  Users edit the same files.  A command may fail or die   *)
(* before any of its steps.                                                *)
(*                                                                         *)
(* Abstracted: a file is what stands under BrainCell's key and the edits   *)
(* of users in the rest of it; a user's save is one step.  Codex, VS Code  *)
(* and OpenCode files are changed by the same protocol: "codex".  One      *)
(* skill, one settings scope, one named Pool.                              *)
(***************************************************************************)
EXTENDS Naturals, Sequences

CONSTANTS
  Edits,       \* the edits users may make
  MaxCommands, \* bound on the commands beside setup
  MaxFaults    \* bound on failures and deaths

ASSUME ClientAssumption ==
  /\ Edits \cap {"none", "braincell", "absolute", "old", "current", "torn"} = {}
  /\ MaxCommands \in Nat /\ MaxFaults \in Nat

VARIABLES
  client,     \* the client the user has
  file,       \* file[f]: the MCP configuration and the settings with the hook
  skill,      \* the body of SKILL.md, NONE when there is none
  temp,       \* the body of SKILL.md.tmp
  handle,     \* handle[p]: which of the two the file p holds open has become
  todo,       \* todo[p]: what p has to do
  stage,      \* stage[p]: where it is in the first of that
  seen,       \* seen[p]: the content of the file as it has read it
  setup,      \* how the last setup went
  session,    \* the client has loaded the settings with the hook on
  member,     \* the project is a member of the Pool
  prompt,     \* where the hook run by a prompt is
  edited,     \* the edits users have made
  placed,     \* those that put something of the user's where BrainCell writes
  saved,      \* the edits some backup holds
  late,       \* the edits made behind the back of a command that had read
  later,      \* those made behind the back of one that had made its backup
  overlapped, \* two commands were writing the skill at a time
  optin,      \* the hook was on at some time since the prompt
  commands,   \* how many commands there were beside setup
  faults      \* how many failures and deaths

skills == <<skill, temp, handle>>
processes == <<todo, stage, seen, setup>>
hook == <<session, prompt, optin>>
users == <<edited, placed, late, later>>
bounds == <<commands, faults>>
vars == <<client, file, skills, processes, hook, member, users, saved, overlapped, bounds>>

NONE == "none"
Procs == {"cli", "gui"}
Files == {"entry", "hook"}
Unread == [ours |-> NONE, edits |-> {}]

Ops == [connect |-> "entry", disconnect |-> "entry", enable |-> "hook",
        disable |-> "hook", add |-> "skill", remove |-> "skill"]

OpsOf(c) == IF c = "claude" THEN DOMAIN Ops ELSE DOMAIN Ops \ {"enable", "disable"}

TypeOK ==
  /\ file \in [Files -> [ours : {NONE, "braincell", "absolute"} \cup Edits,
                         edits : SUBSET Edits]]
  /\ {skill, temp} \subseteq {NONE, "old", "current", "torn"} \cup Edits
  /\ handle \in [Procs -> {"temp", "dest", "gone"}]
  /\ stage \in [Procs -> {"idle", "begin", "loaded", "backed", "compared",
                          "looked", "opened", "written"}]
  /\ setup \in {NONE, "running", "complete", "failed"}

-----------------------------------------------------------------------------

Doing(p) == Head(todo[p])
Target(p) == Ops[Doing(p)]
At(p, s) == stage[p] = s

Finished(p, how) ==
  /\ stage' = [stage EXCEPT ![p] = "idle"]
  /\ todo' = [todo EXCEPT ![p] = <<>>]
  /\ setup' = IF p = "cli" /\ setup = "running" THEN how ELSE setup

\* The operation is done, on to the next one of a setup.
Done(p) ==
  IF Len(todo[p]) = 1 THEN Finished(p, "complete")
  ELSE /\ stage' = [stage EXCEPT ![p] = "begin"]
       /\ todo' = [todo EXCEPT ![p] = Tail(@)]
       /\ UNCHANGED setup

GoOn(p, s) == stage' = [stage EXCEPT ![p] = s] /\ UNCHANGED <<todo, setup>>

\* What the operation leaves under BrainCell's key: the GUI connects Claude's local
\* scope with the absolute path of the server.
Wanted(p) ==
  IF Doing(p) \in {"disconnect", "disable"} THEN NONE
  ELSE IF Doing(p) = "connect" /\ p = "gui" /\ client = "claude" THEN "absolute"
  ELSE "braincell"

\* Own mutated: a place that is taken is a conflict.
OwnOnlyEmpty(p) == {NONE}

\* What it takes for its own: neither a user's entry nor one of another command line.
Own(p) == {NONE, IF Wanted(p) = NONE THEN "braincell" ELSE Wanted(p)}

\* The hook is for the members of a Pool.
MayEnable(p) == Doing(p) = "enable" => member

Current(p) == file[Target(p)]
ByClaude(p) == client = "claude" /\ Target(p) = "entry"
Settled == <<client, skills, session, prompt, member, users, overlapped, bounds>>

On == file["hook"].ours = "braincell"

\* The hook is on at this time, and a prompt is under way.
Witnessed == optin' = (optin \/ (prompt # NONE /\ On'))

-----------------------------------------------------------------------------
(* Commands *)

\* setup --yes, after its build; run again until it is complete.
StartSetup ==
  /\ At("cli", "idle")
  /\ todo' = [todo EXCEPT !["cli"] =
       IF client = "claude" THEN <<"connect", "add", "enable">> ELSE <<"connect", "add">>]
  /\ stage' = [stage EXCEPT !["cli"] = "begin"]
  /\ setup' = "running"
  /\ UNCHANGED <<client, file, skills, seen, hook, member, users, saved, overlapped, bounds>>

Start(p, op) ==
  /\ At(p, "idle")
  /\ commands < MaxCommands
  /\ op \in OpsOf(client)
  /\ todo' = [todo EXCEPT ![p] = <<op>>]
  /\ stage' = [stage EXCEPT ![p] = "begin"]
  /\ setup' = IF p = "cli" THEN NONE ELSE setup
  /\ commands' = commands + 1
  /\ UNCHANGED <<client, file, skills, seen, hook, member, users, saved, overlapped, faults>>

\* A command that refuses or raises: a setup ends with it.
Refuse(p) ==
  /\ At(p, "begin") /\ Target(p) \in Files
  /\ Current(p).ours \notin Own(p) \/ ~MayEnable(p)
  /\ Finished(p, "failed")
  /\ UNCHANGED <<Settled, optin, file, seen, saved>>

\* What is there is to be changed: by Claude, or by BrainCell on what it has read.
Compared(p) ==
  IF ByClaude(p) THEN GoOn(p, "compared") /\ UNCHANGED seen
  ELSE GoOn(p, "loaded") /\ seen' = [seen EXCEPT ![p] = Current(p)]

\* The file is read and parsed, and what stands under BrainCell's key compared.
Load(p) ==
  /\ At(p, "begin") /\ Target(p) \in Files
  /\ Current(p).ours \in Own(p)
  /\ MayEnable(p)
  /\ IF Current(p).ours = Wanted(p)
     THEN Done(p) /\ UNCHANGED seen
     ELSE Compared(p)
  /\ UNCHANGED <<Settled, optin, file, saved>>

\* Backup mutated: there is one backup, and the next one replaces it.
BackupOverBackup(p) ==
  /\ At(p, "loaded")
  /\ saved' = Current(p).edits \cup ({Current(p).ours} \cap Edits)
  /\ GoOn(p, "backed")
  /\ UNCHANGED <<Settled, optin, file, seen>>

\* _atomic_write_text: the file as it is now is copied under a name of its own,
Backup(p) ==
  /\ At(p, "loaded")
  /\ saved' = saved \cup Current(p).edits \cup ({Current(p).ours} \cap Edits)
  /\ GoOn(p, "backed")
  /\ UNCHANGED <<Settled, optin, file, seen>>

\* and then replaced by what was read, with BrainCell's part changed.
Replace(p) ==
  /\ At(p, "backed")
  /\ file' = [file EXCEPT ![Target(p)] = [seen[p] EXCEPT !.ours = Wanted(p)]]
  /\ seen' = [seen EXCEPT ![p] = Unread]
  /\ Done(p) /\ Witnessed
  /\ UNCHANGED <<Settled, saved>>

\* `claude mcp add` refuses a name that is taken, `claude mcp remove` takes it away
\* whatever it has become; both change the file as it is.
RunClaude(p) ==
  /\ At(p, "compared")
  /\ IF Wanted(p) # NONE /\ Current(p).ours # NONE
     THEN Finished(p, "failed") /\ UNCHANGED file
     ELSE /\ file' = [file EXCEPT !["entry"].ours = Wanted(p)]
          /\ Done(p)
  /\ UNCHANGED <<Settled, optin, saved, seen>>

-----------------------------------------------------------------------------
(* The skill *)

Shipped == {"old", "current"}
Skilled == <<client, file, seen, hook, member, users, saved, bounds>>

\* The body is compared with the packaged one and with those of earlier releases;
\* another one is reported and left alone.
LookAtSkill(p) ==
  /\ At(p, "begin") /\ Target(p) = "skill"
  /\ LET nothing == IF Doing(p) = "add" THEN "current" ELSE NONE
         theirs == skill \notin Shipped \cup {NONE}
     IN  IF skill = nothing \/ theirs THEN Done(p) ELSE GoOn(p, "looked")
  /\ UNCHANGED <<Skilled, skills, overlapped>>

\* OpenTemp mutated: the skill is written in place.
OpenInPlace(p) ==
  /\ At(p, "looked") /\ Doing(p) = "add"
  /\ skill' = "torn" /\ temp' = "torn"
  /\ handle' = [handle EXCEPT ![p] = "temp"]
  /\ overlapped' = (overlapped \/ \E q \in Procs \ {p} : stage[q] \in {"opened", "written"})
  /\ GoOn(p, "opened")
  /\ UNCHANGED Skilled

\* SKILL.md.tmp, the same for everybody, is created or truncated.
OpenTemp(p) ==
  /\ At(p, "looked") /\ Doing(p) = "add"
  /\ temp' = "torn"
  /\ handle' = [handle EXCEPT ![p] = "temp"]
  /\ overlapped' = (overlapped \/ \E q \in Procs \ {p} : stage[q] \in {"opened", "written"})
  /\ GoOn(p, "opened")
  /\ UNCHANGED <<Skilled, skill>>

\* The body goes to the file that was opened, whatever its name is by now.
WriteTemp(p) ==
  /\ At(p, "opened")
  /\ temp' = IF handle[p] = "temp" THEN "current" ELSE temp
  /\ skill' = IF handle[p] = "dest" THEN "current" ELSE skill
  /\ handle' = [handle EXCEPT ![p] = "gone"]
  /\ GoOn(p, "written")
  /\ UNCHANGED <<Skilled, overlapped>>

\* A name that another command's rename has taken away makes this one raise.
RenameTemp(p) ==
  /\ At(p, "written")
  /\ IF temp = NONE
     THEN Finished(p, "failed") /\ UNCHANGED skills
     ELSE /\ skill' = temp /\ temp' = NONE
          /\ handle' = [q \in Procs |-> IF handle[q] = "temp" THEN "dest" ELSE "gone"]
          /\ Done(p)
  /\ UNCHANGED <<Skilled, overlapped>>

\* remove unlinks what is there now, or raises.
UnlinkSkill(p) ==
  /\ At(p, "looked") /\ Doing(p) = "remove"
  /\ skill' = NONE
  /\ handle' = [q \in Procs |-> IF handle[q] = "dest" THEN "gone" ELSE handle[q]]
  /\ IF skill = NONE THEN Finished(p, "failed") ELSE Done(p)
  /\ UNCHANGED <<Skilled, temp, overlapped>>

-----------------------------------------------------------------------------

\* A command fails, and its temporary file with it, or dies.
Fail(p) ==
  /\ ~At(p, "idle")
  /\ faults < MaxFaults /\ faults' = faults + 1
  /\ Finished(p, "failed")
  /\ seen' = [seen EXCEPT ![p] = Unread]
  /\ handle' = [handle EXCEPT ![p] = "gone"]
  /\ UNCHANGED <<client, file, skill, temp, hook, member, users, saved, overlapped, commands>>

\* A user saves f: something of one's own, or an own entry where BrainCell's would be.
Edit(f, entry) ==
  LET t == CHOOSE e \in Edits : e \notin edited
      behind(stages) == \E p \in Procs : stage[p] \in stages /\ Target(p) = f
  IN  /\ edited # Edits /\ edited' = edited \cup {t}
      /\ f = "hook" => client = "claude"
      /\ IF f = "skill"
         THEN entry /\ skill \notin Edits /\ skill' = t /\ UNCHANGED file
         ELSE /\ entry => file[f].ours \notin Edits
              /\ file' = [file EXCEPT ![f] =
                   IF entry THEN [ours |-> t, edits |-> @.edits]
                   ELSE [ours |-> @.ours, edits |-> @.edits \cup {t}]]
              /\ UNCHANGED skill
      /\ placed' = IF entry THEN placed \cup {t} ELSE placed
      /\ late' = IF behind({"loaded", "backed", "compared", "looked", "opened", "written"})
                 THEN late \cup {t} ELSE late
      /\ later' = IF behind({"backed", "compared", "looked", "opened", "written"})
                  THEN later \cup {t} ELSE later
      /\ handle' = IF f = "skill"
                   THEN [q \in Procs |-> IF handle[q] = "dest" THEN "gone" ELSE handle[q]]
                   ELSE handle
      /\ Witnessed
      /\ UNCHANGED <<client, temp, processes, session, prompt, member, saved,
                     overlapped, bounds>>

\* The project is added to the Pool, or decoupled from it.
Regroup ==
  /\ client = "claude"
  /\ member' = ~member
  /\ UNCHANGED <<client, file, skills, processes, hook, users, saved, overlapped,
                 bounds>>

-----------------------------------------------------------------------------
(* The hook *)

Asking == <<client, file, skills, processes, member, users, saved, overlapped, bounds>>
\* Claude Code loads its settings when a session starts, and runs that hook for every
\* prompt of the session.
StartSession ==
  /\ client = "claude" /\ prompt = NONE
  /\ session' = On
  /\ UNCHANGED <<Asking, prompt, optin>>

Prompt ==
  /\ session /\ prompt = NONE
  /\ prompt' = "asked" /\ optin' = On
  /\ UNCHANGED <<Asking, session>>

\* CheckEnabled mutated: that the hook runs is taken for consent.
CheckNothing ==
  /\ prompt = "asked"
  /\ prompt' = "enabled"
  /\ UNCHANGED <<Asking, session, optin>>

\* _hook_is_enabled, or silence.
CheckEnabled ==
  /\ prompt = "asked"
  /\ prompt' = IF On THEN "enabled" ELSE NONE
  /\ UNCHANGED <<Asking, session, optin>>

\* plan_for_pool reads the Pool, and refuses a project that is not a member.
RecallFromPool ==
  /\ prompt = "enabled"
  /\ prompt' = IF member THEN "answered" ELSE NONE
  /\ UNCHANGED <<Asking, session, optin>>

EndPrompt ==
  /\ prompt = "answered"
  /\ prompt' = NONE /\ optin' = FALSE
  /\ UNCHANGED <<Asking, session>>

-----------------------------------------------------------------------------

Init ==
  /\ client \in {"codex", "claude"}
  /\ file = [f \in Files |-> Unread]
  /\ skill \in {NONE, "old"} /\ temp = NONE
  /\ handle = [p \in Procs |-> "gone"]
  /\ todo = [p \in Procs |-> <<>>]
  /\ stage = [p \in Procs |-> "idle"]
  /\ seen = [p \in Procs |-> Unread]
  /\ setup = NONE
  /\ session = FALSE /\ member = FALSE /\ prompt = NONE
  /\ edited = {} /\ placed = {} /\ saved = {} /\ late = {} /\ later = {}
  /\ overlapped = FALSE /\ optin = FALSE
  /\ commands = 0 /\ faults = 0

Work(p) ==
  \/ Refuse(p) \/ Load(p) \/ Backup(p) \/ Replace(p) \/ RunClaude(p)
  \/ LookAtSkill(p) \/ OpenTemp(p) \/ WriteTemp(p) \/ RenameTemp(p) \/ UnlinkSkill(p)

RunHook == CheckEnabled \/ RecallFromPool \/ EndPrompt

Next ==
  \/ StartSetup
  \/ \E p \in Procs : Work(p) \/ Fail(p) \/ \E op \in DOMAIN Ops : Start(p, op)
  \/ \E f \in Files \cup {"skill"}, entry \in BOOLEAN : Edit(f, entry)
  \/ Regroup \/ StartSession \/ Prompt \/ RunHook

Spec == Init /\ [][Next]_vars

\* A command that lives goes on; a user whose setup failed runs it again.
Fairness ==
  /\ \A p \in Procs : WF_vars(Work(p))
  /\ WF_vars(StartSetup)

FairSpec == Spec /\ Fairness

-----------------------------------------------------------------------------

In(f) == file[f].edits \cup ({file[f].ours} \cap Edits)

\* "Connection management preserves unrelated client configuration" (README.md:25):
\* what a user has written is in the file or in a backup, whatever commands overlap,
\* fail or die, unless it was saved between a command's backup and its replace.
EditsSurvive ==
  edited \subseteq In("entry") \cup In("hook") \cup ({skill} \cap Edits) \cup saved \cup later

\* It "refuses a conflicting user-managed entry": what a user has put in the place of
\* BrainCell's own stays there, unless the command had read the file before.
UsersOwnStays ==
  placed \ late \subseteq {file["entry"].ours, file["hook"].ours, skill}

\* Whatever a user wrote is left alone, or can be found again.
UsersWorkStays == EditsSurvive /\ UsersOwnStays

\* A command that fails or dies leaves a whole skill, unless two were writing it.
SkillIsWhole == skill = "torn" => overlapped

\* A session goes on running the hook it was started with; nothing of the Pool is
\* recalled unless the hook was on at some time since the prompt, whatever was disabled
\* or edited before.
HookNeedsConsent == prompt = "answered" => optin

\* What no repetition of a setup can overcome.
Blocked ==
  \/ file["entry"].ours \in Edits \cup {"absolute"}
  \/ client = "claude" /\ (file["hook"].ours \in Edits \/ ~member)

\* A setup that failed or died at any step can be run again until it is complete.
EventuallySetUp == []<>(setup = "complete" \/ Blocked)

=============================================================================
