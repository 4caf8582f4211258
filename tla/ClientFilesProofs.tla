--------------------------- MODULE ClientFilesProofs ---------------------------
(***************************************************************************)
(* However many edits and commands there are, and wherever commands fail:  *)
(* what a user wrote is left alone or can be found again, a skill is torn  *)
(* only when two commands were writing it, and a prompt is answered from   *)
(* the Pool only if the hook was on since it was asked.                    *)
(*                                                                         *)
(* Each command is followed by what it knows (CommandOK): what it has read *)
(* is in the file, a backup or saved late; once it has its backup so is    *)
(* all of the file; and what stands where it will write is not a user's,   *)
(* or came behind its back.                                                *)
(***************************************************************************)
EXTENDS ClientFiles, SequenceTheorems, TLAPS

Content == [ours : {NONE, "braincell", "absolute"} \cup Edits, edits : SUBSET Edits]
Stages == {"idle", "begin", "loaded", "backed", "compared", "looked", "opened", "written"}
Bodies == {NONE, "old", "current", "torn"}

Shape ==
  /\ client \in {"codex", "claude"}
  /\ file \in [Files -> Content] /\ seen \in [Procs -> Content]
  /\ skill \in Bodies \cup Edits /\ temp \in Bodies
  /\ handle \in [Procs -> {"temp", "dest", "gone"}]
  /\ stage \in [Procs -> Stages] /\ todo \in [Procs -> Seq(DOMAIN Ops)]
  /\ setup \in {NONE, "running", "complete", "failed"}
  /\ edited \subseteq Edits /\ placed \subseteq Edits

Writing(p) == stage[p] \in {"opened", "written"}

\* What a command knows while it is at it.
CommandOK(p) ==
  /\ stage[p] # "idle" => todo[p] # <<>>
  /\ stage[p] \in {"loaded", "backed"} =>
       /\ Target(p) \in Files
       /\ seen[p].edits \subseteq In(Target(p)) \cup saved \cup later
       /\ Current(p).ours \in Edits => Current(p).ours \in late
  /\ stage[p] = "backed" => In(Target(p)) \cup seen[p].edits \subseteq saved \cup later
  /\ stage[p] = "compared" =>
       /\ Target(p) = "entry"
       /\ Current(p).ours \in Edits => Current(p).ours \in late \cap later
  /\ stage[p] \in {"looked", "opened", "written"} =>
       /\ Target(p) = "skill"
       /\ skill \in Edits => skill \in late \cap later

\* As long as one command at a time writes the skill, the temporary file is its own.
TempOK ==
  ~overlapped =>
    /\ skill # "torn"
    /\ \A p, q \in Procs : Writing(p) /\ Writing(q) => p = q
    /\ \A p \in Procs : stage[p] = "opened" => handle[p] = "temp"
    /\ \A p \in Procs : stage[p] = "written" => temp = "current"

ConsentOK ==
  /\ prompt # NONE /\ On => optin
  /\ prompt \in {"enabled", "answered"} => optin

IInv == Shape /\ (\A p \in Procs : CommandOK(p)) /\ UsersWorkStays /\ TempOK /\ ConsentOK

-----------------------------------------------------------------------------
(* The operators the actions are built from. *)

LEMMA OpsFacts ==
  /\ DOMAIN Ops = {"connect", "disconnect", "enable", "disable", "add", "remove"}
  /\ Ops["connect"] = "entry" /\ Ops["disconnect"] = "entry"
  /\ Ops["enable"] = "hook" /\ Ops["disable"] = "hook"
  /\ Ops["add"] = "skill" /\ Ops["remove"] = "skill"
BY DEF Ops

LEMMA WantedIsOurs ==
  ASSUME NEW p \in Procs
  PROVE  Wanted(p) \in {NONE, "braincell", "absolute"} /\ Wanted(p) \notin Edits
BY ClientAssumption DEF Wanted, NONE

\* A command at its beginning, or at its end, knows nothing yet.
LEMMA BeginningOK ==
  ASSUME NEW p \in Procs, stage'[p] \in {"idle", "begin"},
         stage'[p] = "begin" => todo'[p] # <<>>
  PROVE  CommandOK(p)'
BY DEF CommandOK

\* How a command ends or goes on to its next operation.
LEMMA FinishedFacts ==
  ASSUME Shape, NEW p \in Procs, NEW how \in {"complete", "failed"}, Finished(p, how)
  PROVE  /\ stage' \in [Procs -> Stages] /\ stage'[p] = "idle"
         /\ \A q \in Procs \ {p} : stage'[q] = stage[q] /\ todo'[q] = todo[q]
         /\ todo' \in [Procs -> Seq(DOMAIN Ops)]
         /\ setup' \in {NONE, "running", "complete", "failed"}
<1>1. <<>> \in Seq(DOMAIN Ops)
  OBVIOUS
<1> QED
  BY <1>1 DEF Finished, Shape, Stages

LEMMA DoneFacts ==
  ASSUME Shape, NEW p \in Procs, todo[p] # <<>>, Done(p)
  PROVE  /\ stage' \in [Procs -> Stages] /\ stage'[p] \in {"idle", "begin"}
         /\ stage'[p] = "begin" => todo'[p] # <<>>
         /\ \A q \in Procs \ {p} : stage'[q] = stage[q] /\ todo'[q] = todo[q]
         /\ todo' \in [Procs -> Seq(DOMAIN Ops)]
         /\ setup' \in {NONE, "running", "complete", "failed"}
<1>1. todo[p] \in Seq(DOMAIN Ops)
  BY DEF Shape
<1>2. CASE Len(todo[p]) = 1
  <2>1. Finished(p, "complete")
    BY <1>2 DEF Done
  <2> QED
    BY <2>1, FinishedFacts
<1>3. CASE Len(todo[p]) # 1
  <2> DEFINE rest == Tail(todo[p])
  <2>1. rest \in Seq(DOMAIN Ops) /\ Len(rest) = Len(todo[p]) - 1 /\ Len(todo[p]) \in Nat \ {0, 1}
    BY <1>1, <1>3, EmptySeq, HeadTailProperties
  <2> HIDE DEF rest
  <2>2. Len(rest) # 0
    BY <2>1
  <2>3. rest # <<>>
    BY <2>2, EmptySeq, Zenon
  <2> QED
    BY <1>3, <2>1, <2>3 DEF Done, Shape, Stages, rest
<1> QED
  BY <1>2, <1>3

LEMMA GoOnFacts ==
  ASSUME Shape, NEW p \in Procs, NEW s \in Stages, GoOn(p, s)
  PROVE  /\ stage' \in [Procs -> Stages] /\ stage'[p] = s /\ UNCHANGED <<todo, setup>>
         /\ todo' \in [Procs -> Seq(DOMAIN Ops)]
         /\ \A q \in Procs \ {p} : stage'[q] = stage[q] /\ todo'[q] = todo[q]
BY DEF GoOn, Shape, Stages

\* What another command knows stays true as long as nothing of a user's leaves or
\* enters a file unsaved.
LEMMA CommandFrame ==
  ASSUME NEW q \in Procs, CommandOK(q), stage'[q] = stage[q], todo'[q] = todo[q],
         seen'[q] = seen[q], saved \cup later \subseteq saved' \cup later',
         late \subseteq late', later \subseteq later',
         \A f \in Files :
           /\ In(f) \subseteq In(f)' \cup saved' \cup later'
           /\ In(f)' \subseteq In(f) \cup saved' \cup later'
           /\ file'[f].ours \in Edits => file'[f].ours = file[f].ours,
         skill' \in Edits => skill' = skill
  PROVE  CommandOK(q)'
<1>1. Target(q)' = Target(q)
  BY DEF Target, Doing
<1>2. stage[q] \in {"loaded", "backed"} =>
        /\ Target(q) \in Files
        /\ seen[q].edits \subseteq In(Target(q))' \cup saved' \cup later'
        /\ file'[Target(q)].ours \in Edits => file'[Target(q)].ours \in late'
  BY <1>1 DEF CommandOK, Current, In
<1>3. stage[q] = "backed" => In(Target(q))' \cup seen[q].edits \subseteq saved' \cup later'
  BY <1>1 DEF CommandOK, In
<1>4. stage[q] = "compared" =>
        /\ Target(q) = "entry"
        /\ file'["entry"].ours \in Edits => file'["entry"].ours \in late' \cap later'
  BY DEF CommandOK, Current, Files
<1> QED
  BY <1>1, <1>2, <1>3, <1>4 DEF CommandOK, Current, In

-----------------------------------------------------------------------------
(* The commands that change a file. *)

\* The hypotheses of the frame, for all commands but one.
OthersOK(p) == \A q \in Procs \ {p} : CommandOK(q)

\* A step that leaves the files as they are.
LEMMA SameFiles ==
  ASSUME IInv, NEW p \in Procs, UNCHANGED <<file, skill, edited, placed, late, later>>,
         saved \subseteq saved', \A q \in Procs \ {p} :
           stage'[q] = stage[q] /\ todo'[q] = todo[q] /\ seen'[q] = seen[q]
  PROVE  OthersOK(p)' /\ UsersWorkStays'
<1>1. \A f \in Files : In(f)' = In(f)
  BY DEF In
<1>2. UsersWorkStays'
  BY <1>1 DEF IInv, UsersWorkStays, EditsSurvive, UsersOwnStays, Files
<1>3. ASSUME NEW q \in Procs \ {p} PROVE CommandOK(q)'
  BY <1>1, CommandFrame DEF IInv
<1> QED
  BY <1>2, <1>3 DEF OthersOK

\* The hook's part of the state, when the hook's file and session are left alone.
LEMMA SameHook ==
  ASSUME IInv, UNCHANGED <<prompt, optin>>, file'["hook"].ours = file["hook"].ours
  PROVE  ConsentOK'
BY DEF IInv, ConsentOK, On

\* The skill's, when nobody starts or goes on with writing it.
LEMMA SameSkill ==
  ASSUME IInv, UNCHANGED <<skill, temp, overlapped>>,
         \A q \in Procs : Writing(q)' => Writing(q) /\ stage'[q] = stage[q] /\ handle'[q] = handle[q]
  PROVE  TempOK'
BY DEF IInv, TempOK, Writing

LEMMA StartSetupOK ==
  ASSUME IInv, StartSetup
  PROVE  IInv'
<1> DEFINE list == IF client = "claude" THEN <<"connect", "add", "enable">> ELSE <<"connect", "add">>
<1>1. list \in Seq(DOMAIN Ops) /\ list # <<>>
  <2>1. {"connect", "add", "enable"} \subseteq DOMAIN Ops
    BY OpsFacts
  <2>2. /\ <<"connect", "add", "enable">> \in Seq(DOMAIN Ops)
        /\ <<"connect", "add">> \in Seq(DOMAIN Ops)
    BY <2>1
  <2> QED
    BY <2>2
<1>2. /\ stage' = [stage EXCEPT !["cli"] = "begin"] /\ todo' = [todo EXCEPT !["cli"] = list]
      /\ setup' = "running" /\ stage["cli"] = "idle"
      /\ UNCHANGED <<client, file, skill, temp, handle, seen, prompt, optin, edited, placed,
                     late, later, saved, overlapped>>
  BY DEF StartSetup, At, skills, hook, users
<1> HIDE DEF list
<1>3. Shape'
  BY <1>1, <1>2 DEF IInv, Shape, Stages, Procs
<1>4. stage'["cli"] = "begin" /\ todo'["cli"] # <<>> /\ "cli" \in Procs
  BY <1>1, <1>2 DEF IInv, Shape, Procs
<1>5. CommandOK("cli")'
  BY <1>4, BeginningOK
<1>6. OthersOK("cli")' /\ UsersWorkStays'
  BY <1>2, <1>4, SameFiles DEF IInv, Shape
<1>7. TempOK' /\ ConsentOK'
  BY <1>2, <1>4, SameSkill, SameHook DEF IInv, Shape, Writing
<1> QED
  BY <1>3, <1>5, <1>6, <1>7 DEF IInv, OthersOK

LEMMA StartOK ==
  ASSUME IInv, NEW p \in Procs, NEW op \in DOMAIN Ops, Start(p, op)
  PROVE  IInv'
<1>1. /\ stage' = [stage EXCEPT ![p] = "begin"] /\ todo' = [todo EXCEPT ![p] = <<op>>]
      /\ setup' = IF p = "cli" THEN NONE ELSE setup
      /\ UNCHANGED <<client, file, skill, temp, handle, seen, prompt, optin, edited, placed,
                     late, later, saved, overlapped>>
  BY DEF Start, At, skills, hook, users
<1>2. <<op>> \in Seq(DOMAIN Ops) /\ <<op>> # <<>>
  OBVIOUS
<1>3. Shape'
  BY <1>1, <1>2 DEF IInv, Shape, Stages, NONE
<1>4. stage'[p] = "begin" /\ todo'[p] # <<>>
  BY <1>1, <1>2 DEF IInv, Shape
<1>5. CommandOK(p)'
  BY <1>4, BeginningOK
<1>6. OthersOK(p)' /\ UsersWorkStays'
  BY <1>1, SameFiles DEF IInv, Shape
<1>7. TempOK' /\ ConsentOK'
  BY <1>1, <1>4, SameSkill, SameHook DEF IInv, Shape, Writing
<1> QED
  BY <1>3, <1>5, <1>6, <1>7 DEF IInv, OthersOK

\* A command that ends before it has written anything.
LEMMA FinishedOK ==
  ASSUME IInv, NEW p \in Procs, NEW how \in {"complete", "failed"}, Finished(p, how),
         UNCHANGED <<client, file, skill, temp, prompt, optin, edited, placed, late, later,
                     saved, overlapped>>,
         seen' \in [Procs -> Content], handle' \in [Procs -> {"temp", "dest", "gone"}],
         \A q \in Procs \ {p} : seen'[q] = seen[q] /\ handle'[q] = handle[q]
  PROVE  IInv'
<1>1. /\ stage' \in [Procs -> Stages] /\ stage'[p] = "idle"
      /\ \A q \in Procs \ {p} : stage'[q] = stage[q] /\ todo'[q] = todo[q]
      /\ todo' \in [Procs -> Seq(DOMAIN Ops)]
      /\ setup' \in {NONE, "running", "complete", "failed"}
  BY FinishedFacts DEF IInv
<1>2. Shape'
  BY <1>1 DEF IInv, Shape
<1>3. CommandOK(p)'
  BY <1>1, BeginningOK
<1>4. OthersOK(p)' /\ UsersWorkStays'
  BY <1>1, SameFiles
<1>5. TempOK' /\ ConsentOK'
  BY <1>1, SameSkill, SameHook DEF Writing
<1> QED
  BY <1>2, <1>3, <1>4, <1>5 DEF IInv, OthersOK

LEMMA RefuseOK ==
  ASSUME IInv, NEW p \in Procs, Refuse(p)
  PROVE  IInv'
<1>1. /\ Finished(p, "failed")
      /\ UNCHANGED <<client, file, skill, temp, handle, seen, prompt, optin, edited, placed,
                     late, later, saved, overlapped>>
  BY DEF Refuse, Settled, skills, users
<1> QED
  BY <1>1, FinishedOK DEF IInv, Shape

LEMMA FailOK ==
  ASSUME IInv, NEW p \in Procs, Fail(p)
  PROVE  IInv'
<1>1. /\ Finished(p, "failed")
      /\ UNCHANGED <<client, file, skill, temp, prompt, optin, edited, placed,
                     late, later, saved, overlapped>>
      /\ seen' = [seen EXCEPT ![p] = Unread] /\ handle' = [handle EXCEPT ![p] = "gone"]
  BY DEF Fail, hook, users
<1>2. Unread \in Content
  BY DEF Unread, Content
<1> QED
  BY <1>1, <1>2, FinishedOK DEF IInv, Shape

LEMMA LoadOK ==
  ASSUME IInv, NEW p \in Procs, Load(p)
  PROVE  IInv'
<1>1. /\ stage[p] = "begin" /\ Target(p) \in Files /\ Current(p).ours \in Own(p)
      /\ UNCHANGED <<client, file, skill, temp, handle, prompt, optin, edited, placed,
                     late, later, saved, overlapped>>
      /\ todo[p] # <<>>
  BY DEF Load, At, Settled, skills, users, IInv, CommandOK
<1>2. Current(p).ours \notin Edits
  BY <1>1, WantedIsOurs, ClientAssumption DEF Own, NONE
<1>3. CASE Done(p) /\ UNCHANGED seen
  <2>1. /\ stage' \in [Procs -> Stages] /\ stage'[p] \in {"idle", "begin"}
        /\ stage'[p] = "begin" => todo'[p] # <<>>
        /\ \A q \in Procs \ {p} : stage'[q] = stage[q] /\ todo'[q] = todo[q]
        /\ todo' \in [Procs -> Seq(DOMAIN Ops)]
        /\ setup' \in {NONE, "running", "complete", "failed"}
    BY <1>1, <1>3, DoneFacts DEF IInv
  <2>2. Shape'
    BY <1>1, <1>3, <2>1 DEF IInv, Shape
  <2>3. CommandOK(p)'
    BY <2>1, BeginningOK
  <2>4. OthersOK(p)' /\ UsersWorkStays'
    BY <1>1, <1>3, <2>1, SameFiles
  <2>5. TempOK' /\ ConsentOK'
    BY <1>1, <2>1, SameSkill, SameHook DEF Writing
  <2> QED
    BY <2>2, <2>3, <2>4, <2>5 DEF IInv, OthersOK
<1>4. CASE Compared(p)
  <2>1. /\ stage'[p] = "compared" /\ Target(p) = "entry" /\ UNCHANGED seen /\ GoOn(p, "compared")
        \/ /\ stage'[p] = "loaded" /\ seen' = [seen EXCEPT ![p] = Current(p)]
           /\ GoOn(p, "loaded")
    BY <1>4, GoOnFacts DEF Compared, ByClaude, Stages, IInv
  <2>2. /\ stage' \in [Procs -> Stages] /\ UNCHANGED <<todo, setup>>
        /\ \A q \in Procs \ {p} : stage'[q] = stage[q] /\ todo'[q] = todo[q] /\ seen'[q] = seen[q]
    BY <2>1, GoOnFacts DEF Stages, IInv, Shape
  <2>3. Current(p) \in Content
    BY <1>1 DEF IInv, Shape, Current
  <2>4. Shape'
    BY <1>1, <2>1, <2>2, <2>3 DEF IInv, Shape
  <2>5. CommandOK(p)'
    <3>1. Target(p)' = Target(p) /\ Current(p)' = Current(p)
      BY <1>1, <2>2 DEF Target, Doing, Current
    <3>2. stage'[p] = "loaded" => seen'[p].edits \subseteq In(Target(p))'
      BY <1>1, <2>1, <3>1 DEF In, Current, IInv, Shape
    <3> QED
      BY <1>1, <1>2, <2>1, <2>2, <3>1, <3>2 DEF CommandOK
  <2>6. OthersOK(p)' /\ UsersWorkStays'
    BY <1>1, <2>1, <2>2, SameFiles
  <2>7. TempOK' /\ ConsentOK'
    BY <1>1, <2>1, <2>2, SameSkill, SameHook DEF Writing
  <2> QED
    BY <2>4, <2>5, <2>6, <2>7 DEF IInv, OthersOK
<1> QED
  BY <1>3, <1>4 DEF Load

LEMMA BackupOK ==
  ASSUME IInv, NEW p \in Procs, Backup(p)
  PROVE  IInv'
<1>1. /\ stage[p] = "loaded" /\ GoOn(p, "backed")
      /\ saved' = saved \cup In(Target(p))
      /\ UNCHANGED <<client, file, skill, temp, handle, seen, prompt, optin, edited, placed,
                     late, later, overlapped>>
      /\ Target(p) \in Files /\ todo[p] # <<>>
  BY DEF Backup, At, Settled, skills, users, In, Current, IInv, CommandOK
<1>2. /\ stage' \in [Procs -> Stages] /\ stage'[p] = "backed" /\ UNCHANGED <<todo, setup>>
      /\ \A q \in Procs \ {p} : stage'[q] = stage[q] /\ todo'[q] = todo[q]
  BY <1>1, GoOnFacts DEF Stages, IInv
<1>3. Shape'
  BY <1>1, <1>2 DEF IInv, Shape
<1>4. CommandOK(p)'
  <2>1. Target(p)' = Target(p) /\ Current(p)' = Current(p) /\ In(Target(p))' = In(Target(p))
    BY <1>1, <1>2 DEF Target, Doing, Current, In
  <2> QED
    BY <1>1, <1>2, <2>1 DEF CommandOK, IInv
<1>5. OthersOK(p)' /\ UsersWorkStays'
  BY <1>1, <1>2, SameFiles
<1>6. TempOK' /\ ConsentOK'
  BY <1>1, <1>2, SameSkill, SameHook DEF Writing
<1> QED
  BY <1>3, <1>4, <1>5, <1>6 DEF IInv, OthersOK

\* What leaves a file with a command's replace is in a backup, or came after it.
LEMMA ReplaceOK ==
  ASSUME IInv, NEW p \in Procs, Replace(p)
  PROVE  IInv'
<1> DEFINE T == Target(p)
           new == [seen[p] EXCEPT !.ours = Wanted(p)]
<1>1. /\ stage[p] = "backed" /\ Done(p) /\ Witnessed
      /\ file' = [file EXCEPT ![T] = new] /\ seen' = [seen EXCEPT ![p] = Unread]
      /\ UNCHANGED <<client, skill, temp, handle, prompt, edited, placed,
                     late, later, overlapped, saved>>
      /\ T \in Files /\ todo[p] # <<>>
  BY DEF Replace, At, Settled, skills, users, IInv, CommandOK
<1>2. /\ stage' \in [Procs -> Stages] /\ stage'[p] \in {"idle", "begin"}
      /\ stage'[p] = "begin" => todo'[p] # <<>>
      /\ \A q \in Procs \ {p} : stage'[q] = stage[q] /\ todo'[q] = todo[q]
      /\ todo' \in [Procs -> Seq(DOMAIN Ops)]
      /\ setup' \in {NONE, "running", "complete", "failed"}
  BY <1>1, DoneFacts DEF IInv
<1>3. /\ In(T) \cup seen[p].edits \subseteq saved \cup later
      /\ file[T].ours \in Edits => file[T].ours \in late
  BY <1>1 DEF IInv, CommandOK, Current
<1>4. /\ seen[p] \in Content /\ new \in Content /\ new.ours = Wanted(p)
      /\ new.edits = seen[p].edits /\ new.ours \notin Edits
  BY <1>1, WantedIsOurs DEF IInv, Shape, Content
<1>5. /\ file'[T] = new /\ \A f \in Files \ {T} : file'[f] = file[f]
      /\ file' \in [Files -> Content]
  BY <1>1, <1>4 DEF IInv, Shape
<1>6. Unread \in Content /\ seen' \in [Procs -> Content]
      /\ \A q \in Procs \ {p} : seen'[q] = seen[q]
  BY <1>1 DEF Unread, Content, IInv, Shape
<1> HIDE DEF T, new
<1>7. Shape'
  BY <1>1, <1>2, <1>5, <1>6 DEF IInv, Shape
<1>8. \A f \in Files :
        /\ In(f) \subseteq In(f)' \cup saved' \cup later'
        /\ In(f)' \subseteq In(f) \cup saved' \cup later'
        /\ file'[f].ours \in Edits => file'[f].ours = file[f].ours
  BY <1>1, <1>3, <1>4, <1>5 DEF In
<1>9. ASSUME NEW q \in Procs \ {p} PROVE CommandOK(q)'
  BY <1>1, <1>2, <1>6, <1>8, CommandFrame DEF IInv
<1>10. CommandOK(p)'
  BY <1>2, BeginningOK
<1>11. EditsSurvive'
  BY <1>1, <1>8 DEF IInv, UsersWorkStays, EditsSurvive, Files
<1>12. UsersOwnStays'
  BY <1>1, <1>3, <1>5 DEF IInv, UsersWorkStays, UsersOwnStays, Files, Shape
<1>13. TempOK'
  BY <1>1, <1>2, SameSkill DEF Writing
<1>14. ConsentOK'
  BY <1>1 DEF IInv, ConsentOK, Witnessed
<1> QED
  BY <1>7, <1>9, <1>10, <1>11, <1>12, <1>13, <1>14 DEF IInv, UsersWorkStays

LEMMA RunClaudeOK ==
  ASSUME IInv, NEW p \in Procs, RunClaude(p)
  PROVE  IInv'
<1>1. /\ stage[p] = "compared" /\ Target(p) = "entry" /\ todo[p] # <<>>
      /\ UNCHANGED <<client, skill, temp, handle, seen, prompt, optin, edited, placed,
                     late, later, overlapped, saved>>
      /\ file["entry"].ours \in Edits => file["entry"].ours \in late \cap later
  BY DEF RunClaude, At, Settled, skills, users, IInv, CommandOK, Current
<1>2. CASE Finished(p, "failed") /\ UNCHANGED file
  BY <1>1, <1>2, FinishedOK DEF IInv, Shape
<1>3. CASE file' = [file EXCEPT !["entry"].ours = Wanted(p)] /\ Done(p)
  <2>1. /\ stage' \in [Procs -> Stages] /\ stage'[p] \in {"idle", "begin"}
        /\ stage'[p] = "begin" => todo'[p] # <<>>
        /\ \A q \in Procs \ {p} : stage'[q] = stage[q] /\ todo'[q] = todo[q]
        /\ todo' \in [Procs -> Seq(DOMAIN Ops)]
        /\ setup' \in {NONE, "running", "complete", "failed"}
    BY <1>1, <1>3, DoneFacts DEF IInv
  <2>2. /\ file'["entry"].ours = Wanted(p) /\ file'["entry"].edits = file["entry"].edits
        /\ file'["hook"] = file["hook"] /\ file' \in [Files -> Content]
        /\ Wanted(p) \notin Edits
    BY <1>3, WantedIsOurs DEF IInv, Shape, Content, Files
  <2>3. Shape'
    BY <1>1, <2>1, <2>2 DEF IInv, Shape
  <2>4. \A f \in Files :
          /\ In(f) \subseteq In(f)' \cup saved' \cup later'
          /\ In(f)' \subseteq In(f) \cup saved' \cup later'
          /\ file'[f].ours \in Edits => file'[f].ours = file[f].ours
    BY <1>1, <2>2 DEF In, Files
  <2>5. ASSUME NEW q \in Procs \ {p} PROVE CommandOK(q)'
    BY <1>1, <2>1, <2>4, CommandFrame DEF IInv
  <2>6. CommandOK(p)'
    BY <2>1, BeginningOK
  <2>7. EditsSurvive'
    BY <1>1, <2>4 DEF IInv, UsersWorkStays, EditsSurvive, Files
  <2>8. UsersOwnStays'
    BY <1>1, <2>2 DEF IInv, UsersWorkStays, UsersOwnStays, Shape
  <2>9. TempOK' /\ ConsentOK'
    BY <1>1, <2>1, <2>2, SameSkill, SameHook DEF Writing
  <2> QED
    BY <2>3, <2>5, <2>6, <2>7, <2>8, <2>9 DEF IInv, UsersWorkStays
<1> QED
  BY <1>2, <1>3 DEF RunClaude

-----------------------------------------------------------------------------
(* The commands that change the skill. *)

LEMMA LookAtSkillOK ==
  ASSUME IInv, NEW p \in Procs, LookAtSkill(p)
  PROVE  IInv'
<1> DEFINE passed == skill = (IF Doing(p) = "add" THEN "current" ELSE NONE)
                     \/ skill \notin Shipped \cup {NONE}
<1>0. /\ stage[p] = "begin" /\ Target(p) = "skill"
      /\ IF passed THEN Done(p) ELSE GoOn(p, "looked")
      /\ UNCHANGED <<client, file, skill, temp, handle, seen, prompt, optin, edited, placed,
                     late, later, overlapped, saved>>
  BY DEF LookAtSkill, At, Skilled, skills, users, hook
<1>1. /\ stage[p] = "begin" /\ Target(p) = "skill" /\ todo[p] # <<>>
      /\ UNCHANGED <<client, file, skill, temp, handle, seen, prompt, optin, edited, placed,
                     late, later, overlapped, saved>>
      /\ Done(p) \/ (GoOn(p, "looked") /\ skill \in Shipped \cup {NONE})
  <2>1. todo[p] # <<>>
    BY <1>0 DEF IInv, CommandOK
  <2> QED
    BY <1>0, <2>1
<1>2. CASE Done(p)
  <2>1. /\ stage' \in [Procs -> Stages] /\ stage'[p] \in {"idle", "begin"}
        /\ stage'[p] = "begin" => todo'[p] # <<>>
        /\ \A q \in Procs \ {p} : stage'[q] = stage[q] /\ todo'[q] = todo[q]
        /\ todo' \in [Procs -> Seq(DOMAIN Ops)]
        /\ setup' \in {NONE, "running", "complete", "failed"}
    BY <1>1, <1>2, DoneFacts DEF IInv
  <2>2. Shape'
    BY <1>1, <2>1 DEF IInv, Shape
  <2>3. CommandOK(p)'
    BY <2>1, BeginningOK
  <2>4. OthersOK(p)' /\ UsersWorkStays'
    BY <1>1, <2>1, SameFiles
  <2>5. TempOK' /\ ConsentOK'
    BY <1>1, <2>1, SameSkill, SameHook DEF Writing
  <2> QED
    BY <2>2, <2>3, <2>4, <2>5 DEF IInv, OthersOK
<1>3. CASE GoOn(p, "looked") /\ skill \in Shipped \cup {NONE}
  <2>1. /\ stage' \in [Procs -> Stages] /\ stage'[p] = "looked" /\ UNCHANGED <<todo, setup>>
        /\ \A q \in Procs \ {p} : stage'[q] = stage[q] /\ todo'[q] = todo[q]
    BY <1>3, GoOnFacts DEF Stages, IInv
  <2>2. skill \notin Edits /\ Target(p)' = "skill"
    BY <1>1, <1>3, <2>1, ClientAssumption DEF Shipped, NONE, Target, Doing
  <2>3. Shape'
    BY <1>1, <2>1 DEF IInv, Shape
  <2>4. CommandOK(p)'
    BY <1>1, <2>1, <2>2 DEF CommandOK
  <2>5. OthersOK(p)' /\ UsersWorkStays'
    BY <1>1, <2>1, SameFiles
  <2>6. TempOK' /\ ConsentOK'
    BY <1>1, <2>1, SameSkill, SameHook DEF Writing
  <2> QED
    BY <2>3, <2>4, <2>5, <2>6 DEF IInv, OthersOK
<1> QED
  BY <1>1, <1>2, <1>3

LEMMA OpenTempOK ==
  ASSUME IInv, NEW p \in Procs, OpenTemp(p)
  PROVE  IInv'
<1>1. /\ stage[p] = "looked" /\ GoOn(p, "opened") /\ temp' = "torn"
      /\ handle' = [handle EXCEPT ![p] = "temp"]
      /\ overlapped' = (overlapped \/ \E q \in Procs \ {p} : stage[q] \in {"opened", "written"})
      /\ UNCHANGED <<client, file, skill, seen, prompt, optin, edited, placed,
                     late, later, saved>>
  BY DEF OpenTemp, At, Skilled, users, hook
<1>2. /\ stage' \in [Procs -> Stages] /\ stage'[p] = "opened" /\ UNCHANGED <<todo, setup>>
      /\ \A q \in Procs \ {p} : stage'[q] = stage[q] /\ todo'[q] = todo[q]
  BY <1>1, GoOnFacts DEF Stages, IInv
<1>3. Shape'
  BY <1>1, <1>2 DEF IInv, Shape, Bodies
<1>4. CommandOK(p)'
  BY <1>1, <1>2 DEF CommandOK, IInv, Target, Doing
<1>5. OthersOK(p)' /\ UsersWorkStays'
  BY <1>1, <1>2, SameFiles
<1>6. TempOK'
  BY <1>1, <1>2 DEF IInv, Shape, TempOK, Writing
<1>7. ConsentOK'
  BY <1>1, SameHook
<1> QED
  BY <1>3, <1>4, <1>5, <1>6, <1>7 DEF IInv, OthersOK

\* A skill that is written over is not a user's, or came behind the command's back.
LEMMA SkillReplaced ==
  ASSUME IInv, NEW p \in Procs, stage[p] \in {"looked", "opened", "written"},
         UNCHANGED <<file, edited, placed, late, later, saved, seen>>, skill' \in Bodies,
         \A q \in Procs \ {p} : stage'[q] = stage[q] /\ todo'[q] = todo[q]
  PROVE  OthersOK(p)' /\ UsersWorkStays'
<1>1. skill \in Edits => skill \in late \cap later
  BY DEF IInv, CommandOK
<1>2. skill' \notin Edits
  BY ClientAssumption DEF Bodies, NONE
<1>3. \A f \in Files : In(f)' = In(f)
  BY DEF In
<1>4. EditsSurvive'
  BY <1>1, <1>3 DEF IInv, UsersWorkStays, EditsSurvive, Files
<1>5. UsersOwnStays'
  BY <1>1 DEF IInv, UsersWorkStays, UsersOwnStays, Shape
<1>6. ASSUME NEW q \in Procs \ {p} PROVE CommandOK(q)'
  BY <1>2, <1>3, CommandFrame DEF IInv
<1> QED
  BY <1>4, <1>5, <1>6 DEF UsersWorkStays, OthersOK

LEMMA WriteTempOK ==
  ASSUME IInv, NEW p \in Procs, WriteTemp(p)
  PROVE  IInv'
<1>1. /\ stage[p] = "opened" /\ GoOn(p, "written")
      /\ temp' = IF handle[p] = "temp" THEN "current" ELSE temp
      /\ skill' = IF handle[p] = "dest" THEN "current" ELSE skill
      /\ handle' = [handle EXCEPT ![p] = "gone"]
      /\ UNCHANGED <<client, file, seen, prompt, optin, edited, placed,
                     late, later, saved, overlapped>>
  BY DEF WriteTemp, At, Skilled, users, hook
<1>2. /\ stage' \in [Procs -> Stages] /\ stage'[p] = "written" /\ UNCHANGED <<todo, setup>>
      /\ \A q \in Procs \ {p} : stage'[q] = stage[q] /\ todo'[q] = todo[q]
  BY <1>1, GoOnFacts DEF Stages, IInv
<1>3. Shape'
  BY <1>1, <1>2 DEF IInv, Shape, Bodies
<1>4. CommandOK(p)'
  BY <1>1, <1>2, ClientAssumption DEF CommandOK, IInv, Target, Doing
<1>5. OthersOK(p)' /\ UsersWorkStays'
  <2>1. CASE skill' = skill
    BY <1>1, <1>2, <2>1, SameFiles
  <2>2. CASE skill' = "current"
    BY <1>1, <1>2, <2>2, SkillReplaced DEF Bodies
  <2> QED
    BY <1>1, <2>1, <2>2
<1>6. TempOK'
  BY <1>1, <1>2 DEF IInv, Shape, TempOK, Writing
<1>7. ConsentOK'
  BY <1>1, SameHook
<1> QED
  BY <1>3, <1>4, <1>5, <1>6, <1>7 DEF IInv, OthersOK

LEMMA RenameTempOK ==
  ASSUME IInv, NEW p \in Procs, RenameTemp(p)
  PROVE  IInv'
<1>1. /\ stage[p] = "written" /\ todo[p] # <<>>
      /\ UNCHANGED <<client, file, seen, prompt, optin, edited, placed,
                     late, later, saved, overlapped>>
  BY DEF RenameTemp, At, Skilled, users, hook, IInv, CommandOK
<1>2. CASE temp = NONE
  <2>1. Finished(p, "failed") /\ UNCHANGED <<skill, temp, handle>>
    BY <1>2 DEF RenameTemp, skills
  <2> QED
    BY <1>1, <2>1, FinishedOK DEF IInv, Shape
<1>3. CASE temp # NONE
  <2>1. /\ Done(p) /\ skill' = temp /\ temp' = NONE
        /\ handle' = [q \in Procs |-> IF handle[q] = "temp" THEN "dest" ELSE "gone"]
    BY <1>3 DEF RenameTemp
  <2>2. /\ stage' \in [Procs -> Stages] /\ stage'[p] \in {"idle", "begin"}
        /\ stage'[p] = "begin" => todo'[p] # <<>>
        /\ \A q \in Procs \ {p} : stage'[q] = stage[q] /\ todo'[q] = todo[q]
        /\ todo' \in [Procs -> Seq(DOMAIN Ops)]
        /\ setup' \in {NONE, "running", "complete", "failed"}
    BY <1>1, <2>1, DoneFacts DEF IInv
  <2>3. Shape'
    BY <1>1, <2>1, <2>2 DEF IInv, Shape, Bodies
  <2>4. CommandOK(p)'
    BY <2>2, BeginningOK
  <2>5. OthersOK(p)' /\ UsersWorkStays'
    BY <1>1, <2>1, <2>2, SkillReplaced DEF IInv, Shape
  <2>6. TempOK'
    <3>1. ~overlapped => temp = "current" /\ \A q \in Procs \ {p} : ~Writing(q)
      BY <1>1 DEF IInv, TempOK, Writing
    <3>2. \A q \in Procs : ~overlapped => ~Writing(q)'
      BY <2>2, <3>1 DEF Writing
    <3> QED
      BY <1>1, <2>1, <3>1, <3>2 DEF TempOK, Writing
  <2>7. ConsentOK'
    BY <1>1, SameHook
  <2> QED
    BY <2>3, <2>4, <2>5, <2>6, <2>7 DEF IInv, OthersOK
<1> QED
  BY <1>2, <1>3

LEMMA UnlinkSkillOK ==
  ASSUME IInv, NEW p \in Procs, UnlinkSkill(p)
  PROVE  IInv'
<1>1. /\ stage[p] = "looked" /\ todo[p] # <<>> /\ skill' = NONE
      /\ handle' = [q \in Procs |-> IF handle[q] = "dest" THEN "gone" ELSE handle[q]]
      /\ Finished(p, "failed") \/ Done(p)
      /\ UNCHANGED <<client, file, seen, prompt, optin, edited, placed,
                     late, later, saved, overlapped, temp>>
  BY DEF UnlinkSkill, At, Skilled, users, hook, IInv, CommandOK
<1>2. /\ stage' \in [Procs -> Stages] /\ stage'[p] \in {"idle", "begin"}
      /\ stage'[p] = "begin" => todo'[p] # <<>>
      /\ \A q \in Procs \ {p} : stage'[q] = stage[q] /\ todo'[q] = todo[q]
      /\ todo' \in [Procs -> Seq(DOMAIN Ops)]
      /\ setup' \in {NONE, "running", "complete", "failed"}
  BY <1>1, DoneFacts, FinishedFacts DEF IInv
<1>3. Shape'
  BY <1>1, <1>2 DEF IInv, Shape, Bodies
<1>4. CommandOK(p)'
  BY <1>2, BeginningOK
<1>5. OthersOK(p)' /\ UsersWorkStays'
  BY <1>1, <1>2, SkillReplaced DEF Bodies
<1>6. TempOK'
  BY <1>1, <1>2 DEF IInv, TempOK, Writing, NONE
<1>7. ConsentOK'
  BY <1>1, SameHook
<1> QED
  BY <1>3, <1>4, <1>5, <1>6, <1>7 DEF IInv, OthersOK

-----------------------------------------------------------------------------
(* Users, the Pool and the hook. *)

LEMMA EditOK ==
  ASSUME IInv, NEW f \in Files \cup {"skill"}, NEW entry \in BOOLEAN, Edit(f, entry)
  PROVE  IInv'
<1> DEFINE t == CHOOSE e \in Edits : e \notin edited
           changing(p) == stage[p] \in {"backed", "compared", "looked", "opened", "written"}
<1>1. t \in Edits /\ t \notin edited /\ edited' = edited \cup {t}
  <2>1. \E e \in Edits : e \notin edited
    BY DEF Edit, IInv, Shape
  <2> QED
    BY <2>1 DEF Edit
<1>2. /\ placed' = IF entry THEN placed \cup {t} ELSE placed
      /\ UNCHANGED <<client, temp, todo, stage, seen, setup, prompt, saved, overlapped>>
      /\ Witnessed
  BY DEF Edit, processes
<1>3. /\ late' \subseteq late \cup {t} /\ late \subseteq late'
      /\ later' \subseteq later \cup {t} /\ later \subseteq later'
      /\ \A p \in Procs : Target(p) = f /\ (stage[p] = "loaded" \/ changing(p)) => t \in late'
      /\ \A p \in Procs : Target(p) = f /\ changing(p) => t \in later'
  BY DEF Edit
<1>4. CASE f = "skill"
  <2>1. /\ entry /\ skill \notin Edits /\ skill' = t /\ file' = file
        /\ handle' = [q \in Procs |-> IF handle[q] = "dest" THEN "gone" ELSE handle[q]]
    BY <1>4 DEF Edit
  <2> HIDE DEF t
  <2>2. Shape'
    BY <1>1, <1>2, <2>1 DEF IInv, Shape
  <2>3. ASSUME NEW p \in Procs PROVE CommandOK(p)'
    <3>1. Target(p)' = Target(p) /\ Current(p)' = Current(p) /\ In(Target(p))' = In(Target(p))
      BY <1>2, <2>1 DEF Target, Doing, Current, In
    <3>2. CommandOK(p)
      BY DEF IInv
    <3>3. stage[p] \in {"looked", "opened", "written"} => t \in late' \cap later'
      BY <1>3, <1>4, <3>2 DEF CommandOK
    <3> QED
      BY <1>2, <1>3, <2>1, <3>1, <3>2, <3>3 DEF CommandOK
  <2>4. EditsSurvive'
    BY <1>1, <1>2, <1>3, <2>1 DEF IInv, UsersWorkStays, EditsSurvive, In
  <2>5. UsersOwnStays'
    BY <1>2, <1>3, <2>1 DEF IInv, UsersWorkStays, UsersOwnStays, Shape
  <2>6. TempOK'
    <3>1. t # "torn"
      BY <1>1, ClientAssumption
    <3> QED
      BY <1>2, <2>1, <3>1 DEF IInv, TempOK, Writing
  <2>7. ConsentOK'
    BY <1>2, <2>1 DEF IInv, ConsentOK, Witnessed
  <2> QED
    BY <2>2, <2>3, <2>4, <2>5, <2>6, <2>7 DEF IInv, UsersWorkStays
<1>5. CASE f # "skill"
  <2>1. /\ f \in Files /\ skill' = skill /\ handle' = handle
        /\ entry => file[f].ours \notin Edits
        /\ file' = [file EXCEPT ![f] = IF entry THEN [ours |-> t, edits |-> @.edits]
                                       ELSE [ours |-> @.ours, edits |-> @.edits \cup {t}]]
    BY <1>5 DEF Edit
  <2> HIDE DEF t
  <2>0. /\ file[f] \in Content /\ file \in [Files -> Content] /\ t \in Edits
        /\ DOMAIN file = Files
    BY <1>1, <2>1 DEF IInv, Shape
  <2>2. /\ file' \in [Files -> Content] /\ \A g \in Files \ {f} : file'[g] = file[g]
        /\ file'[f].ours = IF entry THEN t ELSE file[f].ours
        /\ file'[f].edits = IF entry THEN file[f].edits ELSE file[f].edits \cup {t}
    <3> DEFINE new == IF entry THEN [ours |-> t, edits |-> file[f].edits]
                      ELSE [ours |-> file[f].ours, edits |-> file[f].edits \cup {t}]
    <3>1. new \in Content
      BY <2>0 DEF Content
    <3>2. file' = [file EXCEPT ![f] = new]
      BY <2>1
    <3>3. file'[f] = new
      BY <2>0, <2>1, <3>2
    <3>4. new.ours = (IF entry THEN t ELSE file[f].ours)
          /\ new.edits = (IF entry THEN file[f].edits ELSE file[f].edits \cup {t})
      OBVIOUS
    <3> HIDE DEF new
    <3> QED
      BY <2>0, <2>1, <3>1, <3>2, <3>3, <3>4
  <2>3. Shape'
    BY <1>1, <1>2, <2>1, <2>2 DEF IInv, Shape
  <2>4. In(f)' = In(f) \cup {t} /\ \A g \in Files \ {f} : In(g)' = In(g)
    BY <1>1, <2>1, <2>2 DEF In
  <2>5. ASSUME NEW p \in Procs PROVE CommandOK(p)'
    <3>1. Target(p)' = Target(p)
      BY <1>2 DEF Target, Doing
    <3>2. CommandOK(p)
      BY DEF IInv
    <3>3. CASE Target(p) = f
      <4>1. In(Target(p))' = In(Target(p)) \cup {t}
        BY <2>4, <3>1, <3>3 DEF In
      <4>2. Current(p)'.ours = IF entry THEN t ELSE Current(p).ours
        BY <2>2, <3>1, <3>3 DEF Current
      <4> QED
        BY <1>2, <1>3, <2>1, <3>1, <3>2, <3>3, <4>1, <4>2 DEF CommandOK
    <3>4. CASE Target(p) # f
      <4>1. Target(p) \in Files =>
              In(Target(p))' = In(Target(p)) /\ Current(p)' = Current(p)
        BY <2>2, <2>4, <3>1, <3>4 DEF In, Current
      <4> QED
        BY <1>2, <1>3, <2>1, <3>1, <3>2, <4>1 DEF CommandOK, Files
    <3> QED
      BY <3>3, <3>4
  <2>6. EditsSurvive'
    BY <1>1, <1>2, <1>3, <2>1, <2>4 DEF IInv, UsersWorkStays, EditsSurvive, Files
  <2>7. UsersOwnStays'
    <3>1. \A g \in Files : file[g].ours \in Edits => file'[g].ours = file[g].ours
      BY <2>1, <2>2
    <3>2. entry => t \in {file'["entry"].ours, file'["hook"].ours}
      BY <2>1, <2>2 DEF Files
    <3> QED
      BY <1>2, <1>3, <2>1, <3>1, <3>2 DEF IInv, UsersWorkStays, UsersOwnStays, Shape, Files
  <2>8. TempOK'
    BY <1>2, <2>1 DEF IInv, TempOK, Writing
  <2>9. ConsentOK'
    BY <1>2 DEF IInv, ConsentOK, Witnessed
  <2> QED
    BY <2>3, <2>5, <2>6, <2>7, <2>8, <2>9 DEF IInv, UsersWorkStays
<1> QED
  BY <1>4, <1>5

\* The hook and the Pool change no file.
LEMMA FilesFrame ==
  ASSUME IInv, UNCHANGED <<client, file, skills, processes, users, saved, overlapped>>, ConsentOK'
  PROVE  IInv'
<1>1. UNCHANGED <<client, file, skill, temp, handle, todo, stage, seen, setup, edited, placed,
                  late, later, saved, overlapped>>
  BY DEF skills, processes, users
<1>2. Shape'
  BY <1>1 DEF IInv, Shape
<1>3. ASSUME NEW p \in Procs PROVE CommandOK(p)'
  BY <1>1 DEF IInv, CommandOK, Target, Doing, Current, In
<1>4. UsersWorkStays'
  BY <1>1 DEF IInv, UsersWorkStays, EditsSurvive, UsersOwnStays, In
<1>5. TempOK'
  BY <1>1 DEF IInv, TempOK, Writing
<1> QED
  BY <1>2, <1>3, <1>4, <1>5 DEF IInv

LEMMA HookOK ==
  ASSUME IInv, Regroup \/ StartSession \/ Prompt \/ RunHook
  PROVE  IInv'
<1>1. CASE Regroup
  BY <1>1, FilesFrame DEF Regroup, hook, IInv, ConsentOK, On
<1>2. CASE StartSession
  BY <1>2, FilesFrame DEF StartSession, Asking, IInv, ConsentOK, On
<1>3. CASE Prompt
  BY <1>3, FilesFrame DEF Prompt, Asking, IInv, ConsentOK, On
<1>4. CASE CheckEnabled
  BY <1>4, FilesFrame DEF CheckEnabled, Asking, IInv, ConsentOK, On, NONE
<1>5. CASE RecallFromPool
  BY <1>5, FilesFrame DEF RecallFromPool, Asking, IInv, ConsentOK, On
<1>6. CASE EndPrompt
  BY <1>6, FilesFrame DEF EndPrompt, Asking, IInv, ConsentOK, On, NONE
<1> QED
  BY <1>1, <1>2, <1>3, <1>4, <1>5, <1>6 DEF RunHook

-----------------------------------------------------------------------------
(* The theorems. *)

LEMMA InitOK == Init => IInv
<1> SUFFICES ASSUME Init PROVE IInv
  OBVIOUS
<1>1. Unread \in Content /\ Unread.ours = NONE /\ Unread.edits = {}
  BY DEF Unread, Content
<1>2. Shape
  <2>1. <<>> \in Seq(DOMAIN Ops)
    OBVIOUS
  <2> QED
    BY <1>1, <2>1 DEF Init, Shape, Bodies, Stages, NONE
<1>3. \A p \in Procs : CommandOK(p)
  BY DEF Init, CommandOK
<1>4. UsersWorkStays
  BY DEF Init, UsersWorkStays, EditsSurvive, UsersOwnStays
<1>5. TempOK
  BY DEF Init, TempOK, Writing, NONE
<1>6. ConsentOK
  BY DEF Init, ConsentOK, NONE
<1> QED
  BY <1>2, <1>3, <1>4, <1>5, <1>6 DEF IInv

LEMMA StepOK == IInv /\ [Next]_vars => IInv'
<1> SUFFICES ASSUME IInv, [Next]_vars PROVE IInv'
  OBVIOUS
<1>1. CASE StartSetup
  BY <1>1, StartSetupOK
<1>2. ASSUME NEW p \in Procs, Work(p) PROVE IInv'
  BY <1>2, RefuseOK, LoadOK, BackupOK, ReplaceOK, RunClaudeOK, LookAtSkillOK, OpenTempOK,
     WriteTempOK, RenameTempOK, UnlinkSkillOK DEF Work
<1>3. ASSUME NEW p \in Procs, Fail(p) PROVE IInv'
  BY <1>3, FailOK
<1>4. ASSUME NEW p \in Procs, NEW op \in DOMAIN Ops, Start(p, op) PROVE IInv'
  BY <1>4, StartOK
<1>5. ASSUME NEW f \in Files \cup {"skill"}, NEW entry \in BOOLEAN, Edit(f, entry) PROVE IInv'
  BY <1>5, EditOK
<1>6. CASE Regroup \/ StartSession \/ Prompt \/ RunHook
  BY <1>6, HookOK
<1>7. CASE UNCHANGED vars
  <2>1. UNCHANGED <<client, file, skills, processes, users, saved, overlapped>> /\ ConsentOK'
    BY <1>7 DEF vars, hook, IInv, ConsentOK, On
  <2> QED
    BY <2>1, FilesFrame
<1> QED
  BY <1>1, <1>2, <1>3, <1>4, <1>5, <1>6, <1>7 DEF Next

LEMMA SpecIInv == Spec => []IInv
BY InitOK, StepOK, PTL DEF Spec

\* "Connection management preserves unrelated client configuration" and refuses a
\* user's own: for any number of edits and commands, what a user wrote is in its file
\* or in a backup, and what a user put in BrainCell's place stays, unless it came
\* behind the back of a command.
THEOREM UsersWorkStaysTheorem == Spec => []UsersWorkStays
<1>1. IInv => UsersWorkStays
  BY DEF IInv
<1> QED
  BY <1>1, SpecIInv, PTL

\* However often commands fail or die, the skill is whole unless two of them were
\* writing it at a time.
THEOREM SkillIsWholeTheorem == Spec => []SkillIsWhole
<1>1. IInv => SkillIsWhole
  BY DEF IInv, TempOK, SkillIsWhole
<1> QED
  BY <1>1, SpecIInv, PTL

\* Whatever is enabled, disabled or edited while a session runs its hook: an answer of
\* the Pool means that the hook was on at some time since the prompt.
THEOREM HookNeedsConsentTheorem == Spec => []HookNeedsConsent
<1>1. IInv => HookNeedsConsent
  BY DEF IInv, ConsentOK, HookNeedsConsent
<1> QED
  BY <1>1, SpecIInv, PTL
=============================================================================
