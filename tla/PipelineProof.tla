--------------------------- MODULE PipelineProof ---------------------------
(***************************************************************************)
(* Proofs about Pipeline for every configuration of the analysis and any   *)
(* number of extensions, with the token set at any moment.                 *)
(***************************************************************************)
EXTENDS Pipeline, Walk, Integers, SequenceTheorems, FiniteSetTheorems, TLAPS

(* What every configuration wants, and stages that run within others.      *)
Chosen ==
  /\ Wants("discovery")
  /\ Wants("historical") => Wants("evolution")
  /\ Wants("duplication") \/ Wants("similarity") => Wants("quality")

(* Where analyze is when a stage is begun and has not ended.               *)
Placed ==
  /\ at = "end" <=> ~Running
  /\ Begun("git") => at = "git" /\ Wants("git")
  /\ Begun("evolution") => at = "evolution" /\ Wants("evolution") /\ CanEvolve
  /\ Begun("project") => Wants("project")
  /\ Begun("plugins") => HasExtensions
  /\ at \in {"extension", "extended"} => busy = "plugins"
  /\ at = "extension" => left # <<>>
  /\ at \in {"commands", "recorded"} => Wants("project")

(* How many stages are recorded by the time analyze gets to a place.       *)
Recorded(place) ==
  CASE place \in {"prepare", "files"}                     -> 0
    [] place = "git"                                      -> 2
    [] place = "dependencies"                             -> 3
    [] place \in {"checked", "architecture"}              -> 4
    [] place = "quality"                                  -> 5
    [] place \in {"project", "commands", "recorded"}      -> 8
    [] place = "security"                                 -> 9
    [] place = "evolution"                                -> 10
    [] place \in {"plugins", "extension", "extended"}     -> 12
    [] place = "insights"                                 -> 13
    [] OTHER                                              -> 14

Counted == Running \/ result = "ok" => Len(runs) = Recorded(at)

(* A section is only marked by the code of the stages it belongs to.       *)
Marked ==
  /\ "git" \in sections => Len(runs) >= 3
  /\ "architecture" \in sections => Len(runs) >= 5
  /\ "quality" \in sections => Len(runs) >= 8
  /\ "evolution" \in sections => Len(runs) >= 12

(* What SkipsAreTold asks of an artifact, of one entry at any time.        *)
ToldOf(s) ==
  \/ s \in sections
  \/ s = "historical" /\ "evolution" \in sections
  \/ s \in {"duplication", "similarity"} /\ "quality" \in sections
  \/ s = "plugins" /\ ~HasExtensions

True(run) ==
  LET ran == run.status \in {"completed", "partial"} IN
  /\ ran <=> Wants(run.stage) /\ ~ToldOf(run.stage)
  /\ run.status = "failed" => run.stage \in warnings
  /\ run.stage = "evolution" /\ ran => history

Truthful == \A i \in 1..Len(runs) : runs[i].stage = Order[i] /\ True(runs[i])

Early == {"prepare", "files", "git", "dependencies", "checked"}
Middle == {"architecture", "quality", "project", "commands"}
Late == {"extended", "insights", "finished", "end"}

(* CancelHonoured, at every place behind a checkpoint.                     *)
Honoured ==
  token /\ (Running \/ result = "ok") =>
    /\ asked # "end"
    /\ at \notin Early => asked \notin Early
    /\ Wants("project") /\ at \notin Early \cup Middle => asked \notin Middle
    /\ HasExtensions /\ at \in Late => asked \in Late

(* Work that was cut short has a checkpoint before it or a verdict.        *)
Whole ==
  cut # {} => /\ token
              /\ at \in {"commands", "plugins", "extension"} \/ result = "cancelled"
              /\ at = "plugins" => busy = "plugins"

IInv == /\ TypeOK /\ Chosen /\ Placed /\ Counted /\ Marked /\ Truthful
        /\ Honoured /\ Whole

(* Everything that is recorded is an entry of this form. *)
Status == {"completed", "partial", "skipped", "failed"}
Entry == [stage : Stages, status : Status]

-----------------------------------------------------------------------------
(***************************************************************************)
(* The configuration is what it was, and its stages are sound.             *)
(***************************************************************************)
LEMMA EffectiveStagesAreSound ==
  ASSUME NEW c \in Configs, stages = EffectiveStages(c[1], c[2])
  PROVE  Chosen /\ stages \subseteq Stages
<1>1. c[1] \in Profiles
  BY PipelineAssumption
<1>2. ProfileStages(c[1]) \subseteq Stages /\ "discovery" \in ProfileStages(c[1])
  BY <1>1 DEF Profiles, ProfileStages, Stages, Standard
<1>3. /\ "historical" \in ProfileStages(c[1]) => "evolution" \in ProfileStages(c[1])
      /\ \/ "duplication" \in ProfileStages(c[1])
         \/ "similarity" \in ProfileStages(c[1])
         => "quality" \in ProfileStages(c[1])
  BY <1>1 DEF Profiles, ProfileStages, Stages, Standard
<1>4. stages \subseteq Stages
  BY <1>2 DEF EffectiveStages
<1>5. Chosen
  BY <1>2, <1>3 DEF EffectiveStages, Needs, Chosen, Wants
<1> QED BY <1>4, <1>5

LEMMA ConfigStays == [Next]_vars => UNCHANGED config
BY DEF Next, Step, vars, config, Cancel, Detect, Prepare, Refuse, StopPreparing, BeginDiscovery,
   DiscoveryFails, Discover, BeginGit, ReadGit, GitFails, SkipGit, Plain, Dependencies,
   AfterDependencies, CheckPoint, Architecture, Quality, Security, Insights, BeginProject,
   ListCommands, Commanded, EndProject, SkipProject, RunCommand, RunExtension, BeginEvolution,
   SkipEvolution, AfterEvolution, Evolve, BeginPlugins, NextExtension, LastExtension, EndPlugins,
   SkipPlugins, Finish, StopWithin, Return, Begin

LEMMA ChosenStep == IInv /\ [Next]_vars => Chosen'
BY ConfigStays DEF IInv, Chosen, Wants, config

-----------------------------------------------------------------------------
(***************************************************************************)
(* What is recorded: each stage at its place, and the truth about it.      *)
(***************************************************************************)
LEMMA OrderIs ==
  /\ Len(Order) = 14
  /\ Order[1] = "discovery" /\ Order[2] = "parsing" /\ Order[3] = "git"
  /\ Order[4] = "dependencies" /\ Order[5] = "architecture" /\ Order[6] = "quality"
  /\ Order[7] = "duplication" /\ Order[8] = "similarity" /\ Order[9] = "project"
  /\ Order[10] = "security" /\ Order[11] = "evolution" /\ Order[12] = "historical"
  /\ Order[13] = "plugins" /\ Order[14] = "insights"
BY DEF Order

(* A step that records: analyze goes on, and the new entries are right.    *)
Grown ==
  /\ Running'
  /\ runs' \in Seq(Entry)
  /\ Len(runs) <= Len(runs') /\ Len(runs') = Recorded(at')
  /\ \A i \in 1..Len(runs) : runs'[i] = runs[i]
  /\ \A i \in Len(runs)+1 .. Len(runs') : runs'[i].stage = Order[i] /\ True(runs[i])'

LEMMA GrowsBy ==
  ASSUME TypeOK, NEW e \in Seq(Entry), Record(e), Running',
         Len(runs) + Len(e) = Recorded(at'),
         \A j \in 1..Len(e) : e[j].stage = Order[Len(runs) + j] /\ True(e[j])'
  PROVE  Grown
<1>1. runs \in Seq(Entry) /\ Len(runs) \in Nat /\ Len(e) \in Nat
  BY DEF TypeOK, Entry, Status
<1>2. /\ runs' \in Seq(Entry) /\ Len(runs') = Len(runs) + Len(e)
      /\ \A i \in 1..Len(runs) : runs'[i] = runs[i]
      /\ \A i \in Len(runs)+1 .. Len(runs') : runs'[i] = e[i - Len(runs)]
  BY <1>1, ConcatProperties DEF Record
<1>3. ASSUME NEW i \in Len(runs)+1 .. Len(runs')
      PROVE  runs'[i].stage = Order[i] /\ True(runs[i])'
  <2>1. /\ i \in Int /\ Len(runs) + 1 <= i /\ i <= Len(runs) + Len(e)
        /\ runs'[i] = e[i - Len(runs)]
    BY <1>1, <1>2
  <2>2. i - Len(runs) \in 1..Len(e) /\ Len(runs) + (i - Len(runs)) = i
    BY <1>1, <2>1
  <2>3. PICK j \in 1..Len(e) : Len(runs) + j = i /\ runs'[i] = e[j]
    BY <2>1, <2>2
  <2>4. e[j].stage = Order[i] /\ True(e[j])'
    BY <2>3
  <2> QED BY <2>3, <2>4 DEF True, ToldOf
<1> QED BY <1>1, <1>2, <1>3 DEF Grown

Run(s, status) == [stage |-> s, status |-> status]

LEMMA GrowsByOne ==
  ASSUME TypeOK, NEW s \in Stages, NEW a \in Status, Record(<<Run(s, a)>>), Running',
         Len(runs) + 1 = Recorded(at'), s = Order[Len(runs) + 1], True(Run(s, a))'
  PROVE  Grown
<1> DEFINE e == <<Run(s, a)>>
<1>1. e \in Seq(Entry) /\ Len(e) = 1 /\ e[1] = Run(s, a) /\ e[1].stage = s
  BY DEF Run, Entry
<1> HIDE DEF e
<1>2. \A j \in 1..Len(e) : e[j].stage = Order[Len(runs) + j] /\ True(e[j])'
  BY <1>1 DEF True, ToldOf
<1>3. Record(e)
  BY DEF e
<1> QED BY <1>1, <1>2, <1>3, GrowsBy

LEMMA Joined ==
  ASSUME NEW x \in Seq(Entry), NEW r \in Entry
  PROVE  /\ x \o <<r>> \in Seq(Entry) /\ Len(x \o <<r>>) = Len(x) + 1
         /\ \A i \in 1..Len(x) : (x \o <<r>>)[i] = x[i]
         /\ (x \o <<r>>)[Len(x) + 1] = r
<1>1. <<r>> \in Seq(Entry) /\ Len(<<r>>) = 1 /\ <<r>>[1] = r /\ Len(x) \in Nat
  OBVIOUS
<1> QED BY <1>1, ConcatProperties

LEMMA TwoJoined ==
  ASSUME NEW p \in Entry, NEW q \in Entry
  PROVE  /\ <<p>> \o <<q>> \in Seq(Entry) /\ Len(<<p>> \o <<q>>) = 2
         /\ (<<p>> \o <<q>>)[1] = p /\ (<<p>> \o <<q>>)[2] = q
<1> DEFINE d == <<p>>
<1>1. d \in Seq(Entry) /\ Len(d) = 1 /\ d[1] = p
  OBVIOUS
<1> HIDE DEF d
<1>2. /\ d \o <<q>> \in Seq(Entry) /\ Len(d \o <<q>>) = 2
      /\ (d \o <<q>>)[1] = p /\ (d \o <<q>>)[2] = q
  <2>1. /\ d \o <<q>> \in Seq(Entry) /\ Len(d \o <<q>>) = Len(d) + 1
        /\ \A i \in 1..Len(d) : (d \o <<q>>)[i] = d[i]
        /\ (d \o <<q>>)[Len(d) + 1] = q
    BY <1>1, Joined
  <2> QED BY <1>1, <2>1
<1> QED BY <1>2 DEF d

LEMMA ThreeJoined ==
  ASSUME NEW p \in Entry, NEW q \in Entry, NEW r \in Entry
  PROVE  /\ <<p>> \o <<q>> \o <<r>> \in Seq(Entry) /\ Len(<<p>> \o <<q>> \o <<r>>) = 3
         /\ (<<p>> \o <<q>> \o <<r>>)[1] = p /\ (<<p>> \o <<q>> \o <<r>>)[2] = q
         /\ (<<p>> \o <<q>> \o <<r>>)[3] = r
<1> DEFINE d == <<p>> \o <<q>>
<1>1. d \in Seq(Entry) /\ Len(d) = 2 /\ d[1] = p /\ d[2] = q
  BY TwoJoined
<1> HIDE DEF d
<1>2. /\ d \o <<r>> \in Seq(Entry) /\ Len(d \o <<r>>) = Len(d) + 1
      /\ \A i \in 1..Len(d) : (d \o <<r>>)[i] = d[i]
      /\ (d \o <<r>>)[Len(d) + 1] = r
  BY <1>1, Joined
<1>3. /\ d \o <<r>> \in Seq(Entry) /\ Len(d \o <<r>>) = 3
      /\ (d \o <<r>>)[1] = p /\ (d \o <<r>>)[2] = q /\ (d \o <<r>>)[3] = r
  BY <1>1, <1>2
<1> QED BY <1>3 DEF d

LEMMA GrowsByTwo ==
  ASSUME TypeOK, NEW s \in Stages, NEW a \in Status, NEW t \in Stages, NEW b \in Status,
         Record(<<Run(s, a)>> \o <<Run(t, b)>>), Running', Len(runs) + 2 = Recorded(at'),
         s = Order[Len(runs) + 1], t = Order[Len(runs) + 2],
         True(Run(s, a))', True(Run(t, b))'
  PROVE  Grown
<1> DEFINE p == Run(s, a)
           q == Run(t, b)
           e == <<p>> \o <<q>>
<1>0. p \in Entry /\ q \in Entry /\ p.stage = s /\ q.stage = t
  BY DEF Run, Entry
<1>1. e \in Seq(Entry) /\ Len(e) = 2 /\ e[1] = p /\ e[2] = q
  <2> HIDE DEF p, q
  <2> QED BY <1>0, TwoJoined
<1>2. Record(e)
  OBVIOUS
<1> HIDE DEF e
<1>3. \A j \in 1..Len(e) : e[j].stage = Order[Len(runs) + j] /\ True(e[j])'
  <2> SUFFICES ASSUME NEW j \in 1..Len(e)
               PROVE  e[j].stage = Order[Len(runs) + j] /\ True(e[j])'
    OBVIOUS
  <2>1. j = 1 \/ j = 2
    BY <1>1
  <2> QED BY <1>0, <1>1, <2>1 DEF True, ToldOf
<1> QED BY <1>1, <1>2, <1>3, GrowsBy

LEMMA GrowsByThree ==
  ASSUME TypeOK, NEW s \in Stages, NEW a \in Status, NEW t \in Stages, NEW b \in Status,
         NEW u \in Stages, NEW c \in Status,
         Record(<<Run(s, a)>> \o <<Run(t, b)>> \o <<Run(u, c)>>), Running',
         Len(runs) + 3 = Recorded(at'),
         s = Order[Len(runs) + 1], t = Order[Len(runs) + 2], u = Order[Len(runs) + 3],
         True(Run(s, a))', True(Run(t, b))', True(Run(u, c))'
  PROVE  Grown
<1> DEFINE p == Run(s, a)
           q == Run(t, b)
           r == Run(u, c)
           e == <<p>> \o <<q>> \o <<r>>
<1>0. /\ p \in Entry /\ q \in Entry /\ r \in Entry
      /\ p.stage = s /\ q.stage = t /\ r.stage = u
  BY DEF Run, Entry
<1>1. e \in Seq(Entry) /\ Len(e) = 3 /\ e[1] = p /\ e[2] = q /\ e[3] = r
  <2> HIDE DEF p, q, r
  <2> QED BY <1>0, ThreeJoined
<1>2. Record(e)
  OBVIOUS
<1> HIDE DEF e
<1>3. \A j \in 1..Len(e) : e[j].stage = Order[Len(runs) + j] /\ True(e[j])'
  <2> SUFFICES ASSUME NEW j \in 1..Len(e)
               PROVE  e[j].stage = Order[Len(runs) + j] /\ True(e[j])'
    OBVIOUS
  <2>1. j = 1 \/ j = 2 \/ j = 3
    BY <1>1
  <2> QED BY <1>0, <1>1, <2>1 DEF True, ToldOf
<1> QED BY <1>1, <1>2, <1>3, GrowsBy

(* A step that records nothing leaves the count of its place. *)
Kept ==
  /\ UNCHANGED <<runs, sections>>
  /\ Running' \/ result' = "ok" =>
       (Running \/ result = "ok") /\ Recorded(at') = Recorded(at)

LEMMA StatusOfSection ==
  ASSUME NEW present \in BOOLEAN
  PROVE  StatusOf(Section(present)) = IF present THEN "completed" ELSE "skipped"
BY DEF StatusOf, Section

LEMMA SoFar ==
  ASSUME IInv, Running
  PROVE  /\ TypeOK /\ Chosen /\ request.code \in BOOLEAN /\ request.commits \in BOOLEAN
         /\ Len(runs) = Recorded(at) /\ at \in Places /\ Marked /\ Placed
         /\ sections \subseteq {"git", "architecture", "quality", "evolution"}
BY DEF IInv, TypeOK, Requests, Counted

LEMMA DiscoverRecords ==
  ASSUME IInv, NEW d \in {"completed", "partial"}, NEW p \in {"completed", "partial"},
         Discover(d, p)
  PROVE  Grown
<1>1. PICK q \in Status : q = IF Wants("parsing") THEN p ELSE "skipped"
  BY DEF Status
<1>2. Record(<<Run("discovery", d)>> \o <<Run("parsing", q)>>)
  BY <1>1 DEF Discover, Within, Ran, Skipped, Run
<1>3. /\ Running /\ Running' /\ at = "files" /\ at' = "git"
      /\ UNCHANGED <<config, sections>>
  BY DEF Discover, Begun, Goto, Running
<1>4. /\ "discovery" \in Stages /\ "parsing" \in Stages /\ d \in Status
      /\ Len(runs) = 0 /\ Len(runs) + 2 = Recorded(at')
  BY <1>3, SoFar DEF Stages, Status, Recorded
<1>5. True(Run("discovery", d))'
  BY <1>3, SoFar DEF True, Run, ToldOf, Wants, config, Chosen
<1>6. True(Run("parsing", q))'
  BY <1>1, <1>3, SoFar DEF True, Run, ToldOf, Wants, config
<1> QED BY <1>2, <1>3, <1>4, <1>5, <1>6, OrderIs, SoFar, GrowsByTwo

(* The stages with an entry of their own.                                  *)
LEMMA OneRecord ==
  ASSUME IInv, Running, Running', NEW s \in Stages, NEW a \in Status, Record(Ran(s, a)),
         s = Order[Recorded(at) + 1], Recorded(at') = Recorded(at) + 1,
         True(Run(s, a))'
  PROVE  Grown
BY SoFar, GrowsByOne DEF Ran, Run

LEMMA GitRecords ==
  ASSUME IInv, ReadGit \/ GitFails \/ SkipGit
  PROVE  Grown
<1>1. PICK a \in Status :
        /\ Record(Ran("git", a))
        /\ \/ a = "completed" /\ Wants("git") /\ sections' = sections
           \/ a = "failed" /\ "git" \in sections' \cap warnings' /\ Wants("git")
           \/ a = "skipped" /\ (Wants("git") => "git" \in sections')
  <2>1. CASE ReadGit
    BY <2>1 DEF ReadGit, Status, IInv, Placed
  <2>2. CASE GitFails
    BY <2>2 DEF GitFails, Status, IInv, Placed
  <2>3. CASE SkipGit
    BY <2>3 DEF SkipGit, Skipped, Status
  <2> QED BY <2>1, <2>2, <2>3
<1>2. Running /\ Running' /\ at = "git" /\ at' = "dependencies" /\ UNCHANGED config
  BY DEF ReadGit, GitFails, SkipGit, Begun, Goto, Running, IInv, Placed
<1>3. Recorded(at) = 2 /\ Recorded(at') = 3 /\ "git" \in Stages
  BY <1>2 DEF Recorded, Stages
<1>4. "git" \notin sections
  BY <1>2, <1>3, SoFar DEF Marked
<1>5. True(Run("git", a))'
  BY <1>1, <1>2, <1>4 DEF True, Run, ToldOf, Wants, config
<1> QED BY <1>1, <1>2, <1>3, <1>5, OrderIs, OneRecord

LEMMA PlainRecords ==
  ASSUME IInv, Dependencies \/ Security \/ Insights
  PROVE  Grown \/ Kept
<1>1. CASE Kept
  BY <1>1
<1>2. CASE ~Kept
  <2>1. PICK s \in {"dependencies", "security", "insights"}, a \in Status :
          /\ at = s /\ Running /\ Running' /\ Record(Ran(s, a)) /\ UNCHANGED config
          /\ sections' = sections /\ a = IF Wants(s) THEN "completed" ELSE "skipped"
          /\ at' = CASE s = "dependencies" -> "checked" [] s = "security" -> "evolution"
                     [] OTHER              -> "finished"
    <3>1. CASE Dependencies
      BY <1>2, <3>1 DEF Dependencies, Plain, Begin, Kept, told, Running, Noted, Goto, Status,
         Skipped
    <3>2. CASE Security
      BY <1>2, <3>2 DEF Security, Plain, Begin, Kept, told, Running, Noted, Goto, Status,
         Skipped
    <3>3. CASE Insights
      BY <1>2, <3>3 DEF Insights, Plain, Begin, Kept, told, Running, Noted, Goto, Status,
         Skipped
    <3> QED BY <3>1, <3>2, <3>3
  <2>2. s \in Stages /\ s = Order[Recorded(at) + 1] /\ Recorded(at') = Recorded(at) + 1
    BY <2>1, OrderIs DEF Recorded, Stages
  <2>3. True(Run(s, a))'
    BY <2>1, SoFar DEF True, Run, ToldOf, Wants, config
  <2> QED BY <2>1, <2>2, <2>3, OneRecord
<1> QED BY <1>1, <1>2

LEMMA ArchitectureRecords ==
  ASSUME IInv, Architecture
  PROVE  Grown \/ Kept
<1>1. CASE Kept
  BY <1>1
<1>2. CASE ~Kept
  <2>1. /\ at = "architecture" /\ at' = "quality" /\ Running /\ Running' /\ UNCHANGED config
        /\ Record(IF Wants("architecture")
                  THEN Ran("architecture", StatusOf(Section(request.code)))
                  ELSE Skipped("architecture"))
        /\ sections' = IF Wants("architecture")
                       THEN Noted("architecture", request.code) ELSE sections
    BY <1>2 DEF Architecture, Plain, Begin, Kept, told, Running, Goto
  <2>2. PICK a \in Status :
          a = IF Wants("architecture") /\ request.code THEN "completed" ELSE "skipped"
    BY DEF Status
  <2>3. Record(Ran("architecture", a))
    BY <2>1, <2>2, SoFar, StatusOfSection DEF Skipped
  <2>4. Recorded(at) = 4 /\ Recorded(at') = 5 /\ "architecture" \in Stages
    BY <2>1 DEF Recorded, Stages
  <2>5. "architecture" \notin sections
    BY <2>1, <2>4, SoFar DEF Marked
  <2>6. True(Run("architecture", a))'
    BY <2>1, <2>2, <2>5, SoFar DEF True, Run, ToldOf, Wants, config, Noted
  <2> QED BY <2>1, <2>3, <2>4, <2>6, OrderIs, OneRecord
<1> QED BY <1>1, <1>2

LEMMA QualityRecords ==
  ASSUME IInv, Quality
  PROVE  Grown \/ Kept
<1>1. CASE Kept
  BY <1>1
<1>2. CASE ~Kept
  <2> DEFINE status(s) == IF Wants(s) /\ request.code THEN "completed" ELSE "skipped"
  <2>1. /\ at = "quality" /\ at' = "project" /\ Running /\ Running' /\ UNCHANGED config
        /\ Record(IF Wants("quality")
                  THEN Ran("quality", StatusOf(Section(request.code)))
                         \o Within("duplication", StatusOf(Section(request.code)))
                         \o Within("similarity", StatusOf(Section(request.code)))
                  ELSE Skipped("quality") \o Skipped("duplication") \o Skipped("similarity"))
        /\ sections' = IF Wants("quality")
                       THEN Noted("quality", request.code) ELSE sections
    BY <1>2 DEF Quality, Plain, Begin, Kept, told, Running, Goto
  <2>2. PICK a \in Status, b \in Status, c \in Status :
          a = status("quality") /\ b = status("duplication") /\ c = status("similarity")
    BY DEF Status
  <2>3. Record(<<Run("quality", a)>> \o <<Run("duplication", b)>> \o <<Run("similarity", c)>>)
    <3>1. CASE Wants("quality")
      BY <2>1, <2>2, <3>1, SoFar, StatusOfSection DEF Within, Skipped, Ran, Run
    <3>2. CASE ~Wants("quality")
      BY <2>1, <2>2, <3>2, SoFar DEF Skipped, Ran, Run, Chosen
    <3> QED BY <3>1, <3>2
  <2>4. /\ Len(runs) = 5 /\ Recorded(at') = 8 /\ "quality" \in Stages
        /\ "duplication" \in Stages /\ "similarity" \in Stages
    BY <2>1, SoFar DEF Recorded, Stages
  <2>5. "quality" \notin sections
    BY <2>1, <2>4, SoFar DEF Marked
  <2>6. "quality" \in sections' <=> Wants("quality") /\ ~request.code
    BY <2>1, <2>5, SoFar DEF Noted
  <2>7. sections' \subseteq {"git", "architecture", "quality", "evolution"}
    BY <2>1, SoFar DEF Noted
  <2>8. True(Run("quality", a))'
    BY <2>1, <2>2, <2>6, SoFar DEF True, Run, ToldOf, Wants, config
  <2>9. True(Run("duplication", b))'
    BY <2>1, <2>2, <2>6, <2>7, SoFar DEF True, Run, ToldOf, Wants, config, Chosen
  <2>10. True(Run("similarity", c))'
    BY <2>1, <2>2, <2>6, <2>7, SoFar DEF True, Run, ToldOf, Wants, config, Chosen
  <2> QED BY <2>1, <2>3, <2>4, <2>8, <2>9, <2>10, OrderIs, SoFar, GrowsByThree
<1> QED BY <1>1, <1>2

LEMMA ProjectRecords ==
  ASSUME IInv, EndProject \/ SkipProject
  PROVE  Grown
<1>1. PICK a \in Status : /\ Record(Ran("project", a))
                          /\ a = IF Wants("project") THEN "completed" ELSE "skipped"
  BY DEF EndProject, SkipProject, Skipped, Status, IInv, Placed
<1>2. /\ Running /\ Running' /\ at \in {"project", "recorded"} /\ at' = "security"
      /\ UNCHANGED <<config, sections>>
  BY DEF EndProject, SkipProject, Goto, Running
<1>3. Recorded(at) = 8 /\ Recorded(at') = 9 /\ "project" \in Stages
  BY <1>2 DEF Recorded, Stages
<1>4. True(Run("project", a))'
  BY <1>1, <1>2, SoFar DEF True, Run, ToldOf, Wants, config
<1> QED BY <1>1, <1>2, <1>3, <1>4, OrderIs, OneRecord

LEMMA PluginsRecords ==
  ASSUME IInv, EndPlugins \/ SkipPlugins
  PROVE  Grown
<1>1. PICK a \in Status :
        /\ Record(Ran("plugins", a))
        /\ IF HasExtensions THEN a \in {"completed", "partial"} ELSE a = "skipped"
  <2>1. CASE EndPlugins
    <3>1. HasExtensions
      BY <2>1 DEF EndPlugins, IInv, Placed, Begun
    <3> QED BY <2>1, <3>1 DEF EndPlugins, Status
  <2>2. CASE SkipPlugins
    BY <2>2 DEF SkipPlugins, Skipped, Status
  <2> QED BY <2>1, <2>2
<1>2. /\ Running /\ Running' /\ at \in {"plugins", "extended"} /\ at' = "insights"
      /\ UNCHANGED <<config, sections>>
  BY DEF EndPlugins, SkipPlugins, Goto, Running
<1>3. Recorded(at) = 12 /\ Recorded(at') = 13 /\ "plugins" \in Stages
  BY <1>2 DEF Recorded, Stages
<1>4. True(Run("plugins", a))'
  BY <1>1, <1>2, SoFar DEF True, Run, ToldOf, Wants, HasExtensions, config
<1> QED BY <1>1, <1>2, <1>3, <1>4, OrderIs, OneRecord

LEMMA EvolutionRecords ==
  ASSUME IInv, SkipEvolution \/ \E notes \in BOOLEAN : Evolve(notes)
  PROVE  Grown
<1> DEFINE Outcome(a, b) ==
      \/ /\ Wants("evolution") /\ a \in {"completed", "partial"} /\ "evolution" \notin sections'
         /\ b = IF Wants("historical") THEN a ELSE "skipped"
         /\ history
      \/ /\ Wants("evolution") => "evolution" \in sections'
         /\ a = "skipped" /\ b = "skipped"
<1>1. /\ Running /\ Running' /\ at = "evolution" /\ at' = "plugins"
      /\ UNCHANGED <<config, history>>
  BY DEF Evolve, SkipEvolution, AfterEvolution, Begun, Goto, Running, IInv, Placed, state
<1>2. Len(runs) = 10 /\ Recorded(at') = 12 /\ "evolution" \in Stages /\ "historical" \in Stages
  BY <1>1, SoFar DEF Recorded, Stages
<1>3. "evolution" \notin sections
  BY <1>1, <1>2, SoFar DEF Marked
<1>4. PICK a \in Status, b \in Status :
        /\ Record(<<Run("evolution", a)>> \o <<Run("historical", b)>>)
        /\ Outcome(a, b)
  <2>1. CASE SkipEvolution
    <3>1. Record(<<Run("evolution", "skipped")>> \o <<Run("historical", "skipped")>>)
      BY <2>1 DEF SkipEvolution, AfterEvolution, HistoricalPending, Skipped, Ran, Run
    <3>2. "skipped" \in Status /\ Outcome("skipped", "skipped")
      BY <2>1 DEF SkipEvolution, Status
    <3> QED BY <3>1, <3>2
  <2>2. ASSUME NEW notes \in BOOLEAN, Evolve(notes)
        PROVE  \E a \in Status, b \in Status :
                 /\ Record(<<Run("evolution", a)>> \o <<Run("historical", b)>>)
                 /\ Outcome(a, b)
    <3>1. PICK a \in Status :
            a = IF notes THEN "partial" ELSE StatusOf(Section(request.commits))
      BY SoFar, <1>1, StatusOfSection DEF Status
    <3>2. PICK b \in Status : b = IF Wants("historical") THEN a ELSE "skipped"
      BY DEF Status
    <3>3. Record(<<Run("evolution", a)>> \o <<Run("historical", b)>>)
      <4>1. CASE Wants("historical")
        <5>1. ~HistoricalPending(TRUE)
          BY <4>1 DEF HistoricalPending
        <5>2. Record(<<Run("evolution", a)>> \o <<Run("historical", a)>> \o <<>>)
          BY <2>2, <3>1, <4>1, <5>1 DEF Evolve, AfterEvolution, Ran, Run
        <5>3. Run("evolution", a) \in Entry /\ Run("historical", a) \in Entry
          BY <1>2 DEF Run, Entry
        <5>4. <<Run("evolution", a)>> \o <<Run("historical", a)>> \in Seq(Entry)
          BY <5>3, TwoJoined
        <5> QED BY <3>2, <4>1, <5>2, <5>4, ConcatEmptySeq
      <4>2. CASE ~Wants("historical")
        <5>1. HistoricalPending(TRUE)
          BY <4>2 DEF HistoricalPending
        <5>2. Record(<<Run("evolution", a)>> \o <<>> \o <<Run("historical", "skipped")>>)
          BY <2>2, <3>1, <4>2, <5>1 DEF Evolve, AfterEvolution, Skipped, Ran, Run
        <5>3. <<Run("evolution", a)>> \in Seq(Entry)
          BY <1>2 DEF Run, Entry
        <5> QED BY <3>2, <4>2, <5>2, <5>3, ConcatEmptySeq
      <4> QED BY <4>1, <4>2
    <3>4. Outcome(a, b)
      BY <1>3, <2>2, <3>1, <3>2, <1>1, SoFar, StatusOfSection
         DEF Evolve, Noted, IInv, Placed, CanEvolve
    <3> QED BY <3>3, <3>4
  <2> QED BY <2>1, <2>2
<1>5. sections' \subseteq {"git", "architecture", "quality", "evolution"}
  BY <1>1, SoFar DEF Evolve, SkipEvolution, Noted
<1>6. True(Run("evolution", a))'
  BY <1>1, <1>4 DEF True, Run, ToldOf, Wants, config
<1>7. True(Run("historical", b))'
  BY <1>1, <1>4, <1>5, SoFar DEF True, Run, ToldOf, Wants, config, Chosen
<1> QED BY <1>1, <1>2, <1>4, <1>6, <1>7, OrderIs, SoFar, GrowsByTwo

(* Every other step, and what it needs to be one that records nothing.     *)
Quiet ==
  \/ Detect \/ Prepare \/ Refuse \/ StopPreparing \/ BeginDiscovery \/ DiscoveryFails
  \/ BeginGit \/ AfterDependencies \/ BeginProject \/ ListCommands \/ Commanded
  \/ (\E success \in BOOLEAN : RunCommand(success) \/ RunExtension(success))
  \/ BeginEvolution \/ BeginPlugins \/ NextExtension \/ LastExtension \/ Finish
  \/ (\E s \in {"discovery", "git", "architecture", "quality", "evolution"} : StopWithin(s))
  \/ Cancel

LEMMA QuietKeeps == IInv /\ Quiet => Kept
<1> SUFFICES ASSUME IInv, Quiet PROVE Kept
  OBVIOUS
<1>1. CASE Detect
  BY <1>1 DEF Detect, Kept, told, Running, Recorded
<1>2. CASE Prepare
  BY <1>2 DEF Prepare, Kept, told, Running, Recorded, Goto
<1>3. CASE Refuse \/ StopPreparing \/ DiscoveryFails
  BY <1>3 DEF Refuse, StopPreparing, DiscoveryFails, Return, Kept, told, Running
<1>4. CASE BeginDiscovery \/ BeginGit \/ BeginProject \/ BeginEvolution \/ BeginPlugins
  BY <1>4 DEF BeginDiscovery, BeginGit, BeginProject, BeginEvolution, BeginPlugins, Begin, Kept,
     told, Running
<1>5. CASE AfterDependencies
  BY <1>5 DEF AfterDependencies, CheckPoint, Return, Goto, Kept, told, Running, Recorded
<1>6. CASE ListCommands
  BY <1>6 DEF ListCommands, Goto, Begun, Kept, told, Running, Recorded
<1>7. CASE Commanded
  BY <1>7 DEF Commanded, CheckPoint, Return, Goto, Kept, told, Running, Recorded
<1>8. ASSUME NEW success \in BOOLEAN, RunCommand(success) \/ RunExtension(success) PROVE Kept
  BY <1>8 DEF RunCommand, RunExtension, Goto, Kept, told, Running, Recorded
<1>9. CASE NextExtension \/ LastExtension
  BY <1>9 DEF NextExtension, LastExtension, CheckPoint, Return, Goto, Kept, told, Running, Recorded
<1>10. CASE Finish
  BY <1>10 DEF Finish, Return, Kept, told, Running, Recorded
<1>11. ASSUME NEW s \in {"discovery", "git", "architecture", "quality", "evolution"},
              StopWithin(s)
       PROVE  Kept
  BY <1>11 DEF StopWithin, Return, Kept, told, Running
<1>12. CASE Cancel
  BY <1>12 DEF Cancel, Kept, told, Running
<1> QED BY <1>1, <1>2, <1>3, <1>4, <1>5, <1>6, <1>7, <1>8, <1>9, <1>10, <1>11, <1>12 DEF Quiet

Recording ==
  \/ (\E d, p \in {"completed", "partial"} : Discover(d, p))
  \/ ReadGit \/ GitFails \/ SkipGit \/ Dependencies \/ Architecture \/ Quality
  \/ EndProject \/ SkipProject \/ Security \/ SkipEvolution
  \/ (\E notes \in BOOLEAN : Evolve(notes)) \/ EndPlugins \/ SkipPlugins \/ Insights

LEMMA Steps == Next => Quiet \/ Recording
BY DEF Next, Step, Quiet, Recording

LEMMA RecordingStep ==
  ASSUME IInv, Next
  PROVE  Grown \/ Kept
<1>1. CASE Quiet
  BY <1>1, QuietKeeps
<1>2. CASE Recording
  BY <1>2, DiscoverRecords, GitRecords, PlainRecords, ArchitectureRecords, QualityRecords,
     ProjectRecords, EvolutionRecords, PluginsRecords DEF Recording
<1> QED BY <1>1, <1>2, Steps

LEMMA CountedStep == IInv /\ [Next]_vars => Counted'
<1> SUFFICES ASSUME IInv, [Next]_vars PROVE Counted'
  OBVIOUS
<1>1. CASE Grown
  BY <1>1 DEF Grown, Counted
<1>2. CASE Kept
  BY <1>2 DEF Kept, Counted, IInv
<1>3. CASE UNCHANGED vars
  BY <1>3 DEF vars, told, Counted, Running, IInv
<1> QED BY <1>1, <1>2, <1>3, RecordingStep

(* A section gets its mark from the step that records the last stage of    *)
(* those it belongs to, and nothing that was said is taken back.           *)
Marks(section, before, after) ==
  section \in sections' \ sections => Len(runs) = before /\ Len(runs') = after

Tells ==
  /\ Marks("git", 2, 3) /\ Marks("architecture", 4, 5)
  /\ Marks("quality", 5, 8) /\ Marks("evolution", 10, 12)
  /\ sections' \ sections \subseteq {"git", "architecture", "quality", "evolution"}
  /\ sections \subseteq sections' /\ warnings \subseteq warnings' /\ (history => history')

LEMMA TellsStep == IInv /\ [Next]_vars => Tells
<1> SUFFICES ASSUME IInv, [Next]_vars PROVE Tells
  OBVIOUS
<1>1. CASE UNCHANGED vars
  BY <1>1 DEF vars, told, state, Tells, Marks
<1>2. ASSUME Running, Running', Grown PROVE Len(runs) = Recorded(at) /\ Len(runs') = Recorded(at')
  BY <1>2, SoFar DEF Grown
<1>3. ASSUME Next PROVE warnings \subseteq warnings' /\ (history => history')
  <2>1. warnings \subseteq warnings'
    BY <1>3 DEF Next, Step, state, told, Cancel, Detect, Prepare, Refuse, StopPreparing,
       BeginDiscovery, DiscoveryFails, Discover, BeginGit, ReadGit, GitFails, SkipGit, Plain,
       Dependencies, AfterDependencies, CheckPoint, Architecture, Quality, Security, Insights,
       BeginProject, ListCommands, Commanded, EndProject, SkipProject, RunCommand, RunExtension,
       BeginEvolution, SkipEvolution, AfterEvolution, Evolve, BeginPlugins, NextExtension,
       LastExtension, EndPlugins, SkipPlugins, Finish, StopWithin, Return, Begin
  <2>2. history' = history \/ history' = TRUE
    BY <1>3 DEF Next, Step, state, told, Cancel, Detect, Prepare, Refuse, StopPreparing,
       BeginDiscovery, DiscoveryFails, Discover, BeginGit, ReadGit, GitFails, SkipGit, Plain,
       Dependencies, AfterDependencies, CheckPoint, Architecture, Quality, Security, Insights,
       BeginProject, ListCommands, Commanded, EndProject, SkipProject, RunCommand, RunExtension,
       BeginEvolution, SkipEvolution, AfterEvolution, Evolve, BeginPlugins, NextExtension,
       LastExtension, EndPlugins, SkipPlugins, Finish, StopWithin, Return, Begin
  <2> QED BY <2>1, <2>2
<1>4. CASE UNCHANGED sections /\ Next
  BY <1>3, <1>4 DEF Tells, Marks
<1>5. CASE Quiet
  BY <1>4, <1>5, QuietKeeps, Steps DEF Kept, Next, Step, Quiet
<1>6. CASE ReadGit \/ GitFails \/ SkipGit
  <2>1. at = "git" /\ at' = "dependencies" /\ Running /\ Running'
    BY <1>6 DEF ReadGit, GitFails, SkipGit, Begun, Goto, Running, IInv, Placed
  <2>2. Len(runs) = 2 /\ Len(runs') = 3
    BY <1>2, <1>6, <2>1, GitRecords DEF Recorded
  <2>3. sections' \ sections \subseteq {"git"} /\ sections \subseteq sections' /\ Next
    BY <1>6 DEF ReadGit, GitFails, SkipGit, Next, Step
  <2> QED BY <1>3, <2>2, <2>3 DEF Tells, Marks
<1>7. CASE Architecture /\ ~Kept
  <2>1. at = "architecture" /\ at' = "quality" /\ Running /\ Running'
    BY <1>7 DEF Architecture, Plain, Begin, Kept, told, Goto, Running
  <2>2. Len(runs) = 4 /\ Len(runs') = 5
    BY <1>2, <1>7, <2>1, ArchitectureRecords DEF Recorded
  <2>3. sections' \ sections \subseteq {"architecture"} /\ sections \subseteq sections' /\ Next
    BY <1>7 DEF Architecture, Plain, Begin, told, Noted, Next, Step
  <2> QED BY <1>3, <2>2, <2>3 DEF Tells, Marks
<1>8. CASE Quality /\ ~Kept
  <2>1. at = "quality" /\ at' = "project" /\ Running /\ Running'
    BY <1>8 DEF Quality, Plain, Begin, Kept, told, Goto, Running
  <2>2. Len(runs) = 5 /\ Len(runs') = 8
    BY <1>2, <1>8, <2>1, QualityRecords DEF Recorded
  <2>3. sections' \ sections \subseteq {"quality"} /\ sections \subseteq sections' /\ Next
    BY <1>8 DEF Quality, Plain, Begin, told, Noted, Next, Step
  <2> QED BY <1>3, <2>2, <2>3 DEF Tells, Marks
<1>9. CASE SkipEvolution \/ \E notes \in BOOLEAN : Evolve(notes)
  <2>1. at = "evolution" /\ at' = "plugins" /\ Running /\ Running'
    BY <1>9 DEF Evolve, SkipEvolution, AfterEvolution, Begun, Goto, Running, IInv, Placed
  <2>2. Len(runs) = 10 /\ Len(runs') = 12
    BY <1>2, <1>9, <2>1, EvolutionRecords DEF Recorded
  <2>3. sections' \ sections \subseteq {"evolution"} /\ sections \subseteq sections' /\ Next
    BY <1>9 DEF Evolve, SkipEvolution, Noted, Next, Step
  <2> QED BY <1>3, <2>2, <2>3 DEF Tells, Marks
<1>10. CASE Recording
  <2>1. CASE \/ \E d, p \in {"completed", "partial"} : Discover(d, p)
             \/ Dependencies \/ EndProject \/ SkipProject \/ Security \/ EndPlugins
             \/ SkipPlugins \/ Insights
    <3>1. UNCHANGED sections /\ Next
      BY <2>1 DEF Discover, Dependencies, Plain, Begin, told, Noted, EndProject, SkipProject,
         Security, EndPlugins, SkipPlugins, Insights, Next, Step
    <3> QED BY <1>4, <3>1
  <2>2. CASE Kept /\ (Architecture \/ Quality)
    BY <1>4, <2>2 DEF Kept, Next, Step
  <2> QED BY <1>6, <1>7, <1>8, <1>9, <1>10, <2>1, <2>2 DEF Recording
<1> QED BY <1>1, <1>5, <1>10, Steps

LEMMA MarkedStep == IInv /\ [Next]_vars => Marked'
<1> SUFFICES ASSUME IInv, [Next]_vars PROVE Marked'
  OBVIOUS
<1>1. Tells
  BY TellsStep
<1>2. Len(runs) \in Nat /\ Len(runs') \in Nat /\ Len(runs) <= Len(runs')
  <2>1. runs \in Seq(Entry)
    BY DEF IInv, TypeOK, Entry, Status
  <2>2. Grown \/ runs' = runs
    BY RecordingStep DEF Kept, vars, told
  <2> QED BY <2>1, <2>2 DEF Grown
<1>3. /\ Marks("git", 2, 3) /\ Marks("architecture", 4, 5)
      /\ Marks("quality", 5, 8) /\ Marks("evolution", 10, 12) /\ Marked
  BY <1>1 DEF Tells, IInv
<1>4. ASSUME NEW x, NEW before \in Nat, NEW after \in Nat, before <= after,
             Marks(x, before, after), x \in sections => Len(runs) >= after, x \in sections'
      PROVE  Len(runs') >= after
  <2>1. CASE x \in sections
    <3>1. Len(runs) >= after
      BY <1>4, <2>1
    <3> QED BY <1>2, <3>1
  <2>2. CASE x \notin sections
    <3>1. Len(runs') = after
      BY <1>4, <2>2 DEF Marks
    <3> QED BY <3>1
  <2> QED BY <2>1, <2>2
<1>5. /\ 2 <= 3 /\ 4 <= 5 /\ 5 <= 8 /\ 10 <= 12
      /\ 2 \in Nat /\ 3 \in Nat /\ 4 \in Nat /\ 5 \in Nat /\ 8 \in Nat /\ 10 \in Nat /\ 12 \in Nat
  OBVIOUS
<1> QED BY <1>3, <1>4, <1>5 DEF Marked

LEMMA ToldStays ==
  ASSUME IInv, [Next]_vars, NEW i \in 1..Len(runs)
  PROVE  ToldOf(Order[i])' <=> ToldOf(Order[i])
<1> DEFINE s == Order[i]
<1>1. /\ Marks("git", 2, 3) /\ Marks("architecture", 4, 5)
      /\ Marks("quality", 5, 8) /\ Marks("evolution", 10, 12)
      /\ sections' \ sections \subseteq {"git", "architecture", "quality", "evolution"}
      /\ sections \subseteq sections' /\ UNCHANGED <<stages, request>>
  BY TellsStep, ConfigStays DEF Tells, config
<1>2. ASSUME "git" \in sections' \ sections PROVE s \in {"discovery", "parsing"}
  <2>1. i \in 1..2
    BY <1>1, <1>2 DEF Marks
  <2> QED BY <2>1, OrderIs
<1>3. ASSUME "architecture" \in sections' \ sections
      PROVE  s \in {"discovery", "parsing", "git", "dependencies"}
  <2>1. i \in 1..4
    BY <1>1, <1>3 DEF Marks
  <2> QED BY <2>1, OrderIs
<1>4. ASSUME "quality" \in sections' \ sections
      PROVE  s \in {"discovery", "parsing", "git", "dependencies", "architecture"}
  <2>1. i \in 1..5
    BY <1>1, <1>4 DEF Marks
  <2> QED BY <2>1, OrderIs
<1>5. ASSUME "evolution" \in sections' \ sections
      PROVE  s \in {"discovery", "parsing", "git", "dependencies", "architecture", "quality",
                    "duplication", "similarity", "project", "security"}
  <2>1. i \in 1..10
    BY <1>1, <1>5 DEF Marks
  <2> QED BY <2>1, OrderIs
<1>6. ASSUME ToldOf(s)' PROVE ToldOf(s)
  <2> HIDE DEF s
  <2>1. s \notin sections' \ sections
    BY <1>1, <1>2, <1>3, <1>4, <1>5
  <2>2. s = "historical" => "evolution" \notin sections' \ sections
    BY <1>5
  <2>3. s \in {"duplication", "similarity"} => "quality" \notin sections' \ sections
    BY <1>4
  <2>4. s' = s
    BY DEF s
  <2> QED BY <1>1, <1>6, <2>1, <2>2, <2>3, <2>4 DEF ToldOf, HasExtensions, Wants
<1>7. ASSUME ToldOf(s) PROVE ToldOf(s)'
  BY <1>1, <1>7 DEF ToldOf, HasExtensions, Wants
<1> QED BY <1>6, <1>7

LEMMA TruthfulStep == IInv /\ [Next]_vars => Truthful'
<1> SUFFICES ASSUME IInv, [Next]_vars PROVE Truthful'
  OBVIOUS
<1>1. /\ Truthful /\ UNCHANGED stages /\ warnings \subseteq warnings'
      /\ runs \in Seq(Entry) /\ Len(runs) \in Nat
  BY TellsStep, ConfigStays DEF IInv, config, Tells, TypeOK, Entry, Status
<1>2. history => history'
  BY TellsStep DEF Tells
<1>3. Grown \/ runs' = runs
  BY RecordingStep DEF Kept, vars, told
<1>4. ASSUME NEW i \in 1..Len(runs)
      PROVE  runs'[i].stage = Order[i] /\ True(runs[i])'
  <2>1. runs[i].stage = Order[i] /\ True(runs[i]) /\ runs'[i] = runs[i]
    BY <1>1, <1>3 DEF Truthful, Grown
  <2> DEFINE r == runs[i]
             s == Order[i]
             ran == r.status \in {"completed", "partial"}
  <2>2. ToldOf(s)' <=> ToldOf(s)
    BY ToldStays
  <2>3. /\ ran <=> Wants(s) /\ ~ToldOf(s)
        /\ r.status = "failed" => s \in warnings
        /\ s = "evolution" /\ ran => history
    BY <2>1 DEF True
  <2>4. Wants(s)' <=> Wants(s)
    BY <1>1 DEF Wants
  <2>5. /\ ran <=> Wants(s)' /\ ~ToldOf(s)'
        /\ r.status = "failed" => s \in warnings'
        /\ s = "evolution" /\ ran => history'
    <3> HIDE DEF s, ran
    <3> QED BY <1>1, <1>2, <2>2, <2>3, <2>4
  <2> QED BY <2>1, <2>5 DEF True, Wants, ToldOf, HasExtensions
<1>5. CASE Grown
  <2>1. ASSUME NEW i \in 1..Len(runs') PROVE i \in 1..Len(runs) \/ i \in Len(runs)+1 .. Len(runs')
    BY <1>1, <1>5 DEF Grown
  <2> QED BY <1>4, <1>5, <2>1 DEF Grown, Truthful
<1>6. CASE runs' = runs
  BY <1>4, <1>6 DEF Truthful
<1> QED BY <1>3, <1>5, <1>6

(***************************************************************************)
(* Types, places, checkpoints and what the token cut short.                *)
(***************************************************************************)
LEMMA PlacedStep == IInv /\ [Next]_vars => Placed'
<1> SUFFICES ASSUME IInv, [Next]_vars PROVE Placed'
  OBVIOUS
<1>0. Placed /\ UNCHANGED <<stages, request>> /\ (Running => at # "end")
  BY ConfigStays DEF IInv, config, Placed
<1>1. CASE Detect
  BY <1>0, <1>1 DEF Detect, Placed, Running, Begun, Wants, HasExtensions, CanEvolve, state,
     config
<1>2. CASE Prepare
  BY <1>0, <1>2 DEF Prepare, Goto, Placed, Running, Begun, Wants, HasExtensions, CanEvolve,
     state, config
<1>3. CASE Refuse \/ StopPreparing \/ DiscoveryFails
  BY <1>0, <1>3 DEF Refuse, StopPreparing, DiscoveryFails, Return, Begun, Placed, Running,
     Begun, Wants, HasExtensions, CanEvolve, state, config
<1>4. CASE BeginDiscovery \/ BeginGit \/ BeginProject \/ BeginEvolution
  BY <1>0, <1>4 DEF BeginDiscovery, BeginGit, BeginProject, BeginEvolution, Begin, Placed,
     Running, Begun, Wants, HasExtensions, CanEvolve, state, config
<1>5. CASE BeginPlugins
  BY <1>0, <1>5 DEF BeginPlugins, Placed, Running, Begun, Wants, HasExtensions, CanEvolve,
     state, config
<1>6. CASE \E d, p \in {"completed", "partial"} : Discover(d, p)
  BY <1>0, <1>6 DEF Discover, Goto, Begun, Placed, Running, Begun, Wants, HasExtensions,
     CanEvolve, state, config
<1>7. CASE ReadGit \/ GitFails \/ SkipGit
  BY <1>0, <1>7 DEF ReadGit, GitFails, SkipGit, Goto, Begun, Placed, Running, Begun, Wants,
     HasExtensions, CanEvolve, state, config
<1>8. CASE Dependencies \/ Architecture
  BY <1>0, <1>8 DEF Dependencies, Architecture, Plain, Begin, Goto, Placed, Running, Begun,
     Wants, HasExtensions, CanEvolve, state, config
<1>9. CASE Quality
  BY <1>0, <1>9 DEF Quality, Plain, Begin, Goto, Placed, Running, Begun, Wants, HasExtensions,
     CanEvolve, state, config
<1>10. CASE Security \/ Insights
  BY <1>0, <1>10 DEF Security, Insights, Plain, Begin, Goto, Placed, Running, Begun, Wants,
     HasExtensions, CanEvolve, state, config
<1>11. CASE AfterDependencies
  <2>1. Running /\ busy' = busy /\ at = "checked" /\ UNCHANGED state
    BY <1>11 DEF AfterDependencies, CheckPoint, Return, state
  <2>2. CASE at' = "architecture" /\ result' = result
    BY <1>0, <2>1, <2>2 DEF Placed, Running, Begun, Wants, HasExtensions, CanEvolve, state, config
  <2>3. CASE at' = "end" /\ result' = "cancelled"
    BY <1>0, <2>1, <2>3 DEF Placed, Running, Begun
  <2> QED BY <1>11, <2>2, <2>3 DEF AfterDependencies, CheckPoint, Return, Goto
<1>12. CASE ListCommands
  BY <1>0, <1>12 DEF ListCommands, Goto, Begun, Placed, Running, Begun, Wants, HasExtensions,
     CanEvolve, state, config
<1>13. CASE \E success \in BOOLEAN : RunCommand(success)
  BY <1>0, <1>13 DEF RunCommand, Placed, Running, Begun, Wants, HasExtensions, CanEvolve, state,
     config
<1>14. CASE Commanded
  BY <1>0, <1>14 DEF Commanded, CheckPoint, Passes, Return, Goto, Placed, Running, Begun, Wants,
     HasExtensions, CanEvolve, state, config
<1>15. CASE EndProject \/ SkipProject
  BY <1>0, <1>15 DEF EndProject, SkipProject, Goto, Placed, Running, Begun, Wants,
     HasExtensions, CanEvolve, state, config
<1>16. CASE SkipEvolution \/ \E notes \in BOOLEAN : Evolve(notes)
  BY <1>0, <1>16 DEF SkipEvolution, Evolve, AfterEvolution, Goto, Begun, Placed, Running, Begun,
     Wants, HasExtensions, CanEvolve, state, config
<1>17. CASE NextExtension \/ LastExtension
  BY <1>0, <1>17 DEF NextExtension, LastExtension, Begun, CheckPoint, Passes, Return, Goto,
     Placed, Running, Begun, Wants, HasExtensions, CanEvolve, state, config
<1>18. CASE \E success \in BOOLEAN : RunExtension(success)
  BY <1>0, <1>18 DEF RunExtension, Goto, Placed, Running, Begun, Wants, HasExtensions,
     CanEvolve, state, config
<1>19. CASE EndPlugins \/ SkipPlugins
  BY <1>0, <1>19 DEF EndPlugins, SkipPlugins, Goto, Placed, Running, Begun, Wants,
     HasExtensions, CanEvolve, state, config
<1>20. CASE Finish
  BY <1>0, <1>20 DEF Finish, Return, Placed, Running, Begun, Wants, HasExtensions, CanEvolve,
     state, config
<1>21. CASE \E s \in {"discovery", "git", "architecture", "quality", "evolution"} : StopWithin(s)
  BY <1>0, <1>21 DEF StopWithin, Return, Begun, Placed, Running, Begun, Wants, HasExtensions,
     CanEvolve, state, config
<1>22. CASE Cancel
  BY <1>0, <1>22 DEF Cancel, Placed, Running, Begun, Wants, HasExtensions, CanEvolve, state,
     config
<1>23. CASE UNCHANGED vars
  BY <1>0, <1>23 DEF vars, Placed, Running, Begun, Wants, HasExtensions, CanEvolve, state,
     config
<1> QED BY <1>1, <1>2, <1>3, <1>4, <1>5, <1>6, <1>7, <1>8, <1>9, <1>10, <1>11, <1>12, <1>13,
   <1>14, <1>15, <1>16, <1>17, <1>18, <1>19, <1>20, <1>21, <1>22, <1>23 DEF Next, Step

LEMMA HonouredStep == IInv /\ [Next]_vars => Honoured'
<1> SUFFICES ASSUME IInv, [Next]_vars PROVE Honoured'
  OBVIOUS
<1>0. Placed /\ Honoured /\ UNCHANGED <<stages, request>> /\ token \in BOOLEAN
  BY ConfigStays DEF IInv, config, TypeOK
<1>1. CASE Detect
  BY <1>0, <1>1 DEF Detect, Honoured, Placed, Running, Wants, HasExtensions, Early, Middle,
     Late, config
<1>2. CASE Prepare
  BY <1>0, <1>2 DEF Prepare, Goto, Honoured, Placed, Running, Wants, HasExtensions, Early,
     Middle, Late, config
<1>3. CASE Refuse \/ StopPreparing \/ DiscoveryFails
  BY <1>0, <1>3 DEF Refuse, StopPreparing, DiscoveryFails, Return, Begun, Honoured, Placed,
     Running, Wants, HasExtensions, Early, Middle, Late, config
<1>4. CASE BeginDiscovery \/ BeginGit \/ BeginProject \/ BeginEvolution
  BY <1>0, <1>4 DEF BeginDiscovery, BeginGit, BeginProject, BeginEvolution, Begin, Honoured,
     Placed, Running, Wants, HasExtensions, Early, Middle, Late, config
<1>5. CASE BeginPlugins
  BY <1>0, <1>5 DEF BeginPlugins, Honoured, Placed, Running, Wants, HasExtensions, Early,
     Middle, Late, config
<1>6. CASE \E d, p \in {"completed", "partial"} : Discover(d, p)
  BY <1>0, <1>6 DEF Discover, Goto, Begun, Honoured, Placed, Running, Wants, HasExtensions,
     Early, Middle, Late, config
<1>7. CASE ReadGit \/ GitFails \/ SkipGit
  BY <1>0, <1>7 DEF ReadGit, GitFails, SkipGit, Goto, Begun, Honoured, Placed, Running, Wants,
     HasExtensions, Early, Middle, Late, config
<1>8. CASE Dependencies \/ Architecture
  BY <1>0, <1>8 DEF Dependencies, Architecture, Plain, Begin, Goto, Honoured, Placed, Running,
     Wants, HasExtensions, Early, Middle, Late, config
<1>9. CASE Quality
  BY <1>0, <1>9 DEF Quality, Plain, Begin, Goto, Honoured, Placed, Running, Wants,
     HasExtensions, Early, Middle, Late, config
<1>10. CASE Security \/ Insights
  BY <1>0, <1>10 DEF Security, Insights, Plain, Begin, Goto, Honoured, Placed, Running, Wants,
     HasExtensions, Early, Middle, Late, config
<1>11. CASE AfterDependencies
  BY <1>0, <1>11 DEF AfterDependencies, CheckPoint, Passes, Return, Goto, Honoured, Placed,
     Running, Wants, HasExtensions, Early, Middle, Late, config
<1>12. CASE ListCommands
  BY <1>0, <1>12 DEF ListCommands, Goto, Begun, Honoured, Placed, Running, Wants, HasExtensions,
     Early, Middle, Late, config
<1>13. CASE \E success \in BOOLEAN : RunCommand(success)
  BY <1>0, <1>13 DEF RunCommand, Honoured, Placed, Running, Wants, HasExtensions, Early, Middle,
     Late, config
<1>14. CASE Commanded
  BY <1>0, <1>14 DEF Commanded, CheckPoint, Passes, Return, Goto, Honoured, Placed, Running,
     Wants, HasExtensions, Early, Middle, Late, config
<1>15. CASE EndProject \/ SkipProject
  BY <1>0, <1>15 DEF EndProject, SkipProject, Goto, Honoured, Placed, Running, Wants,
     HasExtensions, Early, Middle, Late, config
<1>16. CASE SkipEvolution \/ \E notes \in BOOLEAN : Evolve(notes)
  BY <1>0, <1>16 DEF SkipEvolution, Evolve, AfterEvolution, Goto, Begun, Honoured, Placed,
     Running, Wants, HasExtensions, Early, Middle, Late, config
<1>17. CASE NextExtension \/ LastExtension
  BY <1>0, <1>17 DEF NextExtension, LastExtension, Begun, CheckPoint, Passes, Return, Goto,
     Honoured, Placed, Running, Wants, HasExtensions, Early, Middle, Late, config
<1>18. CASE \E success \in BOOLEAN : RunExtension(success)
  BY <1>0, <1>18 DEF RunExtension, Goto, Honoured, Placed, Running, Wants, HasExtensions, Early,
     Middle, Late, config
<1>19. CASE EndPlugins \/ SkipPlugins
  BY <1>0, <1>19 DEF EndPlugins, SkipPlugins, Goto, Honoured, Placed, Running, Wants,
     HasExtensions, Early, Middle, Late, config
<1>20. CASE Finish
  BY <1>0, <1>20 DEF Finish, Return, Honoured, Placed, Running, Wants, HasExtensions, Early,
     Middle, Late, config
<1>21. CASE \E s \in {"discovery", "git", "architecture", "quality", "evolution"} : StopWithin(s)
  BY <1>0, <1>21 DEF StopWithin, Return, Begun, Honoured, Placed, Running, Wants, HasExtensions,
     Early, Middle, Late, config
<1>22. CASE Cancel
  BY <1>0, <1>22 DEF Cancel, Honoured, Placed, Running, Wants, HasExtensions, Early, Middle,
     Late, config
<1>23. CASE UNCHANGED vars
  BY <1>0, <1>23 DEF vars, Honoured, Placed, Running, Wants, HasExtensions, Early, Middle, Late,
     config
<1> QED BY <1>1, <1>2, <1>3, <1>4, <1>5, <1>6, <1>7, <1>8, <1>9, <1>10, <1>11, <1>12, <1>13,
   <1>14, <1>15, <1>16, <1>17, <1>18, <1>19, <1>20, <1>21, <1>22, <1>23 DEF Next, Step

LEMMA WholeStep == IInv /\ [Next]_vars => Whole'
<1> SUFFICES ASSUME IInv, [Next]_vars PROVE Whole'
  OBVIOUS
<1>0. Placed /\ Whole
  BY DEF IInv
<1>1. CASE Detect
  BY <1>0, <1>1 DEF Detect, Whole, Placed, Running, HasExtensions
<1>2. CASE Prepare
  BY <1>0, <1>2 DEF Prepare, Goto, Whole, Placed, Running, HasExtensions
<1>3. CASE Refuse \/ StopPreparing \/ DiscoveryFails
  BY <1>0, <1>3 DEF Refuse, StopPreparing, DiscoveryFails, Return, Begun, Whole, Placed,
     Running, HasExtensions
<1>4. CASE BeginDiscovery \/ BeginGit \/ BeginProject \/ BeginEvolution
  BY <1>0, <1>4 DEF BeginDiscovery, BeginGit, BeginProject, BeginEvolution, Begin, Whole,
     Placed, Running, HasExtensions
<1>5. CASE BeginPlugins
  BY <1>0, <1>5 DEF BeginPlugins, Whole, Placed, Running, HasExtensions
<1>6. CASE \E d, p \in {"completed", "partial"} : Discover(d, p)
  BY <1>0, <1>6 DEF Discover, Goto, Begun, Whole, Placed, Running, HasExtensions
<1>7. CASE ReadGit \/ GitFails \/ SkipGit
  BY <1>0, <1>7 DEF ReadGit, GitFails, SkipGit, Goto, Begun, Whole, Placed, Running,
     HasExtensions
<1>8. CASE Dependencies \/ Architecture
  BY <1>0, <1>8 DEF Dependencies, Architecture, Plain, Begin, Goto, Whole, Placed, Running,
     HasExtensions
<1>9. CASE Quality
  BY <1>0, <1>9 DEF Quality, Plain, Begin, Goto, Whole, Placed, Running, HasExtensions
<1>10. CASE Security \/ Insights
  BY <1>0, <1>10 DEF Security, Insights, Plain, Begin, Goto, Whole, Placed, Running,
     HasExtensions
<1>11. CASE AfterDependencies
  BY <1>0, <1>11 DEF AfterDependencies, CheckPoint, Passes, Return, Goto, Whole, Placed,
     Running, HasExtensions
<1>12. CASE ListCommands
  BY <1>0, <1>12 DEF ListCommands, Goto, Begun, Whole, Placed, Running, HasExtensions
<1>13. CASE \E success \in BOOLEAN : RunCommand(success)
  BY <1>0, <1>13 DEF RunCommand, Whole, Placed, Running, HasExtensions
<1>14. CASE Commanded
  BY <1>0, <1>14 DEF Commanded, CheckPoint, Passes, Return, Goto, Whole, Placed, Running,
     HasExtensions
<1>15. CASE EndProject \/ SkipProject
  BY <1>0, <1>15 DEF EndProject, SkipProject, Goto, Whole, Placed, Running, HasExtensions
<1>16. CASE SkipEvolution \/ \E notes \in BOOLEAN : Evolve(notes)
  BY <1>0, <1>16 DEF SkipEvolution, Evolve, AfterEvolution, Goto, Begun, Whole, Placed, Running,
     HasExtensions
<1>17. CASE NextExtension \/ LastExtension
  BY <1>0, <1>17 DEF NextExtension, LastExtension, Begun, CheckPoint, Passes, Return, Goto,
     Whole, Placed, Running, HasExtensions
<1>18. CASE \E success \in BOOLEAN : RunExtension(success)
  <2>1. /\ at = "extension" /\ at' = "plugins" /\ busy' = busy /\ token' = token
        /\ cut' = cut \/ token
    BY <1>18 DEF RunExtension, Goto
  <2> QED BY <1>0, <2>1 DEF Whole, Placed
<1>19. CASE EndPlugins \/ SkipPlugins
  BY <1>0, <1>19 DEF EndPlugins, SkipPlugins, Goto, Begun, Whole, Placed, Running, HasExtensions
<1>20. CASE Finish
  BY <1>0, <1>20 DEF Finish, Return, Whole, Placed, Running, HasExtensions
<1>21. CASE \E s \in {"discovery", "git", "architecture", "quality", "evolution"} : StopWithin(s)
  BY <1>0, <1>21 DEF StopWithin, Return, Begun, Whole, Placed, Running, HasExtensions
<1>22. CASE Cancel
  BY <1>0, <1>22 DEF Cancel, Whole, Placed, Running, HasExtensions
<1>23. CASE UNCHANGED vars
  BY <1>0, <1>23 DEF vars, Whole, Placed, Running, HasExtensions
<1> QED BY <1>1, <1>2, <1>3, <1>4, <1>5, <1>6, <1>7, <1>8, <1>9, <1>10, <1>11, <1>12, <1>13,
   <1>14, <1>15, <1>16, <1>17, <1>18, <1>19, <1>20, <1>21, <1>22, <1>23 DEF Next, Step

Words == {"install", "build", "test", "extension"}

LEMMA LeftStep == IInv /\ [Next]_vars => left' \in Seq(Words)
<1> SUFFICES ASSUME IInv, [Next]_vars PROVE left' \in Seq(Words)
  OBVIOUS
<1>1. left \in Seq(Words) /\ request.extensions \in Nat
  BY PipelineAssumption DEF IInv, TypeOK, Words, Requests
<1>2. Tests \in Seq(Words)
  <2>1. <<"test">> \in Seq(Words) /\ <<>> \in Seq(Words)
    BY DEF Words
  <2> QED BY <2>1 DEF Tests
<1>3. CASE ListCommands
  <2>1. <<"install", "build">> \in Seq(Words) /\ <<>> \in Seq(Words)
    BY DEF Words
  <2>2. PICK builds \in Seq(Words) : left' = builds \o Tests
    BY <1>3, <2>1 DEF ListCommands
  <2> QED BY <1>2, <2>2, ConcatProperties
<1>4. CASE BeginPlugins
  BY <1>1, <1>4 DEF BeginPlugins, Words
<1>5. ASSUME NEW success \in BOOLEAN, RunCommand(success) PROVE left' \in Seq(Words)
  <2>1. left # <<>> /\ (left' = Tail(left) \/ left' = Tests)
    BY <1>5 DEF RunCommand
  <2> QED BY <1>1, <1>2, <2>1, HeadTailProperties
<1>6. ASSUME NEW success \in BOOLEAN, RunExtension(success) PROVE left' \in Seq(Words)
  <2>1. at = "extension" /\ left' = Tail(left)
    BY <1>6 DEF RunExtension
  <2>2. left # <<>>
    BY <2>1 DEF IInv, Placed
  <2> QED BY <1>1, <2>1, <2>2, HeadTailProperties
<1>7. CASE left' = left
  BY <1>1, <1>7
<1> QED
  BY <1>3, <1>4, <1>5, <1>6, <1>7 DEF Next, Step, vars, state, told, config, Cancel, Detect,
     Prepare, Refuse, StopPreparing, BeginDiscovery, DiscoveryFails, Discover, BeginGit,
     ReadGit, GitFails, SkipGit, Plain, Dependencies, AfterDependencies, CheckPoint,
     Architecture, Quality, Security, Insights, BeginProject, ListCommands, Commanded,
     EndProject, SkipProject, RunCommand, RunExtension, BeginEvolution, SkipEvolution,
     AfterEvolution, Evolve, BeginPlugins, NextExtension, LastExtension, EndPlugins,
     SkipPlugins, Finish, StopWithin, Return, Begin, Goto

LEMMA CutStep == IInv /\ [Next]_vars => cut' \subseteq Words
<1> SUFFICES ASSUME IInv, [Next]_vars PROVE cut' \subseteq Words
  OBVIOUS
<1>1. cut \subseteq Words /\ left \in Seq(Words)
  BY DEF IInv, TypeOK, Words
<1>2. ASSUME NEW success \in BOOLEAN, RunCommand(success) PROVE cut' \subseteq Words
  <2>1. Head(left) \in Words
    BY <1>1, <1>2, HeadTailProperties DEF RunCommand
  <2> QED BY <1>1, <1>2, <2>1 DEF RunCommand
<1>3. ASSUME NEW success \in BOOLEAN, RunExtension(success) PROVE cut' \subseteq Words
  BY <1>1, <1>3 DEF RunExtension, Words
<1>4. CASE cut' = cut
  BY <1>1, <1>4
<1> QED
  BY <1>2, <1>3, <1>4 DEF Next, Step, vars, state, told, config, Cancel, Detect, Prepare,
     Refuse, StopPreparing, BeginDiscovery, DiscoveryFails, Discover, BeginGit, ReadGit,
     GitFails, SkipGit, Plain, Dependencies, AfterDependencies, CheckPoint, Architecture,
     Quality, Security, Insights, BeginProject, ListCommands, Commanded, EndProject,
     SkipProject, RunCommand, RunExtension, BeginEvolution, SkipEvolution, AfterEvolution,
     Evolve, BeginPlugins, NextExtension, LastExtension, EndPlugins, SkipPlugins, Finish,
     StopWithin, Return, Begin, Goto

LEMMA PlainTypesStep ==
  ASSUME IInv, [Next]_vars
  PROVE  /\ git' \in {"none", "ok", "error"} /\ root' \in BOOLEAN /\ history' \in BOOLEAN
         /\ token' \in BOOLEAN /\ at' \in Places /\ asked' \in Places
         /\ busy' \in Stages \cup {"none"} /\ warnings' \subseteq {"git", "plugins"}
         /\ result' \in {"running", "ok", "error", "cancelled"}
<1>1. TypeOK
  BY DEF IInv
<1>2. git' = git \/ git' \in {"ok", "error"}
  BY DEF Next, Step, vars, state, told, config, Cancel, Detect, Prepare, Refuse, StopPreparing,
     BeginDiscovery, DiscoveryFails, Discover, BeginGit, ReadGit, GitFails, SkipGit, Plain,
     Dependencies, AfterDependencies, CheckPoint, Architecture, Quality, Security, Insights,
     BeginProject, ListCommands, Commanded, EndProject, SkipProject, RunCommand, RunExtension,
     BeginEvolution, SkipEvolution, AfterEvolution, Evolve, BeginPlugins, NextExtension,
     LastExtension, EndPlugins, SkipPlugins, Finish, StopWithin, Return, Begin, Goto
<1>3. root' = root \/ root' \in BOOLEAN
  BY DEF Next, Step, vars, state, told, config, Cancel, Detect, Prepare, Refuse, StopPreparing,
     BeginDiscovery, DiscoveryFails, Discover, BeginGit, ReadGit, GitFails, SkipGit, Plain,
     Dependencies, AfterDependencies, CheckPoint, Architecture, Quality, Security, Insights,
     BeginProject, ListCommands, Commanded, EndProject, SkipProject, RunCommand, RunExtension,
     BeginEvolution, SkipEvolution, AfterEvolution, Evolve, BeginPlugins, NextExtension,
     LastExtension, EndPlugins, SkipPlugins, Finish, StopWithin, Return, Begin, Goto
<1>4. history' = history \/ history' = TRUE
  BY DEF Next, Step, vars, state, told, config, Cancel, Detect, Prepare, Refuse, StopPreparing,
     BeginDiscovery, DiscoveryFails, Discover, BeginGit, ReadGit, GitFails, SkipGit, Plain,
     Dependencies, AfterDependencies, CheckPoint, Architecture, Quality, Security, Insights,
     BeginProject, ListCommands, Commanded, EndProject, SkipProject, RunCommand, RunExtension,
     BeginEvolution, SkipEvolution, AfterEvolution, Evolve, BeginPlugins, NextExtension,
     LastExtension, EndPlugins, SkipPlugins, Finish, StopWithin, Return, Begin, Goto
<1>5. token' = token \/ token' = TRUE
  BY DEF Next, Step, vars, state, told, config, Cancel, Detect, Prepare, Refuse, StopPreparing,
     BeginDiscovery, DiscoveryFails, Discover, BeginGit, ReadGit, GitFails, SkipGit, Plain,
     Dependencies, AfterDependencies, CheckPoint, Architecture, Quality, Security, Insights,
     BeginProject, ListCommands, Commanded, EndProject, SkipProject, RunCommand, RunExtension,
     BeginEvolution, SkipEvolution, AfterEvolution, Evolve, BeginPlugins, NextExtension,
     LastExtension, EndPlugins, SkipPlugins, Finish, StopWithin, Return, Begin, Goto
<1>6. at' = at \/ at' \in Places
  BY DEF Next, Step, vars, state, told, config, Cancel, Detect, Prepare, Refuse, StopPreparing,
     BeginDiscovery, DiscoveryFails, Discover, BeginGit, ReadGit, GitFails, SkipGit, Plain,
     Dependencies, AfterDependencies, CheckPoint, Architecture, Quality, Security, Insights,
     BeginProject, ListCommands, Commanded, EndProject, SkipProject, RunCommand, RunExtension,
     BeginEvolution, SkipEvolution, AfterEvolution, Evolve, BeginPlugins, NextExtension,
     LastExtension, EndPlugins, SkipPlugins, Finish, StopWithin, Return, Begin, Goto, Places
<1>7. asked' = asked \/ asked' = at
  BY DEF Next, Step, vars, state, told, config, Cancel, Detect, Prepare, Refuse, StopPreparing,
     BeginDiscovery, DiscoveryFails, Discover, BeginGit, ReadGit, GitFails, SkipGit, Plain,
     Dependencies, AfterDependencies, CheckPoint, Architecture, Quality, Security, Insights,
     BeginProject, ListCommands, Commanded, EndProject, SkipProject, RunCommand, RunExtension,
     BeginEvolution, SkipEvolution, AfterEvolution, Evolve, BeginPlugins, NextExtension,
     LastExtension, EndPlugins, SkipPlugins, Finish, StopWithin, Return, Begin, Goto
<1>8. busy' = busy \/ busy' \in Stages \cup {"none"}
  BY DEF Next, Step, vars, state, told, config, Cancel, Detect, Prepare, Refuse, StopPreparing,
     BeginDiscovery, DiscoveryFails, Discover, BeginGit, ReadGit, GitFails, SkipGit, Plain,
     Dependencies, AfterDependencies, CheckPoint, Architecture, Quality, Security, Insights,
     BeginProject, ListCommands, Commanded, EndProject, SkipProject, RunCommand, RunExtension,
     BeginEvolution, SkipEvolution, AfterEvolution, Evolve, BeginPlugins, NextExtension,
     LastExtension, EndPlugins, SkipPlugins, Finish, StopWithin, Return, Begin, Goto, Stages
<1>9. warnings' \subseteq warnings \cup {"git", "plugins"}
  BY DEF Next, Step, vars, state, told, config, Cancel, Detect, Prepare, Refuse, StopPreparing,
     BeginDiscovery, DiscoveryFails, Discover, BeginGit, ReadGit, GitFails, SkipGit, Plain,
     Dependencies, AfterDependencies, CheckPoint, Architecture, Quality, Security, Insights,
     BeginProject, ListCommands, Commanded, EndProject, SkipProject, RunCommand, RunExtension,
     BeginEvolution, SkipEvolution, AfterEvolution, Evolve, BeginPlugins, NextExtension,
     LastExtension, EndPlugins, SkipPlugins, Finish, StopWithin, Return, Begin, Goto
<1>10. result' = result \/ result' \in {"ok", "error", "cancelled"}
  BY DEF Next, Step, vars, state, told, config, Cancel, Detect, Prepare, Refuse, StopPreparing,
     BeginDiscovery, DiscoveryFails, Discover, BeginGit, ReadGit, GitFails, SkipGit, Plain,
     Dependencies, AfterDependencies, CheckPoint, Architecture, Quality, Security, Insights,
     BeginProject, ListCommands, Commanded, EndProject, SkipProject, RunCommand, RunExtension,
     BeginEvolution, SkipEvolution, AfterEvolution, Evolve, BeginPlugins, NextExtension,
     LastExtension, EndPlugins, SkipPlugins, Finish, StopWithin, Return, Begin, Goto
<1>11. root' \in BOOLEAN /\ history' \in BOOLEAN /\ token' \in BOOLEAN
  BY <1>1, <1>3, <1>4, <1>5, Zenon DEF TypeOK
<1> QED BY <1>1, <1>2, <1>6, <1>7, <1>8, <1>9, <1>10, <1>11 DEF TypeOK

LEMMA TypeStep == IInv /\ [Next]_vars => TypeOK'
<1> SUFFICES ASSUME IInv, [Next]_vars PROVE TypeOK'
  OBVIOUS
<1>1. left' \in Seq(Words) /\ cut' \subseteq Words
  BY LeftStep, CutStep
<1>2. stages' \subseteq Stages /\ request' \in Requests
  BY ConfigStays DEF IInv, TypeOK, config
<1>3. runs' \in Seq(Entry)
  <2>1. runs \in Seq(Entry)
    BY DEF IInv, TypeOK, Entry, Status
  <2> QED BY <2>1, RecordingStep DEF Grown, Kept, vars, told
<1>4. sections' \subseteq {"git", "architecture", "quality", "evolution"}
  BY TellsStep DEF Tells, IInv, TypeOK
<1> QED BY <1>1, <1>2, <1>3, <1>4, PlainTypesStep DEF TypeOK, Words, Entry, Status

-----------------------------------------------------------------------------
LEMMA InitEstablishes == Init => IInv
<1> SUFFICES ASSUME Init PROVE IInv
  OBVIOUS
<1>1. Chosen /\ stages \subseteq Stages
  BY EffectiveStagesAreSound DEF Init
<1>2. TypeOK
  <2>1. root \in BOOLEAN /\ history \in BOOLEAN /\ token \in BOOLEAN
    BY DEF Init
  <2>2. runs \in Seq(Entry) /\ left \in Seq(Words)
    BY DEF Init
  <2> QED BY <1>1, <2>1, <2>2 DEF Init, TypeOK, Places, Entry, Status, Words
<1>3. Placed
  BY DEF Init, Placed, Running, Begun
<1>4. Counted /\ Truthful /\ Len(runs) = 0
  BY DEF Init, Counted, Recorded, Truthful
<1>5. Marked /\ Honoured /\ Whole
  BY DEF Init, Marked, Honoured, Whole
<1> QED BY <1>1, <1>2, <1>3, <1>4, <1>5 DEF IInv

LEMMA Invariance == Spec => []IInv
<1>1. IInv /\ [Next]_vars => IInv'
  BY TypeStep, ChosenStep, PlacedStep, CountedStep, MarkedStep, TruthfulStep, HonouredStep,
     WholeStep DEF IInv
<1> QED BY <1>1, InitEstablishes, PTL DEF Spec

(* The parts of an analysis keep their types whatever is configured.       *)
THEOREM TypeCorrect == Spec => []TypeOK
<1>1. IInv => TypeOK
  BY DEF IInv
<1> QED BY <1>1, Invariance, PTL

(* "Every stage in pipeline order": every artifact of every profile tells  *)
(* of all fourteen stages once, five of which are recorded by the code of  *)
(* another one, behind early returns.                                      *)
THEOREM EveryStageIsToldOnce == Spec => []EveryStageOnce
<1>1. IInv => EveryStageOnce
  <2> SUFFICES ASSUME IInv, Artifact PROVE [i \in DOMAIN runs |-> runs[i].stage] = Order
    BY DEF EveryStageOnce
  <2>1. at = "end" /\ Len(runs) = 14 /\ runs \in Seq(Entry)
    BY DEF IInv, Artifact, Placed, Running, Counted, Recorded, TypeOK, Entry, Status
  <2>2. DOMAIN runs = 1..14 /\ \A i \in 1..14 : runs[i].stage = Order[i]
    BY <2>1 DEF IInv, Truthful
  <2>3. Order \in Seq(Stages) /\ DOMAIN Order = 1..14 /\ Order = [i \in 1..14 |-> Order[i]]
    BY DEF Order, Stages
  <2> QED BY <2>2, <2>3
<1> QED BY <1>1, Invariance, PTL

(* No artifact contains the outcome of a command or an extension that the  *)
(* token has killed: a checkpoint follows each of them on the way to it.   *)
THEOREM NothingIsCutShort == Spec => []NothingCutShort
<1>1. IInv => NothingCutShort
  BY DEF IInv, Whole, Placed, Running, NothingCutShort, Artifact
<1> QED BY <1>1, Invariance, PTL

(* A token that is set before the last checkpoint on the way of a          *)
(* configuration keeps that analysis from returning an artifact.           *)
THEOREM CancellationIsHonoured == Spec => []CancelHonoured
<1>1. IInv => CancelHonoured
  BY DEF IInv, Honoured, Placed, Running, CancelHonoured, Artifact, TypeOK, Early, Middle, Late,
     Places
<1> QED BY <1>1, Invariance, PTL

(* What an artifact says of a stage is true: it ran because it was wanted  *)
(* and could, or its section, or that of the stage it runs within, says    *)
(* that it did not; and evolution has read a history.                      *)
THEOREM SkippedStagesAreTold == Spec => []SkipsAreTold
<1>1. IInv => SkipsAreTold
  <2> SUFFICES ASSUME IInv, Artifact, NEW i \in DOMAIN runs PROVE True(runs[i])
    BY DEF SkipsAreTold, True, ToldOf
  <2>1. runs \in Seq(Entry)
    BY DEF IInv, TypeOK, Entry, Status
  <2> QED BY <2>1 DEF IInv, Truthful
<1> QED BY <1>1, Invariance, PTL

-----------------------------------------------------------------------------
(***************************************************************************)
(* The walk that comes before the stages (Walk), for any number of         *)
(* threads, any entries and any limit, whoever meets what, and whenever    *)
(* the token is set.                                                       *)
(***************************************************************************)

(* There is a thread, and the entries are finitely many, numbered from 1.  *)
Walkable ==
  /\ Walkers # {} /\ MaxFiles \in Nat
  /\ IsFiniteSet(Paths) /\ Paths \subseteq Nat \ {0}

Met == Paths \ waiting
MetOf(kind) == All(kind) \cap Met

(* What has been counted and is listed, or will be.                        *)
Taken == files \cup {held[t] : t \in {t \in Walkers : held[t] # 0}}

WalkTypeOK ==
  /\ entries \in [Paths -> {"file", "link", "directory", "error"}]
  /\ waiting \subseteq Paths /\ stopped \subseteq Walkers
  /\ held \in [Walkers -> Paths \cup {0}]
  /\ quit \in BOOLEAN /\ truncated \in BOOLEAN /\ cancelled \in BOOLEAN
  /\ outcome \in {"walking", "cancelled", "found"}
  /\ count \in Nat /\ symlinks \in Nat /\ errors \in Nat

(* A thread ends with nothing in its hands, and only when nothing waits or *)
(* one has quit, because of the token or the limit.                        *)
Ended ==
  /\ \A t \in stopped : held[t] = 0
  /\ stopped # {} => quit \/ waiting = {}
  /\ quit => cancelled \/ truncated

(* As long as the token is not set, the counters are those of the entries  *)
(* that have been met, and the files are taken up to the limit.            *)
WalkCounted ==
  /\ symlinks = Cardinality(MetOf("link")) /\ errors = Cardinality(MetOf("error"))
  /\ count = Cardinality(MetOf("file"))
  /\ Taken \subseteq MetOf("file")
  /\ Cardinality(Taken) = IF count <= MaxFiles THEN count ELSE MaxFiles
  /\ truncated <=> count > MaxFiles

WalkIInv ==
  /\ WalkTypeOK /\ Ended
  /\ outcome = "walking" /\ ~cancelled => WalkCounted
  /\ outcome # "walking" => stopped = Walkers
  /\ WalksAreWhole

-----------------------------------------------------------------------------
(***************************************************************************)
(* Sets of entries.                                                        *)
(***************************************************************************)
LEMMA SubsetsAreFinite ==
  ASSUME Walkable, NEW S \in SUBSET Paths
  PROVE  IsFiniteSet(S) /\ Cardinality(S) \in Nat
BY FS_Subset, FS_CardinalityType DEF Walkable

(* The first n of at most n entries are all of them: each has fewer before *)
(* it than there are.                                                      *)
LEMMA FirstIsAll ==
  ASSUME Walkable, NEW S \in SUBSET Paths, NEW n \in Nat, Cardinality(S) <= n
  PROVE  First(S, n) = S
<1>1. ASSUME NEW p \in S PROVE Cardinality({q \in S : q < p}) < n
  <2> DEFINE before == {q \in S : q < p}
  <2>1. before \in SUBSET S /\ before # S /\ p \in Nat
    BY <1>1 DEF Walkable
  <2>2. IsFiniteSet(S) /\ Cardinality(S) \in Nat /\ IsFiniteSet(before)
        /\ Cardinality(before) \in Nat
    BY SubsetsAreFinite
  <2>3. Cardinality(before) <= Cardinality(S) /\ Cardinality(S) # Cardinality(before)
    BY <2>1, <2>2, FS_Subset
  <2> HIDE DEF before
  <2>4. Cardinality(before) < n
    BY <2>2, <2>3
  <2> QED BY <2>4 DEF before
<1> QED BY <1>1 DEF First

(* An entry that is met adds itself to those of its kind.                  *)
LEMMA MeetingAdds ==
  ASSUME Walkable, WalkTypeOK, NEW t, NEW p \in Paths, Meets(t, p), NEW kind
  PROVE  /\ IsFiniteSet(MetOf(kind)) /\ Cardinality(MetOf(kind)) \in Nat
         /\ MetOf(kind)' = IF entries[p] = kind THEN MetOf(kind) \cup {p} ELSE MetOf(kind)
         /\ Cardinality(MetOf(kind)') = Cardinality(MetOf(kind))
                                          + (IF entries[p] = kind THEN 1 ELSE 0)
<1>1. IsFiniteSet(MetOf(kind)) /\ Cardinality(MetOf(kind)) \in Nat
  BY SubsetsAreFinite DEF MetOf, All
<1>2. p \in waiting /\ waiting' = waiting \ {p} /\ entries' = entries
  BY DEF Meets
<1>3. Met' = Met \cup {p} /\ p \notin Met
  BY <1>2 DEF Met
<1>4. All(kind)' = All(kind) /\ (p \in All(kind) <=> entries[p] = kind)
  BY <1>2 DEF All
<1>5. MetOf(kind)' = IF entries[p] = kind THEN MetOf(kind) \cup {p} ELSE MetOf(kind)
  BY <1>3, <1>4 DEF MetOf
<1>6. p \notin MetOf(kind)
  BY <1>3 DEF MetOf
<1> QED BY <1>1, <1>5, <1>6, FS_AddElement

-----------------------------------------------------------------------------
LEMMA WalkTypeStep == Walkable /\ WalkTypeOK /\ [WalkNext]_walkVars => WalkTypeOK'
<1> SUFFICES ASSUME Walkable, WalkTypeOK, [WalkNext]_walkVars PROVE WalkTypeOK'
  OBVIOUS
<1> USE DEF WalkTypeOK
<1>1. CASE CancelWalk
  BY <1>1 DEF CancelWalk, collector
<1>2. CASE FinishWalk
  BY <1>2 DEF FinishWalk
<1>3. ASSUME NEW t \in Walkers, NEW p \in Paths, VisitCancelled(t, p) PROVE WalkTypeOK'
  BY <1>3 DEF VisitCancelled, Meets, Quits, collector
<1>4. ASSUME NEW t \in Walkers, NEW p \in Paths, VisitOther(t, p) PROVE WalkTypeOK'
  BY <1>4 DEF VisitOther, Meets
<1>5. ASSUME NEW t \in Walkers, NEW p \in Paths, VisitFile(t, p) PROVE WalkTypeOK'
  <2>1. CASE Full(count)
    BY <1>5, <2>1 DEF VisitFile, Meets, Quits
  <2>2. CASE ~Full(count)
    <3>1. held' = [held EXCEPT ![t] = p] /\ UNCHANGED <<truncated, stopped, quit>>
      BY <1>5, <2>2 DEF VisitFile
    <3> QED BY <1>5, <3>1 DEF VisitFile, Meets
  <2> QED BY <2>1, <2>2
<1>6. ASSUME NEW t \in Walkers, List(t) \/ Stop(t) PROVE WalkTypeOK'
  BY <1>6 DEF List, Stop, collector
<1>7. CASE UNCHANGED walkVars
  BY <1>7 DEF walkVars, collector
<1> QED BY <1>1, <1>2, <1>3, <1>4, <1>5, <1>6, <1>7 DEF WalkNext

LEMMA EndedStep == Walkable /\ WalkTypeOK /\ Ended /\ [WalkNext]_walkVars => Ended'
<1> SUFFICES ASSUME Walkable, WalkTypeOK, Ended, [WalkNext]_walkVars PROVE Ended'
  OBVIOUS
<1> USE DEF Ended, WalkTypeOK
<1>1. CASE CancelWalk \/ FinishWalk \/ UNCHANGED walkVars
  BY <1>1 DEF CancelWalk, FinishWalk, walkVars, collector
<1>2. ASSUME NEW t \in Walkers, NEW p \in Paths, VisitCancelled(t, p) PROVE Ended'
  BY <1>2 DEF VisitCancelled, Meets, Quits, collector
<1>3. ASSUME NEW t \in Walkers, NEW p \in Paths, VisitOther(t, p) PROVE Ended'
  BY <1>3 DEF VisitOther, Meets
<1>4. ASSUME NEW t \in Walkers, NEW p \in Paths, VisitFile(t, p) PROVE Ended'
  <2>1. CASE Full(count)
    BY <1>4, <2>1 DEF VisitFile, Meets, Quits
  <2>2. CASE ~Full(count)
    BY <1>4, <2>2 DEF VisitFile, Meets
  <2> QED BY <2>1, <2>2
<1>5. ASSUME NEW t \in Walkers, List(t) PROVE Ended'
  BY <1>5 DEF List
<1>6. ASSUME NEW t \in Walkers, Stop(t) PROVE Ended'
  BY <1>6 DEF Stop, collector
<1> QED BY <1>1, <1>2, <1>3, <1>4, <1>5, <1>6 DEF WalkNext

-----------------------------------------------------------------------------
(* A walk that has met everything, or as much as the limit allows.         *)
LEMMA DiscoveryIsWhole ==
  ASSUME Walkable, WalkTypeOK, Ended, WalkCounted, ~cancelled, FinishWalk
  PROVE  WalksAreWhole'
<1>1. Taken = files
  BY DEF FinishWalk, Ended, Taken
<1>2. quit => truncated
  BY DEF Ended
<1>3. waiting = {} \/ truncated
  BY <1>2 DEF FinishWalk, Ended, Walkable
<1>4. MetOf("file") \in SUBSET Paths /\ files \in SUBSET Paths
  BY <1>1 DEF WalkCounted, MetOf, All
<1>5. /\ Cardinality(files) \in Nat /\ IsFiniteSet(MetOf("file"))
      /\ Cardinality(MetOf("file")) \in Nat /\ MaxFiles \in Nat
  BY <1>4, SubsetsAreFinite DEF Walkable
<1>6. Cardinality(files) = IF count <= MaxFiles THEN count ELSE MaxFiles
  BY <1>1 DEF WalkCounted
<1>7. files' = files
  <2>1. Cardinality(files) <= MaxFiles
    BY <1>5, <1>6 DEF WalkCounted
  <2> QED BY <1>4, <1>5, <2>1, FirstIsAll DEF FinishWalk
<1>8. UNCHANGED <<entries, truncated, symlinks, errors>>
  BY DEF FinishWalk
<1>9. CASE truncated
  <2>1. files \subseteq All("file") /\ MetOf("file") \subseteq All("file")
    BY <1>1 DEF WalkCounted, MetOf
  <2>2. Cardinality(files) = MaxFiles /\ Cardinality(MetOf("file")) > MaxFiles
    BY <1>5, <1>6, <1>9 DEF WalkCounted
  <2>3. IsFiniteSet(All("file")) /\ Cardinality(All("file")) \in Nat
    BY SubsetsAreFinite DEF All
  <2>4. Cardinality(MetOf("file")) <= Cardinality(All("file"))
    BY <2>1, <2>3, FS_Subset
  <2>5. Cardinality(All("file")) > MaxFiles
    BY <1>5, <2>2, <2>3, <2>4
  <2> QED BY <1>7, <1>8, <1>9, <2>1, <2>2, <2>5 DEF WalksAreWhole, All
<1>10. CASE ~truncated
  <2>1. \A kind \in {"file", "link", "error"} : MetOf(kind) = All(kind)
    BY <1>3, <1>10 DEF MetOf, Met, All
  <2>2. Cardinality(files) = Cardinality(MetOf("file")) /\ files \in SUBSET MetOf("file")
    BY <1>1, <1>5, <1>6, <1>10 DEF WalkCounted
  <2>3. files = All("file")
    BY <1>5, <2>1, <2>2, FS_Subset
  <2>4. symlinks = Cardinality(All("link")) /\ errors = Cardinality(All("error"))
    BY <2>1 DEF WalkCounted
  <2> QED BY <1>7, <1>8, <1>10, <2>3, <2>4 DEF WalksAreWhole, All
<1> QED BY <1>9, <1>10

-----------------------------------------------------------------------------
LEMMA OtherIsCounted ==
  ASSUME Walkable, WalkTypeOK, WalkCounted, NEW t \in Walkers, NEW p \in Paths, VisitOther(t, p)
  PROVE  WalkCounted'
<1>1. Meets(t, p) /\ entries[p] # "file" /\ UNCHANGED <<count, truncated, files, held>>
  BY DEF VisitOther
<1>2. Taken' = Taken
  BY <1>1 DEF Taken
<1>3. MetOf("file")' = MetOf("file")
  BY <1>1, MeetingAdds
<1>4. symlinks' = Cardinality(MetOf("link")')
  BY <1>1, MeetingAdds DEF VisitOther, WalkCounted
<1>5. errors' = Cardinality(MetOf("error")')
  BY <1>1, MeetingAdds DEF VisitOther, WalkCounted
<1> QED BY <1>1, <1>2, <1>3, <1>4, <1>5 DEF WalkCounted

LEMMA FileIsCounted ==
  ASSUME Walkable, WalkTypeOK, WalkCounted, NEW t \in Walkers, NEW p \in Paths, VisitFile(t, p)
  PROVE  WalkCounted'
<1>1. /\ Meets(t, p) /\ entries[p] = "file" /\ count' = count + 1
      /\ UNCHANGED <<symlinks, errors, files>> /\ count \in Nat /\ MaxFiles \in Nat
  BY DEF VisitFile, WalkTypeOK, Walkable
<1>2. /\ MetOf("file")' = MetOf("file") \cup {p}
      /\ count' = Cardinality(MetOf("file")')
  BY <1>1, MeetingAdds DEF WalkCounted
<1>3. symlinks' = Cardinality(MetOf("link")') /\ errors' = Cardinality(MetOf("error")')
  BY <1>1, MeetingAdds DEF WalkCounted
<1>4. CASE Full(count)
  <2>1. truncated' = TRUE /\ held' = held
    BY <1>4 DEF VisitFile
  <2>2. Taken' = Taken
    BY <1>1, <2>1 DEF Taken
  <2>3. count >= MaxFiles
    BY <1>4 DEF Full
  <2>4. Cardinality(Taken') = IF count' <= MaxFiles THEN count' ELSE MaxFiles
    BY <1>1, <2>2, <2>3 DEF WalkCounted
  <2> QED BY <1>1, <1>2, <1>3, <2>1, <2>2, <2>3, <2>4 DEF WalkCounted
<1>5. CASE ~Full(count)
  <2>1. truncated' = truncated /\ held' = [held EXCEPT ![t] = p] /\ held[t] = 0 /\ p # 0
    BY <1>1, <1>5 DEF VisitFile, Meets, Walkable
  <2>2. Taken' = Taken \cup {p}
    BY <1>1, <2>1 DEF Taken, WalkTypeOK
  <2>3. count < MaxFiles
    BY <1>1, <1>5 DEF Full
  <2>4. Taken \in SUBSET Paths /\ p \notin Taken
    BY <1>1 DEF WalkCounted, MetOf, Met, All, Meets
  <2>5. IsFiniteSet(Taken)
    BY <2>4, SubsetsAreFinite
  <2>6. Cardinality(Taken') = count + 1
    <3>1. Cardinality(Taken) = count
      BY <1>1, <2>3 DEF WalkCounted
    <3>2. Cardinality(Taken \cup {p}) = Cardinality(Taken) + 1
      BY <2>4, <2>5, FS_AddElement
    <3> QED BY <2>2, <3>1, <3>2
  <2>7. /\ Cardinality(Taken') = IF count' <= MaxFiles THEN count' ELSE MaxFiles
        /\ (truncated' <=> count' > MaxFiles)
    <3>1. ~truncated
      BY <1>1, <2>3 DEF WalkCounted
    <3> QED BY <1>1, <2>1, <2>3, <2>6, <3>1
  <2> QED BY <1>2, <1>3, <2>2, <2>7 DEF WalkCounted
<1> QED BY <1>4, <1>5

LEMMA ListIsCounted ==
  ASSUME WalkTypeOK, WalkCounted, NEW t \in Walkers, List(t)
  PROVE  WalkCounted'
<1>1. /\ files' = files \cup {held[t]} /\ held' = [held EXCEPT ![t] = 0] /\ held[t] # 0
      /\ UNCHANGED <<entries, waiting, count, symlinks, errors, truncated>>
  BY DEF List
<1>2. Taken' = Taken
  BY <1>1 DEF Taken, WalkTypeOK
<1>3. \A kind \in {"file", "link", "error"} : MetOf(kind)' = MetOf(kind)
  BY <1>1 DEF MetOf, All, Met
<1> QED BY <1>1, <1>2, <1>3 DEF WalkCounted

LEMMA WalkCountedStep ==
  Walkable /\ WalkIInv /\ [WalkNext]_walkVars /\ outcome' = "walking" /\ ~cancelled' => WalkCounted'
<1> SUFFICES ASSUME Walkable, WalkIInv, [WalkNext]_walkVars, outcome' = "walking", ~cancelled'
             PROVE WalkCounted'
  OBVIOUS
<1>1. CASE UNCHANGED <<entries, waiting, held, collector, outcome, cancelled>>
  BY <1>1 DEF WalkIInv, WalkCounted, collector, Taken, MetOf, Met, All
<1>2. ASSUME UNCHANGED <<outcome, cancelled>> PROVE WalkTypeOK /\ WalkCounted
  BY <1>2 DEF WalkIInv
<1>3. ASSUME NEW t \in Walkers, NEW p \in Paths, VisitCancelled(t, p) PROVE WalkCounted'
  BY <1>3 DEF VisitCancelled, Meets
<1>4. ASSUME NEW t \in Walkers, NEW p \in Paths, VisitOther(t, p) PROVE WalkCounted'
  BY <1>2, <1>4, OtherIsCounted DEF VisitOther, Meets
<1>5. ASSUME NEW t \in Walkers, NEW p \in Paths, VisitFile(t, p) PROVE WalkCounted'
  BY <1>2, <1>5, FileIsCounted DEF VisitFile, Meets
<1>6. ASSUME NEW t \in Walkers, List(t) PROVE WalkCounted'
  BY <1>2, <1>6, ListIsCounted DEF List
<1>7. ASSUME NEW t \in Walkers, Stop(t) PROVE WalkCounted'
  BY <1>1, <1>7 DEF Stop
<1>8. CASE CancelWalk \/ FinishWalk
  BY <1>8 DEF CancelWalk, FinishWalk
<1>9. CASE UNCHANGED walkVars
  BY <1>1, <1>9 DEF walkVars
<1> QED BY <1>3, <1>4, <1>5, <1>6, <1>7, <1>8, <1>9 DEF WalkNext

(* After the walk nothing changes any more but the token.                  *)
LEMMA OverStep ==
  Walkable /\ WalkIInv /\ [WalkNext]_walkVars =>
    (outcome' # "walking" => stopped' = Walkers) /\ WalksAreWhole'
<1> SUFFICES ASSUME Walkable, WalkIInv, [WalkNext]_walkVars
             PROVE  (outcome' # "walking" => stopped' = Walkers) /\ WalksAreWhole'
  OBVIOUS
<1>1. CASE FinishWalk
  <2>1. stopped' = Walkers
    BY <1>1 DEF FinishWalk
  <2>2. CASE cancelled
    BY <1>1, <2>1, <2>2 DEF FinishWalk, WalksAreWhole
  <2>3. CASE ~cancelled
    BY <1>1, <2>1, <2>3, DiscoveryIsWhole DEF WalkIInv, FinishWalk
  <2> QED BY <2>2, <2>3, <2>1
<1>2. CASE CancelWalk \/ UNCHANGED walkVars
  BY <1>2 DEF CancelWalk, walkVars, collector, WalkIInv, WalksAreWhole, All
<1>3. CASE outcome' = outcome /\ outcome = "walking"
  BY <1>3 DEF WalksAreWhole
<1>4. CASE outcome # "walking"
  <2>1. stopped = Walkers /\ \A t \in Walkers : held[t] = 0
    BY <1>4 DEF WalkIInv, Ended
  <2>2. ~\E t \in Walkers, p \in Paths : VisitCancelled(t, p) \/ VisitOther(t, p) \/ VisitFile(t, p)
    BY <2>1 DEF VisitCancelled, VisitOther, VisitFile, Meets
  <2>3. ~\E t \in Walkers : List(t) \/ Stop(t)
    BY <2>1 DEF List, Stop
  <2> QED BY <1>1, <1>2, <2>2, <2>3 DEF WalkNext
<1>5. outcome = "walking" => outcome' = outcome \/ FinishWalk
  BY DEF WalkNext, walkVars, CancelWalk, VisitCancelled, VisitOther, VisitFile, Meets, List, Stop
<1> QED BY <1>1, <1>3, <1>4, <1>5

LEMMA WalkEstablishes == Walkable /\ WalkInit => WalkIInv
<1> SUFFICES ASSUME Walkable, WalkInit PROVE WalkIInv
  OBVIOUS
<1>1. WalkTypeOK /\ Ended
  BY DEF WalkInit, WalkTypeOK, Ended
<1>2. Taken = {} /\ \A kind \in {"file", "link", "error"} : MetOf(kind) = {}
  BY DEF WalkInit, Taken, MetOf, Met
<1>3. WalkCounted
  BY <1>2, FS_EmptySet DEF WalkInit, WalkCounted, Walkable
<1> QED BY <1>1, <1>3 DEF WalkInit, WalkIInv, WalksAreWhole

(***************************************************************************)
(* discover of discovery/walk.rs returns every file, link and error there  *)
(* is, or says that it was truncated and has as many files as it may:      *)
(* whatever the threads of the walk race for, and no cancellation leaves a *)
(* discovery that only looks whole.                                        *)
(***************************************************************************)
THEOREM DiscoveriesAreWhole == ASSUME Walkable PROVE WalkSpec => []WalksAreWhole
<1>1. WalkIInv /\ [WalkNext]_walkVars => WalkIInv'
  BY WalkTypeStep, EndedStep, WalkCountedStep, OverStep DEF WalkIInv
<1>2. WalkInit => WalkIInv
  BY WalkEstablishes
<1>3. WalkIInv => WalksAreWhole
  BY DEF WalkIInv
<1> QED BY <1>1, <1>2, <1>3, PTL DEF WalkSpec
=============================================================================
