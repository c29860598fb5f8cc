------------------------------ MODULE Pipeline ------------------------------
(***************************************************************************)
(* One analysis: repodna_engine::pipeline::analyze, the fixed sequence of  *)
(* stages that fills the artifact and records how each of them went. The   *)
(* token may be set at any time; the code notices at its checkpoints, and  *)
(* child processes, which are killed, notice at once. Work that is cut     *)
(* short must not get into an artifact that looks whole.                   *)
(*                                                                         *)
(* What a stage computes is left out. What it tells of itself is kept: the *)
(* runs it records, whether its section is available, and its progress.    *)
(***************************************************************************)
EXTENDS Naturals, Sequences

CONSTANTS
  Configs,       \* <<profile, switches that are on>> of the requests
  MaxExtensions  \* bound of the model: extensions (plugins) of a request

Stages == {"discovery", "parsing", "git", "dependencies", "architecture",
  "quality", "duplication", "similarity", "project", "security", "evolution",
  "historical", "plugins", "insights"}

(* Stage::ALL, "every stage in pipeline order". *)
Order == <<"discovery", "parsing", "git", "dependencies", "architecture",
  "quality", "duplication", "similarity", "project", "security", "evolution",
  "historical", "plugins", "insights">>

Standard == Stages \ {"duplication", "similarity", "historical"}

Profiles == {"quick", "standard", "deep", "history", "architecture", "dependencies", "security"}

ProfileStages(p) ==
  CASE p = "quick"        -> {"discovery", "parsing", "project", "insights"}
    [] p = "standard"     -> Standard
    [] p = "deep"         -> Stages
    [] p = "history"      -> {"discovery", "git", "evolution"}
    [] p = "architecture" -> {"discovery", "parsing", "dependencies", "architecture"}
    [] p = "dependencies" -> {"discovery", "dependencies"}
    [] p = "security"     -> {"discovery", "security"}

(* The include_* switches, and whether plugins are enabled. *)
Switches == {"git", "history", "dependencies", "architecture", "quality", "security",
  "tests", "build", "docs", "plugins"}

(* The ones a stage cannot do without. *)
Needs(s) ==
  CASE s = "evolution"                   -> {"git", "history"}
    [] s = "historical"                  -> {"git", "history"}
    [] s \in {"duplication", "similarity"} -> {"quality"}
    [] s \in {"git", "dependencies", "architecture", "quality", "security",
              "plugins"}                 -> {s}
    [] OTHER                             -> {}

EffectiveStages(p, on) ==
  {s \in ProfileStages(p) :
     /\ Needs(s) \subseteq on
     /\ s = "project" => on \cap {"tests", "build", "docs"} # {}}

ASSUME PipelineAssumption ==
  Configs \subseteq Profiles \X SUBSET Switches /\ MaxExtensions \in Nat

VARIABLES
  stages,     \* stages that are wanted
  request,    \* the input's kind, whether it has code and commits, the
              \* extensions, the commands allowed to run
  git,        \* GitRunner::detect: "none" if not asked for, "ok" or "error"
  root,       \* TRUE: the input is the root of a Git repository
  token,      \* TRUE: the cancellation token is set
  at,         \* where analyze is
  busy,       \* progress: the stage that was started and has not finished
  left,       \* commands or extensions still to run
  runs,       \* what the recorder holds: stages with their status
  history,    \* TRUE: there is a GitStage
  sections,   \* sections marked unavailable
  warnings,   \* what the warnings are about
  cut,        \* history: work the token cut short that is in the artifact
  asked,      \* history: where analyze was when the token was set
  result      \* "running", or what analyze returned

config == <<stages, request>>
state == <<git, root, history>>
told == <<runs, sections, warnings>>
vars == <<config, state, token, at, busy, left, told, cut, asked, result>>

Places == {"prepare", "files", "git", "dependencies", "checked", "architecture",
  "quality", "project", "commands", "recorded", "security", "evolution", "plugins",
  "extension", "extended", "insights", "finished", "end"}

Wants(s) == s \in stages

-----------------------------------------------------------------------------
(* Decisions, each preceded by a mutation the properties must notice.      *)

(* A checkpoint: cancel.check()?. *)
Passes_Never == TRUE
Passes == ~token

(* historical_recorded: whether the stage still needs its own record. *)
HistoricalPending_Always(done) == TRUE
HistoricalPending(done) == ~(done /\ Wants("historical"))

(* Git history is usable: the runner was found and this is a root. *)
CanReadGit == git = "ok" /\ root

(* status_of: the status of a run from that of its section. *)
StatusOf_Verbatim(section) == section
StatusOf(section) ==
  CASE section = "analyzed" -> "completed"
    [] section = "partial"  -> "partial"
    [] OTHER                -> "skipped"

(* Evolution needs the history the Git stage has read. *)
CanEvolve_GitPresent == git = "ok"
CanEvolve == history /\ git = "ok"

-----------------------------------------------------------------------------

Requests ==
  [kind: {"directory", "url", "archive"}, code: BOOLEAN, commits: BOOLEAN,
   extensions: 0..MaxExtensions, build: BOOLEAN, test: BOOLEAN]

Init ==
  /\ \E c \in Configs : stages = EffectiveStages(c[1], c[2])
  /\ request \in Requests
  /\ "architecture" \notin stages /\ "quality" \notin stages => request.code
  /\ "evolution" \notin stages => request.commits
  /\ "project" \notin stages => ~request.build /\ ~request.test
  /\ "plugins" \notin stages => request.extensions = 0
  /\ git = "none" /\ root = FALSE /\ history = FALSE
  /\ token = FALSE /\ asked = "end"
  /\ at = "prepare" /\ busy = "none" /\ left = <<>>
  /\ runs = <<>> /\ sections = {} /\ warnings = {}
  /\ cut = {}
  /\ result = "running"

Running == result = "running"

Return(r) ==
  /\ result' = r
  /\ at' = "end"
  /\ UNCHANGED <<config, state, token, busy, left, told, cut, asked>>

Goto(place) == at' = place /\ UNCHANGED result

Record(entries) == runs' = runs \o entries
Ran(s, status) == <<[stage |-> s, status |-> status]>>
Skipped(s) == Ran(s, "skipped")

(* An optional stage that runs within another one. *)
Within(s, status) == IF Wants(s) THEN Ran(s, status) ELSE Skipped(s)

(* Sections of analyzers that find nothing to work on are unavailable. *)
Section(present) == IF present THEN "analyzed" ELSE "unavailable"
Noted(s, present) == IF present THEN sections ELSE sections \cup {s}

(* Somebody sets the token: a client, or Ctrl+C. *)
Cancel ==
  /\ Running /\ ~token
  /\ token' = TRUE
  /\ asked' = at
  /\ UNCHANGED <<config, state, at, busy, left, told, cut, result>>

(* Recorder::begin. *)
Begin(s) ==
  /\ Running /\ busy = "none"
  /\ busy' = s
  /\ UNCHANGED <<config, state, token, at, left, told, cut, asked, result>>

Begun(s) == Running /\ busy = s

(* Work that was started and returns Cancelled, which analyze returns. *)
StopWithin(s) ==
  /\ Begun(s)
  /\ ~Passes
  /\ Return("cancelled")

-----------------------------------------------------------------------------
(* The configuration is validated, Git is looked for, the input prepared:  *)
(* a directory, a clone, or an extracted archive.                          *)
Detect ==
  /\ Running /\ at = "prepare" /\ git = "none"
  /\ IF Wants("git") \/ request.kind = "url"
     THEN /\ git' \in {"ok", "error"}
          /\ UNCHANGED at
     ELSE /\ at' = "files"
          /\ UNCHANGED git
  /\ UNCHANGED <<config, token, busy, left, told, cut, asked, result, root, history>>

Prepare ==
  /\ Running /\ at = "prepare" /\ git # "none"
  /\ request.kind = "url" => git = "ok"
  /\ root' \in CASE request.kind = "url"     -> {TRUE}
                 [] request.kind = "archive" -> {FALSE}
                 [] OTHER                    -> IF git = "ok" THEN BOOLEAN ELSE {FALSE}
  /\ Goto("files")
  /\ UNCHANGED <<config, git, history, token, busy, left, told, cut, asked>>

(* Invalid settings, a missing or unreadable input, no Git to clone with. *)
Refuse == Running /\ at = "prepare" /\ Return("error")

(* Git was running for a directory or a clone. *)
StopPreparing ==
  /\ Running /\ at = "prepare" /\ git = "ok" /\ request.kind # "archive"
  /\ ~Passes
  /\ Return("cancelled")

(* Discovery and the file pass, which records parsing as well. *)
BeginDiscovery == at = "files" /\ Begin("discovery")

Discover(discovered, parsed) ==
  /\ at = "files" /\ Begun("discovery")
  /\ Record(Ran("discovery", discovered) \o Within("parsing", parsed))
  /\ busy' = "none"
  /\ Goto("git")
  /\ UNCHANGED <<config, state, token, left, sections, warnings, cut, asked>>

DiscoveryFails == at = "files" /\ Begun("discovery") /\ Return("error")

-----------------------------------------------------------------------------
BeginGit == at = "git" /\ Wants("git") /\ CanReadGit /\ Begin("git")

ReadGit ==
  /\ Begun("git")
  /\ Record(Ran("git", "completed"))
  /\ history' = TRUE
  /\ busy' = "none"
  /\ Goto("dependencies")
  /\ UNCHANGED <<config, git, root, token, left, sections, warnings, cut, asked>>

(* Any other error of Git leaves the section unavailable, with a warning. *)
GitFails ==
  /\ Begun("git")
  /\ Record(Ran("git", "failed"))
  /\ sections' = sections \cup {"git"}
  /\ warnings' = warnings \cup {"git"}
  /\ busy' = "none"
  /\ Goto("dependencies")
  /\ UNCHANGED <<config, state, token, left, cut, asked>>

SkipGit ==
  /\ Running /\ at = "git" /\ busy = "none"
  /\ ~(Wants("git") /\ CanReadGit)
  /\ Record(Skipped("git"))
  /\ sections' = IF Wants("git") THEN sections \cup {"git"} ELSE sections
  /\ warnings' = IF Wants("git") /\ git = "error"
                 THEN warnings \cup {"git"} ELSE warnings
  /\ Goto("dependencies")
  /\ UNCHANGED <<config, state, token, busy, left, cut, asked>>

(* A stage that cannot fail: begun and ended, or skipped; its entries.     *)
Plain(place, s, next, present, entries, skipped) ==
  \/ at = place /\ Wants(s) /\ Begin(s)
  \/ /\ at = place
     /\ Running /\ busy = (IF Wants(s) THEN s ELSE "none")
     /\ Record(IF Wants(s) THEN entries ELSE skipped)
     /\ sections' = IF Wants(s) THEN Noted(s, present) ELSE sections
     /\ busy' = "none"
     /\ Goto(next)
     /\ UNCHANGED <<config, state, token, left, warnings, cut, asked>>

(* A checkpoint follows the dependencies whether they were wanted or not.  *)
Dependencies ==
  Plain("dependencies", "dependencies", "checked", TRUE,
        Ran("dependencies", "completed"), Skipped("dependencies"))

CheckPoint(from, to) ==
  /\ Running /\ at = from
  /\ IF Passes
     THEN Goto(to) /\ UNCHANGED <<config, state, token, busy, left, told, cut, asked>>
     ELSE Return("cancelled")

AfterDependencies_Unchecked ==
  /\ Running /\ at = "checked"
  /\ Goto("architecture")
  /\ UNCHANGED <<config, state, token, busy, left, told, cut, asked>>
AfterDependencies == CheckPoint("checked", "architecture")

Architecture ==
  Plain("architecture", "architecture", "quality", request.code,
        Ran("architecture", StatusOf(Section(request.code))), Skipped("architecture"))

(* Duplication and similarity run within quality. Without code it returns  *)
(* before them, and their sections keep the default, "skipped".            *)
Quality ==
  LET status == StatusOf(Section(request.code)) IN
  Plain("quality", "quality", "project", request.code,
        Ran("quality", status)
          \o Within("duplication", status) \o Within("similarity", status),
        Skipped("quality") \o Skipped("duplication") \o Skipped("similarity"))

Security ==
  Plain("security", "security", "evolution", TRUE,
        Ran("security", "completed"), Skipped("security"))

Insights ==
  Plain("insights", "insights", "finished", TRUE,
        Ran("insights", "completed"), Skipped("insights"))

-----------------------------------------------------------------------------
(* Project detection, then the commands that are allowed: install and      *)
(* build until one fails, then test whatever became of these.              *)
BeginProject == at = "project" /\ Wants("project") /\ Begin("project")

Tests == IF request.test THEN <<"test">> ELSE <<>>

ListCommands ==
  /\ at = "project" /\ Begun("project")
  /\ left' = (IF request.build THEN <<"install", "build">> ELSE <<>>)
               \o Tests
  /\ Goto("commands")
  /\ UNCHANGED <<config, state, token, busy, told, cut, asked>>

(* A command succeeds, was not detected, fails, or is killed by the token. *)
RunCommand(success) ==
  /\ Running /\ at = "commands" /\ left # <<>>
  /\ left' = IF success \/ Head(left) = "test" THEN Tail(left) ELSE Tests
  /\ cut' = IF token /\ ~success THEN cut \cup {Head(left)} ELSE cut
  /\ UNCHANGED <<config, state, token, at, busy, told, asked, result>>

Commanded == left = <<>> /\ CheckPoint("commands", "recorded")

EndProject ==
  /\ Running /\ at = "recorded"
  /\ Record(Ran("project", "completed"))
  /\ busy' = "none"
  /\ Goto("security")
  /\ UNCHANGED <<config, state, token, left, sections, warnings, cut, asked>>

SkipProject ==
  /\ Running /\ at = "project" /\ ~Wants("project")
  /\ Record(Skipped("project"))
  /\ Goto("security")
  /\ UNCHANGED <<config, state, token, busy, left, sections, warnings, cut, asked>>

-----------------------------------------------------------------------------
(* Evolution: snapshots that cannot be read become notes and make it       *)
(* partial; run_timeline returns no error but Cancelled, so the arm of     *)
(* analyze for other errors is not here.                                   *)
BeginEvolution ==
  /\ at = "evolution" /\ Wants("evolution") /\ CanEvolve
  /\ Begin("evolution")

AfterEvolution(done, entry) ==
  /\ Record(entry \o (IF HistoricalPending(done) THEN Skipped("historical") ELSE <<>>))
  /\ busy' = "none"
  /\ Goto("plugins")
  /\ UNCHANGED <<config, state, token, left, warnings, cut, asked>>

Evolve(notes) ==
  LET status == IF notes THEN "partial" ELSE StatusOf(Section(request.commits)) IN
  /\ Begun("evolution")
  /\ notes => request.commits
  /\ AfterEvolution(TRUE, Ran("evolution", status)
       \o (IF Wants("historical") THEN Ran("historical", status) ELSE <<>>))
  /\ sections' = Noted("evolution", request.commits)

SkipEvolution ==
  /\ Running /\ at = "evolution" /\ busy = "none"
  /\ ~(Wants("evolution") /\ CanEvolve)
  /\ AfterEvolution(FALSE, Skipped("evolution"))
  /\ sections' = IF Wants("evolution") THEN sections \cup {"evolution"} ELSE sections

-----------------------------------------------------------------------------
(* Extensions run one after the other with a checkpoint before each and    *)
(* one after the last; what they return as an error makes the stage        *)
(* partial, the error of one that the token stopped included.              *)
HasExtensions == Wants("plugins") /\ request.extensions > 0

BeginPlugins ==
  /\ at = "plugins" /\ HasExtensions
  /\ Running /\ busy = "none"
  /\ busy' = "plugins"
  /\ left' = [i \in 1..request.extensions |-> "extension"]
  /\ UNCHANGED <<config, state, token, at, told, cut, asked, result>>

NextExtension == left # <<>> /\ Begun("plugins") /\ CheckPoint("plugins", "extension")

RunExtension(success) ==
  /\ Running /\ at = "extension"
  /\ left' = Tail(left)
  /\ cut' = IF token /\ ~success THEN cut \cup {"extension"} ELSE cut
  /\ warnings' = IF success THEN warnings ELSE warnings \cup {"plugins"}
  /\ Goto("plugins")
  /\ UNCHANGED <<config, state, token, busy, runs, sections, asked>>

LastExtension == left = <<>> /\ Begun("plugins") /\ CheckPoint("plugins", "extended")

EndPlugins ==
  /\ Running /\ at = "extended"
  /\ Record(Ran("plugins", IF "plugins" \in warnings THEN "partial" ELSE "completed"))
  /\ busy' = "none"
  /\ Goto("insights")
  /\ UNCHANGED <<config, state, token, left, sections, warnings, cut, asked>>

SkipPlugins ==
  /\ Running /\ at = "plugins" /\ ~HasExtensions
  /\ Record(Skipped("plugins"))
  /\ Goto("insights")
  /\ UNCHANGED <<config, state, token, busy, left, sections, warnings, cut, asked>>

(* Suppressions, fingerprint, metrics, insights, metadata: no checkpoint.  *)
Finish == Running /\ at = "finished" /\ Return("ok")

Step ==
  \/ Detect \/ Prepare \/ Refuse \/ StopPreparing
  \/ BeginDiscovery \/ DiscoveryFails
  \/ \E d, p \in {"completed", "partial"} : Discover(d, p)
  \/ BeginGit \/ ReadGit \/ GitFails \/ SkipGit
  \/ Dependencies \/ AfterDependencies \/ Architecture \/ Quality
  \/ BeginProject \/ ListCommands \/ Commanded \/ EndProject \/ SkipProject
  \/ \E success \in BOOLEAN : RunCommand(success) \/ RunExtension(success)
  \/ Security
  \/ BeginEvolution \/ SkipEvolution
  \/ \E notes \in BOOLEAN : Evolve(notes)
  \/ BeginPlugins \/ NextExtension \/ LastExtension \/ EndPlugins \/ SkipPlugins
  \/ Insights \/ Finish
  \/ \E s \in {"discovery", "git", "architecture", "quality", "evolution"} : StopWithin(s)

Next == Step \/ Cancel

Spec == Init /\ [][Next]_vars

-----------------------------------------------------------------------------

TypeOK ==
  /\ stages \subseteq Stages /\ request \in Requests
  /\ git \in {"none", "ok", "error"}
  /\ root \in BOOLEAN /\ history \in BOOLEAN /\ token \in BOOLEAN
  /\ at \in Places /\ asked \in Places
  /\ busy \in Stages \cup {"none"}
  /\ left \in Seq({"install", "build", "test", "extension"})
  /\ runs \in Seq([stage : Stages,
                   status : {"completed", "partial", "skipped", "failed"}])
  /\ sections \subseteq {"git", "architecture", "quality", "evolution"}
  /\ warnings \subseteq {"git", "plugins"}
  /\ cut \subseteq {"install", "build", "test", "extension"}
  /\ result \in {"running", "ok", "error", "cancelled"}

Artifact == result = "ok"

(* The artifact tells of every stage exactly once and in pipeline order,   *)
(* for every profile, whatever was switched off, failed or was not there:  *)
(* five stages are recorded by the code of another one.                    *)
EveryStageOnce ==
  Artifact => [i \in DOMAIN runs |-> runs[i].stage] = Order

(* No artifact contains work the token cut short: a killed build or plugin *)
(* looks like one that failed, and only the checkpoint after it prevents   *)
(* that its outcome is taken for a result.                                 *)
NothingCutShort == Artifact => cut = {}

(* A cancellation is honoured up to the last checkpoint on the way: the    *)
(* one after the dependencies for every profile, the one after project     *)
(* commands, the one after the last extension.                             *)
CancelHonoured ==
  Artifact /\ token =>
    /\ asked \notin {"prepare", "files", "git", "dependencies", "checked"}
    /\ Wants("project") => asked \notin {"architecture", "quality", "project", "commands"}
    /\ HasExtensions => asked \in {"extended", "insights", "finished"}

(* A stage that was wanted and did not run is told of where a reader looks *)
(* for it, in its section; one that failed in a warning as well; and none  *)
(* ran that was not wanted. Evolution is only reconstructed from a history *)
(* that was read.                                                          *)
SkipsAreTold ==
  Artifact =>
    \A i \in DOMAIN runs :
      LET s == runs[i].stage
          ran == runs[i].status \in {"completed", "partial"}
          told_of == \/ s \in sections
                     \/ s = "historical" /\ "evolution" \in sections
                     \/ s \in {"duplication", "similarity"} /\ "quality" \in sections
                     \/ s = "plugins" /\ ~HasExtensions
      IN /\ ran <=> Wants(s) /\ ~told_of
         /\ runs[i].status = "failed" => s \in warnings
         /\ s = "evolution" /\ ran => history
=============================================================================
