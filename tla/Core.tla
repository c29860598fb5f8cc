-------------------------------- MODULE Core --------------------------------
(***************************************************************************)
(* repodna_core: dates, the patterns of ignored files, and the layers of   *)
(* the configuration.                                                      *)
(***************************************************************************)
EXTENDS Integers, FiniteSets, Sequences, SequencesExt

(***************************************************************************)
(* repodna_core::time: dates from and to days since 1970-01-01, computed   *)
(* with Hinnant's formulas on years that begin in March, compared with the *)
(* calendar counted day by day. A timestamp is its day and its second of   *)
(* the day, which the code takes with div_euclid and rem_euclid. \div and  *)
(* % of TLA+ are these two.                                                *)
(***************************************************************************)
IsLeapYear(y) == (y % 4 = 0 /\ y % 100 # 0) \/ y % 400 = 0

DaysInMonth(y, m) ==
  CASE m \in {1, 3, 5, 7, 8, 10, 12} -> 31
    [] m \in {4, 6, 9, 11}           -> 30
    [] m = 2                         -> IF IsLeapYear(y) THEN 29 ELSE 28
    [] OTHER                         -> 0

DaysFromCivil(y, m, d) ==
  LET year == IF m <= 2 THEN y - 1 ELSE y
      yearOfEra == year % 400
      monthFromMarch == (m + 9) % 12
      dayOfYear == (153 * monthFromMarch + 2) \div 5 + d - 1
      dayOfEra == yearOfEra * 365 + yearOfEra \div 4 - yearOfEra \div 100 + dayOfYear
  IN (year \div 400) * 146097 + dayOfEra - 719468

YearOfEra(day) ==
  (day - day \div 1460 + day \div 36524 - day \div 146096) \div 365

CivilFromDays(days) ==
  LET shifted == days + 719468
      era == shifted \div 146097
      dayOfEra == shifted % 146097
      yearOfEra == YearOfEra(dayOfEra)
      dayOfYear == dayOfEra - (365 * yearOfEra + yearOfEra \div 4 - yearOfEra \div 100)
      fromMarch == (5 * dayOfYear + 2) \div 153
      month == IF fromMarch < 10 THEN fromMarch + 3 ELSE fromMarch - 9
  IN [year |-> yearOfEra + era * 400 + (IF month <= 2 THEN 1 ELSE 0),
      month |-> month,
      day |-> dayOfYear - (153 * fromMarch + 2) \div 5 + 1]

Invalid == "invalid"

(* Timestamp::from_ymd *)
FromYmd(y, m, d) ==
  IF m \notin 1..12 \/ d = 0 \/ d > DaysInMonth(y, m) THEN Invalid
  ELSE [day |-> DaysFromCivil(y, m, d), second |-> 0]

Weekday(t) == (t.day + 3) % 7
PlusDays(t, n) == [t EXCEPT !.day = @ + n]
StartOfMonth(t) ==
  LET c == CivilFromDays(t.day)
  IN [day |-> DaysFromCivil(c.year, c.month, 1), second |-> 0]

MonthIndex(c) == c.year * 12 + c.month - 1

PlusMonths(t, n) ==
  LET index == MonthIndex(CivilFromDays(t.day)) + n
  IN [day |-> DaysFromCivil(index \div 12, (index % 12) + 1, 1), second |-> 0]

(* Whole days from one timestamp until a later one. *)
DaysUntil(t, later) ==
  later.day - t.day - (IF later.second < t.second THEN 1 ELSE 0)

-----------------------------------------------------------------------------
(* 1 January of a year, by counting the years since 1970.                  *)
NewYear(y) ==
  IF y >= 1970 THEN 365 * (y - 1970) + Cardinality({l \in 1970..(y - 1) : IsLeapYear(l)})
  ELSE 365 * (y - 1970) - Cardinality({l \in y..1969 : IsLeapYear(l)})

(* Days before each month, counted. *)
Before(y, m) ==
  LET days[k \in 0..12] == IF k = 0 THEN 0 ELSE days[k - 1] + DaysInMonth(y, k)
  IN days[m - 1]

(* Both formulas give what counting gives, for every day of the year, and  *)
(* are inverse to each other: every date in an artifact went through them. *)
DatesAreCounted(y) ==
  LET first == NewYear(y) IN
  \A m \in 1..12 :
    LET start == first + Before(y, m) IN
    \A d \in 1..DaysInMonth(y, m) :
      /\ DaysFromCivil(y, m, d) = start + d - 1
      /\ CivilFromDays(start + d - 1) = [year |-> y, month |-> m, day |-> d]
      /\ FromYmd(y, m, DaysInMonth(y, m) + d) = Invalid

(* Months follow one another without a gap across years and eras, in both  *)
(* directions: the buckets of the timeline are made of them.               *)
MonthFollows(y, m, d) ==
  LET start == FromYmd(y, m, 1)
      end == PlusDays(start, DaysInMonth(y, m))
      t == [PlusDays(start, d) EXCEPT !.second = 86399]
  IN /\ StartOfMonth(t) = start
     /\ PlusMonths(t, 1) = end
     /\ PlusMonths(t, 0) = start
     /\ PlusMonths(PlusMonths(t, 1), -1) = start
     /\ PlusMonths(t, -13) = FromYmd(IF m = 1 THEN y - 2 ELSE y - 1, IF m = 1 THEN 12 ELSE m - 1, 1)
     /\ DaysUntil(start, t) = d /\ DaysUntil(t, start) = -d - 1
     /\ Weekday(end) = (Weekday(start) + DaysInMonth(y, m)) % 7

MonthsFollow(y) ==
  \A m \in 1..12 : \A d \in {0, 14, DaysInMonth(y, m) - 1} : MonthFollows(y, m, d)

-----------------------------------------------------------------------------
(***************************************************************************)
(* repodna_core::glob: patterns for repository paths, by which findings    *)
(* are suppressed and files classified. A pattern is a sequence of         *)
(* symbols: "/", "*", "?", "!a" (the class [!a]) and letters; a path is a  *)
(* sequence of names, and a name a sequence of letters. Classes are single *)
(* symbols here, their parsing (parse_class) is left out.                  *)
(***************************************************************************)
Error == "error"
AnyDirectories == <<"**">>          \* Segment::AnyDirectories
Literals == {"a", "b"}

(* One symbol against one letter; "*" is not matched here. *)
Accepts(token, letter) ==
  \/ token = "?"
  \/ token = "!a" /\ letter # "a"
  \/ token \in Literals /\ token = letter

-----------------------------------------------------------------------------
(* Glob::new: without slashes at the ends, split at the others.            *)
TrimEnd(body) == SubSeq(body, 1, Max({i \in DOMAIN body : i = 1 \/ body[i] # "/"}))
TrimStart(body) ==
  LET names == {i \in DOMAIN body : body[i] # "/"}
  IN IF names = {} THEN <<>> ELSE SubSeq(body, Min(names), Len(body))

Split(body) ==
  FoldLeft(LAMBDA parts, c : IF c = "/" THEN Append(parts, <<>>)
                             ELSE [parts EXCEPT ![Len(parts)] = Append(@, c)],
           << <<>> >>, body)

(* parse_segment: stars that follow one another are one. *)
ParseSegment(part) ==
  FoldLeft(LAMBDA tokens, c : IF c = "*" /\ tokens # <<>> /\ Last(tokens) = "*"
                              THEN tokens ELSE Append(tokens, c), <<>>, part)

FloatsAnywhere(anchored, body) == ~anchored /\ "/" \notin ToSet(body)

New(pattern) ==
  LET body == TrimEnd(pattern)
      rest == TrimStart(body)
      Add(segments, part) ==
        IF part = <<>> THEN segments
        ELSE IF part = <<"*", "*">>
        THEN IF segments # <<>> /\ Last(segments) = AnyDirectories THEN segments
             ELSE Append(segments, AnyDirectories)
        ELSE Append(segments, ParseSegment(part))
      first == IF FloatsAnywhere(Head(body) = "/", rest) THEN <<AnyDirectories>> ELSE <<>>
  IN IF pattern = <<>> \/ rest = <<>> THEN Error
     ELSE [segments |-> FoldLeft(Add, first, Split(rest)),
           directoryOnly |-> Len(pattern) > 1 /\ Last(pattern) = "/"]

-----------------------------------------------------------------------------
(* match_tokens: one pass with the last star remembered, and how much of   *)
(* the text it has taken; positions are counted from one.                  *)
NoStar == 0
Retry(star_s, s) == star_s + 1

States(tokens, text) ==
  {at \in [t : 1..(Len(tokens) + 1), s : 1..(Len(text) + 1),
           star_t : NoStar..Len(tokens), star_s : NoStar..(Len(text) + 1)] :
     at.star_t < at.t /\ at.star_s <= at.s}
Begin == [t |-> 1, s |-> 1, star_t |-> NoStar, star_s |-> NoStar]

MatchTokens(tokens, text) ==
  LET match[at \in States(tokens, text)] ==
        IF at.s > Len(text) THEN \A i \in at.t..Len(tokens) : tokens[i] = "*"
        ELSE IF at.t <= Len(tokens) /\ tokens[at.t] = "*"
        THEN match[[t |-> at.t + 1, s |-> at.s, star_t |-> at.t, star_s |-> at.s]]
        ELSE IF at.t <= Len(tokens) /\ Accepts(tokens[at.t], text[at.s])
        THEN match[[at EXCEPT !.t = @ + 1, !.s = @ + 1]]
        ELSE IF at.star_t = NoStar THEN FALSE
        ELSE match[[t |-> at.star_t + 1, s |-> Retry(at.star_s, at.s),
                    star_t |-> at.star_t, star_s |-> Retry(at.star_s, at.s)]]
  IN match[Begin]

(* From each segment on, which rests of the path match. *)
MatchSegments(segments, parts) ==
  LET match[i \in 1..(Len(segments) + 1)] ==
        LET rest == match[i + 1] IN
        [j \in 1..(Len(parts) + 1) |->
           IF i > Len(segments) THEN j > Len(parts)
           ELSE IF segments[i] = AnyDirectories THEN \E k \in j..(Len(parts) + 1) : rest[k]
           ELSE j <= Len(parts) /\ MatchTokens(segments[i], parts[j]) /\ rest[j + 1]]
  IN match[1][1]

(* The path or one of its parent directories. *)
Matches(glob, path) ==
  \E length \in 1..(IF glob.directoryOnly THEN Len(path) - 1 ELSE Len(path)) :
    MatchSegments(glob.segments, SubSeq(path, 1, length))

-----------------------------------------------------------------------------
(* Ways to cut a sequence of length n into k pieces: where each piece ends. *)
Cuts(k, n) ==
  {cut \in [0..k -> 0..n] : /\ cut[0] = 0 /\ cut[k] = n
                            /\ \A i \in 1..k : cut[i - 1] <= cut[i]}

(* A name is made of pieces, one for each symbol. *)
NameFits(tokens, text) ==
  \E cut \in Cuts(Len(tokens), Len(text)) : \A i \in DOMAIN tokens :
    tokens[i] = "*" \/ (cut[i] = cut[i - 1] + 1 /\ Accepts(tokens[i], text[cut[i]]))

(* A path is made of pieces, one for each part between slashes; where two     *)
(* slashes follow one another there is nothing between them.                 *)
PathFits(parts, path) ==
  \E cut \in Cuts(Len(parts), Len(path)) : \A i \in DOMAIN parts :
    \/ parts[i] = <<>> /\ cut[i] = cut[i - 1]
    \/ parts[i] = <<"*", "*">>
    \/ parts[i] # <<>> /\ cut[i] = cut[i - 1] + 1 /\ NameFits(parts[i], path[cut[i]])

(* The rules of the module's documentation (glob.rs:6-12), one by one:     *)
(* stars, question marks and classes stay within a name, `**` takes whole  *)
(* directories, a pattern without a slash floats, a leading slash anchors, *)
(* a trailing one asks for a directory, and what is inside of what matches *)
(* matches too. The single-pass matcher decides exactly this.              *)
GlobMatchesAsDocumented(pattern, path) ==
  LET glob == New(pattern)
      inner == \/ Head(pattern) = "/"
               \/ \E i, j, k \in DOMAIN pattern :
                    i < j /\ j < k /\ pattern[j] = "/" /\ "/" \notin {pattern[i], pattern[k]}
      parts == Split(pattern)
      meant == IF inner THEN parts ELSE <<<<"*", "*">>>> \o parts
      directory == Last(pattern) = "/"
  IN IF ToSet(pattern) \subseteq {"/"} THEN glob = Error
     ELSE Matches(glob, path) <=>
            \E n \in 1..Len(path) :
              (directory => n < Len(path)) /\ PathFits(meant, SubSeq(path, 1, n))

-----------------------------------------------------------------------------
(***************************************************************************)
(* repodna_app::config::load_config and the ConfigLoader below it: the     *)
(* user's file, one named on the command line, the repository's own, which *)
(* is not trusted, and what the command line says.                         *)
(*                                                                         *)
(* A file is "absent", "missing" though it was named, "invalid" or a       *)
(* "layer": settings, a table of tables of values; the patterns of its     *)
(* [ignore] table; and its [[suppress]] rules. A value is the name of who  *)
(* set it, or Bad for one that Config::validate refuses. A file with a     *)
(* value of the wrong type is "invalid", whatever table it is in: it is    *)
(* parsed as a whole before anything is taken out of it.                   *)
(***************************************************************************)
UntrustedTables == {"ai", "plugins", "execution"}
UntrustedPrivacyKeys == {"remote_ai", "telemetry"}
Bad == "bad"
Failed(reason) == [error |-> reason]
Layer(settings, patterns, suppress) ==
  [is |-> "layer", settings |-> settings, patterns |-> patterns, suppress |-> suppress]
Nothing == Layer([t \in {} |-> 0], <<>>, <<>>)
File(kind) == [Nothing EXCEPT !.is = kind]

Kept(table, keys) == [k \in DOMAIN table \ keys |-> table[k]]
Overlaid(base, overlay) ==
  [k \in DOMAIN base \cup DOMAIN overlay |-> IF k \in DOMAIN overlay THEN overlay[k] ELSE base[k]]

(* What of a repository's file applies, and what it is warned of. *)
StripUntrusted(settings) ==
  [t \in DOMAIN settings \ UntrustedTables |->
     IF t = "privacy" THEN Kept(settings[t], UntrustedPrivacyKeys) ELSE settings[t]]

Warnings(settings) ==
  {<<t>> : t \in DOMAIN settings \cap UntrustedTables} \cup
  (IF "privacy" \in DOMAIN settings
   THEN {<<"privacy", k>> : k \in DOMAIN settings["privacy"] \cap UntrustedPrivacyKeys} ELSE {})

(* Tables are merged key by key, anything else replaces what was there.    *)
DeepMerge_Tables(base, overlay) == Overlaid(base, overlay)
DeepMerge(base, overlay) ==
  [t \in DOMAIN base \cup DOMAIN overlay |->
     IF t \in DOMAIN base \cap DOMAIN overlay THEN Overlaid(base[t], overlay[t])
     ELSE IF t \in DOMAIN base THEN base[t] ELSE overlay[t]]

AddNew(list, x) == IF Contains(list, x) THEN list ELSE Append(list, x)

Absorb(merged, layer, origin) ==
  Layer(DeepMerge(merged.settings, layer.settings),
        FoldLeft(AddNew, merged.patterns, layer.patterns),
        merged.suppress \o [i \in DOMAIN layer.suppress |-> <<layer.suppress[i], origin>>])

Problems(settings) == \E t \in DOMAIN settings : \E k \in DOMAIN settings[t] : settings[t][k] = Bad

(* The repository's file is the first of its two names that exists.        *)
ProjectConfig(files) == IF files[1].is # "absent" THEN files[1] ELSE files[2]

(* files: user, explicit and project, the pair of names.                   *)
Load(files, includeProject) ==
  LET project == IF includeProject THEN ProjectConfig(files.project) ELSE File("absent")
      Trusted(file, origin) ==
        IF origin = "project" THEN [file EXCEPT !.settings = StripUntrusted(@)] ELSE file
      Add(loaded, source) ==
        LET file == source[1] IN
        IF "error" \in DOMAIN loaded \/ file.is = "absent" THEN loaded
        ELSE IF file.is # "layer" THEN Failed(source[2])
        ELSE [config |-> Absorb(loaded.config, Trusted(file, source[2]), source[2]),
              warnings |-> IF source[2] = "project" THEN Warnings(file.settings) ELSE {}]
      none == [config |-> Nothing, warnings |-> {}]
      loaded == Add(Add(Add(none, <<files.user, "user">>), <<files.explicit, "explicit">>),
                    <<project, "project">>)
  IN IF "error" \notin DOMAIN loaded /\ Problems(loaded.config.settings)
     THEN Failed("problems") ELSE loaded

(* load_config: what the command line sets wins over every file. *)
LoadConfig(files, options) ==
  LET user == IF options.ignoreUser THEN File("absent") ELSE files.user
      loaded == Load([files EXCEPT !.user = user], ~options.ignoreProject)
      Override(settings) == DeepMerge(settings, options.overrides)
  IN IF "error" \in DOMAIN loaded THEN loaded
     ELSE IF Problems(Override(loaded.config.settings)) THEN Failed("overrides")
     ELSE [loaded EXCEPT !.config.settings = Override(@)]

-----------------------------------------------------------------------------
(* Every setting has the value of the last layer that may set it and does, *)
(* whatever else is in the same table of any layer; the repository changes *)
(* nothing about AI, plugins, commands and what leaves the machine; each   *)
(* attempt is warned of, and nothing else; patterns and suppressions of    *)
(* all layers are there, in the order of the layers. It fails only for a   *)
(* file that is read and cannot be parsed, and for a refused value that is *)
(* not ignored.                                                            *)
SettingsAreLayered(files, options) ==
  LET result == LoadConfig(files, options)
      repository == IF options.ignoreProject THEN File("absent") ELSE ProjectConfig(files.project)
      source == <<IF options.ignoreUser THEN File("absent") ELSE files.user, files.explicit,
                  repository>>
      read == {i \in 1..3 : source[i].is # "absent"}
      Risky(t, k) == t \in UntrustedTables \/ (t = "privacy" /\ k \in UntrustedPrivacyKeys)
      Sets(settings, t, k) == t \in DOMAIN settings /\ k \in DOMAIN settings[t]
      Setters(t, k) == {i \in read : Sets(source[i].settings, t, k) /\ ~(i = 3 /\ Risky(t, k))}
      Value(t, k) ==
        IF Sets(options.overrides, t, k) THEN options.overrides[t][k]
        ELSE source[CHOOSE i \in Setters(t, k) : \A j \in Setters(t, k) : j <= i].settings[t][k]
      All == {options.overrides} \cup {source[i].settings : i \in read}
      Tables == UNION {DOMAIN settings : settings \in All}
      Keys(t) == UNION {DOMAIN settings[t] : settings \in {s \in All : t \in DOMAIN s}}
  IN IF \E i \in read : source[i].is # "layer" THEN "error" \in DOMAIN result
     ELSE IF "error" \in DOMAIN result
     THEN \E t \in Tables : \E k \in Keys(t) :
            \/ Sets(options.overrides, t, k) /\ options.overrides[t][k] = Bad
            \/ \E i \in Setters(t, k) : source[i].settings[t][k] = Bad
     ELSE /\ \A t \in Tables : \A k \in Keys(t) :
               LET set == Setters(t, k) # {} \/ Sets(options.overrides, t, k) IN
               /\ Sets(result.config.settings, t, k) <=> set
               /\ set => result.config.settings[t][k] = Value(t, k) /\ Value(t, k) # Bad
          /\ \A t \in Tables : \A k \in Keys(t) :
               Sets(repository.settings, t, k) /\ Risky(t, k) =>
                 {<<t>>, <<t, k>>} \cap result.warnings # {}
          /\ \A warning \in result.warnings : \E t \in DOMAIN repository.settings :
               \/ warning = <<t>> /\ t \in UntrustedTables
               \/ \E k \in DOMAIN repository.settings[t] : warning = <<t, k>> /\ Risky(t, k)
          /\ IsInjective(result.config.patterns)
          /\ ToSet(result.config.patterns) = UNION {ToSet(source[i].patterns) : i \in read}
          /\ result.config.suppress =
               FlattenSeq([i \in 1..3 |-> [n \in DOMAIN source[i].suppress |->
                 <<source[i].suppress[n], <<"user", "explicit", "project">>[i]>>]])

-----------------------------------------------------------------------------
(* What the core is given: a year, a pattern and the paths it is asked       *)
(* about, or the files and the options of a command.                         *)
VARIABLE input

Given(part) == input[1] = part /\ Len(input) > 1

(* core/time.rs, glob.rs and config/load.rs: dates, months and weekdays are  *)
(* those of the calendar, patterns match what the documentation says they    *)
(* match, and each setting is that of the last layer that may set it.        *)
CoreIsExact ==
  /\ Given("year") => DatesAreCounted(input[2]) /\ MonthsFollow(input[2])
  /\ Given("pattern") => \A path \in input[3] : GlobMatchesAsDocumented(input[2], path)
  /\ Given("settings") => SettingsAreLayered(input[2], input[3])
=============================================================================
