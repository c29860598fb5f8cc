------------------------------ MODULE FilePass ------------------------------
(***************************************************************************)
(* repodna_engine::scan::scan_files after the walk: the files are read and *)
(* analyzed in chunks, by many threads and with a cache, and what they     *)
(* yield is collected in path order within a budget of tokens.             *)
(*                                                                         *)
(* A file has a path, what the path alone says of it (category, language), *)
(* its linguist attributes, the lists of the configuration that match it,  *)
(* and a content: an id, what it is ("text", "binary", "unreadable",       *)
(* "large" or "grown", which was small when its size was looked at), and   *)
(* what a text has: a language by its shebang, the marks of a generated    *)
(* file, a number of tokens.                                               *)
(***************************************************************************)
EXTENDS Naturals, FiniteSets, Sequences, SequencesExt

CONSTANTS
  Chunk,      \* files per parallel chunk
  MaxTokens   \* tokens kept across all files

Lexical == {"rust", "python"}      \* languages with a lexical analyzer
Programs == Lexical \cup {"other"} \* programming languages

(* Patterns of .gitattributes and of the configuration form one list.      *)
Overrides(file) ==
  [vendor    |-> "vendored" \in file.attributes \/ "vendor" \in file.config,
   generated |-> "generated" \in file.attributes \/ "generated" \in file.config,
   tests     |-> "tests" \in file.config,
   docs      |-> "documentation" \in file.attributes \/ "docs" \in file.config,
   source    |-> "first_party" \in file.attributes \/ "source" \in file.config]

(* What the path makes of a file: "other" is code once its language is known. *)
Default(file, language) ==
  IF file.category = "other" /\ language \in Programs THEN "source" ELSE file.category

Classify(file, language) ==
  LET over == Overrides(file)
      default == Default(file, language)
  IN [vendored  |-> ~over.source /\ (over.vendor \/ default = "vendor"),
      generated |-> ~over.source /\ over.generated,
      category  |->
        CASE over.source -> IF file.category = "test" THEN "test" ELSE "source"
          [] over.docs /\ ~over.source                      -> "documentation"
          [] over.tests /\ ~over.docs /\ ~over.source       -> "test"
          [] over.generated /\ ~(over.tests \/ over.docs \/ over.source) -> "generated"
          [] over.vendor /\ ~(over.generated \/ over.tests \/ over.docs \/ over.source) -> "vendor"
          [] OTHER                                          -> default]

ReadFile(content) == IF content.is = "grown" THEN "large" ELSE content.is

CacheKey_ContentOnly(content, language) == content.id
CacheKey(content, language) == <<content.id, language>>
Analyze(content, language) == [of |-> content.id, language |-> language]

(* Categories whose files are looked into for the marks of generated ones. *)
MayBeGenerated == {"source", "test", "configuration", "data", "other"}

(* What a thread makes of one file, with what the cache holds by then.     *)
Read(file) ==
  IF Classify(file, file.language).category \in {"asset", "binary"} THEN "binary"
  ELSE ReadFile(file.content)
Language(file, read) ==
  IF read = "text" /\ file.language = "none" THEN file.content.shebang ELSE file.language

ProcessRead(file, read, language, class, stages, cache) ==
  LET looksGenerated ==
        /\ read = "text" /\ file.content.looksGenerated
        /\ ~class.generated /\ class.category \in MayBeGenerated /\ ~Overrides(file).source
      generated == class.generated \/ looksGenerated
      category == IF looksGenerated THEN "generated" ELSE class.category
      analyzed == read = "text" /\ language \in Lexical /\ "parsing" \in stages
      key == CacheKey(file.content, language)
      hit == analyzed /\ key \in DOMAIN cache
      analysis == IF hit THEN cache[key] ELSE Analyze(file.content, language)
      tokens ==
        /\ analyzed /\ category = "source" /\ ~class.vendored /\ ~generated
        /\ stages \cap {"duplication", "similarity"} # {}
      secured == read = "text" /\ "security" \in stages /\ category # "lockfile"
  IN [file |-> [path |-> file.path, category |-> category, language |-> language,
                generated |-> generated, vendored |-> class.vendored, read |-> read,
                analysis |-> IF analyzed THEN <<analysis>> ELSE <<>>,
                tokens |-> IF tokens THEN <<file.content.tokens>> ELSE <<>>],
      secrets |-> secured, patterns |-> secured /\ ~class.vendored,
      hit |-> hit, key |-> IF analyzed /\ ~hit THEN <<key>> ELSE <<>>]

ProcessAs(file, read, language, stages, cache) ==
  ProcessRead(file, read, language, Classify(file, language), stages, cache)
Process(file, stages, cache) ==
  LET read == Read(file) IN ProcessAs(file, read, Language(file, read), stages, cache)

-----------------------------------------------------------------------------
NoFiles ==
  [files |-> <<>>, secrets |-> {}, patterns |-> {}, hits |-> 0, used |-> 0, tokensTruncated |-> FALSE]

InBudget(used, tokens) == used + tokens <= MaxTokens

(* One result is added to those before it, in path order. *)
Collect(result, item) ==
  LET tokens == item.file.tokens
      fits == tokens = <<>> \/ InBudget(result.used, tokens[1])
      path == {item.file.path}
  IN [files    |-> Append(result.files, [item.file EXCEPT !.tokens = IF fits THEN @ ELSE <<>>]),
      secrets  |-> IF item.secrets THEN result.secrets \cup path ELSE result.secrets,
      patterns |-> IF item.patterns THEN result.patterns \cup path ELSE result.patterns,
      hits     |-> IF item.hit THEN result.hits + 1 ELSE result.hits,
      used     |-> IF fits /\ tokens # <<>> THEN result.used + tokens[1] ELSE result.used,
      tokensTruncated |-> result.tokensTruncated \/ ~fits]

(* What a chunk had to compute is stored once all of it is done. *)
Put(cache, items) ==
  LET misses == {i \in DOMAIN items : items[i].key # <<>>}
      keys == {items[i].key[1] : i \in misses}
      Of(k) == items[CHOOSE i \in misses : items[i].key[1] = k].file.analysis[1]
  IN [k \in DOMAIN cache \cup keys |-> IF k \in keys THEN Of(k) ELSE cache[k]]

(* cancelAt: the chunk before which the token is found set. The cache is   *)
(* an empty function when there is none, and what is put into it is lost.  *)
ScanFiles(files, stages, cached, caching, cancelAt) ==
  LET Chunks == [c \in 1..((Len(files) + Chunk - 1) \div Chunk) |-> c]
      InChunk(c) == {i \in DOMAIN files : (i - 1) \div Chunk = c - 1}
      Items(c, cache) ==
        [i \in 1..Cardinality(InChunk(c)) |-> Process(files[(c - 1) * Chunk + i], stages, cache)]
      After(before, items) ==
        [result |-> FoldLeft(Collect, before.result, items),
         cache |-> IF caching THEN Put(before.cache, items) ELSE cached,
         done |-> TRUE]
      Next(before, c) ==
        IF ~before.done \/ cancelAt = c THEN [before EXCEPT !.done = FALSE]
        ELSE After(before, Items(c, before.cache))
  IN FoldLeft(Next, [result |-> NoFiles, cache |-> cached, done |-> TRUE], Chunks)

-----------------------------------------------------------------------------
(* The result is the same whatever an earlier pass left in the cache, and  *)
(* a pass leaves a right analysis of every file it has read, even one that *)
(* was cancelled. Tokens are kept within the budget, and for nothing that is   *)
(* vendored, generated or a test; they are dropped only for a file that no *)
(* longer fits, and never without being told of.                           *)
IsPass(pass, fresh, again, files, stages, cancelAt) ==
  LET found == pass.result.files
      Analyzed(s) == {i \in DOMAIN s : s[i].analysis # <<>>}
      Kept(i) == FoldLeft(LAMBDA sum, j : IF found[j].tokens = <<>> THEN sum ELSE sum + found[j].tokens[1],
                          0, [j \in 1..i |-> j])
  IN /\ pass.done = fresh.done /\ (pass.done <=> cancelAt = 0)
     /\ [pass.result EXCEPT !.hits = 0] = fresh.result
     /\ pass.result.hits <= Cardinality(Analyzed(found))
     /\ \A i \in Analyzed(found) : found[i].analysis[1] = Analyze(files[i].content, found[i].language)
     /\ pass.done => again.result.hits = Cardinality(Analyzed(found))
     /\ Kept(Len(found)) = pass.result.used /\ pass.result.used <= MaxTokens
     /\ \A i \in DOMAIN found :
          found[i].tokens # <<>> =>
            found[i].category = "source" /\ ~found[i].vendored /\ ~found[i].generated
     /\ pass.result.tokensTruncated <=>
          \E i \in Analyzed(found) :
            /\ found[i].tokens = <<>> /\ found[i].category = "source"
            /\ ~found[i].vendored /\ stages \cap {"duplication", "similarity"} # {}
            /\ Kept(i) + files[i].content.tokens > MaxTokens

PassIsRepeatable(files, stages, earlier, cancelAt) ==
  LET empty == [k \in {} |-> 0]
      cached == ScanFiles(earlier, stages, empty, TRUE, 0).cache
      IsRepeatable(pass) ==
        IsPass(pass, ScanFiles(files, stages, empty, FALSE, cancelAt),
               ScanFiles(files, stages, pass.cache, TRUE, 0), files, stages, cancelAt)
  IN IsRepeatable(ScanFiles(files, stages, cached, TRUE, cancelAt))
=============================================================================
