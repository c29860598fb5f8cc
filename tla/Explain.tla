------------------------------ MODULE Explain -------------------------------
(***************************************************************************)
(* repodna_ai and repodna_app::explain: which evidence of an analysis is   *)
(* put before a model and which of it is left out, which provider may see  *)
(* it, what a provider's reply comes to, what of an answer is believed,    *)
(* the digest that needs no model, and the cache of explanations.          *)
(*                                                                         *)
(* An analysis has its facts by topic, in the order of the topic: a fact   *)
(* has the paths it is about, the area of its rule, and a cost in tokens.  *)
(* Paths are sequences of names. A text is only blank or not.              *)
(***************************************************************************)
EXTENDS Integers, FiniteSets, Sequences, SequencesExt

CONSTANTS
  KeepPoints,     \* KEEP_POINTS, of a model's answer
  MaxPoints,      \* of a digest
  ExcerptFiles,   \* EXCERPT_FILES
  DigestCost,     \* of a digest without points, in tokens
  MaxRetries,     \* MAX_RETRIES
  MaxRetryAfter,  \* MAX_RETRY_AFTER, in ticks
  CancelPoll,     \* CANCEL_POLL, in ticks
  Never           \* a time after every run: no cancellation

All == 99
Low == 1
Medium == 2
High == 3
Upto(s, n) == SubSeq(s, 1, IF n < Len(s) THEN n ELSE Len(s))
Once(s) == FoldLeft(LAMBDA seen, x : IF x \in ToSet(seen) THEN seen ELSE Append(seen, x), <<>>, s)
Sum(s) == FoldLeft(LAMBDA total, item : total + item.cost, 0, s)

-----------------------------------------------------------------------------
(* select_context: what each task looks at, in order, and at most how much *)
(* of it. An area of rules is given for findings only.                     *)
Topics(task) ==
  CASE task = "repository" ->
         <<<<"overview", All>>, <<"firstLook", All>>, <<"entrypoints", 6>>, <<"commands", 8>>, <<"importantFiles", 8>>,
           <<"modules", 8>>, <<"packages", 10>>, <<"recentChanges", All>>, <<"testsAndDocs", All>>, <<"findings", 8>>,
           <<"hotspots", 5>>, <<"fingerprint", All>>>>
    [] task = "architecture" ->
         <<<<"overview", All>>, <<"signals", All>>, <<"modules", 15>>, <<"edges", 20>>, <<"cycles", 5>>,
           <<"entrypoints", 6>>, <<"findings", 8, {"architecture", "structure"}>>, <<"hotspots", 5>>>>
    [] task = "history" ->
         <<<<"overview", All>>, <<"history", All>>, <<"evolution", All>>, <<"recentChanges", All>>,
           <<"recentCommits", 15>>, <<"hotspots", 5>>, <<"findings", 6, {"activity", "evolution", "contributors"}>>>>
    [] task = "dependencies" ->
         <<<<"overview", All>>, <<"packages", 25>>, <<"edges", 15>>, <<"cycles", 5>>, <<"modules", 8>>,
           <<"findings", 10, {"dependencies", "architecture"}>>>>
    [] task = "onboarding" ->
         <<<<"overview", All>>, <<"onboarding", All>>, <<"importantFiles", 10>>, <<"entrypoints", 6>>, <<"commands", 10>>,
           <<"testsAndDocs", All>>, <<"firstLook", All>>, <<"modules", 8>>, <<"glossary", 15>>>>
    [] task = "question" ->
         <<<<"overview", All>>, <<"firstLook", All>>, <<"entrypoints", 6>>, <<"commands", 8>>, <<"modules", 10>>,
           <<"hotspots", 5>>, <<"packages", 10>>, <<"recentChanges", All>>, <<"findings", 10>>, <<"history", All>>,
           <<"testsAndDocs", All>>, <<"glossary", 10>>>>

FactsOf(dna, topic) == IF topic \in DOMAIN dna.facts THEN dna.facts[topic] ELSE <<>>
As(kind, facts) == [i \in DOMAIN facts |-> [kind |-> kind, paths |-> facts[i].paths, cost |-> facts[i].cost]]
Overall(dna, task) ==
  LET About(topic) ==
        LET wanted == SelectSeq(FactsOf(dna, topic[1]), LAMBDA f : Len(topic) = 3 => f.area \in topic[3]) IN
        As(topic[1], Upto(wanted, topic[2]))
  IN FlattenSeq([i \in DOMAIN Topics(task) |-> About(Topics(task)[i])])

(* subject.rs: an edge is about a directory if one of its ends is it, a    *)
(* finding if one of its paths lies in it.                                 *)
IsWithin(path, dir) == IsPrefix(dir, path)
Where(dna, topic, limit, Wanted(_)) ==
  As(topic, Upto(SelectSeq(FactsOf(dna, topic), LAMBDA f : \E i \in DOMAIN f.paths : Wanted(f.paths[i])), limit))
Said(kind, path) == <<[kind |-> kind, paths |-> <<path>>, cost |-> 1]>>

Unknown == <<"unknown subject">>
Directory(dna, subject) ==
  LET named == SelectSeq(dna.modules, LAMBDA m : subject \in {m.path, m.name}) IN
  IF named # <<>> THEN named[1].path
  ELSE IF \E i \in DOMAIN dna.files : IsWithin(dna.files[i].path, subject) THEN subject
  ELSE Unknown

(* At most so many files are tried, whether or not they can be read.       *)
Excerpts(checkout, paths) ==
  LET read == SelectSeq(Upto(paths, ExcerptFiles), LAMBDA p : p \in checkout) IN
  [i \in DOMAIN read |-> [kind |-> "excerpt", paths |-> <<read[i]>>, cost |-> 2]]

ModuleTask(dna, subject, checkout) ==
  LET dir == Directory(dna, subject)
      Is(path) == path = dir
      Within(path) == IsWithin(path, dir)
      Paths(topic) == LET facts == Where(dna, topic, All, Within) IN [i \in DOMAIN facts |-> facts[i].paths[1]]
  IN IF dir = Unknown THEN Unknown
     ELSE As("overview", FactsOf(dna, "overview"))
            \o Where(dna, "modules", 3, Is) \o Where(dna, "edges", 16, Is) \o Said("contains", dir)
            \o Where(dna, "hotspots", 5, Within) \o Where(dna, "findings", 10, Within)
            \o Where(dna, "files", 12, Within) \o Where(dna, "functions", 6, Within)
            \o Where(dna, "fileHistory", 6, Within)
            \o Excerpts(checkout, Once(Paths("entrypoints") \o Paths("importantFiles")))

HotspotTask(dna, path, checkout) ==
  LET Is(p) == p = path
      Other(p) == p # path
      Within(p) == IsWithin(p, path)
      own == Where(dna, "hotspots", 1, Is)
      home == SelectSeq(dna.files, LAMBDA f : f.path = path /\ f.module # <<>>)
      Home(p) == <<p>> = home[1].module
  IN IF ~(\E i \in DOMAIN dna.files : dna.files[i].path = path) /\ Where(dna, "fileHistory", 1, Is) = <<>> THEN Unknown
     ELSE As("overview", FactsOf(dna, "overview"))
            \o (IF own # <<>> THEN own ELSE Said("notRanked", path))
            \o Where(dna, "fileHistory", 1, Within) \o Where(dna, "files", 1, Within)
            \o Where(dna, "functions", 5, Within) \o Where(dna, "findings", 8, Is)
            \o (IF home = <<>> THEN <<>> ELSE Where(dna, "modules", 1, Home) \o Where(dna, "edges", 8, Home))
            \o Where(dna, "hotspots", 5, Other) \o Excerpts(checkout, <<path>>)

Candidates(dna, task, checkout) ==
  CASE task[1] = "module"  -> ModuleTask(dna, task[2], checkout)
    [] task[1] = "hotspot" -> HotspotTask(dna, task[2], checkout)
    [] OTHER               -> Overall(dna, task[1])

(* An item that does not fit is left out, and smaller ones after it are    *)
(* still taken. Items are numbered as they are taken.                      *)
Select(candidates, budget) ==
  LET Take(context, item) ==
        IF context.tokens + item.cost > budget THEN [context EXCEPT !.omitted = @ + 1]
        ELSE [context EXCEPT !.items = Append(@, item), !.tokens = @ + item.cost,
                             !.excerpts = @ \/ item.kind = "excerpt"]
  IN FoldLeft(Take, [items |-> <<>>, omitted |-> 0, tokens |-> 0, excerpts |-> FALSE], candidates)

-----------------------------------------------------------------------------
(* check_answer: a citation is the number of an item.                      *)
CheckAnswer(reply, context) ==
  LET Known(n) == n \in DOMAIN context.items
      said == SelectSeq(Upto(reply.points, KeepPoints), LAMBDA p : p.form # "other" /\ ~p.blank)
      Cited(p) == IF p.form = "string" THEN <<>> ELSE p.cited
      Point(p) ==
        LET evidence == Once(SelectSeq(Cited(p), Known)) IN
        [evidence |-> evidence,
         support |-> IF p.form = "object" /\ p.inference THEN "inference"
                     ELSE IF evidence = <<>> THEN "unsupported" ELSE "evidence"]
      points == [i \in DOMAIN said |-> Point(said[i])]
      n == Len(SelectSeq(points, LAMBDA p : p.support = "unsupported"))
      all == FlattenSeq([i \in DOMAIN said |-> Cited(said[i])])
  IN IF ~reply.structured
     THEN [structured |-> FALSE, points |-> <<>>, confidence |-> Low, invalid |-> <<>>, warned |-> TRUE]
     ELSE [structured |-> TRUE, points |-> points, invalid |-> Once(SelectSeq(all, LAMBDA c : ~Known(c))),
           confidence |-> IF 2 * n > Len(points) THEN Low
                          ELSE IF n > 0 /\ reply.confidence = High THEN Medium ELSE reply.confidence,
           warned |-> n > 0 \/ \E i \in DOMAIN all : ~Known(all[i])]

CitedBy(answer) == Once(FlattenSeq([i \in DOMAIN answer.points |-> answer.points[i].evidence]))

(* native.rs: `order` is the ranker's, or that of the items.               *)
TooLong == [structured |-> FALSE, points |-> <<>>, confidence |-> Low]
Digest(context, limit, order) ==
  LET Add(digest, i) ==
        LET item == context.items[i] IN
        IF \/ item.kind = "excerpt" \/ Len(digest.points) = MaxPoints
           \/ digest.cost + item.cost > limit
        THEN digest
        ELSE [points |-> Append(digest.points, [form |-> "object", blank |-> FALSE, cited |-> <<i>>, inference |-> FALSE]),
              cost |-> digest.cost + item.cost]
      made == FoldLeft(Add, [points |-> <<>>, cost |-> DigestCost], order)
  IN IF DigestCost > limit THEN TooLong
     ELSE [structured |-> TRUE, points |-> made.points, confidence |-> IF made.points = <<>> THEN Low ELSE Medium]

-----------------------------------------------------------------------------
(* build_provider. An endpoint is on this machine, Anthropic's own host,   *)
(* another host, or no address; a variable that is named may be empty.     *)
Build(config, allowRemote) ==
  LET Refused(why) == [built |-> FALSE, why |-> why]
      Local == [built |-> TRUE, remote |-> FALSE, key |-> "none"]
      own == config.provider = "anthropic"
      endpoint == IF own /\ config.endpoint = "none" THEN "anthropic" ELSE config.endpoint
      key == IF config.keyName # "none" THEN config.keyName
             ELSE IF own /\ endpoint = "anthropic" THEN "ANTHROPIC_API_KEY" ELSE "none"
  IN CASE config.provider = "none"    -> Refused("disabled")
       [] config.provider = "native"  -> IF config.model = "bad" THEN Refused("checkpoint") ELSE Local
       [] config.provider = "command" -> IF config.program THEN Local ELSE Refused("command")
       [] OTHER ->
            IF config.model = "none" \/ endpoint \in {"none", "invalid"} THEN Refused("configuration")
            ELSE IF endpoint # "loopback" /\ ~allowRemote THEN Refused("remote")
            ELSE IF key \notin config.variables \cup {"none"} THEN Refused("key")
            ELSE [built |-> TRUE, remote |-> endpoint # "loopback", key |-> key]

(* complete of the two providers that are asked over HTTP. OpenAI's is     *)
(* asked again, once, with another name for the limit if it says so.       *)
OpenAi(replies) ==
  LET again == replies[1].status = 400 /\ replies[1].namesLimit
      reply == IF again THEN replies[2] ELSE replies[1]
  IN [posts |-> IF again THEN 2 ELSE 1,
      outcome |->
        IF reply.status # 200 THEN "http"
        ELSE IF ~reply.whole THEN "invalid"
        ELSE IF reply.finish = "content_filter" THEN "refused"
        ELSE IF reply.blank /\ reply.refusal THEN "refused"
        ELSE IF reply.finish = "length" THEN "truncated"
        ELSE IF reply.blank THEN "invalid" ELSE "text"]
Anthropic(reply) ==
  IF reply.status # 200 THEN "http"
  ELSE IF ~reply.whole THEN "invalid"
  ELSE IF reply.finish = "content_filter" THEN "refused"
  ELSE IF reply.finish = "length" THEN "truncated"
  ELSE IF reply.blank THEN "invalid" ELSE "text"

-----------------------------------------------------------------------------
(* explain with its cache, and clear_explanations, one call after another. *)
(* The key has what is sent and where to, not the analysis it comes from.  *)
CacheKey(call, context) ==
  <<call.destination, call.budget, call.dna.name, call.task, context.items, context.omitted, context.excerpts>>

Run(call, context, answer) ==
  [revision |-> call.dna.revision, repository |-> call.dna.name, answer |-> answer,
   evidence |-> [i \in DOMAIN CitedBy(answer) |-> context.items[CitedBy(answer)[i]]],
   sent |-> Len(context.items), omitted |-> context.omitted]
Explained(call, context) == Run(call, context, CheckAnswer(call.reply, context))

Shown(state, cache, outcome) == [cache |-> cache, shown |-> Append(state.shown, outcome)]
Made(kind, explanation) == [outcome |-> kind, explanation |-> explanation]
Answered(state, call, key, context) ==
  LET earlier == SelectSeq(state.cache, LAMBDA e : e.key = key) IN
  IF call.useCache /\ earlier # <<>> THEN Shown(state, state.cache, Made("cached", earlier[1].explanation))
  ELSE IF ~call.answers THEN Shown(state, state.cache, [outcome |-> "failed"])
  ELSE \* write_cached_explanation
       LET Kept(new) ==
             Shown(state, IF call.useCache THEN Append(state.cache, [key |-> key, explanation |-> new]) ELSE state.cache,
                   Made("new", new))
       IN Kept(Explained(call, context))
Sent(state, call, context) == Answered(state, call, CacheKey(call, context), context)
Asked(state, call, candidates) ==
  IF candidates = Unknown THEN Shown(state, state.cache, [outcome |-> "unknown"])
  ELSE Sent(state, call, Select(candidates, call.budget))
Call(state, call) ==
  IF call.act = "clear" THEN Shown(state, <<>>, [outcome |-> "none"])
  ELSE Asked(state, call, Candidates(call.dna, call.task, {}))
Session(calls) == FoldLeft(Call, [cache |-> <<>>, shown |-> <<>>], calls)

-----------------------------------------------------------------------------
(* What is sent keeps the order of the task and fits, and nothing that was *)
(* left out would still fit; what is said of a directory or a file is      *)
(* about it, but for the overview and the other hotspots at the end;       *)
(* nothing of the files themselves is sent without a checkout.             *)
EvidenceIsChosen(dna, task, checkout, budget) ==
  LET candidates == Candidates(dna, task, checkout)
      context == Select(candidates, budget)
      About(item) ==
        \E i \in DOMAIN item.paths :
          \/ task[1] = "module" /\ IsWithin(item.paths[i], Directory(dna, task[2]))
          \/ task[1] = "hotspot" /\ IsWithin(item.paths[i], task[2])
  IN candidates # Unknown =>
       /\ context.tokens = Sum(context.items) /\ context.tokens <= budget
       /\ Len(context.items) + context.omitted = Len(candidates)
       /\ LET Taken(item) == item \in ToSet(context.items) IN
          /\ context.items = SelectSeq(candidates, Taken)
          /\ \A i \in DOMAIN candidates : Taken(candidates[i]) \/ context.tokens + candidates[i].cost > budget
       /\ context.excerpts = \E i \in DOMAIN context.items : context.items[i].kind = "excerpt"
       /\ (checkout = {} => ~context.excerpts)
       /\ (task[1] \in {"module", "hotspot"} =>
             \A i \in DOMAIN candidates :
               \/ About(candidates[i]) \/ candidates[i].kind = "overview"
               \/ task[1] = "hotspot" /\ candidates[i].kind \in {"modules", "edges", "hotspots"})

(* What is shown as supported cites what was sent, in the order it is      *)
(* first cited; an answer is never surer than the model or than most of    *)
(* its statements, and never without a warning if one of them has no       *)
(* support or cites what was not sent. The digest that needs no model      *)
(* passes as it is: all supported, no source text in it, within its limit, *)
(* and whatever is not in it would not have fitted.                        *)
AnswerIsChecked(reply, context, limit, order) ==
  LET answer == CheckAnswer(reply, context)
      Supports(s) == {i \in DOMAIN answer.points : answer.points[i].support = s}
      text == Digest(context, limit, order)
      digest == CheckAnswer(text, context)
      used == CitedBy(digest)
      cost == DigestCost + Sum([i \in DOMAIN used |-> context.items[used[i]]])
  IN /\ ToSet(CitedBy(answer)) \subseteq DOMAIN context.items
     /\ \A i \in Supports("evidence") : answer.points[i].evidence # <<>>
     /\ \A i \in DOMAIN answer.points : Once(answer.points[i].evidence) = answer.points[i].evidence
     /\ answer.confidence <= reply.confidence \/ ~answer.structured
     /\ (answer.confidence = High => Supports("unsupported") = {})
     /\ (answer.confidence # Low => 2 * Cardinality(Supports("unsupported")) <= Len(answer.points))
     /\ (Supports("unsupported") # {} \/ answer.invalid # <<>> => answer.warned)
     /\ ToSet(answer.invalid) \cap DOMAIN context.items = {}
     /\ text # TooLong =>
          /\ \A i \in DOMAIN digest.points : digest.points[i].support = "evidence"
          /\ ~digest.warned /\ digest.confidence = text.confidence /\ Len(used) <= MaxPoints
          /\ cost <= limit /\ \A i \in DOMAIN used : context.items[used[i]].kind # "excerpt"
          /\ Len(used) < MaxPoints =>
               \A i \in DOMAIN context.items \ ToSet(used) :
                 context.items[i].kind = "excerpt" \/ cost + context.items[i].cost > limit

(* Nothing leaves this machine unless that is allowed, and a key goes only *)
(* where its name was given for, or to Anthropic's own host. A reply that  *)
(* was cut off or refused is not taken for an answer.                      *)
NothingLeavesUnasked(config, replies) ==
  LET Leaves(allow) == Build(config, allow).built /\ Build(config, allow).remote
      asked == OpenAi(replies)
      last == replies[asked.posts]
  IN /\ ~Leaves(FALSE)
     /\ \A allow \in BOOLEAN : LET provider == Build(config, allow) IN
          provider.built /\ provider.key # "none" =>
            /\ provider.key \in config.variables
            /\ \/ provider.key = config.keyName
               \/ config.provider = "anthropic" /\ config.endpoint \in {"none", "anthropic"}
     /\ (Build(config, FALSE).built => Build(config, TRUE) = Build(config, FALSE))
     /\ (asked.outcome = "text" => /\ last.status = 200 /\ ~last.blank
                                   /\ last.finish = "stop")
     /\ Anthropic(replies[1]) = "text" => replies[1].finish = "stop"

(* An explanation that is shown again is of exactly what would be sent     *)
(* now: its evidence is in today's, counted alike; it was made once, after *)
(* the cache was last cleared, and no failure is ever shown again. Its     *)
(* revision may be another one.                                            *)
CacheIsOf(calls, session) ==
  /\ \A i, j \in DOMAIN session.cache : i # j => session.cache[i].key # session.cache[j].key
  /\ \A i \in DOMAIN calls :
       LET shown == session.shown[i] IN
       /\ (shown.outcome = "cached" =>
             /\ \E now \in {Select(Candidates(calls[i].dna, calls[i].task, {}), calls[i].budget)} :
                  /\ calls[i].useCache /\ shown.explanation.sent = Len(now.items)
                  /\ shown.explanation.omitted = now.omitted /\ shown.explanation.repository = calls[i].dna.name
                  /\ ToSet(shown.explanation.evidence) \subseteq ToSet(now.items)
             /\ \E j \in 1..(i - 1) :
                  /\ session.shown[j].outcome = "new" /\ session.shown[j].explanation = shown.explanation
                  /\ calls[j].destination = calls[i].destination /\ calls[j].useCache
                  /\ \A k \in j..i : calls[k].act # "clear")
       /\ shown.outcome = "new" => calls[i].answers /\ shown.explanation.revision = calls[i].dna.revision
CacheIsOfTheSame(calls) == CacheIsOf(calls, Session(calls))

-----------------------------------------------------------------------------
(***************************************************************************)
(* repodna_ai::provider::http: Client::post sends a request again when the *)
(* provider is overloaded, after a pause that a cancellation ends. A run   *)
(* is a sequence of answers, which depends on the provider, and the time   *)
(* of the cancellation; time is counted in the ticks of the model.         *)
(***************************************************************************)
Smaller(a, b) == IF b < a THEN b ELSE a
NoHeader == -1

(* An answer: how long it took, its status and its retry-after header.     *)
Retryable(answer) == answer.status = "overloaded"
Backoff(attempt) == 2 * 2^attempt
Wait(answer, attempt) ==
  IF answer.retryAfter = NoHeader THEN Backoff(attempt)
  ELSE Smaller(answer.retryAfter, MaxRetryAfter)

(* pause: the token is looked at first, whenever the thread wakes up, and  *)
(* once more at the deadline.                                              *)
Looks(now, deadline) ==
  {Smaller(now + k * CancelPoll, deadline) : k \in 0..(deadline - now)}

Pause(now, wait, cancelAt) ==
  LET seen == {t \in Looks(now, now + wait) : cancelAt <= t}
  IN IF seen = {} THEN [elapsed |-> TRUE, at |-> now + wait]
     ELSE [elapsed |-> FALSE, at |-> CHOOSE t \in seen : \A u \in seen : t <= u]

RECURSIVE Attempt(_, _, _, _)
Attempt(answers, cancelAt, attempt, sent) ==
  LET answer == answers[attempt + 1]
      now == sent[attempt + 1] + answer.takes
      pause == Pause(now, Wait(answer, attempt), cancelAt)
      Ends(result, at) == [result |-> result, at |-> at, sent |-> sent]
  IN IF answer.status = "error" THEN Ends("error", now)
     ELSE IF ~Retryable(answer) \/ attempt = MaxRetries THEN Ends("answer", now)
     ELSE IF ~pause.elapsed THEN Ends("cancelled", pause.at)
     ELSE Attempt(answers, cancelAt, attempt + 1, Append(sent, pause.at))

Post(answers, cancelAt) == Attempt(answers, cancelAt, 0, <<0>>)

-----------------------------------------------------------------------------
(* "A cancelled request is not retried; one already sent runs until it     *)
(* answers or times out" (http.rs:201): nothing is sent again once the     *)
(* token is set, the caller gets its answer within one poll of that or of  *)
(* the answer, the provider is never asked sooner than it asked for nor    *)
(* more than MAX_RETRIES times again, and what is returned is the last     *)
(* answer, an overload only when every retry was used.                     *)
RetriesEndAndRespectCancel(answers, cancelAt) ==
  LET post == Post(answers, cancelAt)
      n == Len(post.sent)
      AnsweredAt(i) == post.sent[i] + answers[i].takes
  IN /\ n <= MaxRetries + 1
     /\ \A i \in 2..n :
          /\ cancelAt > post.sent[i]
          /\ Retryable(answers[i - 1])
          /\ post.sent[i] - AnsweredAt(i - 1) >=
               Smaller(answers[i - 1].retryAfter, MaxRetryAfter)
     /\ post.result = "cancelled" =>
          /\ cancelAt <= post.at
          /\ post.at <= AnsweredAt(n) \/ post.at < cancelAt + CancelPoll
     /\ post.result # "cancelled" => post.at = AnsweredAt(n)
     /\ post.result = "answer" /\ Retryable(answers[n]) => n = MaxRetries + 1
     /\ post.result = "error" <=> answers[n].status = "error"
=============================================================================
