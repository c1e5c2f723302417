---------------------------- MODULE PathMentions ----------------------------
(***************************************************************************)
(* Paths that are typed: which files the index keeps (IgnoreRules), which  *)
(* of them are offered for what stands behind an "@" (PathCompleter,       *)
(* fuzzy_match), which commands are offered for what stands behind a "/"   *)
(* (CommandCompleter), and which files a message that is sent refers to    *)
(* (build_path_prompt_payload, render_path_prompt).                        *)
(*                                                                         *)
(* These are computations without state: a step asks one of them, with the *)
(* files there are.  A text is the sequence of its characters, of which    *)
(* only the case, the code and the lower form matter; lower() may make two *)
(* characters of one.  Scores are integers, in hundredths.                 *)
(***************************************************************************)
EXTENDS Integers, Sequences, FiniteSets, TLC

CONSTANTS
  Lower,    \* what lower() makes of each character: one or two
  Code,     \* of each character
  Uppers,   \* characters of upper case
  Words,    \* letters and digits
  Lock,     \* the suffix of lock files
  Trees,    \* lists of files in the order of the index: [rel, dir]
  Typed,    \* what may stand before the cursor
  Disks,    \* those trees whose files messages may refer to
  Sent,     \* messages
  Base,     \* the working directory, as the names on the way to it
  Content,  \* of the files that are not what they seem: "binary", "large", "gone"
  Commands, \* aliases, in the order of the registry
  First,    \* of these, those that go to the front, in order
  Rules,    \* lists of ignore rules: [glob, exclude, dirOnly, byName, anchored]
  MaxEntries, \* _max_entries_to_process
  Targets   \* _target_matches

VARIABLES files, asked, answer

mentionVars == <<files, asked, answer>>

Characters == DOMAIN Code

MentionAssumption ==
  /\ Lower \in [Characters -> Seq(Characters)] /\ Code \in [Characters -> Nat]
  /\ Uppers \subseteq Characters /\ Words \subseteq Characters
  /\ Disks \subseteq Trees /\ {MaxEntries, Targets} \subseteq Nat

Nothing == [kind |-> "nothing", text |-> <<>>]
NoAnswer == [raises |-> FALSE, listed |-> <<>>, text |-> <<>>, named |-> <<>>, blocks |-> <<>>]

Init == files \in Trees /\ asked = Nothing /\ answer = NoAnswer

StartsNowhere == files = <<>>

-----------------------------------------------------------------------------
(* Texts. *)

Least(a, b) == IF a < b THEN a ELSE b
Starts(text, prefix) == Len(prefix) <= Len(text) /\ SubSeq(text, 1, Len(prefix)) = prefix
From(text, n) == SubSeq(text, n, Len(text))
PlacesOf(text, char) == {i \in DOMAIN text : text[i] = char}
Greatest(places) == CHOOSE i \in places : \A j \in places : j <= i
Smallest(places) == CHOOSE i \in places : \A j \in places : i <= j

\* str.lower
Lowered(text) ==
  LET low[n \in 0..Len(text)] == IF n = 0 THEN <<>> ELSE low[n - 1] \o Lower[text[n]]
  IN low[Len(text)]

\* str.split("/")
Split(text) ==
  LET parts[n \in 0..Len(text)] ==
        IF n = 0 THEN <<<<>>>>
        ELSE IF text[n] = "/" THEN Append(parts[n - 1], <<>>)
        ELSE [parts[n - 1] EXCEPT ![Len(parts[n - 1])] = Append(@, text[n])]
  IN parts[Len(text)]
LastOf(parts) == parts[Len(parts)]
NameOf(rel) == LastOf(Split(rel))

\* Python compares texts by code, and tuples item by item.
TextLess(s, t) ==
  \E n \in 0..Least(Len(s), Len(t)) :
    /\ \A i \in 1..n : s[i] = t[i]
    /\ n < Len(t) /\ (n = Len(s) \/ Code[s[n + 1]] < Code[t[n + 1]])
RankGreater(r, s) == \E n \in DOMAIN r : r[n] > s[n] /\ \A i \in 1..n - 1 : r[i] = s[i]

\* Path.suffix, Path.stem: a dot at either end of a name is no suffix; "." has no name.
SuffixOf(name) ==
  LET dots == PlacesOf(name, ".")
  IN IF dots = {} THEN <<>>
     ELSE IF Greatest(dots) \in {1, Len(name)} THEN <<>> ELSE From(name, Greatest(dots))
StemOf(name) == IF name = <<".">> THEN <<>> ELSE SubSeq(name, 1, Len(name) - Len(SuffixOf(name)))

-----------------------------------------------------------------------------
(* fuzzy.py *)

Separators == {"/", "-", "_", "."}

\* text_original[i], where lower() has made the text longer, may not be there.
Overruns(low, text, i) == i > 1 /\ low[i - 1] \notin Separators /\ i > Len(text)
AfterSeparator(low, i) == i = 1 \/ low[i - 1] \in Separators
Humps(text, i) == text[i] \in Uppers /\ (i = 1 \/ text[i - 1] \notin Uppers)
Boundary(low, text, i) == AfterSeparator(low, i) \/ Humps(text, i)

\* What a matcher makes of the places matched so far at the next character: by boundaries
\* a place begins a word or follows the last one, in a run a character that breaks it
\* gives up all and does not begin another, and else any place will do.
Step(way, wanted, low, text, at, i) ==
  IF /\ low[i] = wanted[Len(at) + 1]
     /\ (way = "boundary" /\ at # <<>>) => at[Len(at)] = i - 1 \/ Boundary(low, text, i)
  THEN Append(at, i)
  ELSE IF way = "run" THEN <<>> ELSE at

\* The places after each character, until all of the pattern is spelt.
Scan(way, wanted, low, text) ==
  LET at[n \in 0..Len(low)] ==
        IF n = 0 THEN <<>>
        ELSE IF Len(at[n - 1]) = Len(wanted) THEN at[n - 1]
        ELSE IF way = "boundary" /\ Overruns(low, text, n) THEN at[n - 1]
        ELSE Step(way, wanted, low, text, at[n - 1], n)
  IN at

\* _calculate_score
Score(pattern, low, text, at) ==
  LET pairs == 1..Len(at) - 1
      next == {i \in pairs : at[i + 1] = at[i] + 1}
      gaps == at[Len(at)] - at[1] + 1 - Len(at)
      after == {i \in DOMAIN at : AfterSeparator(low, at[i])}
      humps == {i \in DOMAIN at \ after : Humps(text, at[i])}
      same == {i \in DOMAIN at : i <= Len(pattern) /\ at[i] <= Len(text) /\ pattern[i] = text[at[i]]}
      score == 1000 + (IF at[1] = 1 THEN 500 ELSE -20 * (at[1] - 1)) + 100 * Cardinality(next)
               + 50 * Cardinality(after) + 30 * Cardinality(humps) + 20 * Cardinality(same) - 15 * gaps
  IN IF score < 0 THEN 0 ELSE score

Fails == [matched |-> FALSE, score |-> 0, at |-> <<>>, raises |-> FALSE]

\* A matcher whose scan has found all of the pattern, and the factor of its score.
Found(pattern, wanted, low, text, at, factor) ==
  IF Len(at) < Len(wanted) THEN Fails
  ELSE IF \E i \in DOMAIN at : Overruns(low, text, at[i]) THEN [Fails EXCEPT !.raises = TRUE]
  ELSE [matched |-> TRUE, score |-> factor * Score(pattern, low, text, at), at |-> at, raises |-> FALSE]

\* _try_word_boundary_match, which looks at every character until the pattern is spelt.
ByBoundary(pattern, wanted, low, text) ==
  LET at == Scan("boundary", wanted, low, text)
  IN IF \E i \in DOMAIN low : Overruns(low, text, i) /\ Len(at[i - 1]) < Len(wanted)
     THEN [Fails EXCEPT !.raises = TRUE]
     ELSE Found(pattern, wanted, low, text, at[Len(low)], 18)

\* _try_consecutive_match
InRun(pattern, wanted, low, text) ==
  Found(pattern, wanted, low, text, Scan("run", wanted, low, text)[Len(low)], 13)

\* Mutant: what was matched before a gap is forgotten.
Scattered(pattern, wanted, low, text) == InRun(pattern, wanted, low, text)

\* _try_subsequence_match
InOrder(pattern, wanted, low, text) ==
  Found(pattern, wanted, low, text, Scan("order", wanted, low, text)[Len(low)], 10)

\* _find_best_match: the first of the best.
Best(pattern, wanted, low, text) ==
  LET tried == << ByBoundary(pattern, wanted, low, text), InRun(pattern, wanted, low, text),
                  InOrder(pattern, wanted, low, text) >>
      matched == {i \in 1..3 : tried[i].matched}
      best == {i \in matched : \A j \in matched : tried[j].score <= tried[i].score}
  IN IF \E i \in 1..3 : tried[i].raises THEN [Fails EXCEPT !.raises = TRUE]
     ELSE IF matched = {} THEN Fails ELSE tried[Smallest(best)]

FuzzyMatch(pattern, text) ==
  LET wanted == Lowered(pattern)
      low == Lowered(text)
  IN IF pattern = <<>> THEN [Fails EXCEPT !.matched = TRUE]
     ELSE IF Len(wanted) > Len(low) THEN Fails
     ELSE IF Starts(low, wanted) THEN Found(pattern, wanted, low, text, [i \in DOMAIN wanted |-> i], 20)
     ELSE Best(pattern, wanted, low, text)

-----------------------------------------------------------------------------
(* completers.py *)

\* _extract_partial: what stands behind the last "@", if no space does.
Partial(text) ==
  LET at == PlacesOf(text, "@")
  IN IF at = {} THEN [some |-> FALSE, rest |-> <<>>]
     ELSE LET rest == From(text, Greatest(at) + 1)
          IN [some |-> PlacesOf(rest, " ") = {}, rest |-> rest]

\* build_ascii_mask, of the lower form; a query with other characters has none.
MaskOf(text) == {i \in {Code[text[n]] : n \in DOMAIN text} : i < 128}
HasMask(query) == \A i \in DOMAIN query : Code[query[i]] < 128

\* _build_search_context
Context(partial) ==
  [suffix |-> LastOf(Split(partial)),
   pattern |-> IF partial # <<>> /\ partial[Len(partial)] # "/" THEN partial ELSE <<>>,
   under |-> IF partial # <<>> /\ partial[Len(partial)] = "/" THEN partial ELSE <<>>,
   masked |-> HasMask(partial),
   mask |-> MaskOf(Lowered(partial))]

\* rstrip("/")
Bare(prefix) ==
  LET kept == {i \in DOMAIN prefix : prefix[i] # "/"}
  IN IF kept = {} THEN <<>> ELSE SubSeq(prefix, 1, Greatest(kept))

\* _is_immediate_child_of_prefix: only the first place counts, and only behind a "/".
ChildOf(path, prefix) ==
  LET dir == Append(Bare(prefix), "/")
      places == {i \in 1..Len(path) : Starts(From(path, i), dir)}
      i == Smallest(places)
      after == From(path, i + Len(dir))
  IN /\ places # {} /\ (i = 1 \/ path[i - 1] = "/")
     /\ after # <<>> /\ PlacesOf(after, "/") = {}

\* _matches_prefix
InPlace(entry, context) ==
  IF context.under # <<>>
  THEN /\ ~(entry.dir /\ entry.rel = Bare(context.under))
       /\ ChildOf(entry.rel, context.under)
  ELSE context.pattern = <<>> => PlacesOf(entry.rel, "/") = {}

\* _is_visible
Visible(entry, context) == Starts(NameOf(entry.rel), <<".">>) => Starts(context.suffix, <<".">>)

\* Mutant: the mask of what is typed is compared in its own case.
PossibleAsTyped(entry, context) ==
  context.masked => MaskOf(context.pattern) \subseteq MaskOf(Lowered(entry.rel))

\* _can_possibly_fuzzy_match
Possible(entry, context) == context.masked => context.mask \subseteq MaskOf(Lowered(entry.rel))

Bit(truth) == IF truth THEN 1 ELSE 0

\* _build_match_rank, in the order of MatchRank
Rank(entry, context, score) ==
  LET query == Lowered(context.suffix)
      name == Lowered(NameOf(entry.rel))
      stem == Lowered(StemOf(NameOf(entry.rel)))
      extension == Lowered(SuffixOf(NameOf(entry.rel)))
      dotted == PlacesOf(query, ".") # {}
      wanted == Lowered(context.pattern)
      depth == Cardinality(PlacesOf(entry.rel, "/"))
  IN IF query = <<>> THEN <<0, 0, 0, 0, 0, 0, 0, 0, score, -depth>>
     ELSE << Bit(entry.dir /\ Lowered(entry.rel) = wanted),
             Bit(PlacesOf(context.pattern, "/") # {} /\ ChildOf(Lowered(entry.rel), wanted)),
             Bit(dotted /\ name = query),
             Bit(stem = query /\ extension # Lock),
             Bit(stem = query \/ (dotted /\ stem = StemOf(query))),
             Bit(Starts(stem, IF dotted THEN StemOf(query) ELSE query)),
             Bit(Starts(name, query)),
             Bit(SuffixOf(query) # <<>> /\ extension = SuffixOf(query)),
             score, -depth >>

\* _format_label, without the "@" that all have
Label(entry) == IF entry.dir THEN Append(entry.rel, "/") ELSE entry.rel

\* The two stable sorts of _score_matches: by rank, and by label if ranks are equal.
Better(a, b) == RankGreater(a.rank, b.rank) \/ (a.rank = b.rank /\ TextLess(a.label, b.label))

\* _score_matches, _collect_matches.  Without a pattern the first entries are taken.
Completed(text) ==
  LET partial == Partial(text)
      context == Context(partial.rest)
      considered == SubSeq(files, 1, Least(MaxEntries, Len(files)))
      Passes(entry) == InPlace(entry, context) /\ Visible(entry, context)
                       /\ (context.pattern # <<>> => Possible(entry, context))
      passing == SelectSeq(considered, Passes)
      scored == [i \in DOMAIN passing |->
                   LET match == FuzzyMatch(context.pattern, passing[i].rel)
                   IN [entry |-> passing[i], label |-> Label(passing[i]), match |-> match,
                       rank |-> IF match.matched THEN Rank(passing[i], context, match.score) ELSE <<>>]]
      Matched(candidate) == candidate.match.matched
      matched == SelectSeq(scored, Matched)
      taken == IF context.pattern = <<>> THEN SubSeq(matched, 1, Least(Targets, Len(matched))) ELSE matched
      sorted == SortSeq(taken, Better)
  IN IF ~partial.some THEN NoAnswer
     ELSE IF \E i \in DOMAIN scored : scored[i].match.raises THEN [NoAnswer EXCEPT !.raises = TRUE]
     ELSE [NoAnswer EXCEPT !.listed = [i \in 1..Least(Targets, Len(sorted)) |-> sorted[i].label]]

Complete ==
  \E text \in Typed :
    /\ asked' = [kind |-> "path", text |-> text] /\ answer' = Completed(text)
    /\ UNCHANGED files

\* CommandCompleter.get_completion_items: the aliases that begin so, some to the front.
Offered(text) ==
  LET Begins(alias) == Starts(Lowered(alias), Lowered(text))
      IsFirst(alias) == \E i \in DOMAIN First : First[i] = alias
      IsOther(alias) == ~IsFirst(alias)
      items == SelectSeq(Commands, Begins)
      Present(alias) == \E i \in DOMAIN items : items[i] = alias
  IN IF ~Starts(text, <<"/">>) THEN NoAnswer
     ELSE [NoAnswer EXCEPT !.listed = SelectSeq(First, Present) \o SelectSeq(items, IsOther)]

CompleteCommand ==
  \E text \in Typed :
    /\ files = <<>>
    /\ asked' = [kind |-> "command", text |-> text] /\ answer' = Offered(text)
    /\ UNCHANGED files

-----------------------------------------------------------------------------
(* path_prompt.py *)

\* Mutant: any "@" may begin a path.
AnchorAnywhere(message, i) == message[i] = "@"

\* _is_path_anchor: an "@" that no word runs into, as in an address.
Anchor(message, i) == message[i] = "@" /\ (i = 1 \/ message[i - 1] \notin Words)

\* _extract_candidate: quoted, or as far as characters of paths go; and where it ends.
Candidate(message, start) ==
  LET text == From(message, start)
      quote == IF text = <<>> THEN {} ELSE {text[1]} \intersect {"'"}
      closing == {i \in PlacesOf(text, "'") : i > 1}
      other == {i \in DOMAIN text : text[i] \notin Words \union {".", "/"}}
      length == IF other = {} THEN Len(text) ELSE Smallest(other) - 1
  IN IF quote = {} THEN [path |-> SubSeq(text, 1, length), next |-> start + length]
     ELSE IF closing = {} THEN [path |-> <<>>, next |-> start]
     ELSE [path |-> SubSeq(text, 2, Smallest(closing) - 1), next |-> start + Smallest(closing)]

\* Path.resolve, as the names on the way from the root
Resolved(path) ==
  LET names == Split(path)
      at[n \in 0..Len(names)] ==
        IF n = 0 THEN IF path[1] = "/" THEN <<>> ELSE Base
        ELSE IF names[n] \in {<<>>, <<".">>} THEN at[n - 1]
        ELSE IF names[n] = <<".", ".">> THEN SubSeq(at[n - 1], 1, Len(at[n - 1]) - 1)
        ELSE Append(at[n - 1], names[n])
  IN at[Len(names)]

Entry(place) == {i \in DOMAIN files : Base \o Split(files[i].rel) = place}
Exists(place) == Starts(Base, place) \/ Entry(place) # {}
IsFolder(place) == Starts(Base, place) \/ \E i \in Entry(place) : files[i].dir

\* build_path_prompt_payload, from the i-th character on: the text without what marks a
\* path that exists, and these paths (_to_resource).
Payload(message) ==
  LET at[i \in 1..Len(message) + 1] ==
        IF i > Len(message) THEN [text |-> <<>>, named |-> <<>>]
        ELSE LET candidate == Candidate(message, i + 1)
             IN IF Anchor(message, i) /\ candidate.path # <<>> /\ Exists(Resolved(candidate.path))
                THEN [text |-> candidate.path \o at[candidate.next].text,
                      named |-> <<Resolved(candidate.path)>> \o at[candidate.next].named]
                ELSE [text |-> <<message[i]>> \o at[i + 1].text, named |-> at[i + 1].named]
  IN at[1]

\* _dedupe_resources
Unique(places) ==
  LET seen[n \in 0..Len(places)] ==
        IF n = 0 THEN <<>>
        ELSE IF \E i \in DOMAIN seen[n - 1] : seen[n - 1][i] = places[n] THEN seen[n - 1]
        ELSE Append(seen[n - 1], places[n])
  IN seen[Len(places)]

\* _try_embed_text_resource: neither a file that is gone or too large, nor one that is
\* probably not text.
Embeds(place) ==
  ~IsFolder(place) /\ \A i \in Entry(place) : files[i].rel \notin DOMAIN Content

\* render_path_prompt: the text, and behind it a block for each path.
Blocks(payload) ==
  LET places == Unique(payload.named)
  IN [i \in DOMAIN places |-> [place |-> places[i], whole |-> Embeds(places[i])]]

Send ==
  \E message \in Sent :
    /\ files \in Disks
    /\ asked' = [kind |-> "message", text |-> message]
    /\ LET payload == Payload(message)
       IN answer' = [NoAnswer EXCEPT !.text = payload.text, !.named = payload.named,
                                     !.blocks = Blocks(payload)]
    /\ UNCHANGED files

-----------------------------------------------------------------------------
(* ignore_rules.py.  A glob is a literal name or path. *)

\* _matches
Matches(rule, entry) ==
  /\ rule.byName /\ rule.anchored => PlacesOf(entry.rel, "/") = {}
  /\ rule.glob = IF rule.byName THEN NameOf(entry.rel) ELSE entry.rel
  /\ rule.dirOnly => entry.dir

\* Mutant: a rule decides as soon as it matches.
IgnoredAtOnce(rules, entry) ==
  LET matching == {i \in DOMAIN rules : Matches(rules[i], entry)}
  IN matching # {} /\ rules[Smallest(matching)].exclude

\* should_ignore: the last rule that matches decides.
Ignored(rules, entry) ==
  LET matching == {i \in DOMAIN rules : Matches(rules[i], entry)}
  IN matching # {} /\ rules[Greatest(matching)].exclude

Above(entry) == {[rel |-> SubSeq(entry.rel, 1, i - 1), dir |-> TRUE] : i \in PlacesOf(entry.rel, "/")}

\* _walk_directory does not enter what is ignored; apply_changes looks at the path alone.
Walked(rules) == {i \in DOMAIN files : \A entry \in Above(files[i]) \union {files[i]} : ~Ignored(rules, entry)}
Reported(rules) == {i \in DOMAIN files : ~Ignored(rules, files[i])}
Labels(kept) == [i \in DOMAIN files |-> IF i \in kept THEN Label(files[i]) ELSE <<>>]

Index ==
  \E rules \in Rules :
    /\ files \in Disks
    /\ asked' = [kind |-> "index", text |-> rules]
    /\ answer' = [NoAnswer EXCEPT !.listed = Labels(Walked(rules)), !.named = Labels(Reported(rules))]
    /\ UNCHANGED files

MentionNext == asked = Nothing /\ (Complete \/ CompleteCommand \/ Send \/ Index)

Spec == Init /\ [][MentionNext]_mentionVars

-----------------------------------------------------------------------------
(* Properties. *)

TypeOK ==
  /\ files \in Trees /\ asked.kind \in {"nothing", "path", "command", "message", "index"}
  /\ answer.raises \in BOOLEAN

\* The characters of one text are in the other, in order.
Spelt(pattern, text) ==
  LET left[n \in 0..Len(text)] ==
        IF n = 0 THEN pattern
        ELSE IF left[n - 1] # <<>> /\ Head(left[n - 1]) = text[n] THEN Tail(left[n - 1]) ELSE left[n - 1]
  IN left[Len(text)] = <<>>

Fragment == Partial(asked.text).rest
Listed(i) == \E n \in DOMAIN answer.listed : answer.listed[n] = Label(files[i])

\* What is offered for a pattern are the files that spell it, whatever their case, and
\* none that is hidden unless a dot was typed; all of them, while there is room; those
\* directly in a directory, if that is what was typed.  Only a name whose lower form is
\* longer than itself makes the search fail.
OffersWhatMatches ==
  asked.kind = "path" /\ ~answer.raises /\ Partial(asked.text).some =>
    LET pattern == Lowered(Fragment)
        folder == Fragment = <<>> \/ Fragment[Len(Fragment)] = "/"
        Fits(i) ==
          /\ IF Fragment = <<>> THEN Len(Split(files[i].rel)) = 1
             ELSE IF folder THEN Label(files[i]) # Fragment /\ ChildOf(files[i].rel, Fragment)
             ELSE Spelt(pattern, Lowered(files[i].rel))
          /\ NameOf(files[i].rel)[1] = "." => LastOf(Split(Fragment)) # <<>> /\ LastOf(Split(Fragment))[1] = "."
        fitting == {i \in 1..Least(MaxEntries, Len(files)) : Fits(i)}
    IN /\ Len(answer.listed) = Least(Targets, Cardinality(fitting))
       /\ \A n \in DOMAIN answer.listed :
            /\ \E i \in fitting : answer.listed[n] = Label(files[i])
            /\ \A m \in DOMAIN answer.listed : answer.listed[n] = answer.listed[m] => n = m

\* A directory that is spelt out, but for its case, is offered before all else, and so
\* that what is in it comes next, before what merely has the letters.
OffersDirectoryFirst ==
  asked.kind = "path" /\ answer.listed # <<>> =>
    \A i \in 1..Least(MaxEntries, Len(files)) :
      /\ (files[i].dir /\ Lowered(files[i].rel) = Lowered(Fragment) /\ Visible(files[i], Context(Fragment))) =>
           LET first == {j \in DOMAIN files : Label(files[j]) = answer.listed[1]}
           IN \A j \in first : files[j].dir /\ Lowered(files[j].rel) = Lowered(Fragment)

RaisesOnlyOnLongLower ==
  answer.raises => \E i \in DOMAIN files : Len(Lowered(files[i].rel)) > Len(files[i].rel)

\* A message loses nothing but the marks and quotes of the paths that it names; each of
\* these exists, and is given once, with its text only if it is a file of text.
KeepsTheMessage ==
  asked.kind = "message" =>
    LET Letter(char) == char \notin {"@", "'"}
    IN /\ SelectSeq(answer.text, Letter) = SelectSeq(asked.text, Letter)
       /\ answer.named = <<>> <=> answer.text = asked.text
       /\ Spelt(answer.text, asked.text)

NamesWhatExists ==
  asked.kind = "message" =>
    /\ \A n \in DOMAIN answer.named : Exists(answer.named[n])
    /\ {answer.blocks[n].place : n \in DOMAIN answer.blocks} = {answer.named[n] : n \in DOMAIN answer.named}
    /\ \A n, m \in DOMAIN answer.blocks : answer.blocks[n].place = answer.blocks[m].place => n = m
    /\ \A n \in DOMAIN answer.blocks :
         answer.blocks[n].whole =>
           \E i \in DOMAIN files : /\ answer.blocks[n].place = Base \o Split(files[i].rel)
                                   /\ ~files[i].dir /\ files[i].rel \notin DOMAIN Content

\* An address is not a path: an "@" with a word before it names nothing.
NamesNoAddress ==
  (asked.kind = "message" /\ answer.named # <<>>) =>
    \E i \in DOMAIN asked.text : asked.text[i] = "@" /\ (i = 1 \/ asked.text[i - 1] \notin Words)

\* A change keeps what a walk keeps, and more only below a directory that is ignored; a
\* file is kept by a walk only together with the directories above it.
IndexesAlike ==
  asked.kind = "index" =>
    \A i \in DOMAIN files :
      /\ answer.listed[i] # <<>> => answer.named[i] = answer.listed[i]
      /\ (answer.named[i] # <<>> /\ answer.listed[i] = <<>>) =>
           \E entry \in Above(files[i]) : Ignored(asked.text, entry)
      /\ answer.listed[i] # <<>> =>
           \A j \in DOMAIN files : [files[j] EXCEPT !.dir = TRUE] \in Above(files[i]) => answer.listed[j] # <<>>

\* A rule that takes back an earlier one does, wherever it stands behind it.
LastRuleDecides ==
  asked.kind = "index" =>
    \A i \in DOMAIN files, r \in DOMAIN asked.text :
      (~asked.text[r].exclude /\ Matches(asked.text[r], files[i])
         /\ \A q \in DOMAIN asked.text : q > r => ~Matches(asked.text[q], files[i])) =>
        answer.named[i] # <<>>

\* Commands that begin with what was typed are all offered, once each.
OffersCommands ==
  (asked.kind = "command" /\ answer.listed # <<>>) =>
    \A c \in DOMAIN Commands :
      Cardinality({n \in DOMAIN answer.listed : answer.listed[n] = Commands[c]}) =
        Bit(Starts(Lowered(Commands[c]), Lowered(asked.text)))

MentionsSafe ==
  /\ OffersWhatMatches /\ OffersDirectoryFirst /\ RaisesOnlyOnLongLower
  /\ KeepsTheMessage /\ NamesWhatExists /\ NamesNoAddress
  /\ IndexesAlike /\ LastRuleDecides /\ OffersCommands
=============================================================================
