----------------------------- MODULE MCServices ------------------------------
(***************************************************************************)
(* Instances of the components of which nothing is shown that takes        *)
(* fairness: those of Services, and what is asked of a model and comes     *)
(* back, what its tools make of files, and what is shown of a history.     *)
(* They share no state, so that they are checked side by side: `part` says *)
(* which of them runs, the others stay in their initial states.            *)
(***************************************************************************)
EXTENDS Services

CONSTANTS
  MaxItems, MaxPieces, Tries, MaxSaid, MaxAsked,                             \* LlmStream
  FileTexts, BlockLists, WholeTexts, MaxCalls, MaxBytes, MaxFound,           \* FileTools
  TailSize, BatchSize, MaxHistory, MaxLive,   \* HistoryWindow
  PageSize, Height, MaxLogged, MaxOpened,     \* LogConsole
  LowerOf, CodeOf, UpperCase, Letters, LockSuffix, FileTrees, TypedTexts,    \* PathMentions
  WholeTrees, SentMessages, WorkDir, OddContent, CommandNames,
  FirstAliases, IgnoreLists, MaxProcessed, MaxTargets,
  Hd, Rd, Sd, Td                              \* the instance below

VARIABLES
  style, plan, sent, parser, agg, announced, phase, tries,
  history,
  fileText, fileCalls, expected, disturbedFile, reader, pages,
  conversation, display, window, windowTurn, saidMessages, lostMessages,
  logFile, exists, position, newLines, watcher, console, logged, opened, uneven,
  indexed, mentionAsked, mentionAnswer

Llm == INSTANCE LlmStream
File == INSTANCE FileTools WITH Texts <- FileTexts, Writes <- WholeTexts, text <- fileText,
  calls <- fileCalls, disturbed <- disturbedFile, Edits <- BlockLists
Window == INSTANCE HistoryWindow WITH said <- saidMessages, lost <- lostMessages, running <-
  windowTurn, history <- conversation
Console == INSTANCE LogConsole WITH file <- logFile
Mention == INSTANCE PathMentions WITH Lower <- LowerOf, Code <- CodeOf, Uppers <- UpperCase,
  Words <- Letters, Lock <- LockSuffix, Trees <- FileTrees, Typed <- TypedTexts, Disks <-
  WholeTrees, Sent <- SentMessages, Base <- WorkDir, Content <- OddContent, Commands <-
  CommandNames, First <- FirstAliases, Rules <- IgnoreLists, Targets <- MaxTargets, MaxEntries
  <- MaxProcessed, files <- indexed, asked <- mentionAsked, answer <- mentionAnswer

ASSUME Assumptions ==
  /\ Llm!LlmAssumption
  /\ Llm!FormatAssumption
  /\ File!FileAssumption
  /\ Window!WindowAssumption
  /\ Console!LogAssumption
  /\ Mention!MentionAssumption

\* A home directory, and three directories each in the one before.
MCParent == Hd :> Top @@ Rd :> Top @@ Sd :> Rd @@ Td :> Sd

\* A block of search_replace, and two files: one with a line that comes twice, and one
\* with a line too large for a page.
Block(search, replace) == [search |-> search, replace |-> replace]
MCTexts == {<<1, 2, 1>>, <<3>>}
MCEdits ==
  { <<Block(<<1>>, <<2>>)>>,
    <<Block(<<2, 1>>, <<>>), Block(<<1>>, <<2, 1>>)>>,
    <<Block(<<2>>, <<1>>), Block(<<2>>, <<1>>)>> }
MCWrites == {<<2, 2>>}

\* Characters: "I" stands for one of upper case whose lower form is two characters.
MCCodeOf == "." :> 46 @@ "/" :> 47 @@ "A" :> 65 @@ "a" :> 97 @@ "b" :> 98 @@ "i" :> 105 @@ "I" :> 304 @@ "~" :> 775
MCLowerOf == [c \in DOMAIN MCCodeOf |-> CASE c = "A" -> <<"a">> [] c = "I" -> <<"i", "~">> [] OTHER -> <<c>>]
CharTexts(chars, n) == UNION {[1..k -> chars] : k \in 1..n}

\* Three trees, and every path of three characters by itself.
PlainFile(rel) == [rel |-> rel, dir |-> FALSE]
Folder(rel) == [rel |-> rel, dir |-> TRUE]
MCWholeTrees ==
  { << Folder(<<"a">>), PlainFile(<<"a", "/", "b">>), Folder(<<"a", "/", "A">>), PlainFile(<<".", "a">>), PlainFile(<<"b", ".", "a">>) >>,
    << PlainFile(<<"a", "b">>), Folder(<<"A">>), PlainFile(<<"A", "/", "a", "b">>), PlainFile(<<"a", ".", "b">>), PlainFile(<<"b", "a">>) >> }
IsPath(text) ==
  /\ text[1] # "/" /\ text[Len(text)] # "/"
  /\ \A i \in 1..Len(text) - 1 : ~(text[i] = "/" /\ text[i + 1] = "/")
  /\ \A i \in 1..Len(text) : text[i] = "." => (i < Len(text) /\ text[i + 1] \in {"a", "b"})
MCFileTrees == MCWholeTrees \union {<<>>} \union {<<PlainFile(rel)>> : rel \in {t \in CharTexts({"a", "A", "b", "I", "/", "."}, 3) : IsPath(t)}}
MCTypedTexts ==
  {<<"@">>, <<"a">>, <<"@", "a", " ">>, <<"a", "@", "b", "@", "a">>} \union
  {<<"@">> \o t : t \in CharTexts({"a", "A", "b", "i", "/", "."}, 3)} \union {<<"/">> \o t : t \in CharTexts({"a", "A", "b"}, 2)}
MCSentMessages == CharTexts({"@", "a", "/", "'", ".", " "}, 5)
MCOddContent == <<".", "a">> :> "binary"
MCWorkDir == << <<"b">> >>
MCLockSuffix == <<".", "b">>
MCAliases == << <<"/", "a">>, <<"/", "a", "b">>, <<"/", "b">>, <<"/", "b", "a">> >>
MCFirstAliases == << <<"/", "b", "a">>, <<"/", "a", "b">> >>
IgnoreRule(glob, path, exclude, dirOnly, anchored) ==
  [glob |-> glob, byName |-> ~path, exclude |-> exclude, dirOnly |-> dirOnly, anchored |-> anchored]
MCRule ==
  {IgnoreRule(glob, FALSE, e, d, r) : glob \in {<<"a">>, <<"a", "b">>}, e, d, r \in BOOLEAN} \union
  {IgnoreRule(<<"a", "/", "b">>, TRUE, e, d, r) : e, d, r \in BOOLEAN}
MCIgnoreLists == {<<>>} \union [1..1 -> MCRule] \union [1..2 -> MCRule]

llmVars == <<style, plan, sent, parser, agg, announced, phase, tries>>
formatVars == <<history>>
fileVars == <<fileText, fileCalls, expected, disturbedFile, reader, pages>>
windowVars == <<conversation, display, window, windowTurn, saidMessages, lostMessages>>
logVars == <<logFile, exists, position, newLines, watcher, console, logged, opened, uneven>>
mentionVars == <<indexed, mentionAsked, mentionAnswer>>
vars == <<servicesVars, llmVars, formatVars, fileVars, windowVars, logVars, mentionVars>>

Init ==
  /\ ServicesInit
  /\ Llm!Init /\ (part # "llm" => Llm!StartsEmpty)
  /\ Llm!FormatInit
  /\ File!Init /\ (part # "file" => File!StartsFirst)
  /\ Window!Init /\ (part # "window" => Window!StartsEmpty)
  /\ Console!Init
  /\ Mention!Init /\ (part # "mention" => Mention!StartsNowhere)

Next ==
  \/ /\ ServicesNext
     /\ UNCHANGED <<llmVars, formatVars, fileVars, windowVars, logVars, mentionVars>>
  \/ /\ part = "llm" /\ Llm!Next
     /\ UNCHANGED <<servicesVars, formatVars, fileVars, windowVars, logVars, mentionVars>>
  \/ /\ part = "formats" /\ Llm!FormatNext
     /\ UNCHANGED <<servicesVars, llmVars, fileVars, windowVars, logVars, mentionVars>>
  \/ /\ part = "file" /\ File!FileNext
     /\ UNCHANGED <<servicesVars, llmVars, formatVars, windowVars, logVars, mentionVars>>
  \/ /\ part = "window" /\ Window!WindowNext
     /\ UNCHANGED <<servicesVars, llmVars, formatVars, fileVars, logVars, mentionVars>>
  \/ /\ part = "console" /\ Console!LogNext
     /\ UNCHANGED <<servicesVars, llmVars, formatVars, fileVars, windowVars, mentionVars>>
  \/ /\ part = "mention" /\ Mention!MentionNext
     /\ UNCHANGED <<servicesVars, llmVars, formatVars, fileVars, windowVars, logVars>>

Spec == Init /\ [][Next]_vars

\* See StreamIsWhole in LlmStream: what the loop takes from a stream of events is the
\* answer that was sent (openai_responses.py, generic.py, types.py).
StreamIsWhole == part = "llm" => Llm!TypeOK /\ Llm!StreamIsWhole

\* See RequestsFaithful in LlmStream: a request says what the history says, in
\* the form that its service demands (anthropic.py, openai_responses.py).
RequestsFaithful == part = "formats" => Llm!FormatTypeOK /\ Llm!RequestsFaithful

\* See FilesSafe in FileTools, MentionsSafe, WindowSafe, LogSafe and MergeSafe: edits have the
\* effect that they report, the pages of a file are the file, what is offered for a path, or
\* named in a message, is what was typed, what is shown of a session is its history as far as
\* it is loaded, the debug console shows the log, and of two layers the higher one wins
\* (search_replace.py, read_file.py, completers.py, path_prompt.py, windowing/,
\* debug_console.py, merge.py).
ContentsSafe ==
  /\ part = "file" => File!TypeOK /\ File!FilesSafe
  /\ part = "mention" => Mention!TypeOK /\ Mention!MentionsSafe
  /\ part = "window" => Window!TypeOK /\ Window!WindowSafe
  /\ part = "console" => Console!TypeOK /\ Console!LogSafe
  /\ part = "merging" => Layer!MergeTypeOK /\ Layer!MergeSafe
==============================================================================
