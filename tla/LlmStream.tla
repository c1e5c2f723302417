----------------------------- MODULE LlmStream -----------------------------
(***************************************************************************)
(* What is asked of a model and what comes back.                           *)
(*                                                                         *)
(* The answer: the adapters turn the events of three styles of API into    *)
(* chunks (GenericBackend, MistralBackend), and the agent loop shows the   *)
(* chunks and adds them up (_chat_streaming).  Abstracted: the answer is a *)
(* plan, a sequence of items with numbered pieces, which the server        *)
(* streams; names, ids and usage of tokens are left out.  A call's id is   *)
(* the position of its item.                                               *)
(*                                                                         *)
(* The requests: what the backends make of a conversation, content blocks  *)
(* (AnthropicMapper), input items (OpenAIResponsesAdapter), and chat       *)
(* messages (OpenAIAdapter, ReasoningAdapter, MistralMapper).  Abstracted: *)
(* what is said is the number of the message that says it, a call is its   *)
(* message and its place in it.  The system prompt, names and arguments    *)
(* are left out, and so are options of the request.                        *)
(***************************************************************************)
EXTENDS Integers, Sequences, FiniteSets, SequencesExt

CONSTANTS
  MaxItems,  \* bound: items of an answer
  MaxPieces, \* bound: pieces of an item
  Tries,     \* tries of async_generator_retry
  MaxSaid,   \* bound: messages of the conversation
  MaxAsked   \* bound: calls of an answer

FormatAssumption == MaxSaid \in Nat /\ MaxAsked \in Nat
LlmAssumption == MaxItems \in Nat /\ MaxPieces \in Nat /\ Tries \in Nat \ {0}

VARIABLES
  style,     \* api_style: content blocks, deltas, or output items
  plan,      \* the answer
  sent,      \* sent[i]: what the server has sent of item i
  parser,    \* _tool_call_states and _commentary_indices
  agg,       \* chunk_agg: the sum of the chunks
  announced, \* emitted_tool_call_ids, as the events that were shown
  phase,     \* where the request is
  tries,     \* attempts so far
  history    \* messages without the system message

llmVars == <<style, plan, sent, parser, agg, announced, phase, tries>>

Types == {"text", "thinking", "commentary", "call"}
Styles == {"blocks", "deltas", "responses"}
Items == [type : Types, size : 0..MaxPieces]
Plans == {p \in UNION {[1..n -> Items] : n \in 1..MaxItems} :
            \A i \in DOMAIN p : p[i].type = "text" => p[i].size > 0}
Body(i) == [k \in 1..plan[i].size |-> <<i, k>>]
Calls(p) == {i \in DOMAIN p : p[i].type = "call"}

NoState == [args |-> <<>>, emitted |-> FALSE]
Empty == [content |-> <<>>, reasoning |-> <<>>, calls |-> <<>>]

Init ==
  /\ style \in Styles
  /\ plan \in Plans
  /\ style # "responses" => \A i \in DOMAIN plan : plan[i].type # "commentary"
  /\ sent = [i \in DOMAIN plan |-> [added |-> FALSE, n |-> 0, done |-> FALSE]]
  /\ parser = [commentary |-> {}, states |-> [i \in DOMAIN plan |-> NoState]]
  /\ agg = Empty /\ announced = <<>>
  /\ phase = "try" /\ tries = 0

\* What an instance that does not run begins with.
StartsEmpty == style = "deltas" /\ plan = <<[type |-> "call", size |-> 0]>>

TypeOK ==
  /\ style \in Styles /\ plan \in Plans
  /\ sent \in [DOMAIN plan -> [added : BOOLEAN, n : 0..MaxPieces, done : BOOLEAN]]
  /\ parser.commentary \subseteq DOMAIN plan
  /\ \A c \in ToSet(agg.calls) : c.index \in DOMAIN plan
  /\ ToSet(announced) \subseteq DOMAIN plan
  /\ phase \in {"try", "stream", "ended", "failed"} /\ tries \in 0..Tries

-----------------------------------------------------------------------------
(* Chunks. *)

TextChunk(piece) == [Empty EXCEPT !.content = <<piece>>]
ReasoningChunk(piece) == [Empty EXCEPT !.reasoning = <<piece>>]
CallChunk(i, args) == [Empty EXCEPT !.calls = <<[index |-> i, args |-> args]>>]

\* The calls of LLMMessage.__add__: by index, in the order of their first chunks.
PlusCall(calls, c) ==
  IF \E k \in DOMAIN calls : calls[k].index = c.index
  THEN [k \in DOMAIN calls |->
          IF calls[k].index = c.index THEN [calls[k] EXCEPT !.args = @ \o c.args] ELSE calls[k]]
  ELSE Append(calls, c)

\* LLMChunk.__add__.
Plus(a, c) ==
  [content |-> a.content \o c.content, reasoning |-> a.reasoning \o c.reasoning,
   calls |-> FoldLeft(PlusCall, a.calls, c.calls)]

\* _build_tool_call_events: a call is announced with the first chunk that names it.
Announce(c) ==
  announced \o SelectSeq([k \in DOMAIN c.calls |-> c.calls[k].index],
                         LAMBDA i : i \notin ToSet(announced))

\* A chunk is shown and added.
Take(c) == agg' = Plus(agg, c) /\ announced' = Announce(c)

-----------------------------------------------------------------------------
(* Requests. *)

\* _make_streaming_request: a status that is worth another try is seen before
\* the first event.
Refused ==
  /\ phase = "try"
  /\ tries' = tries + 1
  /\ phase' = IF tries + 1 < Tries THEN "try" ELSE "failed"
  /\ UNCHANGED <<style, plan, sent, parser, agg, announced>>

Opened ==
  /\ phase = "try"
  /\ phase' = "stream"
  /\ UNCHANGED <<style, plan, sent, parser, agg, announced, tries>>

\* The connection is lost, the server reports an error, or the turn is cancelled:
\* nothing of the answer is kept.
Breaks ==
  /\ phase = "stream"
  /\ phase' = "failed"
  /\ UNCHANGED <<style, plan, sent, parser, agg, announced, tries>>

\* The end of the stream; the whole plan was sent.
Ends ==
  /\ phase = "stream" /\ \A i \in DOMAIN sent : sent[i].done
  /\ phase' = "ended"
  /\ UNCHANGED <<style, plan, sent, parser, agg, announced, tries>>

-----------------------------------------------------------------------------
(* Content blocks: AnthropicAdapter. *)

Current == CHOOSE i \in DOMAIN sent : ~sent[i].done /\ \A j \in 1..i-1 : sent[j].done
InOrder == phase = "stream" /\ \E i \in DOMAIN sent : ~sent[i].done

\* _parse_content_block_start.
BlockStart ==
  LET i == Current IN
  /\ style = "blocks" /\ InOrder /\ ~sent[i].added
  /\ sent' = [sent EXCEPT ![i].added = TRUE]
  /\ Take(IF plan[i].type = "call" THEN CallChunk(i, <<>>) ELSE Empty)
  /\ UNCHANGED <<style, plan, parser, phase, tries>>

\* _parse_content_block_delta.
BlockDelta ==
  LET i == Current  piece == <<i, sent[i].n + 1>> IN
  /\ style = "blocks" /\ InOrder /\ sent[i].added /\ sent[i].n < plan[i].size
  /\ sent' = [sent EXCEPT ![i].n = @ + 1]
  /\ Take(CASE plan[i].type = "text" -> TextChunk(piece)
            [] plan[i].type = "thinking" -> ReasoningChunk(piece)
            [] plan[i].type = "call" -> CallChunk(i, <<piece>>))
  /\ UNCHANGED <<style, plan, parser, phase, tries>>

\* _parse_content_block_stop.
BlockStop ==
  LET i == Current IN
  /\ style = "blocks" /\ InOrder /\ sent[i].added /\ sent[i].n = plan[i].size
  /\ sent' = [sent EXCEPT ![i].done = TRUE]
  /\ Take(Empty)
  /\ UNCHANGED <<style, plan, parser, phase, tries>>

-----------------------------------------------------------------------------
(* Deltas: OpenAIAdapter, ReasoningAdapter, MistralMapper. *)

\* parse_response: a piece of one item, or a call with its first piece.
Delta ==
  LET i == Current
      n == IF sent[i].n < plan[i].size THEN sent[i].n + 1 ELSE sent[i].n
      pieces == SubSeq(Body(i), sent[i].n + 1, n)
  IN  /\ style = "deltas" /\ InOrder
      /\ sent' = [sent EXCEPT ![i] = [added |-> TRUE, n |-> n, done |-> n = plan[i].size]]
      /\ Take(CASE plan[i].type = "call" -> CallChunk(i, pieces)
                [] plan[i].type = "text" -> [Empty EXCEPT !.content = pieces]
                [] OTHER -> [Empty EXCEPT !.reasoning = pieces])
      /\ UNCHANGED <<style, plan, parser, phase, tries>>

-----------------------------------------------------------------------------
(* Output items: _OpenAIResponsesStreamParser.  Items may overlap. *)

Responding(i) == style = "responses" /\ phase = "stream" /\ ~sent[i].done

\* _on_output_item_added: a call is shown without arguments.
ItemAdded(i) ==
  /\ Responding(i) /\ ~sent[i].added /\ \A j \in 1..i-1 : sent[j].added
  /\ sent' = [sent EXCEPT ![i].added = TRUE]
  /\ parser' = IF plan[i].type = "commentary"
               THEN [parser EXCEPT !.commentary = @ \union {i}] ELSE parser
  /\ Take(IF plan[i].type = "call" THEN CallChunk(i, <<>>) ELSE Empty)
  /\ UNCHANGED <<style, plan, phase, tries>>

\* _on_text_delta, _on_reasoning_delta: a commentary is reasoning.
ItemDelta(i) ==
  LET piece == <<i, sent[i].n + 1>> IN
  /\ Responding(i) /\ sent[i].added /\ sent[i].n < plan[i].size /\ plan[i].type # "call"
  /\ sent' = [sent EXCEPT ![i].n = @ + 1]
  /\ Take(IF plan[i].type = "thinking" \/ i \in parser.commentary
          THEN ReasoningChunk(piece) ELSE TextChunk(piece))
  /\ UNCHANGED <<style, plan, parser, phase, tries>>

\* _on_tool_call_delta: arguments are kept back.
ArgumentsDelta(i) ==
  /\ Responding(i) /\ sent[i].added /\ sent[i].n < plan[i].size /\ plan[i].type = "call"
  /\ sent' = [sent EXCEPT ![i].n = @ + 1]
  /\ parser' = [parser EXCEPT !.states[i].args = Append(@, <<i, sent[i].n + 1>>)]
  /\ Take(Empty)
  /\ UNCHANGED <<style, plan, phase, tries>>

\* Mutant of Finalized: every event that has the arguments shows them.
FinalizedAgain(i, args) == IF args # <<>> THEN CallChunk(i, args) ELSE Empty

\* _finalize_tool_call: the whole arguments, once.
Finalized(i, args) ==
  IF args # <<>> /\ ~parser.states[i].emitted THEN CallChunk(i, args) ELSE Empty

Finalize(i, args) ==
  /\ parser' = [parser EXCEPT !.states[i] = [args |-> args, emitted |-> @.emitted \/ args # <<>>]]
  /\ Take(Finalized(i, args))

\* _on_tool_call_done.
ArgumentsDone(i) ==
  /\ Responding(i) /\ sent[i].added /\ plan[i].type = "call"
  /\ Finalize(i, Body(i))
  /\ sent' = [sent EXCEPT ![i].n = plan[i].size]
  /\ UNCHANGED <<style, plan, phase, tries>>

\* _on_output_item_done: the item may bring its arguments or leave them out, if
\* they were sent before.
ItemDone(i) ==
  /\ Responding(i) /\ sent[i].added
  /\ IF plan[i].type # "call"
       THEN sent[i].n = plan[i].size /\ Take(Empty) /\ UNCHANGED parser
       ELSE \/ Finalize(i, Body(i))
            \/ sent[i].n = plan[i].size /\ Finalize(i, parser.states[i].args)
  /\ sent' = [sent EXCEPT ![i].done = TRUE]
  /\ UNCHANGED <<style, plan, phase, tries>>

\* response.incomplete: what is missing is not sent any more.
Incomplete ==
  /\ phase = "stream" /\ style = "responses" /\ \E i \in DOMAIN sent : ~sent[i].done
  /\ parser' = [commentary |-> {}, states |-> [i \in DOMAIN plan |-> NoState]]
  /\ phase' = "ended"
  /\ UNCHANGED <<style, plan, sent, agg, announced, tries>>

Next ==
  \/ Refused \/ Opened \/ Breaks \/ Ends
  \/ BlockStart \/ BlockDelta \/ BlockStop \/ Delta \/ Incomplete
  \/ \E i \in DOMAIN plan :
       ItemAdded(i) \/ ItemDelta(i) \/ ArgumentsDelta(i) \/ ArgumentsDone(i) \/ ItemDone(i)

-----------------------------------------------------------------------------
(* Properties. *)

\* parse_response of the answer as a whole (AnthropicMapper, _parse_output_items).
BodiesOf(types) ==
  FoldLeft(LAMBDA acc, i : IF plan[i].type \in types THEN acc \o Body(i) ELSE acc,
           <<>>, [i \in DOMAIN plan |-> i])
Whole ==
  [content |-> BodiesOf({"text"}), reasoning |-> BodiesOf({"thinking", "commentary"}),
   calls |-> SelectSeq([i \in DOMAIN plan |-> [index |-> i, args |-> Body(i)]],
                       LAMBDA c : plan[c.index].type = "call")]

SameBut(a, b) == \* texts of items that overlapped may be mixed
  /\ ToSet(a.content) = ToSet(b.content) /\ Len(a.content) = Len(b.content)
  /\ ToSet(a.reasoning) = ToSet(b.reasoning) /\ Len(a.reasoning) = Len(b.reasoning)
  /\ a.calls = b.calls

\* A streamed answer is, added up, the answer that a request without streaming
\* would return; every call is announced, once, before the agent loop runs it; and
\* a call that was cut short has no arguments rather than some of them, where the
\* API says so.
StreamIsWhole ==
  /\ phase = "ended" /\ (\A i \in DOMAIN sent : sent[i].done) =>
       IF style = "responses" THEN SameBut(agg, Whole) ELSE agg = Whole
  /\ phase = "ended" => announced = [k \in DOMAIN agg.calls |-> agg.calls[k].index]
  /\ IsInjective(announced)
  /\ style = "responses" => \A k \in DOMAIN agg.calls : agg.calls[k].args \in {<<>>, Body(agg.calls[k].index)}

-----------------------------------------------------------------------------
(* What the requests are made of. *)

Message ==
  [role : {"user", "assistant", "tool"}, text : Seq(Nat), images : Seq(Nat),
   reasoning : Seq(Nat), calls : Seq(Nat \X Nat), answers : Seq(Nat \X Nat),
   wrong : SUBSET (Nat \X Nat)]

Said(role, text) ==
  [role |-> role, text |-> text, images |-> <<>>, reasoning |-> <<>>, calls |-> <<>>,
   answers |-> <<>>, wrong |-> {}]

FormatTypeOK == history \in Seq(Message) /\ Len(history) <= MaxSaid

FormatInit == history = <<>>

-----------------------------------------------------------------------------
(* How a conversation comes about. *)

\* The calls of the last answer that have no response yet.
Answered == {history[n].answers[1] : n \in {m \in DOMAIN history : history[m].role = "tool"}}
Open ==
  LET last == {n \in DOMAIN history : history[n].calls # <<>>}
  IN  UNION {ToSet(history[n].calls) : n \in last} \ Answered

Add(m) == Len(history) < MaxSaid /\ history' = Append(history, m)
New == Len(history) + 1

\* A prompt with or without images, or a message of the middleware.
UserSays(images) == Open = {} /\ Add([Said("user", <<New>>) EXCEPT !.images = images])

\* process_api_response_message, resolve_tool_calls: some calls may be of no tool
\* or have arguments that are not valid.
ModelSays(text, reasoning, calls, wrong) ==
  /\ Open = {} /\ history # <<>> /\ Last(history).role # "assistant"
  /\ text # <<>> \/ calls # <<>>
  /\ Add([Said("assistant", text) EXCEPT !.reasoning = reasoning, !.calls = calls, !.wrong = wrong])

\* _handle_tool_calls: calls that failed are answered first, in order; tools
\* that run answer in any order (create_tool_response_message).
ToolSays(c, images) ==
  LET wrong == UNION {history[n].wrong : n \in DOMAIN history} \intersect Open IN
  /\ c \in Open
  /\ wrong # {} => c \in wrong /\ images = <<>> /\ \A d \in wrong : c[2] <= d[2]
  /\ Add([Said("tool", <<New>>) EXCEPT !.answers = <<c>>, !.images = images])

\* _messages_for_fork: up to the end of the turn of a prompt.
Fork(n) ==
  LET later == {m \in n+1..Len(history) : history[m].role = "user"}
      end == IF later = {} THEN Len(history) ELSE (CHOOSE m \in later : \A k \in later : m <= k) - 1
  IN  /\ history[n].role = "user"
      /\ history' = SubSeq(history, 1, end)

FormatNext ==
  \/ \E images \in {<<>>, <<New>>} : UserSays(images) \/ \E c \in Open : ToolSays(c, images)
  \/ \E text, reasoning \in {<<>>, <<New>>}, k \in 0..MaxAsked :
       \E wrong \in SUBSET {<<New, i>> : i \in 1..k} :
         ModelSays(text, reasoning, [i \in 1..k |-> <<New, i>>], wrong)
  \/ \E n \in DOMAIN history : Fork(n)

-----------------------------------------------------------------------------
(* Messages as requests.  An entry of a request has a role and the parts of its content. *)

\* merge_consecutive_user_messages.
Joined(a, b) == [a EXCEPT !.text = @ \o b.text, !.images = @ \o b.images]
Merged(ms) ==
  FoldLeft(LAMBDA acc, m :
             IF acc # <<>> /\ Last(acc).role = "user" /\ m.role = "user"
             THEN [acc EXCEPT ![Len(acc)] = Joined(@, m)] ELSE Append(acc, m),
           <<>>, ms)

Entry(role, content) == [role |-> role, content |-> content]
Part(kind, s) == [n \in DOMAIN s |-> <<kind, s[n]>>]

\* _convert_assistant_message: thinking, text, calls.
AssistantBlocks(m) == Part("reasoning", m.reasoning) \o Part("text", m.text) \o Part("call", m.calls)

\* Mutant of AppendResult: every result is a message.
AppendResultApart(entries, result) == Append(entries, Entry("user", <<result>>))

\* _append_tool_result: into the user's entry at the end, if there is one.
AppendResult(entries, result) ==
  IF entries = <<>> \/ Last(entries).role # "user"
  THEN Append(entries, Entry("user", <<result>>))
  ELSE [entries EXCEPT ![Len(entries)].content = Append(@, result)]

\* AnthropicMapper.prepare_messages: images are not sent.
Blocks(ms) ==
  FoldLeft(LAMBDA acc, m :
             CASE m.role = "user" -> Append(acc, Entry("user", Part("text", m.text)))
               [] m.role = "assistant" -> Append(acc, Entry("assistant", AssistantBlocks(m)))
               [] m.role = "tool" -> AppendResult(acc, <<"result", m.answers[1]>>),
           <<>>, ms)

\* OpenAIResponsesAdapter._convert_messages: an item each, with a text for every
\* answer; reasoning is sent back as the state that came with it.
ItemsOf(m) ==
  CASE m.role = "user" -> <<Entry("user", Part("text", m.text))>>
    [] m.role = "assistant" ->
         [n \in DOMAIN m.reasoning |-> Entry("reasoning", <<<<"reasoning", m.reasoning[n]>>>>)]
         \o <<Entry("assistant", Part("text", m.text))>>
         \o [n \in DOMAIN m.calls |-> Entry("function_call", <<<<"call", m.calls[n]>>>>)]
    [] m.role = "tool" -> <<Entry("output", Part("result", m.answers))>>
InputItems(ms) == FlattenSeq([n \in DOMAIN Merged(ms) |-> ItemsOf(Merged(ms)[n])])

\* OpenAIAdapter.prepare_request: images follow the text of their message.
OpenAIEntry(m) ==
  Entry(m.role, Part("reasoning", m.reasoning) \o Part("result", m.answers)
                \o (IF m.role = "tool" THEN <<>> ELSE Part("text", m.text))
                \o Part("image", m.images) \o Part("call", m.calls))
OpenAIChat(ms) == [n \in DOMAIN Merged(ms) |-> OpenAIEntry(Merged(ms)[n])]

\* ReasoningAdapter._convert_message and MistralMapper.prepare_message: reasoning
\* is a part of the content; images are not sent.
ThinkingEntry(m) == OpenAIEntry([m EXCEPT !.images = <<>>])
ThinkingChat(ms) == [n \in DOMAIN Merged(ms) |-> ThinkingEntry(Merged(ms)[n])]

-----------------------------------------------------------------------------
(* Properties. *)

Parts(entries, kinds) ==
  SelectSeq(FlattenSeq([n \in DOMAIN entries |-> entries[n].content]), LAMBDA p : p[1] \in kinds)

\* What the conversation says, in order.
Atoms(kinds) == Parts([n \in DOMAIN history |-> OpenAIEntry(history[n])], kinds)
Words == {"reasoning", "text", "call", "result"}

\* Whatever the backend, a request says what was said, in the same order; images
\* go with the words that they came with, where the backend sends them.
SaysAll ==
  /\ Parts(Blocks(history), Words) = Atoms(Words)
  /\ Parts(InputItems(history), Words) = Atoms(Words)
  /\ Parts(ThinkingChat(history), Words) = Atoms(Words)
  /\ Parts(OpenAIChat(history), Words) = Atoms(Words)
  /\ Parts(OpenAIChat(history), {"image"}) = Atoms({"image"})

Kinds(e, kind) == {e.content[n][2] : n \in {k \in DOMAIN e.content : e.content[k][1] = kind}}

\* Every result stands in the user's entry right behind the calls, where content
\* blocks want it, and no words of the user come before it.
ResultsFollow ==
  Open = {} =>
    \A n \in DOMAIN Blocks(history) :
      LET calls == Kinds(Blocks(history)[n], "call") IN
      calls # {} => /\ n < Len(Blocks(history))
                    /\ Blocks(history)[n + 1].role = "user"
                    /\ Kinds(Blocks(history)[n + 1], "result") = calls
                    /\ Kinds(Blocks(history)[n + 1], "text") = {}

\* No two entries of the user follow one another, where users' messages are merged.
UsersMerged ==
  \A n \in 2..Len(ThinkingChat(history)) :
    ~(ThinkingChat(history)[n].role = "user" /\ ThinkingChat(history)[n - 1].role = "user")

\* A request of any backend is the conversation, in the form that its API wants.
RequestsFaithful == SaysAll /\ ResultsFollow /\ UsersMerged

=============================================================================
