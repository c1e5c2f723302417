---------------------------- MODULE ConfigLayers ----------------------------
(***************************************************************************)
(* One layer of settings (ConfigLayer): a store that is read once it is    *)
(* trusted, and cached.  All that changes its state goes through           *)
(* _dispatch, which holds a lock while it asks for trust, tells of a       *)
(* change and reads; each may take its time, fail, or be cancelled.        *)
(*                                                                         *)
(* Abstracted: what the store holds is the number of times that it was     *)
(* changed, zero is none.                                                  *)
(*                                                                         *)
(* And how the values that layers have for a field become one              *)
(* (MergeStrategy): layers come from the lowest to the highest, and each   *)
(* is combined with what there is so far.  An item of a list, or of a      *)
(* table, is its key and a value; key zero is none.                        *)
(***************************************************************************)
EXTENDS Integers, Sequences, FiniteSets

CONSTANTS
  Callers,
  Nobody,
  MaxCalls,   \* bound: calls
  MaxEdits,   \* bound: changes of the store, and of what _check_trust answers
  Keys,       \* of items that are merged, numbers
  Values,
  MaxLayers,  \* bound: layers that are merged
  MaxItems    \* bound: items that a layer has

VARIABLES
  layer,     \* _state: [trusted, data]
  holder,    \* who has _lock
  waiting,   \* who waits for it, in order
  job,       \* of each caller: [op, at, trusted, data, floor]
  store,     \* what _read_config would return
  permitted, \* what _check_trust would answer
  answers,   \* what loads returned: of [data, floor]
  told,      \* the trust that _on_trust_changed was last told of
  decision,  \* history: the trust that was last decided on
  floor,     \* history: the content of the store when the cache was last dropped
  broken,    \* history: a call ended between telling and deciding
  count,     \* count: [calls, edits]
  strategy,
  layers,    \* the value of each layer that is merged, the lowest first
  merged,    \* what they have become
  failed     \* MergeConflictError, MergeKeyError

layerVars == <<layer, holder, waiting, job, store, permitted, answers, told, decision, floor, broken, count>>

LayerAssumption ==
  IsFiniteSet(Callers) /\ Nobody \notin Callers /\ MaxCalls \in Nat /\ MaxEdits \in Nat

Ops == {"grant", "revoke", "resolve", "load", "force", "invalidate"}
Loads == {"load", "force"}
NoJob == [op |-> "none", at |-> "none", trusted |-> "unknown", data |-> 0, floor |-> 0]

Init ==
  /\ layer = [trusted |-> "unknown", data |-> 0] /\ holder = Nobody /\ waiting = <<>>
  /\ job = [c \in Callers |-> NoJob]
  /\ store = 1 /\ permitted \in {"yes", "no"} /\ answers = {} /\ told = "unknown"
  /\ decision = "unknown" /\ floor = 0 /\ broken = FALSE /\ count = [calls |-> 0, edits |-> 0]

StartsForbidden == permitted = "no"

-----------------------------------------------------------------------------
(* The lock. *)

\* A load may not answer with less than what was there when it, if forced, or else the
\* last one to drop the cache, was called.
Call(c, op) ==
  /\ job[c].at = "none" /\ count.calls < MaxCalls
  /\ count' = [count EXCEPT !.calls = @ + 1]
  /\ job' = [job EXCEPT ![c] = [NoJob EXCEPT !.op = op, !.at = "waits",
                                             !.floor = IF op = "force" THEN store ELSE floor]]
  /\ waiting' = Append(waiting, c)
  /\ UNCHANGED <<layer, holder, store, permitted, answers, told, decision, floor, broken>>

\* Mutant: the state is not locked.
FreeAlways == TRUE

Free == holder = Nobody

Keeps(c) == holder' = IF holder = c THEN Nobody ELSE holder

\* The new state; what a load returns is a copy of its data.
Commits(c, trusted, data) ==
  /\ layer' = [trusted |-> trusted, data |-> data]
  /\ job' = [job EXCEPT ![c] = NoJob] /\ Keeps(c)
  /\ answers' = IF job[c].op \in Loads /\ trusted = "yes"
                THEN answers \union {[data |-> data, floor |-> job[c].floor]} ELSE answers
  /\ floor' = IF job[c].op = "invalidate" \/ (job[c].op = "revoke" /\ layer.trusted # "no")
              THEN store ELSE floor
  /\ decision' = IF job[c].op \in {"grant"} THEN "yes" ELSE IF job[c].op = "revoke" THEN "no"
                 ELSE IF job[c].op = "resolve" \/ decision = "unknown" THEN trusted ELSE decision

Fails(c) ==
  /\ job' = [job EXCEPT ![c] = NoJob] /\ Keeps(c)
  /\ UNCHANGED <<layer, answers, floor, decision>>

\* _dispatch, with a copy of the state, and the handlers as far as they can go at once.
Dispatch(c) ==
  LET op == job[c].op
      Goes(at, trusted, data) ==
        /\ job' = [job EXCEPT ![c].at = at, ![c].trusted = trusted, ![c].data = data]
        /\ holder' = c
        /\ UNCHANGED <<layer, answers, floor, decision>>
  IN
  /\ waiting # <<>> /\ Head(waiting) = c /\ Free /\ waiting' = Tail(waiting)
  /\ \/ op = "grant" /\ layer.trusted = "yes" /\ Commits(c, "yes", layer.data)
     \/ op = "grant" /\ layer.trusted # "yes" /\ Goes("tells", "yes", layer.data)
     \/ op = "revoke" /\ layer.trusted = "no" /\ Commits(c, "no", layer.data)
     \/ op = "revoke" /\ layer.trusted # "no" /\ Goes("tells", "no", 0)
     \/ op = "resolve" /\ Goes("checks", layer.trusted, layer.data)
     \/ op \in Loads /\ layer.trusted = "unknown" /\ Goes("checks", layer.trusted, layer.data)
     \/ op \in Loads /\ layer.trusted = "no" /\ Commits(c, "no", 0)
     \/ op = "load" /\ layer.trusted = "yes" /\ layer.data # 0 /\ Commits(c, "yes", layer.data)
     \/ op \in Loads /\ layer.trusted = "yes" /\ (layer.data = 0 \/ op = "force")
        /\ Goes("reads", "yes", layer.data)
     \/ op = "invalidate" /\ Commits(c, layer.trusted, 0)
  /\ UNCHANGED <<store, permitted, told, broken, count>>

-----------------------------------------------------------------------------
(* What may take its time. *)

\* _resolve_check_trust
CheckTrust(c) ==
  /\ job[c].at = "checks"
  /\ \/ /\ job' = [job EXCEPT ![c].at = "tells", ![c].trusted = permitted,
                              ![c].data = IF permitted = "yes" THEN @ ELSE 0]
        /\ UNCHANGED <<layer, holder, answers, floor, decision>>
     \/ Fails(c)
  /\ UNCHANGED <<waiting, store, permitted, told, broken, count>>

\* _notify_trust_change, which says nothing if nothing changed; then a load reads.
NotifyTrustChange(c) ==
  LET same == job[c].trusted = layer.trusted
      reads == job[c].op \in Loads /\ job[c].trusted = "yes" /\ (job[c].data = 0 \/ job[c].op = "force")
  IN
  /\ job[c].at = "tells"
  /\ \/ /\ told' = IF same THEN told ELSE job[c].trusted
        /\ IF reads
           THEN /\ job' = [job EXCEPT ![c].at = "reads"]
                /\ UNCHANGED <<layer, holder, answers, floor, decision>>
           ELSE Commits(c, job[c].trusted, job[c].data)
     \/ ~same /\ Fails(c) /\ UNCHANGED told
  /\ UNCHANGED <<waiting, store, permitted, broken, count>>

\* _read_config and validate_output
ReadConfig(c) ==
  /\ job[c].at = "reads"
  /\ \/ Commits(c, job[c].trusted, store) /\ UNCHANGED broken
     \/ Fails(c) /\ broken' = (broken \/ told # layer.trusted)
  /\ UNCHANGED <<waiting, store, permitted, told, count>>

\* The callback may have done its work when the call is cancelled.
Cancel(c) ==
  LET Others(d) == d # c IN
  /\ job[c].at # "none" /\ Fails(c)
  /\ waiting' = SelectSeq(waiting, Others)
  /\ told' \in {told} \union (IF job[c].at = "tells" THEN {job[c].trusted} ELSE {})
  /\ broken' = (broken \/ (holder = c /\ told' # layer.trusted))
  /\ UNCHANGED <<store, permitted, count>>

Edit ==
  /\ count.edits < MaxEdits /\ count' = [count EXCEPT !.edits = @ + 1]
  /\ \/ store' = store + 1 /\ UNCHANGED permitted
     \/ permitted' \in {"yes", "no"} \ {permitted} /\ UNCHANGED store
  /\ UNCHANGED <<layer, holder, waiting, job, answers, told, decision, floor, broken>>

LayerNext ==
  \/ \E c \in Callers :
       \/ \E op \in Ops : Call(c, op)
       \/ Dispatch(c) \/ CheckTrust(c) \/ NotifyTrustChange(c) \/ ReadConfig(c) \/ Cancel(c)
  \/ Edit

Spec == Init /\ [][LayerNext]_layerVars

-----------------------------------------------------------------------------
(* Layers that are merged. *)

mergeVars == <<strategy, layers, merged, failed>>

MergeAssumption ==
  IsFiniteSet(Keys) /\ IsFiniteSet(Values) /\ 0 \notin Keys /\ MaxLayers \in Nat /\ MaxItems \in Nat

Strategies == {"replace", "concat", "union", "merge", "conflict"}

\* None, and a list of items.
None == [some |-> FALSE, items |-> <<>>]
Some(items) == [some |-> TRUE, items |-> items]
Lists(keys) == UNION {[1..n -> [key : keys, value : Values]] : n \in 0..MaxItems}

KeysOf(items) == {items[i].key : i \in DOMAIN items}

\* A table is the list of its items, no two of one key; only a union meets a key of zero.
IsTable(items) == \A i, j \in DOMAIN items : items[i].key = items[j].key => i = j
Given ==
  {None} \union
  { Some(items) : items \in IF strategy = "union" THEN Lists(Keys \union {0})
                            ELSE IF strategy = "merge" THEN {l \in Lists(Keys) : IsTable(l)}
                            ELSE Lists(Keys) }

MergeInit ==
  /\ strategy \in Strategies /\ layers = <<>> /\ merged = None /\ failed = FALSE

StartsReplacing == strategy = "replace"

-----------------------------------------------------------------------------
(* merge.py *)

\* A dict: a key keeps the place it was first put at, and has the last value.
Put(dict, item) ==
  IF \E i \in DOMAIN dict : dict[i].key = item.key
  THEN [i \in DOMAIN dict |-> IF dict[i].key = item.key THEN item ELSE dict[i]]
  ELSE Append(dict, item)

\* As a function on the items that are put, the first n of them.
Dict(items) ==
  LET put[n \in 0..Len(items)] == IF n = 0 THEN <<>> ELSE Put(put[n - 1], items[n])
  IN put[Len(items)]

\* Mutant: what the lower layer has is kept.
UnitedFirst(base, override) == Dict(override \o base)

\* _union, _merge
United(base, override) == Dict(base \o override)

\* _coalesce, and what each strategy does with two values
Apply(how, base, override) ==
  IF ~base.some THEN override
  ELSE IF ~override.some THEN base
  ELSE CASE how \in {"replace", "conflict"} -> override
         [] how = "concat" -> Some(base.items \o override.items)
         [] how \in {"union", "merge"} -> Some(United(base.items, override.items))

\* A second value is a conflict, and an item without the key cannot be united; one value
\* is taken as it is.
Refuses(how, base, override) ==
  /\ base.some /\ override.some
  /\ \/ how = "conflict"
     \/ how = "union" /\ 0 \in KeysOf(base.items \o override.items)

AddLayer(value) ==
  /\ ~failed /\ Len(layers) < MaxLayers
  /\ layers' = Append(layers, value)
  /\ failed' = Refuses(strategy, merged, value)
  /\ merged' = IF failed' THEN merged ELSE Apply(strategy, merged, value)
  /\ UNCHANGED strategy

MergeNext == \E value \in Given : AddLayer(value)

-----------------------------------------------------------------------------
(* Properties. *)

TypeOK ==
  /\ layer.trusted \in {"unknown", "yes", "no"} /\ layer.data \in 0..MaxEdits + 1
  /\ holder \in Callers \union {Nobody}
  /\ \A c \in Callers : job[c].at \in {"none", "waits", "checks", "tells", "reads"}
  /\ \A c \in Callers : job[c].at \in {"checks", "tells", "reads"} => holder = c

\* The trust of a layer is what was last decided, by a grant, a revocation or a check:
\* also if that happened while somebody waited for the answer to a check or a read.  What
\* is not trusted has no data.
LastDecisionCounts ==
  layer.trusted = decision /\ (layer.data # 0 => layer.trusted = "yes")

\* A load does not return what was read before the cache was dropped, or, if forced,
\* before it was called.
LoadsAreFresh == \A a \in answers : a.data >= a.floor /\ a.data # 0

\* Whoever keeps the trust was told of what counts, unless a call was cut short after it
\* had told: what was told is not taken back.
ToldWhatCounts == holder = Nobody /\ ~broken => told = layer.trusted

LayersSafe == LastDecisionCounts /\ LoadsAreFresh /\ ToldWhatCounts

\* Of merging.
MergeTypeOK == strategy \in Strategies /\ failed \in BOOLEAN /\ merged.some \in BOOLEAN

Present == {i \in DOMAIN layers : layers[i].some}
Highest == CHOOSE i \in Present : \A j \in Present : j <= i

\* The value of a key in the highest layer that has it.
Last(items, key) ==
  items[CHOOSE i \in DOMAIN items : items[i].key = key /\ \A j \in DOMAIN items : items[j].key = key => j <= i].value
Overriding(key) ==
  LET having == {i \in Present : key \in KeysOf(layers[i].items)}
  IN Last(layers[CHOOSE i \in having : \A j \in having : j <= i].items, key)

\* The higher layer wins: outright if values are replaced, per key if lists are united or
\* tables merged.  No key is lost, and a list that is joined has the items of all.  A
\* value nobody else has is taken as it is.
HigherWins ==
  /\ (~failed /\ Present = {}) => merged = None
  /\ (~failed /\ strategy \in {"replace", "conflict"} /\ Present # {}) => merged = layers[Highest]
  /\ (~failed /\ strategy = "concat") =>
       \A i \in Present : \E k \in 0..Len(merged.items) - Len(layers[i].items) :
         SubSeq(merged.items, k + 1, k + Len(layers[i].items)) = layers[i].items
  /\ (~failed /\ strategy \in {"union", "merge"} /\ Cardinality(Present) > 1) =>
       /\ IsTable(merged.items)
       /\ KeysOf(merged.items) = UNION {KeysOf(layers[i].items) : i \in Present}
       /\ \A i \in DOMAIN merged.items : merged.items[i].value = Overriding(merged.items[i].key)
  /\ failed => strategy \in {"conflict", "union"} /\ Cardinality(Present) > 1

\* Layers may be grouped in any way: the upper two first, and then the lowest.
GroupedInAnyWay ==
  (~failed /\ Len(layers) = 3 /\ ~Refuses(strategy, layers[2], layers[3])) =>
     merged = Apply(strategy, layers[1], Apply(strategy, layers[2], layers[3]))

MergeSafe == HigherWins /\ GroupedInAnyWay

=============================================================================
