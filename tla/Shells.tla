------------------------------- MODULE Shells -------------------------------
(***************************************************************************)
(* The bash tool: its processes, and what it has to ask the user before.   *)
(*                                                                         *)
(* A command that the tool waits for has a time limit and may be           *)
(* cancelled; commands in the background are read by bash_output and       *)
(* stopped by kill_bash.  A command is a group of two processes, the shell *)
(* and one that it leaves behind; both write to the pipe, which is at its  *)
(* end when none has it.  Output is counted in chunks.  Abstracted: stderr,*)
(* which is a second pipe of the same kind, exit codes, decoding, the      *)
(* environment.                                                            *)
(*                                                                         *)
(* Permission: the answer that Bash.resolve_permission, and                *)
(* resolve_file_tool_permission, give to the gate of the tools (ToolGate), *)
(* and how a grant for the session matches what is asked later.  A command *)
(* is the sequence of its parts, as the parser finds them, and a part is   *)
(* what the lists and the file system say of it.                           *)
(***************************************************************************)
EXTENDS Integers, Sequences, FiniteSets

CONSTANTS
  MaxShells,   \* commands started
  MaxWritten,  \* chunks that a command writes
  Cap,         \* max_output_bytes, in chunks
  MaxParts     \* parts of a command that is asked about

VARIABLES
  shells,   \* commands: [kind, shell, child, left, pipe, written]; left: the child behind
  calls,    \* their calls of the bash tool: [step, result, got]
  buffers,  \* BackgroundProcess: [buf, read, drains, told, cut]
  kills,    \* kill_bash for each command: no, killing, or killed
  command,  \* the command that is asked about
  always,   \* the tool's own permission is ALWAYS, not ASK
  granted,  \* rules of the session
  answer    \* what was answered last: [permission, required]

shellVars == <<shells, calls, buffers, kills>>
commandVars == <<command, always, granted, answer>>

PermissionAssumption == MaxParts \in Nat
ShellAssumption == MaxShells \in Nat /\ MaxWritten \in Nat /\ Cap \in Nat \ {0}

Init == shells = <<>> /\ calls = <<>> /\ buffers = <<>> /\ kills = <<>>

Ids == DOMAIN shells
Back(n) == shells[n].kind = "back"

\* The pipe has no writer left.
AtEnd(n) == ~shells[n].shell /\ ~shells[n].child

-----------------------------------------------------------------------------
(* Processes. *)

Start(kind) ==
  /\ Len(shells) < MaxShells
  /\ shells' = Append(shells, [kind |-> kind, shell |-> TRUE, child |-> FALSE, left |-> FALSE,
                               pipe |-> 0, written |-> 0])
  /\ calls' = Append(calls, [step |-> IF kind = "back" THEN "over" ELSE "waiting",
                             result |-> IF kind = "back" THEN "started" ELSE "none", got |-> 0])
  /\ buffers' = Append(buffers, [buf |-> 0, read |-> 0, drains |-> kind = "back", told |-> 0, cut |-> 0])
  /\ kills' = Append(kills, "no")

Spawn(n) ==
  /\ shells[n].shell /\ ~shells[n].child
  /\ shells' = [shells EXCEPT ![n].child = TRUE]
  /\ UNCHANGED <<calls, buffers, kills>>

Write(n) ==
  /\ ~AtEnd(n) /\ shells[n].written < MaxWritten
  /\ shells' = [shells EXCEPT ![n].written = @ + 1, ![n].pipe = @ + 1]
  /\ UNCHANGED <<calls, buffers, kills>>

Exit(n) ==
  /\ \/ shells[n].shell /\ shells' = [shells EXCEPT ![n].shell = FALSE, ![n].left = shells[n].child]
     \/ shells[n].child /\ shells' = [shells EXCEPT ![n].child = FALSE]
  /\ UNCHANGED <<calls, buffers, kills>>

\* kill_async_subprocess: the group of a shell that has exited is left alone.
KillGroup(n) ==
  IF shells[n].shell THEN [shells EXCEPT ![n].shell = FALSE, ![n].child = FALSE] ELSE shells

-----------------------------------------------------------------------------
(* The call that waits: Bash.run *)

\* communicate: read to the end of the pipe, and wait for the shell.
Communicates(n) ==
  /\ calls[n].step = "waiting" /\ AtEnd(n)
  /\ calls' = [calls EXCEPT ![n] = [step |-> "ending", result |-> "output",
                                    got |-> IF shells[n].written <= Cap THEN shells[n].written ELSE Cap]]
  /\ shells' = [shells EXCEPT ![n].pipe = 0]
  /\ UNCHANGED <<buffers, kills>>

\* The time is up, or the call is cancelled.
GivesUp(n, result) ==
  /\ calls[n].step = "waiting"
  /\ calls' = [calls EXCEPT ![n].step = "ending", ![n].result = result]
  /\ UNCHANGED <<shells, buffers, kills>>

\* Mutant: only what has failed is cleaned up, and a call that is cancelled has not.
EndsUncleaned(n) ==
  /\ calls[n].step = "ending"
  /\ shells' = IF calls[n].result = "cancelled" THEN shells ELSE KillGroup(n)
  /\ calls' = [calls EXCEPT ![n].step = "over"]
  /\ UNCHANGED <<buffers, kills>>

Ends(n) ==
  /\ calls[n].step = "ending"
  /\ shells' = KillGroup(n)
  /\ calls' = [calls EXCEPT ![n].step = "over"]
  /\ UNCHANGED <<buffers, kills>>

-----------------------------------------------------------------------------
(* Commands in the background: BackgroundProcessManager *)

\* _drain: until the end of the pipe.
Drain(n) ==
  /\ buffers[n].drains
  /\ \/ /\ shells[n].pipe > 0
        /\ shells' = [shells EXCEPT ![n].pipe = 0]
        /\ buffers' = [buffers EXCEPT ![n].buf = @ + shells[n].pipe]
     \/ /\ shells[n].pipe = 0 /\ AtEnd(n)
        /\ buffers' = [buffers EXCEPT ![n].drains = FALSE]
        /\ UNCHANGED shells
  /\ UNCHANGED <<calls, kills>>

\* bash_output: what is new, of which the tool shows the end.
ReadOutput(n) ==
  LET new == buffers[n].buf - buffers[n].read
      shown == IF new <= Cap THEN new ELSE Cap
  IN
  /\ Back(n)
  /\ buffers' = [buffers EXCEPT ![n].read = buffers[n].buf, ![n].told = @ + shown, ![n].cut = @ + new - shown]
  /\ UNCHANGED <<shells, calls, kills>>

\* kill_bash: the group is killed if the shell runs, and waited for; then nothing is
\* read from the pipe any more.
Kill(n) ==
  /\ Back(n) /\ kills[n] = "no"
  /\ shells' = KillGroup(n)
  /\ kills' = [kills EXCEPT ![n] = "killing"]
  /\ UNCHANGED <<calls, buffers>>

Killed(n) ==
  /\ kills[n] = "killing" /\ ~shells[n].shell
  /\ kills' = [kills EXCEPT ![n] = "killed"]
  /\ buffers' = [buffers EXCEPT ![n].drains = FALSE]
  /\ UNCHANGED <<shells, calls>>

-----------------------------------------------------------------------------
ShellNext ==
  \/ \E kind \in {"front", "back"} : Start(kind)
  \/ \E n \in Ids :
       \/ Spawn(n) \/ Write(n) \/ Exit(n)
       \/ Communicates(n) \/ (\E result \in {"timeout", "cancelled"} : GivesUp(n, result)) \/ Ends(n)
       \/ Drain(n) \/ ReadOutput(n) \/ Kill(n) \/ Killed(n)

Spec == Init /\ [][ShellNext]_shellVars

-----------------------------------------------------------------------------
(* Properties. *)

TypeOK ==
  \A n \in Ids :
    /\ shells[n].kind \in {"front", "back"} /\ shells[n].pipe \in 0..shells[n].written
    /\ calls[n].step \in {"waiting", "ending", "over"}
    /\ buffers[n].read \in 0..buffers[n].buf
    /\ kills[n] \in {"no", "killing", "killed"}

Gone(n) == ~shells[n].shell /\ (shells[n].child => shells[n].left)

\* When the call is over its shell is, and what the shell has started too, unless the
\* shell had left it behind.
FrontEnds ==
  \A n \in Ids : ~Back(n) /\ calls[n].step = "over" => Gone(n)

\* A result has all that was written, up to the limit, and nothing runs behind it.
ResultWhole ==
  \A n \in Ids : calls[n].result = "output" =>
    /\ AtEnd(n)
    /\ calls[n].got = shells[n].written \/ (calls[n].got = Cap /\ shells[n].written > Cap)

\* What was written in the background has been told, was cut, waits to be read or is in
\* the pipe, and is so once; a pipe that nobody reads any more is that of a command
\* that was killed.
OutputOnce ==
  \A n \in Ids : Back(n) =>
    /\ shells[n].written = buffers[n].told + buffers[n].cut + (buffers[n].buf - buffers[n].read) + shells[n].pipe
    /\ shells[n].pipe > 0 /\ ~buffers[n].drains => kills[n] = "killed"

\* After kill_bash the group is gone, with the same exception.
KilledIsGone == \A n \in Ids : kills[n] = "killed" => Gone(n)

ShellSafe == FrontEnds /\ ResultWhole /\ OutputOnce /\ KilledIsGone

-----------------------------------------------------------------------------
(* Permission: a command. *)

\* pattern: its prefix as build_session_pattern finds it; dir: where it refers outside
\* of the working directory; literal: it matches itself as a pattern (it has no
\* brackets).
Part(kind, pattern, listed, dir, literal) ==
  [kind |-> kind, pattern |-> pattern, listed |-> listed, dir |-> dir, literal |-> literal]

Parts == {
  Part("denied", "vim", FALSE, "inside", TRUE),      \* a prefix of the denylist
  Part("alone", "python", FALSE, "inside", TRUE),    \* denied without arguments
  Part("find", "find", TRUE, "inside", TRUE),        \* find -exec, while find is allowed
  Part("find", "find", TRUE, "inside", FALSE),       \* find -name [ab]* -exec
  Part("sensitive", "sudo", FALSE, "inside", TRUE),  \* sudo
  Part("plain", "cat", TRUE, "inside", TRUE),        \* of the allowlist
  Part("plain", "cat", TRUE, "/etc", TRUE),
  Part("plain", "make", FALSE, "inside", TRUE),      \* of no list
  Part("plain", "make", FALSE, "inside", FALSE),
  Part("plain", "cp", FALSE, "/etc", TRUE) }

Commands == UNION {[1..n -> Parts] : n \in 1..MaxParts}

Said(permission, required) == [permission |-> permission, required |-> required]
NotYet == Said("none", {})

-----------------------------------------------------------------------------
(* Bash.resolve_permission *)

\* What is required: how it is matched, the pattern that a grant enters, and what is asked.
Exactly(part) == <<"exact", part, part>>
AsPrefix(part) == <<"prefix", part.pattern, part>>
Outside(dir) == <<"outside", dir, dir>>

PartsOf(cmd) == {cmd[i] : i \in DOMAIN cmd}

\* _resolve_guardrail_permission
Denied(cmd) == \E p \in PartsOf(cmd) : p.kind \in {"denied", "alone"}
Guarded(cmd) == {Exactly(p) : p \in {q \in PartsOf(cmd) : q.kind = "find"}}

OutsideDirs(cmd) == {p.dir : p \in PartsOf(cmd)} \ {"inside"}

UnconditionallyAllowed(cmd) ==
  /\ \A p \in PartsOf(cmd) : p.kind # "sensitive"
  /\ always \/ ((\A p \in PartsOf(cmd) : p.listed) /\ OutsideDirs(cmd) = {})

\* Of the parts with one prefix only the first is asked about.
FirstOf(cmd) ==
  {i \in DOMAIN cmd : \A j \in 1..i - 1 : cmd[j].kind = "sensitive" \/ cmd[j].listed \/ cmd[j].pattern # cmd[i].pattern}

\* Mutant: the loop over the parts ends at one that is sensitive.
RequiredUpToSensitive(cmd) ==
  {Exactly(cmd[i]) : i \in {j \in DOMAIN cmd : cmd[j].kind = "sensitive"}}
    \cup {AsPrefix(cmd[i]) : i \in {j \in DOMAIN cmd : ~cmd[j].listed /\ cmd[j].kind # "sensitive"
                                                       /\ \A k \in 1..j - 1 : cmd[k].kind # "sensitive"}}
    \cup {Outside(d) : d \in OutsideDirs(cmd)}

\* _build_required_permissions
Required(cmd) ==
  {Exactly(cmd[i]) : i \in {j \in DOMAIN cmd : cmd[j].kind = "sensitive"}}
    \cup {AsPrefix(cmd[i]) : i \in {j \in FirstOf(cmd) : ~cmd[j].listed /\ cmd[j].kind # "sensitive"}}
    \cup {Outside(d) : d \in OutsideDirs(cmd)}

\* Nothing required leaves it to the tool's own permission.
ResolvePermission(cmd) ==
  IF Denied(cmd) THEN Said("never", {})
  ELSE IF UnconditionallyAllowed(cmd) /\ Guarded(cmd) = {} THEN Said("always", {})
  ELSE LET required == Required(cmd) \cup Guarded(cmd)
       IN IF required = {} THEN Said("none", {}) ELSE Said("ask", required)

-----------------------------------------------------------------------------
(* resolve_file_tool_permission: for a path in the scratchpad, of a list, with a *)
(* sensitive name, or outside of the working directory.                          *)

Files == [place : {"scratchpad", "inside", "outside"}, denied : BOOLEAN, listed : BOOLEAN,
          sensitive : BOOLEAN]

ResolveFile(file, config) ==
  IF file.place = "scratchpad" THEN "always"
  ELSE IF file.denied THEN "never"
  ELSE IF file.listed THEN "always"
  ELSE IF file.place = "outside" /\ config = "never" THEN "never"
  ELSE IF file.sensitive \/ file.place = "outside" THEN "ask" ELSE config

-----------------------------------------------------------------------------
PermissionInit ==
  /\ command \in Commands /\ always \in BOOLEAN
  /\ granted = {} /\ answer = NotYet

StartsPlain == always = FALSE /\ command = <<Part("plain", "cat", TRUE, "inside", TRUE)>>

\* wildcard_match of what is asked with a rule; a command with brackets does not match
\* itself.
Matches(rule, required) ==
  \/ rule[1] = "outside" /\ required[1] = "outside" /\ rule[2] = required[3]
  \/ rule[1] = "prefix" /\ required[1] # "outside" /\ rule[2] = required[3].pattern
  \/ rule[1] = "exact" /\ required[1] # "outside" /\ rule[2] = required[3] /\ rule[2].literal

\* What the user has to be asked about.
Uncovered == {r \in answer.required : \A rule \in granted : ~Matches(rule, r)}

Resolve ==
  /\ answer = NotYet
  /\ answer' = ResolvePermission(command)
  /\ UNCHANGED <<command, always, granted>>

\* "Always": the rules are entered, and the same is called again.
Grant ==
  /\ answer.permission = "ask" /\ Uncovered # {}
  /\ granted' = granted \cup {<<r[1], r[2]>> : r \in Uncovered}
  /\ UNCHANGED <<command, always, answer>>

PermissionNext == Resolve \/ Grant

-----------------------------------------------------------------------------
(* Properties. *)

PermissionTypeOK ==
  /\ command \in Commands /\ always \in BOOLEAN
  /\ answer.permission \in {"none", "never", "always", "ask"}

\* What a part on its own calls for.
Needs(part) ==
  (IF part.kind \in {"sensitive", "find"} THEN {Exactly(part)} ELSE {})
    \cup (IF part.kind # "sensitive" /\ ~part.listed THEN {AsPrefix(part)} ELSE {})
    \cup (IF part.dir # "inside" THEN {Outside(part.dir)} ELSE {})

\* Whatever a part of the command calls for on its own is asked for the whole: by the
\* permission itself or by one with the same rule, unless the tool may always run.
EveryPartCovered ==
  answer # NotYet =>
    /\ answer.permission = "never" <=> \E p \in PartsOf(command) : ResolvePermission(<<p>>).permission = "never"
    /\ answer.permission = "ask" =>
         \A p \in PartsOf(command) : \A need \in Needs(p) :
            \E r \in answer.required : r[1] = need[1] /\ r[2] = need[2]
    /\ answer.permission = "always" /\ ~always => \A p \in PartsOf(command) : Needs(p) = {}
    /\ answer.permission # "none"

\* What was granted for the session is not asked again, except for commands that are
\* granted to the letter and have brackets.
GrantsMatch ==
  granted # {} => \A r \in Uncovered : r[1] = "exact" /\ ~r[3].literal

\* A file tool that the user has forbidden outside of the directory asks for nothing there,
\* and a list decides before anything else does.
FilesResolved ==
  \A file \in Files : \A config \in {"always", "ask", "never"} :
    /\ ResolveFile(file, config) = "ask" => file.place = "outside" \/ file.sensitive \/ config = "ask"
    /\ file.place = "outside" /\ config = "never" /\ ~file.listed => ResolveFile(file, config) = "never"

PermissionSafe == EveryPartCovered /\ GrantsMatch /\ FilesResolved

=============================================================================
