------------------------------ MODULE Dictation ------------------------------
(***************************************************************************)
(* Dictated prompts: VoiceManager records with AudioRecorder and has the   *)
(* audio transcribed while it is recorded.  The keys come from the text    *)
(* area, whose messages wait while one of them stops a recording; escape   *)
(* comes from the application and does not wait.                           *)
(*                                                                         *)
(* Abstracted: a recording is its number, audio a number of chunks.  The   *)
(* feature switch is on, as in the tests.                                  *)
(***************************************************************************)
EXTENDS Naturals, Sequences

CONSTANTS
  MaxRecordings,  \* bound: recordings that are begun
  MaxChunks       \* bound: chunks of a recording

VARIABLES
  enabled,  \* voice_mode_enabled
  state,    \* VoiceManager._transcribe_state
  mic,      \* AudioRecorder: the recording whose stream is open, or 0
  audio,    \* by recording: chunks recorded, and whether the end was queued
  task,     \* by recording: its transcription
  current,  \* VoiceManager._transcribe_task, or 0
  stopping, \* stop_recording: the task it waits for, or 0, and how
  late,     \* a recording that is flushed was cancelled, and timed out
  crashed   \* stop_recording raised, and the application with it

voiceVars == <<enabled, state, mic, audio, task, current, stopping, late, crashed>>

VoiceAssumption == MaxRecordings \in Nat \ {0} /\ MaxChunks \in Nat

Recording == 1..MaxRecordings
Begun == Len(task)
Alive == {"new", "listening", "cancelled"}

TypeOK ==
  /\ enabled \in BOOLEAN /\ late \in BOOLEAN /\ crashed \in BOOLEAN
  /\ state \in {"idle", "recording", "flushing"}
  /\ mic \in 0..Begun /\ current \in 0..Begun
  /\ task \in Seq([step : Alive \union {"over"}, from : 0..MaxRecordings, taken : 0..MaxChunks])
  /\ audio \in Seq([chunks : 0..MaxChunks, ended : BOOLEAN]) /\ Len(audio) = Begun
  /\ stopping \in [of : 0..Begun, timedOut : BOOLEAN]

Init ==
  /\ enabled = TRUE /\ state = "idle" /\ mic = 0 /\ current = 0
  /\ audio = <<>> /\ task = <<>>
  /\ stopping = [of |-> 0, timedOut |-> FALSE] /\ late = FALSE /\ crashed = FALSE

Free == stopping.of = 0 /\ ~crashed

-----------------------------------------------------------------------------
(* The recorder. *)

\* _stop_stream, _push_sentinel: under the lock, so that it happens once.
MicOff(sounds) ==
  /\ mic' = 0
  /\ audio' = IF mic = 0 THEN sounds ELSE [sounds EXCEPT ![mic].ended = TRUE]

\* _audio_callback, in a thread of the audio library.
Sound ==
  /\ ~crashed /\ mic # 0 /\ audio[mic].chunks < MaxChunks
  /\ audio' = [audio EXCEPT ![mic].chunks = @ + 1]
  /\ UNCHANGED <<enabled, state, mic, task, current, stopping, late, crashed>>

\* _on_max_duration_expired, in a thread of its own.
Expires ==
  /\ ~crashed /\ mic # 0
  /\ MicOff(audio)
  /\ UNCHANGED <<enabled, state, task, current, stopping, late, crashed>>

-----------------------------------------------------------------------------
(* The manager. *)

\* start_recording, by ctrl+r; if the recorder still records, there is a notice only.
Start ==
  /\ Free /\ enabled /\ state = "idle" /\ mic = 0 /\ Begun < MaxRecordings
  /\ state' = "recording"
  /\ mic' = Begun + 1 /\ current' = Begun + 1
  /\ audio' = Append(audio, [chunks |-> 0, ended |-> FALSE])
  /\ task' = Append(task, [step |-> "new", from |-> 0, taken |-> 0])
  /\ UNCHANGED <<enabled, stopping, late, crashed>>

\* audio_stream begins: it reads the queue that the recorder has now, if any.
Connect(n) ==
  /\ ~crashed /\ task[n].step = "new"
  /\ task' = [task EXCEPT ![n].step = "listening", ![n].from = mic]
  /\ UNCHANGED <<enabled, state, mic, audio, current, stopping, late, crashed>>

\* A chunk is sent, and its text comes back (on_transcribe_text).
Hear(n) ==
  /\ ~crashed /\ task[n].step = "listening"
  /\ task[n].from # 0 /\ task[n].taken < audio[task[n].from].chunks
  /\ task' = [task EXCEPT ![n].taken = @ + 1]
  /\ UNCHANGED <<enabled, state, mic, audio, current, stopping, late, crashed>>

\* The audio is at its end, and so is its transcription.
Transcribed(n) ==
  /\ ~crashed /\ task[n].step = "listening"
  /\ task[n].from # 0 => audio[task[n].from].ended /\ task[n].taken = audio[task[n].from].chunks
  /\ task' = [task EXCEPT ![n].step = "over"]
  /\ state' = "idle"
  /\ UNCHANGED <<enabled, mic, audio, current, stopping, late, crashed>>

\* The transcription fails, or the server sends an error.
Fails(n) ==
  /\ ~crashed /\ task[n].step = "listening"
  /\ MicOff(audio)
  /\ task' = [task EXCEPT ![n].step = "over"]
  /\ state' = "idle"
  /\ UNCHANGED <<enabled, current, stopping, late, crashed>>

\* A cancelled transcription has closed its connection.
Cancelled(n) ==
  /\ ~crashed /\ task[n].step = "cancelled"
  /\ task' = [task EXCEPT ![n].step = "over"]
  /\ UNCHANGED <<enabled, state, mic, audio, current, stopping, late, crashed>>

CancelTask(n) == IF n # 0 /\ task[n].step # "over" THEN [task EXCEPT ![n].step = "cancelled"] ELSE task

\* stop_recording, by any key while a recording runs: the rest is transcribed.
Stop ==
  /\ Free /\ state = "recording"
  /\ MicOff(audio)
  /\ state' = IF current = 0 THEN "idle" ELSE "flushing"
  /\ stopping' = [of |-> current, timedOut |-> FALSE]
  /\ UNCHANGED <<enabled, task, current, late, crashed>>

\* wait_for: the time is over, the task is cancelled, but has to end first.
TimesOut ==
  /\ ~crashed /\ stopping.of # 0 /\ ~stopping.timedOut /\ task[stopping.of].step # "over"
  /\ stopping' = [stopping EXCEPT !.timedOut = TRUE]
  /\ task' = CancelTask(stopping.of)
  /\ late' = (late \/ current = 0)
  /\ UNCHANGED <<enabled, state, mic, audio, current, crashed>>

\* Mutant of Stopped: only a recording that did not time out becomes idle.
StoppedInTime ==
  /\ ~crashed /\ stopping.of # 0 /\ task[stopping.of].step = "over"
  /\ crashed' = (stopping.timedOut /\ current = 0)
  /\ state' = IF stopping.timedOut THEN state ELSE "idle"
  /\ current' = 0
  /\ stopping' = [of |-> 0, timedOut |-> FALSE]
  /\ UNCHANGED <<enabled, mic, audio, task, late>>

\* stop_recording goes on: after a timeout it cancels self._transcribe_task, which
\* a cancellation meanwhile has set to None.
Stopped ==
  /\ ~crashed /\ stopping.of # 0 /\ task[stopping.of].step = "over"
  /\ crashed' = (stopping.timedOut /\ current = 0)
  /\ state' = IF crashed' THEN state ELSE "idle"
  /\ current' = 0
  /\ stopping' = [of |-> 0, timedOut |-> FALSE]
  /\ UNCHANGED <<enabled, mic, audio, task, late>>

\* cancel_recording, by escape (VibeApp._try_interrupt), ctrl+c, or when voice
\* mode is turned off (toggle_voice_mode).
CancelRecording(to) ==
  /\ ~crashed /\ state # "idle"
  /\ MicOff(audio)
  /\ task' = CancelTask(current)
  /\ current' = 0 /\ state' = "idle" /\ enabled' = to
  /\ late' = (late \/ stopping.timedOut)
  /\ UNCHANGED <<stopping, crashed>>

\* toggle_voice_mode while nothing is recorded.
Toggle ==
  /\ Free /\ state = "idle"
  /\ enabled' = ~enabled
  /\ UNCHANGED <<state, mic, audio, task, current, stopping, late, crashed>>

VoiceNext ==
  \/ Sound \/ Expires \/ Start \/ Stop \/ TimesOut \/ Stopped \/ Toggle
  \/ CancelRecording(enabled) \/ CancelRecording(FALSE)
  \/ \E n \in 1..Begun : Connect(n) \/ Hear(n) \/ Transcribed(n) \/ Fails(n) \/ Cancelled(n)

\* The timeout of ten seconds passes, and connections are closed.
VoiceFairness ==
  /\ WF_voiceVars(TimesOut) /\ WF_voiceVars(Stopped)
  /\ \A n \in Recording : WF_voiceVars(n <= Begun /\ Cancelled(n))

Spec == Init /\ [][VoiceNext]_voiceVars /\ VoiceFairness

-----------------------------------------------------------------------------
(* Properties. *)

\* Nothing is recorded that nobody transcribes or sees.
MicSeen == state = "idle" /\ ~crashed => mic = 0

\* Text is inserted only while the recording that it is from runs or is flushed.
TextInTime ==
  \A n \in 1..Begun : task[n].step = "listening" => n = Begun /\ state # "idle" /\ current = n

\* What is transcribed is what was recorded.
OwnAudio == \A n \in 1..Begun : task[n].from \in {0, n}

\* The application survives, unless a recording is cancelled and times out as well.
Survives == crashed => late

\* Dictation keeps to one recording at a time, whatever ends it: a key, escape, a
\* timeout, an error or the longest duration (voice_manager.py, audio_recorder.py).
DictationSafe == MicSeen /\ TextInTime /\ OwnAudio /\ Survives

\* A recording that was stopped is over some time later.
DictationSettles == state = "flushing" ~> (state # "flushing" \/ crashed)
=============================================================================
