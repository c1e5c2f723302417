-------------------------------- MODULE SignIn --------------------------------
(***************************************************************************)
(* Signing in with a browser for an API key: BrowserSignInService asks the *)
(* service through HttpBrowserSignInGateway until the user has decided,    *)
(* the time is over, or too many requests fail one after the other.        *)
(*                                                                         *)
(* Abstracted: addresses, of which the gateway takes only those of the     *)
(* service that it knows, and the secret that belongs to a process.  Time  *)
(* passes in steps of an interval or less.                                 *)
(***************************************************************************)
EXTENDS Naturals

CONSTANTS
  Lifetime,    \* time until expires_at
  MaxFailures  \* _max_consecutive_poll_failures

VARIABLES
  flow,     \* authenticate(): [step, failures, code, key]
  service,  \* what the service holds: [state, token]; a token is taken once
  clock,    \* time that has passed
  failing   \* history: the polls that failed since the last answer

signInVars == <<flow, service, clock, failing>>

SignInAssumption == Lifetime \in Nat /\ MaxFailures \in Nat \ {0}

Init ==
  /\ flow = [step |-> "idle", failures |-> 0, code |-> "none", key |-> FALSE]
  /\ service = [state |-> "none", token |-> FALSE]
  /\ clock = 0 /\ failing = 0

Fails(code) == flow' = [flow EXCEPT !.step = "failed", !.code = code]

-----------------------------------------------------------------------------
\* authenticate is called.
Authenticate ==
  /\ flow.step = "idle" /\ flow' = [flow EXCEPT !.step = "start"]
  /\ UNCHANGED <<service, clock, failing>>

\* create_process: a request that fails, or an answer that does not say all, ends it.
CreateProcess ==
  /\ flow.step = "start"
  /\ \/ /\ service' = [state |-> "pending", token |-> TRUE]
        /\ flow' = [flow EXCEPT !.step = "opening"]
     \/ /\ Fails("start_failed") /\ service' \in {service, [state |-> "pending", token |-> TRUE]}
  /\ UNCHANGED <<clock, failing>>

OpenBrowser ==
  /\ flow.step = "opening"
  /\ \/ flow' = [flow EXCEPT !.step = "polling"]
     \/ Fails("open_browser_failed")
  /\ UNCHANGED <<service, clock, failing>>

\* What the gateway makes of an answer; an HTTP status 410 is an answer.
Answers ==
  {"failed", "unknown", service.state}
    \cup (IF service.state = "completed" THEN {"completed_without_token"} ELSE {})

\* A request that fails is tried again, unless it is one too many; an answer begins a
\* new count.  What is no failure of the request itself ends the flow at once.
Poll(answer) ==
  /\ flow.step = "polling" /\ clock < Lifetime
  /\ failing' = IF answer = "failed" THEN failing + 1 ELSE 0
  /\ \/ answer = "failed" /\ flow.failures + 1 >= MaxFailures /\ Fails("poll_failed")
     \/ /\ answer = "failed" /\ flow.failures + 1 < MaxFailures
        /\ flow' = [flow EXCEPT !.step = "sleeping", !.failures = @ + 1]
     \/ answer = "pending" /\ flow' = [flow EXCEPT !.step = "sleeping", !.failures = 0]
     \/ answer = "completed" /\ flow' = [flow EXCEPT !.step = "exchanging", !.failures = 0]
     \/ answer = "completed_without_token" /\ Fails("missing_exchange_token")
     \/ answer = "unknown" /\ Fails("unknown_state")
     \/ answer \in {"expired", "denied", "error"} /\ Fails(answer)
  /\ UNCHANGED <<service, clock>>

\* Mutant: the pause is always a whole interval, and nothing is checked before it.
SleepWhole ==
  /\ flow.step = "sleeping"
  /\ clock' = IF clock < Lifetime THEN clock + 2 ELSE clock
  /\ flow' = [flow EXCEPT !.step = "polling"]
  /\ UNCHANGED <<service, failing>>

\* The pause ends when the time is over, at the latest.
Sleep ==
  /\ flow.step = "sleeping"
  /\ IF clock >= Lifetime
     THEN Fails("timed_out") /\ UNCHANGED clock
     ELSE \E t \in clock + 1..Lifetime : clock' = t /\ flow' = [flow EXCEPT !.step = "polling"]
  /\ UNCHANGED <<service, failing>>

TimeOut ==
  /\ flow.step = "polling" /\ clock >= Lifetime
  /\ Fails("timed_out")
  /\ UNCHANGED <<service, clock, failing>>

\* The token is exchanged for a key.  It is used up, also when the answer is lost.
Exchange ==
  /\ flow.step = "exchanging"
  /\ \/ /\ service.token
        /\ flow' = [flow EXCEPT !.step = "done", !.key = TRUE]
        /\ service' = [service EXCEPT !.token = FALSE]
     \/ /\ \E code \in {"exchange_failed", "missing_api_key"} : Fails(code)
        /\ service' \in {service, [service EXCEPT !.token = FALSE]}
  /\ UNCHANGED <<clock, failing>>

\* The user decides in the browser, or the service gives up on the process.
Decide(state) ==
  /\ service.state = "pending" /\ service' = [service EXCEPT !.state = state]
  /\ UNCHANGED <<flow, clock, failing>>

\* Time passes while a request is under way.
Tick ==
  /\ flow.step \in {"polling", "sleeping"} /\ clock < Lifetime /\ clock' = clock + 1
  /\ UNCHANGED <<flow, service, failing>>

-----------------------------------------------------------------------------
Proceeds == CreateProcess \/ OpenBrowser \/ (\E answer \in Answers : Poll(answer)) \/ Sleep \/ TimeOut \/ Exchange

SignInNext ==
  \/ Authenticate \/ Proceeds
  \/ \E state \in {"completed", "denied", "expired", "error"} : Decide(state)
  \/ Tick

SignInFairness == WF_signInVars(Proceeds)

Spec == Init /\ [][SignInNext]_signInVars /\ SignInFairness

-----------------------------------------------------------------------------
(* Properties. *)

TypeOK ==
  /\ flow.step \in {"idle", "start", "opening", "polling", "sleeping", "exchanging", "done", "failed"}
  /\ flow.failures \in 0..MaxFailures /\ clock \in 0..Lifetime

\* A key is only had when the user has agreed, and what an error says has happened: the
\* user refused, requests failed one after the other, or the time is over.
SignInSafe ==
  /\ flow.key <=> flow.step = "done"
  /\ flow.step \in {"exchanging", "done"} => service.state = "completed"
  /\ flow.code \in {"denied", "expired", "error"} => service.state = flow.code
  /\ flow.code = "poll_failed" <=> failing = MaxFailures
  /\ flow.code = "timed_out" => clock >= Lifetime
  /\ flow.step = "failed" <=> flow.code # "none"

\* Signing in comes to an end although the user may never decide: every pause is longer
\* than nothing, and the time is over some day.
SignInEnds == flow.step = "start" ~> flow.step \in {"done", "failed"}
=============================================================================
