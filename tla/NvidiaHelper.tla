----------------------------- MODULE NvidiaHelper -----------------------------
(***************************************************************************)
(* NvidiaHelper of backend/nvidia_helper.py and the helper process behind  *)
(* it: one lane of NVML queries (temperature, or telemetry).  Callers take *)
(* turns under a lock, write a request into the helper's pipe and wait for *)
(* the answer with its id until their deadline; a query that misses it     *)
(* kills the helper, the next one starts another.  The driver may hang, the*)
(* helper may start slowly or die, the GPU may go to sleep or get lost.    *)
(*                                                                         *)
(* There is no clock: a deadline passes at any time, and so does           *)
(* STARTUP_LIMIT_SECONDS of a helper that has not reported ready.  One that*)
(* passes although the helper works costs one of MaxUpsets.  One step is   *)
(* one step of a thread; the pipes are sequences.                          *)
(***************************************************************************)
EXTENDS Naturals, Sequences, FiniteSets

CONSTANTS
    Callers,
    Exited,     \* the end of the helper's output
    None,
    Ids,        \* bound: ids come again after so many requests
    MaxUpsets   \* bound: hangs, deaths, late answers and starts, GPU changes

ASSUME HelperAssumption == Ids \in Nat \ {0} /\ MaxUpsets \in Nat /\ None \notin Callers

VARIABLES
    call,     \* every caller's query
    lock,     \* who holds _lock
    started,  \* _process: "none", or whether it has reported ready, _ready
    old,      \* STARTUP_LIMIT_SECONDS are over since _started_at
    next_id,
    requests, \* the pipe to the helper
    messages, \* _messages: what the reader thread took from the helper
    helper,   \* the process: what it does, with which request
    session,  \* its NVML session
    gpu,      \* what PnP says of the display devices
    upsets

vars == <<call, lock, started, old, next_id, requests, messages, helper,
          session, gpu, upsets>>

-----------------------------------------------------------------------------
(* What the helper process answers.                                        *)

\* nvidia_gpu_powered_off: of all display devices exactly one is NVIDIA's and
\* shows a state, D0 to D3 being 1 to 4.
POWER_DEVICE_D3 == 4

nvidia_gpu_powered_off(devices) ==
    LET nvidia == {d \in devices : d.nvidia} IN
    IF \E d \in nvidia : Cardinality(nvidia) = 1 /\ d.state \in 1..POWER_DEVICE_D3
    THEN IF \E d \in nvidia : d.state = POWER_DEVICE_D3 THEN "off" ELSE "on"
    ELSE "unknown"

AMD == [nvidia |-> FALSE, state |-> 1]

Devices == [on      |-> {AMD, [nvidia |-> TRUE, state |-> 1]},
            off     |-> {AMD, [nvidia |-> TRUE, state |-> POWER_DEVICE_D3]},
            missing |-> {AMD}]

Answer(request, answer) == [id |-> request.id, answer |-> answer]

Ready == [id |-> 0, answer |-> "ready"]

-----------------------------------------------------------------------------
(* A caller.                                                               *)

NoCall == [pc |-> "idle", id |-> 0, answer |-> "none", seen |-> {}]

Init ==
    /\ call = [c \in Callers |-> NoCall]
    /\ lock = None
    /\ started = "none" /\ old = FALSE
    /\ next_id = 0
    /\ requests = <<>> /\ messages = <<>>
    /\ helper = [pc |-> "none", request |-> None] /\ session = "none"
    /\ gpu \in DOMAIN Devices
    /\ upsets = 0

Upset == upsets < MaxUpsets /\ upsets' = upsets + 1

PassesWhile(prompt) == IF prompt THEN Upset ELSE UNCHANGED upsets

Goto(c, pc) == call' = [call EXCEPT ![c].pc = pc]

\* query returns or raises and gives the lock back.
Ends(c, answer) ==
    /\ call' = [call EXCEPT ![c].pc = "done", ![c].answer = answer]
    /\ lock' = None

\* _kill; the reader leaves the end of the output in the queue it had.
Kill ==
    /\ started' = "none" /\ old' = FALSE
    /\ helper' = [pc |-> "none", request |-> None] /\ session' = "none"
    /\ messages' = Append(messages, Exited)
    /\ requests' = <<>>

Alive == UNCHANGED <<started, old, helper, session, requests>>

query(c) ==
    /\ call[c].pc = "idle"
    /\ call' = [call EXCEPT ![c] = [NoCall EXCEPT !.pc = "lock", !.seen = {gpu}]]
    /\ UNCHANGED <<lock, started, old, next_id, requests, messages, helper, session, gpu, upsets>>

\* The lock is had or not before the deadline.
IsBusy(c) ==
    /\ call[c].pc = "lock" /\ lock # None
    /\ call' = [call EXCEPT ![c].pc = "done", ![c].answer = "failed"]
    /\ UNCHANGED <<lock, started, old, next_id, requests, messages, helper, session, gpu, upsets>>

Acquire(c) ==
    /\ call[c].pc = "lock" /\ lock = None
    /\ lock' = c
    /\ Goto(c, IF started = "none" THEN "start" ELSE IF started = "ready" THEN "send" ELSE "await_ready")
    /\ UNCHANGED <<started, old, next_id, requests, messages, helper, session, gpu, upsets>>

\* Popen, the kill job and the reader thread, or a failure of the first two
_start(c) ==
    /\ call[c].pc = "start"
    /\ \/ /\ started' = "starting" /\ old' = FALSE
          /\ helper' = [pc |-> "loading", request |-> None] /\ session' = "none"
          /\ requests' = <<>> /\ messages' = <<>>
          /\ Goto(c, "await_ready")
          /\ UNCHANGED <<lock, upsets>>
       \/ Ends(c, "failed") /\ Upset /\ Alive /\ UNCHANGED messages
    /\ UNCHANGED <<next_id, gpu>>

\* _next found a message.
Received == messages # <<>> /\ Head(messages) # Exited

\* _next found the end of the output.
HelperExited(c) ==
    /\ call[c].pc \in {"await_ready", "await"} /\ messages # <<>> /\ Head(messages) = Exited
    /\ Ends(c, "failed")
    /\ Kill
    /\ UNCHANGED <<next_id, gpu, upsets>>

IsReady(c) ==
    /\ call[c].pc = "await_ready" /\ Received
    /\ started' = IF Head(messages) = Ready THEN "ready" ELSE started
    /\ Goto(c, IF started' = "ready" THEN "send" ELSE "await_ready")
    /\ messages' = Tail(messages)
    /\ UNCHANGED <<lock, old, next_id, requests, helper, session, gpu, upsets>>

\* Faulty variants of the next definition: a start is killed at the deadline
\* of a query, or never.
StillStartingKills(c) ==
    /\ call[c].pc = "await_ready"
    /\ Ends(c, "failed") /\ Kill
    /\ PassesWhile(messages # <<>>)
    /\ UNCHANGED <<next_id, gpu>>

StillStartingWaits(c) ==
    /\ call[c].pc = "await_ready"
    /\ Ends(c, "failed") /\ Alive
    /\ PassesWhile(messages # <<>>)
    /\ UNCHANGED <<messages, next_id, gpu>>

\* The deadline passes; a start is left alone up to its own limit.
StillStarting(c) ==
    /\ call[c].pc = "await_ready"
    /\ Ends(c, "failed")
    /\ IF old THEN Kill ELSE Alive /\ UNCHANGED messages
    /\ PassesWhile(messages # <<>>)
    /\ UNCHANGED <<next_id, gpu>>

\* The request is written, or the pipe is broken.
Send(c) ==
    /\ call[c].pc = "send"
    /\ next_id' = (next_id % Ids) + 1
    /\ IF helper.pc = "none"
       THEN Ends(c, "failed") /\ Kill
       ELSE /\ requests' = Append(requests, [id |-> next_id'])
            /\ call' = [call EXCEPT ![c].pc = "await", ![c].id = next_id']
            /\ UNCHANGED <<lock, started, old, messages, helper, session>>
    /\ UNCHANGED <<gpu, upsets>>

Await(c) ==
    /\ call[c].pc = "await" /\ Received
    /\ LET message == Head(messages) IN
       IF message.id = call[c].id THEN Ends(c, message.answer) ELSE UNCHANGED <<call, lock>>
    /\ messages' = Tail(messages)
    /\ UNCHANGED <<started, old, next_id, requests, helper, session, gpu, upsets>>

\* A faulty variant of the next definition: the helper is left to finish and
\* the next query repeats the id.
TimedOutRepeats(c) ==
    /\ call[c].pc = "await"
    /\ Ends(c, "failed") /\ Alive
    /\ next_id' = next_id - 1
    /\ PassesWhile(messages # <<>> \/ helper.pc # "hung")
    /\ UNCHANGED <<messages, gpu>>

\* The deadline passes; an answer may be there, or come, just then.
TimedOut(c) ==
    /\ call[c].pc = "await"
    /\ Ends(c, "failed") /\ Kill
    /\ PassesWhile(messages # <<>> \/ helper.pc # "hung")
    /\ UNCHANGED <<next_id, gpu>>

\* close
Close(c) ==
    /\ call[c].pc = "idle" /\ lock = None /\ started # "none" /\ Upset
    /\ Kill
    /\ UNCHANGED <<call, lock, next_id, gpu>>

Done(c) ==
    /\ call[c].pc = "done"
    /\ call' = [call EXCEPT ![c] = NoCall]
    /\ UNCHANGED <<lock, started, old, next_id, requests, messages, helper, session, gpu, upsets>>

-----------------------------------------------------------------------------
(* The helper process: serve.                                              *)

Unasked == UNCHANGED <<call, lock, started, old, next_id, gpu, upsets>>

Loaded ==
    /\ helper.pc = "loading"
    /\ helper' = [helper EXCEPT !.pc = "idle"]
    /\ messages' = Append(messages, Ready)
    /\ UNCHANGED <<requests, session>> /\ Unasked

\* handle_request asks PnP first; a GPU in D3 is not woken.
TakeRequest ==
    /\ helper.pc = "idle" /\ requests # <<>>
    /\ requests' = Tail(requests)
    /\ IF nvidia_gpu_powered_off(Devices[gpu]) = "off"
       THEN /\ messages' = Append(messages, Answer(Head(requests), "off"))
            /\ UNCHANGED helper
       ELSE /\ helper' = [pc |-> "nvml", request |-> Head(requests)]
            /\ UNCHANGED messages
    /\ UNCHANGED session /\ Unasked

\* Nvml: a query opens the session when there is none, and one that fails
\* drops it.
Query ==
    /\ helper.pc = "nvml"
    /\ session' = IF session = "lost" \/ gpu = "missing" THEN "none" ELSE "open"
    /\ messages' = Append(messages, Answer(helper.request,
                              IF session' = "open" THEN "value" ELSE "failed"))
    /\ helper' = [pc |-> "idle", request |-> None]
    /\ UNCHANGED requests /\ Unasked

-----------------------------------------------------------------------------
(* The driver, the GPU and time.                                           *)

\* Loading, or a driver call, does not come back.
Hang ==
    /\ helper.pc \in {"loading", "nvml"} /\ Upset
    /\ helper' = [helper EXCEPT !.pc = "hung"]
    /\ UNCHANGED <<call, lock, started, old, next_id, requests, messages, session, gpu>>

\* The helper dies, and the reader finds the end of its output.
Die ==
    /\ helper.pc # "none" /\ Upset
    /\ helper' = [pc |-> "none", request |-> None] /\ session' = "none"
    /\ messages' = Append(messages, Exited)
    /\ UNCHANGED <<call, lock, started, old, next_id, requests, gpu>>

SessionLost ==
    /\ session = "open" /\ Upset
    /\ session' = "lost"
    /\ UNCHANGED <<call, lock, started, old, next_id, requests, messages, helper, gpu>>

\* Seen by the queries that run.
GpuChanges ==
    /\ Upset
    /\ gpu' \in DOMAIN Devices \ {gpu}
    /\ call' = [c \in Callers |->
                   IF call[c].pc = "idle" THEN call[c] ELSE [call[c] EXCEPT !.seen = @ \cup {gpu'}]]
    /\ UNCHANGED <<lock, started, old, next_id, requests, messages, helper, session>>

LimitPasses ==
    /\ started = "starting" /\ ~old
    /\ old' = TRUE
    /\ PassesWhile(helper.pc # "hung")
    /\ UNCHANGED <<call, lock, started, next_id, requests, messages, helper, session, gpu>>

Deadline(c) == StillStarting(c) \/ TimedOut(c)

CallerStep(c) ==
    \/ IsBusy(c) \/ Acquire(c) \/ _start(c) \/ HelperExited(c) \/ IsReady(c)
    \/ Send(c) \/ Await(c) \/ Done(c)

HelperStep == Loaded \/ TakeRequest \/ Query

Environment == Hang \/ Die \/ SessionLost \/ GpuChanges \/ LimitPasses

Next ==
    \/ \E c \in Callers : query(c) \/ Close(c) \/ CallerStep(c) \/ Deadline(c)
    \/ HelperStep
    \/ Environment

Spec == Init /\ [][Next]_vars

\* Queries keep coming; threads run, deadlines and limits pass; a helper that
\* does not hang does its work.
FairSpec ==
    /\ Spec
    /\ \A c \in Callers : WF_vars(query(c)) /\ WF_vars(CallerStep(c)) /\ WF_vars(Deadline(c))
    /\ WF_vars(HelperStep) /\ WF_vars(LimitPasses)

-----------------------------------------------------------------------------
(* Properties.                                                             *)

\* A query that is answered is told of the GPU as it was while the query ran:
\* an answer that came late, or was left by a killed helper, is never taken
\* for the next one's.  (query, _kill, _start)
AnswerIsCurrent ==
    \A c \in Callers :
        /\ call[c].answer = "off" => "off" \in call[c].seen
        /\ call[c].answer = "value" => call[c].seen # {"missing"}

\* A helper that is starting is killed only when it is older than its limit,
\* or has died, or the lane is closed: however short the deadlines of the
\* queries, each start has its time.  (query)
StartIsGivenTime ==
    [][/\ started = "starting" /\ started' = "none"
       => old \/ messages # <<>> \/ \E c \in Callers : Close(c)]_vars

\* However often the helper hung, died or lost its session, the queries of a
\* GPU that is there are answered again.  (query, _kill, _start, Nvml.reset)
LaneRecovers ==
    <>[](gpu # "missing") => []<>(\E c \in Callers : call[c].answer \in {"off", "value"})
=============================================================================
