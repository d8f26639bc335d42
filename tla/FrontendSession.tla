--------------------------- MODULE FrontendSession ---------------------------
(* The Qt window of the Windows application (frontend/fan_control_gui.py)    *)
(* with its in-process client (stellaris15gen3.py): one GUI thread whose     *)
(* event loop delivers timers, answers to questions and the results of       *)
(* requests; one pool thread that runs the requests in order; one controller *)
(* that keeps on with a request whose caller has given up.  What a request   *)
(* does is abstracted to what the session depends on: whether the last thing  *)
(* done to the fans was the final 100% write.                                *)
EXTENDS Naturals, Sequences

CONSTANTS
    None,       \* no worker, no operation, no outcome
    MaxInputs   \* user inputs and session ends that are followed

VARIABLES
    gui,     \* the window's flags
    asked,   \* the questions on the screen, the top one first
    timers,  \* the single-shot timers that run
    pool,    \* requests that wait for the pool's thread
    thread,  \* the request the pool's thread waits for
    posts,   \* signals of finished requests, not delivered yet
    lane,    \* the request the controller works on
    final,   \* a final write is the last thing done to the fans
    inputs   \* what the bound counts

vars    == <<gui, asked, timers, pool, thread, posts, lane, final, inputs>>
window  == <<gui, asked, timers>>
backend == <<thread, posts, lane, final>>

FinalWrites  == {"exit", "session", "orphan"}
FanCommands  == {"automatic", "manual", "speeds", "curve", "boost", "oem"}
Debounced    == {"speeds", "curve", "gpu", "lightbar"}
Requests     == FanCommands \cup FinalWrites \cup Debounced \cup
                {"initial", "mux", "read_mux", "telemetry", "heartbeat"}

ASSUME NoneAssumption == None \notin Requests /\ None \notin BOOLEAN

Init ==
    /\ gui = [busy |-> TRUE, closing |-> FALSE, exiting |-> FALSE,
              prepared |-> FALSE, gone |-> FALSE, manual |-> FALSE,
              telemetry |-> FALSE, checking |-> FALSE, offline |-> FALSE,
              outcome |-> None]
    /\ asked = <<>>
    /\ timers = {}
    /\ pool = <<"initial">>
    /\ thread = None
    /\ posts = <<>>
    /\ lane = None
    /\ final = FALSE
    /\ inputs = 0
-----------------------------------------------------------------------------
(* The event loop does not run while the GUI thread waits for the pool at    *)
(* the end of the session (closing is then set), nor after the window went.  *)
EventsWhileWaiting == ~gui.gone
EventsRun == ~gui.gone /\ ~gui.closing

Ahead(op) == <<op>> \o pool
Queued(op) == Append(pool, op)

\* _run: refused without a word while another request runs.
Run(g, op) ==
    /\ gui' = [g EXCEPT !.busy = @ \/ ~g.closing]
    /\ pool' = IF g.busy \/ g.closing THEN pool ELSE Queued(op)

\* A step of the event loop that takes no new input and no result.
Loop == EventsRun /\ UNCHANGED <<backend, inputs>>

\* closeEvent of a prepared window.
Closed(g) == [g EXCEPT !.prepared = TRUE, !.closing = TRUE, !.gone = TRUE]
-----------------------------------------------------------------------------
(* The user, who reaches the window only while no question is on it.         *)
User ==
    /\ EventsRun
    /\ asked = <<>>
    /\ inputs < MaxInputs
    /\ inputs' = inputs + 1
    /\ UNCHANGED backend

Ask(question) == asked' = <<question>> /\ UNCHANGED timers

EditSpeeds == User /\ ~gui.busy /\ gui.manual
              /\ timers' = timers \cup {"speeds"} /\ UNCHANGED <<gui, asked, pool>>
EditCurve == User /\ ~gui.busy /\ ~gui.manual
             /\ timers' = timers \cup {"curve"} /\ UNCHANGED <<gui, asked, pool>>
EditGpuPower == User /\ ~gui.busy
                /\ timers' = timers \cup {"gpu"} /\ UNCHANGED <<gui, asked, pool>>
EditLightbar == User
                /\ timers' = timers \cup {"lightbar"} /\ UNCHANGED <<gui, asked, pool>>
Click(op) == User /\ ~gui.busy /\ Run(gui, op) /\ UNCHANGED <<asked, timers>>

AskMode == User /\ ~gui.busy /\ Ask("mode") /\ UNCHANGED <<gui, pool>>
AskOem  == User /\ ~gui.busy /\ Ask("oem") /\ UNCHANGED <<gui, pool>>
\* The experimental MUX save holds the window busy while it asks.
AskOptimus ==
    /\ User /\ ~gui.busy /\ Ask("optimus")
    /\ gui' = [gui EXCEPT !.busy = TRUE] /\ UNCHANGED pool
AskExit ==
    /\ User /\ ~gui.busy /\ ~gui.exiting /\ Ask("exit")
    /\ UNCHANGED <<gui, pool>>

\* The answer to the top question; timers and results were delivered meanwhile.
No ==
    /\ Loop /\ asked # <<>>
    /\ asked' = Tail(asked)
    /\ gui' = IF Head(asked) = "optimus" THEN [gui EXCEPT !.busy = FALSE] ELSE gui
    /\ UNCHANGED <<timers, pool>>

Yes(question) ==
    /\ Loop /\ asked # <<>> /\ Head(asked) = question
    /\ asked' = Tail(asked)

ModeChanged ==
    /\ Yes("mode")
    /\ timers' = timers \ {"speeds", "curve"}
    /\ Run([gui EXCEPT !.manual = ~gui.manual],
           IF gui.manual THEN "automatic" ELSE "manual")
ConfirmLow == Yes("low") /\ Run(gui, "speeds") /\ UNCHANGED timers
ToggleOemService == Yes("oem") /\ Run(gui, "oem") /\ UNCHANGED timers
ApplyOptimus ==
    Yes("optimus") /\ Run([gui EXCEPT !.busy = FALSE], "mux") /\ UNCHANGED timers
RequestExit ==
    /\ Yes("exit")
    /\ timers' = timers \ {"speeds", "curve"}
    /\ Run([gui EXCEPT !.exiting = TRUE], "exit")
-----------------------------------------------------------------------------
(* Timers, which also fire while a question waits.                           *)
Fires(timer) == Loop /\ timer \in timers

OtherMode(timer) == \/ timer = "speeds" /\ ~gui.manual
                    \/ timer = "curve" /\ gui.manual

\* A change that comes up while a request runs, or in the other mode, is
\* dropped; only the lightbar's timer is started again.
Dropped(timer) ==
    /\ Fires(timer) /\ timer # "lightbar"
    /\ gui.busy \/ OtherMode(timer)
    /\ timers' = timers \ {timer} /\ UNCHANGED <<gui, asked, pool>>
Comes(timer) ==
    /\ Fires(timer) /\ ~gui.busy /\ ~OtherMode(timer)
    /\ timers' = timers \ {timer}
AskLow == Comes("speeds") /\ asked' = <<"low">> \o asked /\ UNCHANGED <<gui, pool>>
Apply(timer) == Comes(timer) /\ Run(gui, timer) /\ UNCHANGED asked

RefreshTelemetry ==
    /\ Loop /\ ~gui.busy /\ ~gui.telemetry
    /\ gui' = [gui EXCEPT !.telemetry = TRUE]
    /\ pool' = Queued("telemetry") /\ UNCHANGED <<asked, timers>>
CheckBackend ==
    /\ Loop /\ ~gui.busy /\ ~gui.telemetry /\ ~gui.checking
    /\ gui' = [gui EXCEPT !.checking = TRUE]
    /\ pool' = Queued("heartbeat") /\ UNCHANGED <<asked, timers>>
-----------------------------------------------------------------------------
(* The pool's thread and the controller.                                     *)
Post(op, ok) ==
    IF op \in {"session", "orphan"} THEN posts
    ELSE Append(posts, [op |-> op, ok |-> ok])
Outcome(op, ok) ==
    gui' = IF op = "session" THEN [gui EXCEPT !.outcome = ok] ELSE gui

\* The client refuses a second operation while one that timed out still runs.
Refused ==
    /\ thread = None /\ pool # <<>> /\ lane # None
    /\ pool' = Tail(pool)
    /\ UNCHANGED final
    /\ posts' = Post(Head(pool), FALSE) /\ Outcome(Head(pool), FALSE)
    /\ UNCHANGED <<asked, timers, thread, lane, inputs>>
Started ==
    /\ thread = None /\ pool # <<>> /\ lane = None
    /\ pool' = Tail(pool)
    /\ thread' = Head(pool) /\ lane' = Head(pool)
    /\ UNCHANGED <<gui, asked, timers, posts, final, inputs>>

\* A fan command undoes the final write, also when it fails half done.
LeavesFinal(op, ok) == \/ ok /\ op \in FinalWrites
                       \/ final /\ op \notin FanCommands

Finished(ok) ==
    /\ lane # None
    /\ lane' = None /\ thread' = None
    /\ final' = LeavesFinal(lane, ok)
    /\ IF thread = None
       THEN UNCHANGED <<gui, posts>>
       ELSE posts' = Post(thread, ok) /\ Outcome(thread, ok)
    /\ UNCHANGED <<asked, timers, pool, inputs>>
TimedOut ==
    /\ thread # None
    /\ thread' = None /\ UNCHANGED <<lane, final>>
    /\ posts' = Post(thread, FALSE) /\ Outcome(thread, FALSE)
    /\ UNCHANGED <<asked, timers, pool, inputs>>
-----------------------------------------------------------------------------
(* A result reaches the GUI thread.                                          *)
\* _show_backend_state stops what the control method in use does not offer.
Shown == {timers, timers \ {"gpu", "lightbar"}}

Delivered(op) ==
    /\ EventsRun /\ posts # <<>> /\ Head(posts).op = op
    /\ posts' = Tail(posts)
    /\ UNCHANGED <<asked, thread, lane, final, inputs>>

\* _run's own complete and failed return at once from a window that closes.
Ready == IF gui.closing THEN gui ELSE [gui EXCEPT !.busy = FALSE]

InitialResult ==
    /\ Delivered("initial") /\ timers' \in Shown
    /\ IF Head(posts).ok THEN Run([Ready EXCEPT !.manual = FALSE], "automatic")
                         ELSE gui' = Ready /\ UNCHANGED pool
ModeResult ==
    /\ \E op \in {"automatic", "manual", "curve"} : Delivered(op)
    /\ timers' \in Shown
    /\ gui' = Ready /\ UNCHANGED pool
OemResult ==
    /\ Delivered("oem") /\ timers' \in Shown
    /\ \E automatic \in BOOLEAN :
        gui' = IF Head(posts).ok /\ ~gui.closing
               THEN [Ready EXCEPT !.manual = ~automatic] ELSE Ready
    /\ UNCHANGED pool
PlainResult ==
    /\ \E op \in {"speeds", "boost", "gpu", "lightbar"} : Delivered(op)
    /\ gui' = Ready /\ UNCHANGED <<timers, pool>>
\* A failed save reads the saved mode again.
MuxResult ==
    /\ \E op \in {"mux", "read_mux"} :
        /\ Delivered(op)
        /\ IF op = "mux" /\ ~Head(posts).ok THEN Run(Ready, "read_mux")
                                            ELSE gui' = Ready /\ UNCHANGED pool
    /\ UNCHANGED timers
TelemetryResult ==
    /\ Delivered("telemetry") /\ timers' \in Shown
    /\ gui' = [gui EXCEPT !.telemetry = FALSE] /\ UNCHANGED pool
HeartbeatResult ==
    /\ Delivered("heartbeat") /\ timers' \in Shown
    /\ LET seen == [gui EXCEPT !.checking = FALSE, !.offline = ~Head(posts).ok]
       IN  IF Head(posts).ok /\ gui.offline
           THEN Run(seen, IF gui.manual THEN "manual" ELSE "automatic")
           ELSE gui' = seen /\ UNCHANGED pool
ExitResult ==
    /\ Delivered("exit") /\ UNCHANGED <<timers, pool>>
    /\ gui' = LET back == [Ready EXCEPT !.exiting = FALSE]
              IN  IF Head(posts).ok THEN Closed(back) ELSE back
-----------------------------------------------------------------------------
(* The end of the Windows session: the GUI thread queues the final write     *)
(* behind what runs and waits for the whole pool.                            *)
SessionEnds ==
    /\ EventsRun /\ inputs < MaxInputs /\ ~gui.prepared
    /\ inputs' = inputs + 1
    /\ gui' = [gui EXCEPT !.closing = TRUE, !.outcome = None]
    /\ timers' = timers \ {"speeds", "curve"}
    /\ pool' = Queued("session")
    /\ UNCHANGED <<asked, backend>>

Waiting  == gui.closing /\ ~gui.gone
PoolDone == pool = <<>> /\ thread = None

Acknowledge ==
    /\ Waiting /\ PoolDone /\ gui.outcome = TRUE
    /\ gui' = Closed(gui)
    /\ UNCHANGED <<asked, timers, pool, backend, inputs>>

\* The outcome of a write that was not waited for is never looked at again.
Orphaned(op) == IF op = "session" THEN "orphan" ELSE op
Cancel ==
    /\ Waiting /\ gui.outcome # TRUE
    /\ PoolDone => gui.outcome = FALSE
    /\ gui' = [gui EXCEPT !.closing = FALSE, !.outcome = None]
    /\ pool' = [i \in DOMAIN pool |-> Orphaned(pool[i])]
    /\ thread' = Orphaned(thread)
    /\ UNCHANGED <<asked, timers, posts, lane, final, inputs>>
-----------------------------------------------------------------------------
Edits == EditSpeeds \/ EditCurve \/ EditGpuPower \/ EditLightbar
Clicks == Click("boost") \/ Click("gpu") \/ Click("read_mux")
Questions == AskMode \/ AskOem \/ AskOptimus \/ AskExit
Answers == No \/ ModeChanged \/ ConfirmLow \/ ToggleOemService \/ ApplyOptimus
           \/ RequestExit
Timeouts ==
    \/ (\E t \in Debounced : Dropped(t))
    \/ AskLow \/ (\E t \in Debounced : Apply(t))
    \/ RefreshTelemetry \/ CheckBackend
Results == InitialResult \/ ModeResult \/ OemResult \/ PlainResult \/ MuxResult
           \/ TelemetryResult \/ HeartbeatResult \/ ExitResult
Backend == Refused \/ Started \/ (\E ok \in BOOLEAN : Finished(ok)) \/ TimedOut
Session == SessionEnds \/ Acknowledge \/ Cancel

Next == Edits \/ Clicks \/ Questions \/ Answers \/ Timeouts \/ Results
        \/ Backend \/ Session

(* The pool's thread goes on, a request is answered or times out, the event  *)
(* loop delivers results, and the wait for the pool ends by itself.  Nothing *)
(* is assumed of the user, of the timers, nor of a driver that hangs.        *)
Fairness ==
    /\ WF_vars(Refused \/ Started \/ TimedOut)
    /\ WF_vars(Results)
    /\ WF_vars(Acknowledge \/ Cancel)

Spec     == Init /\ [][Next]_vars
FairSpec == Spec /\ Fairness

(* The application says goodbye, to the user's exit or to the end of the     *)
(* session, only when the last thing done to the fans was a final write that *)
(* succeeded; and no request that was queued, running or given up before may *)
(* undo it afterwards (request_exit, prepare_session_shutdown).              *)
FullOnExit == gui.prepared => final

(* A window that is busy, or that holds up the end of the session, becomes   *)
(* ready again, waits for an answer of the user's, or is gone: also when the *)
(* driver hangs and when the session end was cancelled.                      *)
IsReady == ~gui.busy /\ ~gui.closing
ComesBack == (gui.busy \/ gui.closing) ~> (IsReady \/ asked # <<>> \/ gui.gone)

(* An exit that the user confirmed is carried out or given back.  The code   *)
(* does not ensure it: _run may refuse the exit's request without a word     *)
(* while _exit_in_progress is already set.                                   *)
ExitEnds == gui.exiting ~> (~gui.exiting \/ gui.gone)
=============================================================================
