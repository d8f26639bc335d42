------------------------ MODULE FrontendSession_proofs ------------------------
(* The application leaves only with its final write as the last thing done   *)
(* to the fans, however many inputs, timers and results come in between.     *)
EXTENDS FrontendSession, SequenceTheorems, TLAPS

\* The requests of _run hold the window busy until their result is delivered;
\* telemetry, heartbeats and the end of the session do not.
Free  == {"telemetry", "heartbeat", "session", "orphan"}
Busy  == Requests \ Free
Posts == [op : Requests, ok : BOOLEAN]
BusyPosts == [op : Busy, ok : BOOLEAN]
Goodbye   == [op : {"exit"}, ok : {TRUE}]

Asks == {"mode", "oem", "optimus", "exit", "low"}

Window == [busy : BOOLEAN, closing : BOOLEAN, exiting : BOOLEAN, prepared : BOOLEAN,
           gone : BOOLEAN, manual : BOOLEAN, telemetry : BOOLEAN, checking : BOOLEAN,
           offline : BOOLEAN, outcome : BOOLEAN \cup {None}]

Types ==
    /\ gui \in Window
    /\ asked \in Seq(Asks)
    /\ pool \in Seq(Requests) /\ posts \in Seq(Posts)
    /\ thread \in Requests \cup {None} /\ lane \in Requests \cup {None}
    /\ final \in BOOLEAN

Without(s, X)   == \A i \in 1 .. Len(s) : s[i] \notin X
AtMostOne(s, X) == \A i, j \in 1 .. Len(s) : s[i] \in X /\ s[j] \in X => i = j

\* No request of _run waits, runs, or has a result that is not delivered.
Calm == thread \notin Busy /\ Without(pool, Busy) /\ Without(posts, BusyPosts)

NoMuxQuestion == Without(asked, {"optimus"})

\* There is one such request at a time, and the window is busy with it.
OneRequest ==
    /\ AtMostOne(pool, Busy) /\ AtMostOne(posts, BusyPosts)
    /\ thread \in Busy => Without(pool, Busy)
    /\ Without(posts, BusyPosts) \/ (thread \notin Busy /\ Without(pool, Busy))
    /\ Calm \/ (gui.busy /\ NoMuxQuestion)
    /\ NoMuxQuestion \/ (asked = <<"optimus">> /\ gui.busy)

\* The thread waits for what the controller works on.
SameWork ==
    thread # None => \/ lane = thread
                     \/ thread = "orphan" /\ lane = "session"

\* The final write of a session end is the last request of all, and only its
\* own success is taken for one.
SessionIsLast ==
    /\ ~gui.closing => Without(pool, {"session"}) /\ thread # "session"
    /\ gui.closing /\ ~gui.gone =>
          CASE gui.outcome = None ->
                    \/ thread = "session" /\ pool = <<>>
                    \/ /\ thread # "session" /\ pool # <<>> /\ pool[Len(pool)] = "session"
                       /\ \A i \in 1 .. Len(pool) - 1 : pool[i] # "session"
            [] gui.outcome = FALSE -> thread # "session" /\ pool = <<>>
            [] gui.outcome = TRUE  -> thread = None /\ pool = <<>> /\ lane = None /\ final

\* Nothing can undo the final write, nor will.
Settled ==
    /\ final /\ lane \notin FanCommands /\ thread \notin FanCommands
    /\ Without(pool, FanCommands)

GoodbyeIsTrue ==
    /\ Without(posts, Goodbye) \/ (final /\ lane \notin FanCommands)
    /\ gui.prepared => gui.gone /\ Settled
    /\ gui.gone => gui.closing

IInv == Types /\ OneRequest /\ SameWork /\ SessionIsLast /\ GoodbyeIsTrue

-----------------------------------------------------------------------------
(* Sequences.                                                                *)

LEMMA AppendOp ==
    ASSUME NEW S, NEW s \in Seq(S), NEW x \in S, NEW X
    PROVE  /\ Append(s, x) \in Seq(S) /\ Append(s, x) # <<>>
           /\ Len(Append(s, x)) = Len(s) + 1 /\ Append(s, x)[Len(s) + 1] = x
           /\ \A i \in 1 .. Len(s) : Append(s, x)[i] = s[i]
           /\ Without(Append(s, x), X) <=> Without(s, X) /\ x \notin X
           /\ AtMostOne(s, X) /\ (Without(s, X) \/ x \notin X) => AtMostOne(Append(s, x), X)
BY DEF Without, AtMostOne

LEMMA TailOf ==
    ASSUME NEW S, NEW s \in Seq(S), s # <<>>, NEW X
    PROVE  /\ Tail(s) \in Seq(S) /\ Head(s) \in S
           /\ Len(Tail(s)) = Len(s) - 1 /\ Head(s) = s[1]
           /\ \A i \in 1 .. Len(s) - 1 : Tail(s)[i] = s[i + 1]
           /\ Without(s, X) <=> Head(s) \notin X /\ Without(Tail(s), X)
           /\ AtMostOne(s, X) => /\ AtMostOne(Tail(s), X)
                                 /\ Head(s) \in X => Without(Tail(s), X)
<1>1. /\ Tail(s) \in Seq(S) /\ Head(s) \in S
      /\ Len(Tail(s)) = Len(s) - 1 /\ Head(s) = s[1] /\ Len(s) \in Nat \ {0}
      /\ \A i \in 1 .. Len(s) - 1 : Tail(s)[i] = s[i + 1]
  OBVIOUS
<1>2. \A i \in 2 .. Len(s) : s[i] = Tail(s)[i - 1] /\ i - 1 \in 1 .. Len(Tail(s))
  BY <1>1
<1>3. Without(s, X) <=> Head(s) \notin X /\ Without(Tail(s), X)
  <2>1. ASSUME Without(s, X) PROVE Head(s) \notin X /\ Without(Tail(s), X)
    BY <1>1, <2>1 DEF Without
  <2>2. ASSUME Head(s) \notin X, Without(Tail(s), X), NEW i \in 1 .. Len(s) PROVE s[i] \notin X
    <3>1. CASE i = 1
      BY <1>1, <2>2, <3>1
    <3>2. CASE i \in 2 .. Len(s)
      BY <1>2, <2>2, <3>2 DEF Without
    <3> QED  BY <1>1, <3>1, <3>2
  <2> QED  BY <2>1, <2>2 DEF Without
<1>4. ASSUME AtMostOne(s, X) PROVE AtMostOne(Tail(s), X)
  BY <1>1, <1>4 DEF AtMostOne
<1>5. ASSUME AtMostOne(s, X), Head(s) \in X PROVE Without(Tail(s), X)
  BY <1>1, <1>5 DEF AtMostOne, Without
<1> QED  BY <1>1, <1>3, <1>4, <1>5

-----------------------------------------------------------------------------
(* What a step of the GUI thread may do.                                     *)

NewRequest(g) == g.busy /\ \E op \in Busy : pool' = Append(pool, op)

\* Nothing is asked of the controller that counts,
Idles ==
    /\ posts' = posts
    /\ pool' = pool \/ \E op \in {"telemetry", "heartbeat"} : pool' = Append(pool, op)
    /\ Calm \/ (gui'.busy /\ NoMuxQuestion')
    /\ NoMuxQuestion' \/ (asked' = <<"optimus">> /\ gui'.busy)

\* ... a request begins while there is none,
Begins == posts' = posts /\ Calm /\ NewRequest(gui') /\ NoMuxQuestion'

\* ... or a result is delivered, and may begin the next.
Delivers ==
    /\ posts # <<>> /\ posts' = Tail(posts) /\ asked' = asked
    /\ \/ Head(posts).op \in Busy /\ (pool' = pool \/ NewRequest(gui'))
       \/ /\ Head(posts).op \in Free
          /\ \/ pool' = pool /\ gui'.busy = gui.busy
             \/ ~gui.busy /\ NewRequest(gui')

SameFate(g) ==
    g.closing = gui.closing /\ g.gone = gui.gone /\ g.prepared = gui.prepared /\ g.outcome = gui.outcome

GuiStep ==
    /\ EventsRun /\ UNCHANGED <<thread, lane, final>>
    /\ gui' \in Window /\ asked' \in Seq(Asks) /\ SameFate(gui')
    /\ Idles \/ Begins \/ Delivers

LEMMA OpsDiffer ==
    /\ Busy \subseteq Requests /\ Free \subseteq Requests /\ FanCommands \subseteq Busy
    /\ Busy \cap Free = {} /\ {"telemetry", "heartbeat", "session", "orphan"} = Free
    /\ "session" \notin Busy /\ "telemetry" # "session" /\ "heartbeat" # "session"
    /\ {"exit", "initial", "gpu", "lightbar", "mux", "read_mux"} \subseteq Busy
    /\ "exit" \notin FanCommands /\ "session" \notin FanCommands
    /\ "orphan" \notin FanCommands /\ "orphan" # "session" /\ "orphan" # "exit"
    /\ {"speeds", "curve", "manual", "automatic", "boost", "oem"} \subseteq FanCommands
BY DEF Busy, Free, Requests, FanCommands, FinalWrites, Debounced

LEMMA PostIsBusy == \A p \in Posts : p \in BusyPosts <=> p.op \in Busy
BY OpsDiffer DEF Posts, BusyPosts

LEMMA GuiTypes == ASSUME Types, GuiStep PROVE Types'
<1>1. ASSUME NEW op \in Requests PROVE Append(pool, op) \in Seq(Requests)
  BY <1>1 DEF Types
<1>2. posts # <<>> => Tail(posts) \in Seq(Posts)
  BY DEF Types
<1>3. pool' \in Seq(Requests)
  BY <1>1, OpsDiffer DEF GuiStep, Idles, Begins, Delivers, NewRequest, Types
<1>4. posts' \in Seq(Posts)
  BY <1>2 DEF GuiStep, Idles, Begins, Delivers, Types
<1> QED  BY <1>3, <1>4 DEF GuiStep, Types

LEMMA GuiOneRequest == ASSUME Types, OneRequest, GuiStep PROVE OneRequest'
<1> USE OpsDiffer
<1>0. pool \in Seq(Requests) /\ posts \in Seq(Posts) /\ thread' = thread
  BY DEF Types, GuiStep
<1>1. CASE Idles
  <2>1. CASE pool' = pool
    BY <1>0, <1>1, <2>1 DEF Idles, OneRequest, Calm
  <2>2. ASSUME NEW op \in {"telemetry", "heartbeat"}, pool' = Append(pool, op)
        PROVE  OneRequest'
    <3>1. op \in Requests /\ op \notin Busy
      OBVIOUS
    <3>2. /\ Without(pool, Busy)' <=> Without(pool, Busy)
          /\ AtMostOne(pool, Busy) => AtMostOne(pool, Busy)'
      BY <1>0, <2>2, <3>1, AppendOp
    <3> QED  BY <1>0, <1>1, <3>2 DEF Idles, OneRequest, Calm
  <2> QED  BY <1>1, <2>1, <2>2 DEF Idles
<1>2. CASE Begins
  <2>1. PICK op \in Busy : pool' = Append(pool, op)
    BY <1>2 DEF Begins, NewRequest
  <2>2. AtMostOne(pool, Busy)'
    BY <1>0, <1>2, <2>1, AppendOp DEF Begins, Calm, OneRequest
  <2> QED  BY <1>0, <1>2, <2>2 DEF Begins, NewRequest, OneRequest, Calm
<1>3. CASE Delivers
  <2>1. posts # <<>> /\ posts' = Tail(posts) /\ Head(posts) \in Posts /\ asked' = asked
    BY <1>0, <1>3, TailOf DEF Delivers
  <2>2. /\ AtMostOne(posts, BusyPosts)'
        /\ Head(posts) \in BusyPosts => Without(posts, BusyPosts)'
        /\ Without(posts, BusyPosts) <=> Head(posts) \notin BusyPosts /\ Without(posts, BusyPosts)'
    BY <1>0, <2>1, TailOf DEF OneRequest
  <2>3. Head(posts) \in BusyPosts <=> Head(posts).op \in Busy
    BY <2>1, PostIsBusy
  <2>4. ASSUME Without(pool, Busy), thread \notin Busy, Without(posts, BusyPosts)', NoMuxQuestion,
               NewRequest(gui')
        PROVE  OneRequest'
    <3>1. PICK op \in Busy : pool' = Append(pool, op)
      BY <2>4 DEF NewRequest
    <3>2. AtMostOne(pool, Busy)'
      BY <1>0, <2>4, <3>1, AppendOp DEF OneRequest
    <3> QED  BY <1>0, <2>1, <2>2, <2>4, <3>2 DEF NewRequest, NoMuxQuestion, OneRequest, Calm
  <2>5. CASE Head(posts).op \in Busy
    <3>1. /\ Without(pool, Busy) /\ thread \notin Busy /\ Without(posts, BusyPosts)'
          /\ NoMuxQuestion
      BY <2>2, <2>3, <2>5 DEF OneRequest, Calm
    <3>2. CASE pool' = pool
      BY <1>0, <2>1, <2>2, <3>1, <3>2 DEF OneRequest, Calm, NoMuxQuestion
    <3> QED  BY <1>3, <2>4, <2>5, <3>1, <3>2 DEF Delivers
  <2>6. CASE Head(posts).op \in Free
    <3>1. CASE pool' = pool /\ gui'.busy = gui.busy
      BY <1>0, <2>1, <2>2, <2>3, <2>6, <3>1 DEF OneRequest, Calm, NoMuxQuestion
    <3>2. CASE ~gui.busy /\ NewRequest(gui')
      <4>1. Calm /\ NoMuxQuestion
        BY <3>2 DEF OneRequest
      <4> QED  BY <2>2, <2>4, <3>2, <4>1 DEF Calm
    <3> QED  BY <1>3, <2>6, <3>1, <3>2 DEF Delivers
  <2> QED  BY <1>3, <2>5, <2>6 DEF Delivers
<1> QED  BY <1>1, <1>2, <1>3 DEF GuiStep

LEMMA GuiKeeps == ASSUME IInv, GuiStep PROVE IInv'
<1>1. Types' /\ OneRequest'
  BY GuiTypes, GuiOneRequest DEF IInv
<1>2. SameWork'
  BY DEF IInv, SameWork, GuiStep
<1>3. pool' = pool \/ \E op \in Requests \ {"session"} : pool' = Append(pool, op)
  BY OpsDiffer DEF GuiStep, Idles, Begins, Delivers, NewRequest
<1>4. ~gui.closing /\ ~gui.gone /\ ~gui'.closing /\ ~gui'.gone /\ ~gui'.prepared
  BY DEF GuiStep, SameFate, EventsRun, IInv, GoodbyeIsTrue
<1>5. Without(pool, {"session"})'
  <2>1. Without(pool, {"session"}) /\ pool \in Seq(Requests)
    BY <1>4 DEF IInv, Types, SessionIsLast
  <2>2. ASSUME NEW op \in Requests, op # "session", pool' = Append(pool, op)
        PROVE  Without(pool', {"session"})
    <3>1. Without(Append(pool, op), {"session"})
      BY <2>1, <2>2, AppendOp
    <3> QED  BY <2>2, <3>1
  <2> QED  BY <1>3, <2>1, <2>2 DEF Without
<1>6. SessionIsLast'
  BY <1>4, <1>5 DEF IInv, SessionIsLast, GuiStep
<1>7. Without(posts, Goodbye) => Without(posts, Goodbye)'
  <2>1. posts' = posts \/ (posts # <<>> /\ posts' = Tail(posts))
    BY DEF GuiStep, Idles, Begins, Delivers
  <2>2. ASSUME posts # <<>>, Without(posts, Goodbye) PROVE Without(Tail(posts), Goodbye)
    BY <2>2, TailOf DEF IInv, Types
  <2> QED  BY <2>1, <2>2 DEF Without
<1>8. GoodbyeIsTrue'
  BY <1>4, <1>7 DEF IInv, GoodbyeIsTrue, GuiStep
<1> QED  BY <1>1, <1>2, <1>6, <1>8 DEF IInv

-----------------------------------------------------------------------------
(* Every action of the GUI thread is such a step.                            *)

LEMMA RunAsks ==
    ASSUME NEW g \in Window, NEW op \in Busy, ~g.closing, Run(g, op)
    PROVE  /\ gui' \in Window /\ gui' = [g EXCEPT !.busy = TRUE] /\ gui'.busy
           /\ g.busy => pool' = pool
           /\ ~g.busy => NewRequest(gui')
BY DEF Run, Queued, NewRequest, Window

\* A quiet window has nothing under way.
LEMMA Quiet ==
    ASSUME IInv
    PROVE  /\ ~gui.busy => Calm /\ NoMuxQuestion
           /\ EventsRun => ~gui.closing /\ ~gui.gone
           /\ gui \in Window /\ asked \in Seq(Asks)
BY DEF IInv, OneRequest, Types, EventsRun

\* The next question comes up.
LEMMA Answered ==
    ASSUME IInv, asked # <<>>
    PROVE  /\ Tail(asked) \in Seq(Asks) /\ Without(Tail(asked), {"optimus"})
           /\ Head(asked) = "optimus" => Calm
           /\ Head(asked) # "optimus" => NoMuxQuestion
<1>1. asked \in Seq(Asks) /\ (NoMuxQuestion \/ (asked = <<"optimus">> /\ Calm))
  BY DEF IInv, Types, OneRequest
<1>2. /\ Tail(asked) \in Seq(Asks)
      /\ NoMuxQuestion <=> Head(asked) # "optimus" /\ Without(Tail(asked), {"optimus"})
  BY <1>1, TailOf DEF NoMuxQuestion
<1>3. CASE NoMuxQuestion
  BY <1>2, <1>3
<1>4. CASE asked = <<"optimus">> /\ Calm
  BY <1>2, <1>4 DEF Without
<1> QED  BY <1>1, <1>3, <1>4

LEMMA EditsAreSteps == ASSUME IInv, Edits \/ AskMode \/ AskOem \/ AskExit \/ AskOptimus PROVE GuiStep
<1>1. EventsRun /\ UNCHANGED <<thread, lane, final, posts, pool>> /\ asked = <<>>
  BY DEF Edits, EditSpeeds, EditCurve, EditGpuPower, EditLightbar, AskMode, AskOem, AskExit,
     AskOptimus, User, backend
<1>2. CASE Edits
  <2>1. UNCHANGED <<gui, asked>>
    BY <1>2 DEF Edits, EditSpeeds, EditCurve, EditGpuPower, EditLightbar
  <2> QED  BY <1>1, <2>1, Quiet DEF IInv, OneRequest, GuiStep, SameFate, Idles, Calm, NoMuxQuestion
<1>3. ASSUME NEW q \in {"mode", "oem", "exit"}, ~gui.busy, asked' = <<q>>, gui' = gui PROVE GuiStep
  <2>1. asked' \in Seq(Asks) /\ NoMuxQuestion'
    BY <1>3 DEF Asks, NoMuxQuestion, Without
  <2> QED  BY <1>1, <1>3, <2>1, Quiet DEF GuiStep, SameFate, Idles
<1>4. CASE AskOptimus
  <2>1. asked' = <<"optimus">> /\ asked' \in Seq(Asks) /\ gui' = [gui EXCEPT !.busy = TRUE] /\ ~gui.busy
    BY <1>4 DEF AskOptimus, Ask, Asks
  <2>2. gui' \in Window /\ SameFate(gui') /\ gui'.busy
    BY <2>1, Quiet DEF Window, SameFate
  <2> QED  BY <1>1, <2>1, <2>2, Quiet DEF GuiStep, Idles
<1> QED  BY <1>2, <1>3, <1>4 DEF AskMode, AskOem, AskExit, Ask

\* A request of _run begins in a quiet window, or is refused.
LEMMA RunsAreSteps ==
    ASSUME IInv, EventsRun, UNCHANGED <<thread, lane, final, posts>>, NEW op \in Busy,
           NEW g \in Window, SameFate(g), g.busy => gui.busy, ~g.busy => Calm, Run(g, op),
           asked' \in Seq(Asks), NoMuxQuestion'
    PROVE  GuiStep
<1>1. ~g.closing
  BY DEF SameFate, EventsRun
<1>2. /\ gui' \in Window /\ gui' = [g EXCEPT !.busy = TRUE] /\ gui'.busy
      /\ g.busy => pool' = pool
      /\ ~g.busy => NewRequest(gui')
  BY <1>1, RunAsks
<1>3. SameFate(gui')
  BY <1>2 DEF SameFate, Window
<1> QED  BY <1>2, <1>3 DEF GuiStep, Idles, Begins

LEMMA ClicksAreSteps == ASSUME IInv, Clicks PROVE GuiStep
<1>1. PICK op \in {"boost", "gpu", "read_mux"} : Click(op)
  BY DEF Clicks
<1>2. EventsRun /\ UNCHANGED <<thread, lane, final, posts, asked>> /\ ~gui.busy /\ Run(gui, op)
  BY <1>1 DEF Click, User, backend
<1>3. op \in Busy /\ SameFate(gui)
  BY OpsDiffer DEF SameFate
<1>4. Calm /\ asked' \in Seq(Asks) /\ NoMuxQuestion'
  BY <1>2, Quiet DEF NoMuxQuestion
<1> QED  BY <1>2, <1>3, <1>4, RunsAreSteps, Quiet

LEMMA AnswersAreSteps == ASSUME IInv, Answers PROVE GuiStep
<1>1. /\ EventsRun /\ UNCHANGED <<thread, lane, final, posts>>
      /\ asked # <<>> /\ asked' = Tail(asked)
  BY DEF Answers, No, ModeChanged, ConfirmLow, ToggleOemService, ApplyOptimus, RequestExit,
     Yes, Loop, backend
<1>2. asked' \in Seq(Asks) /\ NoMuxQuestion'
  BY <1>1, Answered DEF NoMuxQuestion
<1>3. gui \in Window /\ (~gui.busy => Calm)
  BY Quiet
<1>4. CASE No
  <2>1. /\ pool' = pool
        /\ gui' = IF Head(asked) = "optimus" THEN [gui EXCEPT !.busy = FALSE] ELSE gui
    BY <1>4 DEF No
  <2>2. gui' \in Window /\ SameFate(gui') /\ (Calm \/ gui'.busy)
    BY <1>1, <1>3, <2>1, Answered DEF Window, SameFate
  <2> QED  BY <1>1, <1>2, <2>1, <2>2 DEF GuiStep, Idles
<1>5. CASE ModeChanged
  <2>1. PICK op \in {"automatic", "manual"} : Run([gui EXCEPT !.manual = ~gui.manual], op)
    BY <1>5 DEF ModeChanged
  <2> DEFINE g == [gui EXCEPT !.manual = ~gui.manual]
  <2>2. g \in Window /\ SameFate(g) /\ g.busy = gui.busy /\ op \in Busy
    BY <1>3, OpsDiffer DEF Window, SameFate
  <2> HIDE DEF g
  <2> QED  BY <1>1, <1>2, <1>3, <2>1, <2>2, RunsAreSteps DEF g
<1>6. CASE ConfirmLow \/ ToggleOemService
  <2>1. PICK op \in {"speeds", "oem"} : Run(gui, op)
    BY <1>6 DEF ConfirmLow, ToggleOemService
  <2>2. op \in Busy /\ SameFate(gui)
    BY OpsDiffer DEF SameFate
  <2> QED  BY <1>1, <1>2, <1>3, <2>1, <2>2, RunsAreSteps
<1>7. CASE ApplyOptimus
  <2> DEFINE g == [gui EXCEPT !.busy = FALSE]
  <2>1. Run(g, "mux") /\ Calm
    BY <1>7, Answered DEF ApplyOptimus, Yes
  <2>2. g \in Window /\ SameFate(g) /\ ~g.busy /\ "mux" \in Busy
    BY <1>3, OpsDiffer DEF Window, SameFate
  <2> HIDE DEF g
  <2> QED  BY <1>1, <1>2, <1>3, <2>1, <2>2, RunsAreSteps
<1>8. CASE RequestExit
  <2> DEFINE g == [gui EXCEPT !.exiting = TRUE]
  <2>1. Run(g, "exit")
    BY <1>8 DEF RequestExit
  <2>2. g \in Window /\ SameFate(g) /\ g.busy = gui.busy /\ "exit" \in Busy
    BY <1>3, OpsDiffer DEF Window, SameFate
  <2> HIDE DEF g
  <2> QED  BY <1>1, <1>2, <1>3, <2>1, <2>2, RunsAreSteps
<1> QED  BY <1>4, <1>5, <1>6, <1>7, <1>8 DEF Answers

LEMMA TimeoutsAreSteps == ASSUME IInv, Timeouts PROVE GuiStep
<1>1. EventsRun /\ UNCHANGED <<thread, lane, final, posts>>
  BY DEF Timeouts, Dropped, AskLow, Apply, Comes, Fires, RefreshTelemetry, CheckBackend, Loop,
     backend
<1>2. gui \in Window /\ asked \in Seq(Asks) /\ (~gui.busy => Calm /\ NoMuxQuestion)
  BY Quiet
<1>3. CASE \E timer \in Debounced : Dropped(timer)
  <2>1. UNCHANGED <<gui, asked, pool>>
    BY <1>3 DEF Dropped
  <2> QED  BY <1>1, <1>2, <2>1 DEF IInv, OneRequest, GuiStep, SameFate, Idles, Calm, NoMuxQuestion
<1>4. CASE AskLow
  <2>1. ~gui.busy /\ asked' = <<"low">> \o asked /\ UNCHANGED <<gui, pool>>
    BY <1>4 DEF AskLow, Comes
  <2>2. asked' \in Seq(Asks) /\ NoMuxQuestion'
    BY <1>2, <2>1 DEF Asks, NoMuxQuestion, Without
  <2> QED  BY <1>1, <1>2, <2>1, <2>2 DEF GuiStep, SameFate, Idles
<1>5. ASSUME NEW timer \in Debounced, Apply(timer) PROVE GuiStep
  <2>1. ~gui.busy /\ Run(gui, timer) /\ UNCHANGED asked
    BY <1>5 DEF Apply, Comes
  <2>2. timer \in Busy /\ SameFate(gui)
    BY OpsDiffer DEF Debounced, SameFate
  <2>3. asked' \in Seq(Asks) /\ NoMuxQuestion'
    BY <1>2, <2>1 DEF NoMuxQuestion
  <2> QED  BY <1>1, <1>2, <2>1, <2>2, <2>3, RunsAreSteps
<1>6. CASE RefreshTelemetry \/ CheckBackend
  <2>1. /\ ~gui.busy /\ UNCHANGED asked
        /\ gui' = [gui EXCEPT !.telemetry = TRUE] \/ gui' = [gui EXCEPT !.checking = TRUE]
        /\ \E op \in {"telemetry", "heartbeat"} : pool' = Append(pool, op)
    BY <1>6 DEF RefreshTelemetry, CheckBackend, Queued
  <2>2. gui' \in Window /\ SameFate(gui')
    BY <1>2, <2>1 DEF Window, SameFate
  <2> QED  BY <1>1, <1>2, <2>1, <2>2 DEF GuiStep, Idles, NoMuxQuestion
<1> QED  BY <1>3, <1>4, <1>5, <1>6 DEF Timeouts

\* The result of a request of _run frees the window; the next may begin.
LEMMA ResultsOfRun ==
    ASSUME IInv, NEW op \in Busy, Delivered(op), NEW g \in Window, SameFate(g), ~g.busy,
           \/ gui' = g /\ pool' = pool
           \/ \E next \in Busy : Run(g, next)
    PROVE  GuiStep
<1>1. /\ EventsRun /\ UNCHANGED <<thread, lane, final, asked>>
      /\ posts # <<>> /\ posts' = Tail(posts) /\ Head(posts).op \in Busy /\ asked' \in Seq(Asks)
  BY Quiet DEF Delivered
<1>2. CASE gui' = g /\ pool' = pool
  BY <1>1, <1>2 DEF GuiStep, Delivers
<1>3. ASSUME NEW next \in Busy, Run(g, next) PROVE GuiStep
  <2>1. ~g.closing
    BY <1>1 DEF SameFate, EventsRun
  <2>2. gui' \in Window /\ gui' = [g EXCEPT !.busy = TRUE] /\ NewRequest(gui')
    BY <1>3, <2>1, RunAsks
  <2>3. SameFate(gui')
    BY <2>2 DEF SameFate, Window
  <2> QED  BY <1>1, <2>2, <2>3 DEF GuiStep, Delivers
<1> QED  BY <1>2, <1>3

LEMMA ResultsAreSteps ==
    ASSUME IInv, Results, ~(ExitResult /\ Head(posts).ok)
    PROVE  GuiStep
<1>0. gui \in Window /\ (EventsRun => ~gui.closing)
  BY Quiet
<1> DEFINE r == [gui EXCEPT !.busy = FALSE]
<1>1. /\ r \in Window /\ SameFate(r) /\ ~r.busy
      /\ ~gui.closing => Ready = r
  BY <1>0 DEF Window, SameFate, Ready
<1> HIDE DEF r
<1>2. CASE InitialResult
  <2>1. Delivered("initial") /\ "initial" \in Busy /\ "automatic" \in Busy /\ Ready = r
    BY <1>0, <1>1, <1>2, OpsDiffer DEF InitialResult, Delivered
  <2>2. CASE ~Head(posts).ok
    <3>1. gui' = r /\ pool' = pool
      BY <1>2, <2>1, <2>2 DEF InitialResult
    <3> QED  BY <1>1, <2>1, <3>1, ResultsOfRun
  <2>3. CASE Head(posts).ok
    <3> DEFINE g == [r EXCEPT !.manual = FALSE]
    <3>1. g \in Window /\ SameFate(g) /\ ~g.busy
      BY <1>1 DEF Window, SameFate
    <3>2. Run(g, "automatic")
      BY <1>2, <2>1, <2>3 DEF InitialResult
    <3> HIDE DEF g
    <3> QED  BY <2>1, <3>1, <3>2, ResultsOfRun
  <2> QED  BY <2>2, <2>3
<1>3. CASE ModeResult \/ PlainResult
  <2>1. PICK op \in {"automatic", "manual", "curve", "speeds", "boost", "gpu", "lightbar"} : Delivered(op)
    BY <1>3 DEF ModeResult, PlainResult
  <2>2. op \in Busy /\ gui' = r /\ pool' = pool
    BY <1>0, <1>1, <1>3, <2>1, OpsDiffer DEF ModeResult, PlainResult, Delivered
  <2> QED  BY <1>1, <2>1, <2>2, ResultsOfRun
<1>4. CASE OemResult
  <2>1. Delivered("oem") /\ "oem" \in Busy /\ Ready = r /\ pool' = pool
    BY <1>0, <1>1, <1>4, OpsDiffer DEF OemResult, Delivered
  <2>2. PICK automatic \in BOOLEAN :
            gui' = IF Head(posts).ok /\ ~gui.closing THEN [r EXCEPT !.manual = ~automatic] ELSE r
    BY <1>4, <2>1 DEF OemResult
  <2>3. gui' \in Window /\ SameFate(gui') /\ ~gui'.busy
    BY <1>1, <2>2 DEF Window, SameFate
  <2> QED  BY <2>1, <2>3, ResultsOfRun
<1>5. CASE MuxResult
  <2>1. PICK op \in {"mux", "read_mux"} :
            /\ Delivered(op)
            /\ IF op = "mux" /\ ~Head(posts).ok THEN Run(Ready, "read_mux")
                                                ELSE gui' = Ready /\ UNCHANGED pool
    BY <1>5 DEF MuxResult
  <2>2. op \in Busy /\ "read_mux" \in Busy /\ Ready = r
    BY <1>0, <1>1, <2>1, OpsDiffer DEF Delivered
  <2> QED  BY <1>1, <2>1, <2>2, ResultsOfRun
<1>6. CASE ExitResult
  <2>1. Delivered("exit") /\ "exit" \in Busy /\ Ready = r
    BY <1>0, <1>1, <1>6, OpsDiffer DEF ExitResult, Delivered
  <2>2. ~Head(posts).ok
    BY <1>6
  <2>3. gui' = [r EXCEPT !.exiting = FALSE] /\ pool' = pool
    BY <1>6, <2>1, <2>2 DEF ExitResult
  <2>4. gui' \in Window /\ SameFate(gui') /\ ~gui'.busy
    BY <1>1, <2>3 DEF Window, SameFate
  <2> QED  BY <2>1, <2>3, <2>4, ResultsOfRun
<1>7. CASE TelemetryResult \/ HeartbeatResult
  <2>1. PICK op \in {"telemetry", "heartbeat"} : Delivered(op)
    BY <1>7 DEF TelemetryResult, HeartbeatResult
  <2>2. /\ EventsRun /\ UNCHANGED <<thread, lane, final, asked>> /\ ~gui.closing
        /\ posts # <<>> /\ posts' = Tail(posts) /\ Head(posts).op \in Free /\ asked' \in Seq(Asks)
    BY <1>0, <2>1, Quiet DEF Delivered, Free
  <2>3. ASSUME gui' \in Window, SameFate(gui'), gui'.busy = gui.busy, pool' = pool PROVE GuiStep
    <3>1. posts # <<>> /\ posts' = Tail(posts) /\ asked' = asked
      BY <2>2
    <3>2. Delivers
      BY <2>2, <2>3, <3>1 DEF Delivers
    <3> QED  BY <2>2, <2>3, <3>2 DEF GuiStep
  <2>4. CASE TelemetryResult
    <3>1. gui' = [gui EXCEPT !.telemetry = FALSE] /\ pool' = pool
      BY <2>4 DEF TelemetryResult
    <3> QED  BY <1>0, <2>3, <3>1 DEF Window, SameFate
  <2>5. CASE HeartbeatResult
    <3> DEFINE g == [gui EXCEPT !.checking = FALSE, !.offline = ~Head(posts).ok]
    <3>1. Head(posts).ok \in BOOLEAN
      <4>1. Head(posts) \in Posts
        BY <2>2, TailOf DEF IInv, Types
      <4> QED  BY <4>1 DEF Posts
    <3>2. g \in Window /\ SameFate(g) /\ g.busy = gui.busy /\ ~g.closing
      BY <1>0, <2>2, <3>1 DEF Window, SameFate
    <3>3. \/ gui' = g /\ pool' = pool
          \/ \E next \in {"manual", "automatic"} : Run(g, next)
      BY <2>5 DEF HeartbeatResult
    <3> HIDE DEF g
    <3>4. CASE gui' = g /\ pool' = pool
      BY <2>3, <3>2, <3>4
    <3>5. ASSUME NEW next \in {"manual", "automatic"}, Run(g, next) PROVE GuiStep
      <4>1. /\ gui' \in Window /\ gui' = [g EXCEPT !.busy = TRUE] /\ gui'.busy
            /\ g.busy => pool' = pool
            /\ ~g.busy => NewRequest(gui')
        BY <3>2, <3>5, RunAsks, OpsDiffer
      <4>2. SameFate(gui')
        BY <3>2, <4>1 DEF SameFate, Window
      <4> QED  BY <2>2, <2>3, <3>2, <4>1, <4>2 DEF GuiStep, Delivers
    <3> QED  BY <3>3, <3>4, <3>5
  <2> QED  BY <1>7, <2>4, <2>5
<1> QED  BY <1>2, <1>3, <1>4, <1>5, <1>6, <1>7 DEF Results

-----------------------------------------------------------------------------
(* The other steps.                                                          *)

\* The window that said goodbye to the user.
LEMMA GoodbyeKeeps == ASSUME IInv, ExitResult, Head(posts).ok PROVE IInv'
<1>1. /\ Delivered("exit") /\ EventsRun /\ posts # <<>> /\ posts' = Tail(posts)
      /\ UNCHANGED <<pool, asked, thread, lane, final>>
  BY DEF ExitResult, Delivered
<1>2. gui \in Window /\ ~gui.closing /\ pool \in Seq(Requests) /\ posts \in Seq(Posts)
  BY <1>1, Quiet DEF IInv, Types
<1>3. /\ gui' \in Window /\ gui'.gone /\ gui'.closing
  BY <1>2 DEF ExitResult, Ready, Closed, Window
<1>4. /\ Head(posts) \in Posts /\ Tail(posts) \in Seq(Posts)
      /\ Head(posts) \in BusyPosts /\ Head(posts) \in Goodbye
  <2>1. Head(posts) \in Posts /\ Tail(posts) \in Seq(Posts)
    BY <1>1, <1>2, TailOf
  <2>2. Head(posts).op = "exit" /\ Head(posts).ok = TRUE
    BY <1>1, <2>1 DEF Delivered, Posts
  <2> QED  BY <2>1, <2>2, OpsDiffer DEF Posts, BusyPosts, Goodbye
<1>5. /\ AtMostOne(posts', BusyPosts) /\ Without(posts', BusyPosts)
  BY <1>1, <1>2, <1>4, TailOf DEF IInv, OneRequest
<1>6. ~Without(posts, BusyPosts) /\ ~Without(posts, Goodbye)
  BY <1>1, <1>2, <1>4, TailOf
<1>7. thread \notin Busy /\ Without(pool, Busy) /\ NoMuxQuestion
  BY <1>6 DEF IInv, OneRequest, Calm
<1>8. Types'
  BY <1>1, <1>2, <1>3, <1>4 DEF IInv, Types
<1>9. OneRequest'
  BY <1>1, <1>5, <1>7 DEF IInv, OneRequest, Calm, NoMuxQuestion
<1>10. SameWork' /\ SessionIsLast'
  BY <1>1, <1>3 DEF IInv, SameWork, SessionIsLast
<1>11. Settled'
  BY <1>1, <1>6, <1>7, OpsDiffer DEF IInv, GoodbyeIsTrue, Settled, Without
<1> QED  BY <1>3, <1>8, <1>9, <1>10, <1>11 DEF IInv, GoodbyeIsTrue, Settled

LEMMA GoodbyesAreBusy ==
    /\ Goodbye \subseteq BusyPosts
    /\ \A s : Without(s, BusyPosts) => Without(s, Goodbye)
BY OpsDiffer DEF Goodbye, BusyPosts, Without

LEMMA Posted ==
    ASSUME Types, NEW op \in Requests, NEW ok \in BOOLEAN, posts' = Post(op, ok)
    PROVE  /\ posts' \in Seq(Posts)
           /\ op \notin Busy => /\ Without(posts, BusyPosts) <=> Without(posts', BusyPosts)
                                /\ AtMostOne(posts, BusyPosts) => AtMostOne(posts', BusyPosts)
           /\ Without(posts, BusyPosts) => AtMostOne(posts', BusyPosts)
           /\ Without(posts, Goodbye) => Without(posts', Goodbye) \/ (op = "exit" /\ ok)
<1>0. posts \in Seq(Posts)
  BY DEF Types
<1>1. CASE op \in {"session", "orphan"}
  <2>1. posts' = posts /\ op \notin Busy
    BY <1>1, OpsDiffer DEF Post
  <2>2. Without(posts, BusyPosts) => AtMostOne(posts, BusyPosts)
    BY DEF Without, AtMostOne
  <2> QED  BY <1>0, <2>1, <2>2
<1>2. CASE op \notin {"session", "orphan"}
  <2> DEFINE p == [op |-> op, ok |-> ok]
  <2>1. /\ posts' = Append(posts, p) /\ p \in Posts
        /\ p \in BusyPosts <=> op \in Busy
        /\ p \in Goodbye => op = "exit" /\ ok
    BY <1>2 DEF Post, Posts, BusyPosts, Goodbye
  <2> HIDE DEF p
  <2>2. /\ posts' \in Seq(Posts)
        /\ Without(posts', BusyPosts) <=> Without(posts, BusyPosts) /\ p \notin BusyPosts
        /\ AtMostOne(posts, BusyPosts) /\ (Without(posts, BusyPosts) \/ p \notin BusyPosts)
              => AtMostOne(posts', BusyPosts)
    BY <1>0, <2>1, AppendOp
  <2>3. Without(posts', Goodbye) <=> Without(posts, Goodbye) /\ p \notin Goodbye
    BY <1>0, <2>1, AppendOp
  <2>4. Without(posts, BusyPosts) => AtMostOne(posts, BusyPosts)
    BY DEF Without, AtMostOne
  <2> QED  BY <2>1, <2>2, <2>3, <2>4
<1> QED  BY <1>1, <1>2

LEMMA OutcomeIs ==
    ASSUME gui \in Window, NEW op \in Requests, NEW ok \in BOOLEAN, Outcome(op, ok)
    PROVE  /\ gui' \in Window
           /\ gui'.busy = gui.busy /\ gui'.closing = gui.closing
           /\ gui'.gone = gui.gone /\ gui'.prepared = gui.prepared
           /\ op # "session" => gui' = gui
           /\ op = "session" => gui'.outcome = ok
BY DEF Outcome, Window

\* What the pool's thread takes out of the pool.
LEMMA Taken ==
    ASSUME IInv, thread = None, pool # <<>>
    PROVE  /\ Head(pool) \in Requests /\ Tail(pool) \in Seq(Requests)
           /\ AtMostOne(Tail(pool), Busy)
           /\ Head(pool) \in Busy => Without(Tail(pool), Busy) /\ Without(posts, BusyPosts)
           /\ Without(pool, Busy) <=> Head(pool) \notin Busy /\ Without(Tail(pool), Busy)
           /\ Without(pool, FanCommands) => /\ Head(pool) \notin FanCommands
                                            /\ Without(Tail(pool), FanCommands)
           /\ Without(posts, Goodbye) \/ Head(pool) \notin FanCommands
           /\ ~gui.closing => Head(pool) # "session" /\ Without(Tail(pool), {"session"})
           /\ gui.closing /\ ~gui.gone =>
                 /\ gui.outcome = None
                 /\ Head(pool) = "session" => Tail(pool) = <<>>
                 /\ Head(pool) # "session" =>
                       /\ Tail(pool) # <<>> /\ Tail(pool)[Len(Tail(pool))] = "session"
                       /\ \A i \in 1 .. Len(Tail(pool)) - 1 : Tail(pool)[i] # "session"
<1>0. pool \in Seq(Requests) /\ gui \in Window /\ thread # "session" /\ thread \notin Busy
  BY NoneAssumption, OpsDiffer DEF IInv, Types
<1>1. /\ Head(pool) \in Requests /\ Tail(pool) \in Seq(Requests)
      /\ Len(Tail(pool)) = Len(pool) - 1 /\ Head(pool) = pool[1] /\ Len(pool) \in Nat \ {0}
      /\ \A i \in 1 .. Len(pool) - 1 : Tail(pool)[i] = pool[i + 1]
  BY <1>0, TailOf
<1>2. /\ Without(pool, Busy) <=> Head(pool) \notin Busy /\ Without(Tail(pool), Busy)
      /\ AtMostOne(Tail(pool), Busy)
      /\ Head(pool) \in Busy => Without(Tail(pool), Busy)
  BY <1>0, TailOf DEF IInv, OneRequest
<1>3. Without(pool, FanCommands) => /\ Head(pool) \notin FanCommands
                                    /\ Without(Tail(pool), FanCommands)
  BY <1>0, TailOf
<1>4. Head(pool) \in Busy => Without(posts, BusyPosts)
  BY <1>2 DEF IInv, OneRequest
<1>5. Without(posts, Goodbye) \/ Head(pool) \notin FanCommands
  BY <1>4, GoodbyesAreBusy, OpsDiffer
<1>6. ~gui.closing => Head(pool) # "session" /\ Without(Tail(pool), {"session"})
  BY <1>0, TailOf DEF IInv, SessionIsLast
<1>7. ASSUME gui.closing, ~gui.gone
      PROVE  /\ gui.outcome = None
             /\ Head(pool) = "session" => Tail(pool) = <<>>
             /\ Head(pool) # "session" =>
                   /\ Tail(pool) # <<>> /\ Tail(pool)[Len(Tail(pool))] = "session"
                   /\ \A i \in 1 .. Len(Tail(pool)) - 1 : Tail(pool)[i] # "session"
  <2>1. gui.outcome = None
    BY <1>0, <1>7 DEF IInv, SessionIsLast, Window
  <2>2. pool[Len(pool)] = "session" /\ \A i \in 1 .. Len(pool) - 1 : pool[i] # "session"
    BY <1>0, <1>7, <2>1 DEF IInv, SessionIsLast
  <2>3. CASE Head(pool) = "session"
    <3>1. Len(pool) = 1
      BY <1>1, <2>2, <2>3
    <3>2. Tail(pool) \in Seq(Requests) /\ Len(Tail(pool)) = 0
      BY <1>1, <3>1
    <3>3. Tail(pool) = <<>>
      BY <3>2, EmptySeq
    <3> QED  BY <2>1, <2>3, <3>3
  <2>4. CASE Head(pool) # "session"
    <3>1. Len(pool) # 1
      BY <1>1, <2>2, <2>4
    <3>2. Tail(pool)[Len(pool) - 1] = "session" /\ Tail(pool) # <<>>
      <4>1. Len(pool) - 1 \in 1 .. Len(pool) - 1 /\ Len(Tail(pool)) # 0
        BY <1>1, <3>1
      <4>2. Tail(pool)[Len(pool) - 1] = pool[Len(pool) - 1 + 1] /\ Len(pool) - 1 + 1 = Len(pool)
        BY <1>1, <4>1
      <4>3. Tail(pool) # <<>>
        BY <1>1, <4>1, EmptySeq
      <4> QED  BY <2>2, <4>2, <4>3
    <3>3. ASSUME NEW i \in 1 .. Len(pool) - 2 PROVE Tail(pool)[i] # "session"
      <4>1. i \in 1 .. Len(pool) - 1 /\ i + 1 \in 1 .. Len(pool) - 1
        BY <1>1, <3>3
      <4> QED  BY <1>1, <2>2, <4>1
    <3> QED  BY <1>1, <2>1, <2>4, <3>2, <3>3
  <2> QED  BY <2>3, <2>4
<1> QED  BY <1>1, <1>2, <1>3, <1>4, <1>5, <1>6, <1>7

LEMMA RefusedKeeps == ASSUME IInv, Refused PROVE IInv'
<1> DEFINE op == Head(pool)
<1>0. /\ thread = None /\ pool # <<>> /\ pool' = Tail(pool)
      /\ posts' = Post(op, FALSE) /\ Outcome(op, FALSE)
      /\ UNCHANGED <<asked, thread, lane, final>>
  BY DEF Refused
<1> HIDE DEF op
<1>1. Types /\ gui \in Window /\ op \in Requests /\ pool' \in Seq(Requests)
  BY <1>0, Taken DEF IInv, Types, op
<1>2. /\ gui' \in Window
      /\ gui'.busy = gui.busy /\ gui'.closing = gui.closing
      /\ gui'.gone = gui.gone /\ gui'.prepared = gui.prepared
      /\ op # "session" => gui' = gui
      /\ op = "session" => gui'.outcome = FALSE
  BY <1>0, <1>1, OutcomeIs
<1>3. /\ posts' \in Seq(Posts)
      /\ op \notin Busy => /\ Without(posts, BusyPosts) <=> Without(posts', BusyPosts)
                           /\ AtMostOne(posts, BusyPosts) => AtMostOne(posts', BusyPosts)
      /\ Without(posts, BusyPosts) => AtMostOne(posts', BusyPosts)
      /\ Without(posts, Goodbye) => Without(posts', Goodbye)
  BY <1>0, <1>1, Posted
<1>4. Types'
  BY <1>0, <1>1, <1>2, <1>3 DEF Types
<1>5. OneRequest'
  <2>1. /\ AtMostOne(pool', Busy) /\ thread' = None /\ None \notin Busy /\ NoMuxQuestion' = NoMuxQuestion
        /\ op \in Busy => Without(pool', Busy) /\ Without(posts, BusyPosts)
        /\ Without(pool, Busy) <=> op \notin Busy /\ Without(pool', Busy)
    BY <1>0, Taken, NoneAssumption, OpsDiffer DEF op, NoMuxQuestion
  <2>2. CASE op \in Busy
    <3>1. ~Calm
      BY <2>1, <2>2 DEF Calm
    <3> QED  BY <1>0, <1>2, <1>3, <2>1, <2>2, <3>1 DEF IInv, OneRequest, NoMuxQuestion
  <2>3. CASE op \notin Busy
    <3>1. Calm => Calm'
      BY <1>0, <1>3, <2>1, <2>3 DEF Calm
    <3> QED  BY <1>0, <1>2, <1>3, <2>1, <2>3, <3>1 DEF IInv, OneRequest, NoMuxQuestion
  <2> QED  BY <2>2, <2>3
<1>6. SameWork'
  BY <1>0 DEF SameWork
<1>7. SessionIsLast'
  <2>1. thread' # "session" /\ thread' = None
    BY <1>0, NoneAssumption, OpsDiffer
  <2>2. CASE ~gui.closing
    BY <1>0, <1>2, <2>1, <2>2, Taken DEF SessionIsLast, op
  <2>3. CASE gui.closing /\ gui.gone
    BY <1>2, <2>3 DEF SessionIsLast
  <2>4. CASE gui.closing /\ ~gui.gone /\ op = "session"
    <3>1. pool' = <<>> /\ gui'.outcome = FALSE /\ FALSE # None
      BY <1>0, <1>2, <2>4, Taken, NoneAssumption DEF op
    <3> QED  BY <1>2, <2>1, <2>4, <3>1 DEF SessionIsLast
  <2>5. CASE gui.closing /\ ~gui.gone /\ op # "session"
    <3>1. /\ gui'.outcome = None
          /\ pool' # <<>> /\ pool'[Len(pool')] = "session"
          /\ \A i \in 1 .. Len(pool') - 1 : pool'[i] # "session"
      BY <1>0, <1>2, <2>5, Taken DEF op
    <3> QED  BY <1>2, <2>1, <2>5, <3>1, NoneAssumption DEF SessionIsLast
  <2> QED  BY <2>2, <2>3, <2>4, <2>5
<1>8. GoodbyeIsTrue'
  BY <1>0, <1>2, <1>3, Taken DEF IInv, GoodbyeIsTrue, Settled
<1> QED  BY <1>4, <1>5, <1>6, <1>7, <1>8 DEF IInv

LEMMA StartedKeeps == ASSUME IInv, Started PROVE IInv'
<1> DEFINE op == Head(pool)
<1>0. /\ thread = None /\ pool # <<>> /\ pool' = Tail(pool) /\ lane = None
      /\ thread' = op /\ lane' = op /\ UNCHANGED <<gui, asked, posts, final>>
  BY DEF Started
<1> HIDE DEF op
<1>1. Types'
  BY <1>0, Taken DEF IInv, Types, op
<1>2. OneRequest'
  <2>1. /\ AtMostOne(pool', Busy) /\ None \notin Busy
        /\ op \in Busy => Without(pool', Busy) /\ Without(posts, BusyPosts)
        /\ Without(pool, Busy) <=> op \notin Busy /\ Without(pool', Busy)
    BY <1>0, Taken, NoneAssumption, OpsDiffer DEF op
  <2>2. CASE op \in Busy
    <3>1. ~Calm
      BY <2>1, <2>2 DEF Calm
    <3> QED  BY <1>0, <2>1, <2>2, <3>1 DEF IInv, OneRequest, NoMuxQuestion
  <2>3. CASE op \notin Busy
    <3>1. Calm => Calm'
      BY <1>0, <2>1, <2>3 DEF Calm
    <3> QED  BY <1>0, <2>1, <2>3, <3>1 DEF IInv, OneRequest, NoMuxQuestion
  <2> QED  BY <2>2, <2>3
<1>3. SameWork'
  BY <1>0 DEF SameWork
<1>4. SessionIsLast'
  <2>2. CASE ~gui.closing
    BY <1>0, <2>2, Taken DEF SessionIsLast, op
  <2>3. CASE gui.closing /\ gui.gone
    BY <1>0, <2>3 DEF SessionIsLast
  <2>4. CASE gui.closing /\ ~gui.gone /\ op = "session"
    <3>1. pool' = <<>> /\ gui'.outcome = None
      BY <1>0, <2>4, Taken DEF op
    <3> QED  BY <1>0, <2>4, <3>1, NoneAssumption DEF SessionIsLast
  <2>5. CASE gui.closing /\ ~gui.gone /\ op # "session"
    <3>1. /\ gui'.outcome = None
          /\ pool' # <<>> /\ pool'[Len(pool')] = "session"
          /\ \A i \in 1 .. Len(pool') - 1 : pool'[i] # "session"
      BY <1>0, <2>5, Taken DEF op
    <3> QED  BY <1>0, <2>5, <3>1, NoneAssumption DEF SessionIsLast
  <2> QED  BY <2>2, <2>3, <2>4, <2>5
<1>5. GoodbyeIsTrue'
  BY <1>0, Taken DEF IInv, GoodbyeIsTrue, Settled, op
<1> QED  BY <1>1, <1>2, <1>3, <1>4, <1>5 DEF IInv

\* The pool's thread is done with its request, one way or the other.
LEMMA ThreadEnds ==
    ASSUME IInv, thread # None, thread' = None, NEW ok \in BOOLEAN,
           posts' = Post(thread, ok), Outcome(thread, ok), UNCHANGED <<asked, pool>>,
           lane' \in Requests \cup {None}, final' \in BOOLEAN
    PROVE  /\ Types' /\ OneRequest' /\ SameWork'
           /\ gui'.closing = gui.closing /\ gui'.gone = gui.gone /\ gui'.prepared = gui.prepared
           /\ thread # "session" => gui' = gui
           /\ thread = "session" => gui'.outcome = ok
           /\ Without(posts, Goodbye) => Without(posts', Goodbye) \/ (thread = "exit" /\ ok)
           /\ ~Without(posts, Goodbye) => thread \notin FanCommands
<1>1. Types /\ gui \in Window /\ thread \in Requests
  BY DEF IInv, Types
<1>2. /\ gui' \in Window
      /\ gui'.busy = gui.busy /\ gui'.closing = gui.closing
      /\ gui'.gone = gui.gone /\ gui'.prepared = gui.prepared
      /\ thread # "session" => gui' = gui
      /\ thread = "session" => gui'.outcome = ok
  BY <1>1, OutcomeIs
<1>3. /\ posts' \in Seq(Posts)
      /\ thread \notin Busy => /\ Without(posts, BusyPosts) <=> Without(posts', BusyPosts)
                               /\ AtMostOne(posts, BusyPosts) => AtMostOne(posts', BusyPosts)
      /\ Without(posts, BusyPosts) => AtMostOne(posts', BusyPosts)
      /\ Without(posts, Goodbye) => Without(posts', Goodbye) \/ (thread = "exit" /\ ok)
  BY <1>1, Posted
<1>4. Types'
  BY <1>1, <1>2, <1>3 DEF Types
<1>5. None \notin Busy
  BY NoneAssumption, OpsDiffer
<1>6. OneRequest'
  <2>1. CASE thread \in Busy
    <3>1. Without(pool, Busy) /\ Without(posts, BusyPosts) /\ ~Calm
      BY <2>1 DEF IInv, OneRequest, Calm
    <3> QED  BY <1>2, <1>3, <1>5, <3>1 DEF IInv, OneRequest, NoMuxQuestion
  <2>2. CASE thread \notin Busy
    <3>1. Calm => Calm'
      BY <1>3, <1>5, <2>2 DEF Calm
    <3> QED  BY <1>2, <1>3, <1>5, <2>2, <3>1 DEF IInv, OneRequest, NoMuxQuestion
  <2> QED  BY <2>1, <2>2
<1>7. ~Without(posts, Goodbye) => thread \notin FanCommands
  BY GoodbyesAreBusy, OpsDiffer DEF IInv, OneRequest
<1> QED  BY <1>2, <1>3, <1>4, <1>6, <1>7 DEF SameWork

LEMMA FinishedKeeps == ASSUME IInv, NEW ok \in BOOLEAN, Finished(ok) PROVE IInv'
<1>0. /\ lane # None /\ lane' = None /\ thread' = None
      /\ final' = LeavesFinal(lane, ok) /\ UNCHANGED <<asked, pool>>
      /\ final' \in BOOLEAN
  BY DEF Finished, LeavesFinal
<1>1. final /\ lane \notin FanCommands => final'
  BY <1>0 DEF LeavesFinal
<1>2. Without(posts, Goodbye) \/ (final /\ lane \notin FanCommands)
  BY DEF IInv, GoodbyeIsTrue
<1>3. None \notin FanCommands /\ None # "session" /\ None \notin BOOLEAN
  BY NoneAssumption, OpsDiffer
<1>4. CASE thread = None
  <2>1. UNCHANGED <<gui, posts, thread>>
    BY <1>0, <1>4 DEF Finished
  <2>2. Types' /\ OneRequest'
    BY <1>0, <2>1 DEF IInv, Types, OneRequest, Calm, NoMuxQuestion
  <2>3. SessionIsLast'
    <3>1. gui.closing /\ ~gui.gone => gui.outcome \in {None, FALSE}
      BY <1>0, <1>3 DEF IInv, SessionIsLast, Types, Window
    <3> QED  BY <1>0, <1>3, <1>4, <2>1, <3>1 DEF IInv, SessionIsLast
  <2>4. GoodbyeIsTrue'
    BY <1>0, <1>1, <1>3, <2>1 DEF IInv, GoodbyeIsTrue, Settled
  <2> QED  BY <1>0, <2>2, <2>3, <2>4 DEF IInv, SameWork
<1>5. CASE thread # None
  <2>1. posts' = Post(thread, ok) /\ Outcome(thread, ok)
    BY <1>0, <1>5 DEF Finished
  <2>2. /\ Types' /\ OneRequest' /\ SameWork'
        /\ gui'.closing = gui.closing /\ gui'.gone = gui.gone /\ gui'.prepared = gui.prepared
        /\ thread # "session" => gui' = gui
        /\ thread = "session" => gui'.outcome = ok
        /\ Without(posts, Goodbye) => Without(posts', Goodbye) \/ (thread = "exit" /\ ok)
    BY <1>0, <1>5, <2>1, ThreadEnds
  <2>3. /\ thread = "session" => lane = "session"
        /\ thread = "exit" => lane = "exit"
    BY <1>5, OpsDiffer DEF IInv, SameWork
  <2>4. lane \in {"session", "exit"} /\ ok => final'
    BY <1>0 DEF LeavesFinal, FinalWrites
  <2>5. SessionIsLast'
    <3>1. CASE ~gui.closing \/ gui.gone
      BY <1>0, <1>3, <2>2, <3>1 DEF IInv, SessionIsLast
    <3>2. CASE gui.closing /\ ~gui.gone /\ thread = "session"
      <4>1. gui.outcome = None /\ pool' = <<>> /\ gui'.outcome = ok
        BY <1>0, <1>3, <2>2, <3>2 DEF IInv, SessionIsLast, Types, Window
      <4> QED  BY <1>0, <1>3, <2>2, <2>3, <2>4, <3>2, <4>1 DEF SessionIsLast
    <3>3. CASE gui.closing /\ ~gui.gone /\ thread # "session"
      <4>1. gui' = gui /\ gui.outcome # TRUE
        BY <1>5, <2>2, <3>3, NoneAssumption DEF IInv, SessionIsLast
      <4>2. gui.outcome \in {None, FALSE}
        BY <4>1 DEF IInv, Types, Window
      <4> QED  BY <1>0, <1>3, <3>3, <4>1, <4>2 DEF IInv, SessionIsLast
    <3> QED  BY <3>1, <3>2, <3>3
  <2>6. GoodbyeIsTrue'
    <3>1. Without(posts', Goodbye) \/ final'
      BY <1>1, <1>2, <2>2, <2>3, <2>4
    <3> QED  BY <1>0, <1>1, <1>3, <2>2, <3>1 DEF IInv, GoodbyeIsTrue, Settled
  <2> QED  BY <2>2, <2>5, <2>6 DEF IInv
<1> QED  BY <1>4, <1>5

LEMMA TimedOutKeeps == ASSUME IInv, TimedOut PROVE IInv'
<1>0. /\ thread # None /\ thread' = None /\ UNCHANGED <<lane, final, asked, pool>>
      /\ posts' = Post(thread, FALSE) /\ Outcome(thread, FALSE)
      /\ final' \in BOOLEAN /\ lane' \in Requests \cup {None}
  BY DEF TimedOut, IInv, Types
<1>1. /\ Types' /\ OneRequest' /\ SameWork'
      /\ gui'.closing = gui.closing /\ gui'.gone = gui.gone /\ gui'.prepared = gui.prepared
      /\ thread # "session" => gui' = gui
      /\ thread = "session" => gui'.outcome = FALSE
      /\ Without(posts, Goodbye) => Without(posts', Goodbye)
  BY <1>0, ThreadEnds
<1>2. None \notin FanCommands /\ None # "session" /\ None \notin BOOLEAN
  BY NoneAssumption, OpsDiffer
<1>3. SessionIsLast'
  <2>1. CASE ~gui.closing \/ gui.gone
    BY <1>0, <1>1, <1>2, <2>1 DEF IInv, SessionIsLast
  <2>2. CASE gui.closing /\ ~gui.gone /\ thread = "session"
    <3>1. gui.outcome = None /\ pool' = <<>> /\ gui'.outcome = FALSE
      BY <1>0, <1>1, <1>2, <2>2 DEF IInv, SessionIsLast, Types, Window
    <3> QED  BY <1>0, <1>1, <1>2, <2>2, <3>1 DEF SessionIsLast
  <2>3. CASE gui.closing /\ ~gui.gone /\ thread # "session"
    <3>1. gui' = gui /\ gui.outcome # TRUE
      BY <1>0, <1>1, <2>3, NoneAssumption DEF IInv, SessionIsLast
    <3>2. gui.outcome \in {None, FALSE}
      BY <3>1 DEF IInv, Types, Window
    <3> QED  BY <1>0, <1>2, <2>3, <3>1, <3>2 DEF IInv, SessionIsLast
  <2> QED  BY <2>1, <2>2, <2>3
<1>4. GoodbyeIsTrue'
  BY <1>0, <1>1, <1>2 DEF IInv, GoodbyeIsTrue, Settled
<1> QED  BY <1>1, <1>3, <1>4 DEF IInv

LEMMA SessionEndsKeeps == ASSUME IInv, SessionEnds PROVE IInv'
<1>0. /\ ~gui.gone /\ ~gui.closing /\ ~gui.prepared
      /\ gui' = [gui EXCEPT !.closing = TRUE, !.outcome = None]
      /\ pool' = Append(pool, "session") /\ UNCHANGED <<asked, thread, posts, lane, final>>
  BY DEF SessionEnds, EventsRun, Queued, backend
<1>1. gui' \in Window /\ gui'.closing /\ gui'.outcome = None
      /\ gui'.busy = gui.busy /\ ~gui'.prepared /\ ~gui'.gone
  BY <1>0 DEF IInv, Types, Window
<1>2. pool \in Seq(Requests) /\ "session" \in Requests /\ "session" \notin Busy
      /\ Without(pool, {"session"}) /\ thread # "session"
  BY <1>0, OpsDiffer DEF IInv, Types, SessionIsLast
<1>3. /\ pool' \in Seq(Requests) /\ pool' # <<>> /\ Len(pool') = Len(pool) + 1
      /\ pool'[Len(pool) + 1] = "session" /\ \A i \in 1 .. Len(pool) : pool'[i] = pool[i]
      /\ Without(pool', Busy) <=> Without(pool, Busy)
      /\ AtMostOne(pool, Busy) => AtMostOne(pool', Busy)
  BY <1>0, <1>2, AppendOp
<1>4. Types'
  BY <1>0, <1>1, <1>3 DEF IInv, Types
<1>5. OneRequest'
  <2>1. Calm => Calm'
    BY <1>0, <1>3 DEF Calm
  <2> QED  BY <1>0, <1>1, <1>3, <2>1 DEF IInv, OneRequest, NoMuxQuestion
<1>6. SessionIsLast'
  <2>1. Len(pool) \in Nat /\ Len(pool') - 1 = Len(pool)
    BY <1>2, <1>3
  <2>2. pool'[Len(pool')] = "session" /\ \A i \in 1 .. Len(pool') - 1 : pool'[i] # "session"
    BY <1>2, <1>3, <2>1 DEF Without
  <2> QED  BY <1>0, <1>1, <1>2, <1>3, <2>2, NoneAssumption DEF SessionIsLast
<1>7. SameWork' /\ GoodbyeIsTrue'
  BY <1>0, <1>1 DEF IInv, SameWork, GoodbyeIsTrue
<1> QED  BY <1>4, <1>5, <1>6, <1>7 DEF IInv

LEMMA AcknowledgeKeeps == ASSUME IInv, Acknowledge PROVE IInv'
<1>0. /\ gui.closing /\ ~gui.gone /\ gui.outcome = TRUE /\ gui' = Closed(gui)
      /\ UNCHANGED <<asked, pool, thread, posts, lane, final>>
  BY DEF Acknowledge, Waiting, backend
<1>1. thread = None /\ pool = <<>> /\ lane = None /\ final
  BY <1>0, NoneAssumption DEF IInv, SessionIsLast
<1>2. gui' \in Window /\ gui'.closing /\ gui'.gone /\ gui'.busy = gui.busy
  BY <1>0 DEF IInv, Types, Window, Closed
<1>3. Types' /\ OneRequest' /\ SameWork' /\ SessionIsLast'
  BY <1>0, <1>2 DEF IInv, Types, OneRequest, SameWork, SessionIsLast, Calm, NoMuxQuestion
<1>4. Settled'
  BY <1>0, <1>1, NoneAssumption, OpsDiffer DEF Settled, Without
<1> QED  BY <1>0, <1>2, <1>3, <1>4 DEF IInv, GoodbyeIsTrue

LEMMA CancelKeeps == ASSUME IInv, Cancel PROVE IInv'
<1>0. /\ gui.closing /\ ~gui.gone
      /\ gui' = [gui EXCEPT !.closing = FALSE, !.outcome = None]
      /\ pool' = [i \in DOMAIN pool |-> Orphaned(pool[i])] /\ thread' = Orphaned(thread)
      /\ UNCHANGED <<asked, posts, lane, final>>
  BY DEF Cancel, Waiting
<1>1. gui' \in Window /\ ~gui'.closing /\ ~gui'.prepared /\ ~gui'.gone /\ gui'.busy = gui.busy
  BY <1>0 DEF IInv, Types, Window, GoodbyeIsTrue
<1>2. pool \in Seq(Requests) /\ Len(pool) \in Nat /\ DOMAIN pool = 1 .. Len(pool)
  BY DEF IInv, Types
<1>3. \A op \in Requests : /\ Orphaned(op) \in Requests /\ Orphaned(op) # "session"
                           /\ Orphaned(op) \in Busy <=> op \in Busy
  BY OpsDiffer DEF Orphaned
<1>4. /\ pool' \in Seq(Requests) /\ Len(pool') = Len(pool)
      /\ \A i \in 1 .. Len(pool) : pool'[i] = Orphaned(pool[i]) /\ pool[i] \in Requests
  BY <1>0, <1>2, <1>3
<1>5. /\ Without(pool', Busy) <=> Without(pool, Busy)
      /\ AtMostOne(pool, Busy) => AtMostOne(pool', Busy)
      /\ Without(pool', {"session"})
  BY <1>3, <1>4 DEF Without, AtMostOne
<1>6. /\ thread' \in Requests \cup {None} /\ thread' # "session"
      /\ thread' \in Busy <=> thread \in Busy
      /\ thread' = thread \/ (thread = "session" /\ thread' = "orphan")
  BY <1>0, OpsDiffer, NoneAssumption DEF IInv, Types, Orphaned
<1>7. Types'
  BY <1>0, <1>1, <1>4, <1>6 DEF IInv, Types
<1>8. OneRequest'
  <2>1. Calm => Calm'
    BY <1>0, <1>5, <1>6 DEF Calm
  <2> QED  BY <1>0, <1>1, <1>5, <1>6, <2>1 DEF IInv, OneRequest, NoMuxQuestion
<1>9. SameWork'
  BY <1>0, <1>6, OpsDiffer, NoneAssumption DEF IInv, SameWork
<1>10. SessionIsLast' /\ GoodbyeIsTrue'
  BY <1>0, <1>1, <1>5, <1>6 DEF IInv, SessionIsLast, GoodbyeIsTrue
<1> QED  BY <1>7, <1>8, <1>9, <1>10 DEF IInv

-----------------------------------------------------------------------------
(* The property.                                                             *)

LEMMA InitHolds == Init => IInv
<1> SUFFICES ASSUME Init PROVE IInv
  OBVIOUS
<1>1. /\ gui \in Window /\ gui.busy /\ ~gui.closing /\ ~gui.prepared /\ ~gui.gone
      /\ asked = <<>> /\ pool = <<"initial">> /\ thread = None /\ posts = <<>> /\ lane = None
      /\ final = FALSE
  BY DEF Init, Window
<1>2. Types
  <2>1. asked \in Seq(Asks) /\ posts \in Seq(Posts)
    BY <1>1, EmptySeq
  <2>2. pool \in Seq(Requests)
    BY <1>1, OpsDiffer
  <2> QED  BY <1>1, <2>1, <2>2 DEF Types
<1>3. OneRequest
  BY <1>1, NoneAssumption, OpsDiffer DEF OneRequest, AtMostOne, Without, NoMuxQuestion
<1>4. SessionIsLast
  <2>1. Without(pool, {"session"})
    BY <1>1 DEF Without
  <2> QED  BY <1>1, <2>1, NoneAssumption, OpsDiffer DEF SessionIsLast
<1>5. SameWork /\ GoodbyeIsTrue
  BY <1>1 DEF SameWork, GoodbyeIsTrue, Without
<1> QED  BY <1>2, <1>3, <1>4, <1>5 DEF IInv

LEMMA NextKeeps == IInv /\ [Next]_vars => IInv'
<1> SUFFICES ASSUME IInv, [Next]_vars PROVE IInv'
  OBVIOUS
<1>1. CASE Edits \/ Clicks \/ Questions \/ Answers \/ Timeouts
  BY <1>1, EditsAreSteps, ClicksAreSteps, AnswersAreSteps, TimeoutsAreSteps, GuiKeeps DEF Questions
<1>2. CASE Results
  <2>1. CASE ExitResult /\ Head(posts).ok
    BY <2>1, GoodbyeKeeps
  <2>2. CASE ~(ExitResult /\ Head(posts).ok)
    BY <1>2, <2>2, ResultsAreSteps, GuiKeeps
  <2> QED  BY <2>1, <2>2
<1>3. CASE Backend
  BY <1>3, RefusedKeeps, StartedKeeps, FinishedKeeps, TimedOutKeeps DEF Backend
<1>4. CASE Session
  BY <1>4, SessionEndsKeeps, AcknowledgeKeeps, CancelKeeps DEF Session
<1>5. CASE UNCHANGED vars
  BY <1>5 DEF vars, IInv, Types, OneRequest, SameWork, SessionIsLast, GoodbyeIsTrue, Settled, Calm,
     NoMuxQuestion
<1> QED  BY <1>1, <1>2, <1>3, <1>4, <1>5 DEF Next

\* One request of _run at a time, the window busy with it, and the final write
\* of a session end behind everything: in every reachable state.  (_run,
\* prepare_session_shutdown)
THEOREM Invariant == Spec => []IInv
BY InitHolds, NextKeeps, PTL DEF Spec

\* The application says goodbye only when the final write is the last thing done
\* to the fans, however many inputs there are.  (request_exit,
\* prepare_session_shutdown, closeEvent)
THEOREM FinalOnExit == Spec => []FullOnExit
<1>1. IInv => FullOnExit
  BY DEF IInv, GoodbyeIsTrue, Settled, FullOnExit
<1> QED  BY Invariant, <1>1, PTL

\* ... and nothing that waits, runs or was given up will undo it: the claim of
\* request_exit, over the whole pool and the controller.
THEOREM NothingUndoesIt == Spec => [](gui.prepared => Settled)
<1>1. IInv => (gui.prepared => Settled)
  BY DEF IInv, GoodbyeIsTrue
<1> QED  BY Invariant, <1>1, PTL
=============================================================================
