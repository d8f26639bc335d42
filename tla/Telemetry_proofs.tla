-------------------------- MODULE Telemetry_proofs ---------------------------
(***************************************************************************)
(* What the backend is told of the hardware: the answers of the NVIDIA     *)
(* helper, for any number of callers, ids and upsets, and the power of the *)
(* two package meters, for every range of their counter.                   *)
(***************************************************************************)
EXTENDS NvidiaHelper, PowerMeter, TLAPS

(* NvidiaHelper: types and the inductive invariant.                         *)

Pcs     == {"idle", "lock", "start", "await_ready", "send", "await", "done"}
HoldPcs == {"start", "await_ready", "send", "await"}
Replies == {"none", "failed", "ready", "off", "value"}
States  == {"on", "off", "missing"}

Calls == [pc : Pcs, id : Nat, answer : Replies, seen : SUBSET States]
Requests == [id : Nat]
Messages == {Exited} \cup [id : Nat, answer : Replies]

HelperTypes ==
    /\ call \in [Callers -> Calls]
    /\ started \in {"none", "starting", "ready"}
    /\ next_id \in Nat
    /\ requests \in Seq(Requests)
    /\ messages \in Seq(Messages)
    /\ DOMAIN helper = {"pc", "request"}
    /\ helper.pc \in {"none", "loading", "idle", "nvml", "hung"}
    /\ helper.pc = "nvml" => helper.request \in Requests
    /\ gpu \in States
    /\ upsets \in Nat

\* One caller at a time is past the lock, and it knows the helper's state.
LockShape ==
    \A c \in Callers :
        /\ call[c].pc \in HoldPcs <=> lock = c
        /\ call[c].pc = "await_ready" => started # "none"
        /\ call[c].pc \in {"send", "await"} => started = "ready"
        /\ call[c].pc = "await" => call[c].id # 0

Awaiting == \E c \in Callers : call[c].pc = "await"

Answers == {k \in DOMAIN messages : messages[k] # Ready /\ messages[k] # Exited}

\* What a killed helper left stays in the queue until the next one is started;
\* otherwise one answer at most is under way, and only if someone waits for it.
OneInFlight ==
    /\ started = "none" => requests = <<>> /\ helper.pc = "none"
    /\ started # "none" /\ ~Awaiting
           => requests = <<>> /\ helper.pc # "nvml" /\ Answers = {}
    /\ started # "none" =>
        /\ Len(requests) \leq 1
        /\ requests # <<>> => helper.pc # "nvml" /\ Answers = {}
        /\ helper.pc = "nvml" => Answers = {}
        /\ \A j, k \in Answers : j = k

\* An answer tells of the GPU as the caller saw it.
TrueOf(answer, seen) ==
    /\ answer = "off" => "off" \in seen
    /\ answer = "value" => \E g \in seen : g # "missing"

Told ==
    \A c \in Callers :
        /\ call[c].pc # "idle" => gpu \in call[c].seen
        /\ TrueOf(call[c].answer, call[c].seen)
        /\ call[c].pc = "await" =>
             \A k \in Answers : TrueOf(messages[k].answer, call[c].seen)

HelperInv == HelperTypes /\ LockShape /\ OneInFlight /\ Told

-----------------------------------------------------------------------------
(* Lemmas about the pipes and the calls.                                    *)

LEMMA DevicesAre == DOMAIN Devices = States
BY DEF Devices, States

\* D3 is told of a GPU that is off, and of no other.
LEMMA OffIsOff ==
    ASSUME NEW g \in States, nvidia_gpu_powered_off(Devices[g]) = "off"
    PROVE  g = "off"
<1>1. CASE g = "on"
  <2>1. \A d \in Devices[g] : d.state # POWER_DEVICE_D3
    BY <1>1 DEF Devices, AMD, POWER_DEVICE_D3
  <2> QED  BY <2>1 DEF nvidia_gpu_powered_off
<1>2. CASE g = "missing"
  <2>1. \A d \in Devices[g] : d.nvidia = FALSE
    BY <1>2 DEF Devices, AMD
  <2> QED  BY <2>1 DEF nvidia_gpu_powered_off
<1> QED  BY <1>1, <1>2 DEF States

LEMMA ReadyIs == Ready \in Messages /\ Exited \in Messages /\ Ready.id = 0 /\ Ready.answer = "ready"
BY DEF Ready, Messages, Replies

LEMMA TailAnswers ==
    ASSUME messages \in Seq(Messages), messages # <<>>, messages' = Tail(messages)
    PROVE  /\ messages' \in Seq(Messages)
           /\ \A k \in Answers' : k + 1 \in Answers /\ messages'[k] = messages[k + 1] /\ k \in Nat \ {0}
BY DEF Answers

LEMMA AppendPlain ==
    ASSUME messages \in Seq(Messages), NEW m \in {Ready, Exited}, messages' = Append(messages, m)
    PROVE  /\ messages' \in Seq(Messages) /\ Answers' = Answers
           /\ \A k \in Answers : messages'[k] = messages[k]
<1>1. /\ messages' \in Seq(Messages) /\ Len(messages') = Len(messages) + 1
      /\ messages'[Len(messages) + 1] = m
      /\ \A k \in 1 .. Len(messages) : messages'[k] = messages[k]
  BY ReadyIs
<1>2. DOMAIN messages' = DOMAIN messages \cup {Len(messages) + 1}
  BY <1>1
<1>3. Len(messages) + 1 \notin DOMAIN messages /\ DOMAIN messages = 1 .. Len(messages)
  OBVIOUS
<1> QED  BY <1>1, <1>2, <1>3 DEF Answers

LEMMA AppendAnswer ==
    ASSUME messages \in Seq(Messages), NEW m \in Messages, messages' = Append(messages, m),
           Answers = {}
    PROVE  /\ messages' \in Seq(Messages)
           /\ \A k \in Answers' : k = Len(messages) + 1 /\ messages'[k] = m
<1>1. /\ messages' \in Seq(Messages) /\ Len(messages') = Len(messages) + 1
      /\ messages'[Len(messages) + 1] = m
      /\ \A k \in 1 .. Len(messages) : messages'[k] = messages[k]
  OBVIOUS
<1>2. DOMAIN messages' = 1 .. Len(messages) + 1 /\ DOMAIN messages = 1 .. Len(messages)
  BY <1>1
<1> QED  BY <1>1, <1>2 DEF Answers

\* A caller that ends its query gives the lock back.
LEMMA EndsIs ==
    ASSUME HelperTypes, NEW c \in Callers, NEW answer \in Replies, Ends(c, answer)
    PROVE  /\ call' \in [Callers -> Calls] /\ lock' = None
           /\ call'[c].pc = "done" /\ call'[c].answer = answer /\ call'[c].seen = call[c].seen
           /\ \A d \in Callers \ {c} : call'[d] = call[d]
BY DEF Ends, HelperTypes, Calls, Pcs

LEMMA GotoIs ==
    ASSUME HelperTypes, NEW c \in Callers, NEW pc \in Pcs, Goto(c, pc)
    PROVE  /\ call' \in [Callers -> Calls]
           /\ call'[c].pc = pc /\ call'[c].answer = call[c].answer
           /\ call'[c].seen = call[c].seen /\ call'[c].id = call[c].id
           /\ \A d \in Callers \ {c} : call'[d] = call[d]
BY DEF Goto, HelperTypes, Calls

\* Whoever is past the lock is the only one.
LEMMA Alone ==
    ASSUME LockShape, NEW c \in Callers, call[c].pc \in HoldPcs
    PROVE  lock = c /\ \A d \in Callers \ {c} : call[d].pc \notin HoldPcs
BY DEF LockShape

LEMMA KillIs ==
    ASSUME HelperTypes, Kill
    PROVE  /\ started' = "none" /\ requests' = <<>> /\ requests' \in Seq(Requests)
           /\ DOMAIN helper' = {"pc", "request"} /\ helper'.pc = "none"
           /\ messages' \in Seq(Messages)
BY ReadyIs DEF Kill, HelperTypes

\* A query that fails and takes the helper with it.
LEMMA EndsAndKills ==
    ASSUME HelperInv, NEW c \in Callers, call[c].pc \in HoldPcs, Ends(c, "failed"), Kill,
           UNCHANGED gpu, next_id' \in Nat, upsets' \in Nat
    PROVE  HelperInv'
<1>0. HelperTypes /\ LockShape /\ Told
  BY DEF HelperInv
<1>1. /\ call' \in [Callers -> Calls] /\ lock' = None
      /\ call'[c].pc = "done" /\ call'[c].answer = "failed" /\ call'[c].seen = call[c].seen
      /\ \A d \in Callers \ {c} : call'[d] = call[d]
  BY <1>0, EndsIs DEF Replies
<1>2. \A d \in Callers \ {c} : call[d].pc \notin HoldPcs
  BY <1>0, Alone
<1>3. /\ started' = "none" /\ requests' = <<>> /\ requests' \in Seq(Requests)
      /\ DOMAIN helper' = {"pc", "request"} /\ helper'.pc = "none"
      /\ messages' \in Seq(Messages)
  BY <1>0, KillIs
<1>4. HelperTypes'
  BY <1>0, <1>1, <1>3 DEF HelperTypes
<1>5. LockShape'
  BY <1>1, <1>2, HelperAssumption DEF LockShape, HoldPcs
<1>6. OneInFlight'
  BY <1>3 DEF OneInFlight
<1>7. Told'
  <2>1. call[c].pc # "idle"
    BY DEF HoldPcs
  <2> QED  BY <1>0, <1>1, <1>2, <2>1 DEF Told, TrueOf, HoldPcs
<1> QED  BY <1>4, <1>5, <1>6, <1>7 DEF HelperInv

LEMMA InitHolds == ASSUME Init PROVE HelperInv
<1>1. /\ call = [c \in Callers |-> NoCall] /\ lock = None /\ started = "none"
      /\ next_id = 0 /\ requests = <<>> /\ messages = <<>>
      /\ helper = [pc |-> "none", request |-> None] /\ gpu \in DOMAIN Devices /\ upsets = 0
  BY DEF Init
<1>2. NoCall \in Calls /\ NoCall.pc = "idle" /\ NoCall.answer = "none"
  BY DEF NoCall, Calls, Pcs, Replies
<1>3. HelperTypes
  BY <1>1, <1>2, DevicesAre DEF HelperTypes
<1>4. LockShape
  BY <1>1, <1>2, HelperAssumption DEF LockShape, HoldPcs
<1>5. OneInFlight
  BY <1>1 DEF OneInFlight
<1>6. Told
  BY <1>1, <1>2 DEF Told, TrueOf
<1> QED  BY <1>3, <1>4, <1>5, <1>6 DEF HelperInv

-----------------------------------------------------------------------------
(* The callers.                                                             *)

LEMMA PipesStay ==
    ASSUME OneInFlight, UNCHANGED <<started, requests, helper, messages>>,
           Awaiting => Awaiting'
    PROVE  OneInFlight' /\ Answers' = Answers
<1>1. Answers' = Answers
  BY DEF Answers
<1> QED  BY <1>1 DEF OneInFlight

\* A step of a caller outside its wait for an answer, that leaves the pipes.
LEMMA CallerMoves ==
    ASSUME HelperInv, NEW c \in Callers,
           call' \in [Callers -> Calls], \A d \in Callers \ {c} : call'[d] = call[d],
           call[c].pc # "await", call'[c].pc # "await",
           call'[c].pc # "idle" => gpu \in call'[c].seen,
           TrueOf(call'[c].answer, call'[c].seen),
           \/ lock' = lock /\ (call[c].pc \in HoldPcs <=> call'[c].pc \in HoldPcs)
           \/ lock = None /\ lock' = c /\ call'[c].pc \in HoldPcs
           \/ call[c].pc \in HoldPcs /\ lock' = None /\ call'[c].pc \notin HoldPcs,
           call'[c].pc = "await_ready" => started # "none",
           call'[c].pc = "send" => started = "ready",
           UNCHANGED <<started, requests, helper, messages, gpu>>,
           next_id' \in Nat, upsets' \in Nat
    PROVE  HelperInv'
<1>0. HelperTypes /\ LockShape /\ OneInFlight /\ Told
  BY DEF HelperInv
<1>1. HelperTypes'
  BY <1>0 DEF HelperTypes
<1>2. LockShape'
  <2> SUFFICES ASSUME NEW d \in Callers
               PROVE  /\ call'[d].pc \in HoldPcs <=> lock' = d
                      /\ call'[d].pc = "await_ready" => started # "none"
                      /\ call'[d].pc \in {"send", "await"} => started = "ready"
                      /\ call'[d].pc = "await" => call'[d].id # 0
    BY DEF LockShape
  <2>1. call'[d].pc \in HoldPcs <=> lock' = d
    <3>1. CASE d = c
      BY <1>0, <3>1, HelperAssumption DEF LockShape
    <3>2. CASE d # c
      BY <1>0, <3>2, HelperAssumption DEF LockShape
    <3> QED  BY <3>1, <3>2
  <2>2. CASE d = c
    BY <2>1, <2>2
  <2>3. CASE d # c
    BY <1>0, <2>1, <2>3 DEF LockShape
  <2> QED  BY <2>2, <2>3
<1>3. OneInFlight' /\ Answers' = Answers
  <2>1. Awaiting => Awaiting'
    BY DEF Awaiting
  <2> QED  BY <1>0, <2>1, PipesStay
<1>4. Told'
  BY <1>0, <1>3 DEF Told
<1> QED  BY <1>1, <1>2, <1>3, <1>4 DEF HelperInv

LEMMA queryKeeps == ASSUME HelperInv, NEW c \in Callers, query(c) PROVE HelperInv'
<1>1. /\ call[c].pc = "idle" /\ HelperTypes
      /\ call' = [call EXCEPT ![c] = [NoCall EXCEPT !.pc = "lock", !.seen = {gpu}]]
      /\ UNCHANGED <<lock, started, next_id, requests, messages, helper, gpu, upsets>>
  BY DEF query, HelperInv
<1> DEFINE new == [NoCall EXCEPT !.pc = "lock", !.seen = {gpu}]
<1>2. new \in Calls /\ new.pc = "lock" /\ new.seen = {gpu} /\ new.answer = "none"
  BY <1>1 DEF NoCall, Calls, Pcs, Replies, HelperTypes
<1> HIDE DEF new
<1>3. /\ call' \in [Callers -> Calls] /\ call'[c] = new
      /\ \A d \in Callers \ {c} : call'[d] = call[d]
  BY <1>1, <1>2 DEF HelperTypes, new
<1>4. TrueOf(call'[c].answer, call'[c].seen)
  BY <1>2, <1>3 DEF TrueOf
<1>5. call[c].pc \notin HoldPcs /\ call'[c].pc \notin HoldPcs
  BY <1>1, <1>2, <1>3 DEF HoldPcs
<1> QED  BY <1>1, <1>2, <1>3, <1>4, <1>5, CallerMoves DEF HelperTypes

LEMMA DoneKeeps == ASSUME HelperInv, NEW c \in Callers, Done(c) PROVE HelperInv'
<1>1. /\ call[c].pc = "done" /\ HelperTypes /\ call' = [call EXCEPT ![c] = NoCall]
      /\ UNCHANGED <<lock, started, next_id, requests, messages, helper, gpu, upsets>>
  BY DEF Done, HelperInv
<1>2. NoCall \in Calls /\ NoCall.pc = "idle" /\ NoCall.answer = "none"
  BY DEF NoCall, Calls, Pcs, Replies
<1>3. /\ call' \in [Callers -> Calls] /\ call'[c] = NoCall
      /\ \A d \in Callers \ {c} : call'[d] = call[d]
  BY <1>1, <1>2 DEF HelperTypes
<1>4. TrueOf(call'[c].answer, call'[c].seen)
  BY <1>2, <1>3 DEF TrueOf
<1>5. call[c].pc \notin HoldPcs /\ call'[c].pc \notin HoldPcs
  BY <1>1, <1>2, <1>3 DEF HoldPcs
<1> QED  BY <1>1, <1>2, <1>3, <1>4, <1>5, CallerMoves DEF HelperTypes

LEMMA IsBusyKeeps == ASSUME HelperInv, NEW c \in Callers, IsBusy(c) PROVE HelperInv'
<1>1. /\ call[c].pc = "lock" /\ HelperTypes /\ Told
      /\ call' = [call EXCEPT ![c].pc = "done", ![c].answer = "failed"]
      /\ UNCHANGED <<lock, started, next_id, requests, messages, helper, gpu, upsets>>
  BY DEF IsBusy, HelperInv
<1>2. /\ call' \in [Callers -> Calls] /\ call'[c].pc = "done"
      /\ call'[c].answer = "failed" /\ call'[c].seen = call[c].seen
      /\ \A d \in Callers \ {c} : call'[d] = call[d]
  BY <1>1 DEF HelperTypes, Calls, Pcs, Replies
<1>3. TrueOf(call'[c].answer, call'[c].seen) /\ gpu \in call'[c].seen
  BY <1>1, <1>2 DEF TrueOf, Told
<1>4. call[c].pc \notin HoldPcs /\ call'[c].pc \notin HoldPcs
  BY <1>1, <1>2 DEF HoldPcs
<1> QED  BY <1>1, <1>2, <1>3, <1>4, CallerMoves DEF HelperTypes

LEMMA AcquireKeeps == ASSUME HelperInv, NEW c \in Callers, Acquire(c) PROVE HelperInv'
<1> DEFINE pc == IF started = "none" THEN "start"
                 ELSE IF started = "ready" THEN "send" ELSE "await_ready"
<1>1. /\ call[c].pc = "lock" /\ lock = None /\ lock' = c /\ HelperTypes /\ Told
      /\ Goto(c, pc)
      /\ UNCHANGED <<started, next_id, requests, messages, helper, gpu, upsets>>
  BY DEF Acquire, HelperInv
<1>2. /\ pc \in Pcs /\ pc \in HoldPcs /\ pc # "await"
      /\ pc = "await_ready" => started # "none"
      /\ pc = "send" => started = "ready"
  BY DEF Pcs, HoldPcs
<1> HIDE DEF pc
<1>3. /\ call' \in [Callers -> Calls] /\ call'[c].pc = pc
      /\ call'[c].answer = call[c].answer /\ call'[c].seen = call[c].seen
      /\ \A d \in Callers \ {c} : call'[d] = call[d]
  BY <1>1, <1>2, GotoIs
<1>4. TrueOf(call'[c].answer, call'[c].seen) /\ gpu \in call'[c].seen
  BY <1>1, <1>3 DEF Told
<1> QED  BY <1>1, <1>2, <1>3, <1>4, CallerMoves DEF HelperTypes

LEMMA FailsAlive ==
    ASSUME HelperInv, NEW c \in Callers, call[c].pc \in {"start", "await_ready"},
           Ends(c, "failed"), Alive, UNCHANGED <<messages, next_id, gpu>>, upsets' \in Nat
    PROVE  HelperInv'
<1>1. HelperTypes /\ Told /\ UNCHANGED <<started, requests, helper>>
  BY DEF HelperInv, Alive
<1>2. /\ call' \in [Callers -> Calls] /\ lock' = None
      /\ call'[c].pc = "done" /\ call'[c].answer = "failed" /\ call'[c].seen = call[c].seen
      /\ \A d \in Callers \ {c} : call'[d] = call[d]
  BY <1>1, EndsIs DEF Replies
<1>3. TrueOf(call'[c].answer, call'[c].seen) /\ gpu \in call'[c].seen
  BY <1>1, <1>2 DEF TrueOf, Told
<1>4. call[c].pc \in HoldPcs /\ call'[c].pc \notin HoldPcs
  BY <1>2 DEF HoldPcs
<1> QED  BY <1>1, <1>2, <1>3, <1>4, CallerMoves DEF HelperTypes

LEMMA UpsetsAre ==
    ASSUME HelperTypes, Upset \/ upsets' = upsets \/ \E p \in BOOLEAN : PassesWhile(p)
    PROVE  upsets' \in Nat
BY DEF HelperTypes, Upset, PassesWhile

LEMMA StartKeeps == ASSUME HelperInv, NEW c \in Callers, _start(c) PROVE HelperInv'
<1>0. /\ HelperTypes /\ LockShape /\ OneInFlight /\ Told
      /\ call[c].pc = "start" /\ UNCHANGED <<next_id, gpu>>
  BY DEF _start, HelperInv
<1>1. CASE Ends(c, "failed") /\ Upset /\ Alive /\ UNCHANGED messages
  BY <1>0, <1>1, UpsetsAre, FailsAlive
<1>2. CASE /\ started' = "starting" /\ requests' = <<>> /\ messages' = <<>>
           /\ helper' = [pc |-> "loading", request |-> None]
           /\ Goto(c, "await_ready") /\ UNCHANGED <<lock, upsets>>
  <2>1. /\ call' \in [Callers -> Calls] /\ call'[c].pc = "await_ready"
        /\ call'[c].answer = call[c].answer /\ call'[c].seen = call[c].seen
        /\ \A d \in Callers \ {c} : call'[d] = call[d]
    BY <1>0, <1>2, GotoIs DEF Pcs
  <2>2. lock = c /\ \A d \in Callers \ {c} : call[d].pc \notin HoldPcs
    BY <1>0, Alone DEF HoldPcs
  <2>3. HelperTypes'
    BY <1>0, <1>2, <2>1 DEF HelperTypes
  <2>4. LockShape'
    BY <1>2, <2>1, <2>2 DEF LockShape, HoldPcs
  <2>5. Answers' = {}
    BY <1>2 DEF Answers
  <2>6. OneInFlight'
    BY <1>2, <2>5 DEF OneInFlight
  <2>7. Told'
    BY <1>0, <2>1, <2>5 DEF Told
  <2> QED  BY <2>3, <2>4, <2>6, <2>7 DEF HelperInv
<1> QED  BY <1>1, <1>2 DEF _start

LEMMA HelperExitedKeeps == ASSUME HelperInv, NEW c \in Callers, HelperExited(c) PROVE HelperInv'
<1>1. /\ call[c].pc \in HoldPcs /\ Ends(c, "failed") /\ Kill
      /\ UNCHANGED <<next_id, gpu, upsets>> /\ HelperTypes
  BY DEF HelperExited, HoldPcs, HelperInv
<1> QED  BY <1>1, EndsAndKills DEF HelperTypes

LEMMA StillStartingKeeps == ASSUME HelperInv, NEW c \in Callers, StillStarting(c) PROVE HelperInv'
<1>1. /\ call[c].pc = "await_ready" /\ Ends(c, "failed") /\ UNCHANGED <<next_id, gpu>>
      /\ IF old THEN Kill ELSE Alive /\ UNCHANGED messages
      /\ PassesWhile(messages # <<>>) /\ HelperTypes
  BY DEF StillStarting, HelperInv
<1>2. upsets' \in Nat
  BY <1>1 DEF PassesWhile, Upset, HelperTypes
<1>3. CASE old
  BY <1>1, <1>2, <1>3, EndsAndKills DEF HoldPcs, HelperTypes
<1>4. CASE ~old
  BY <1>1, <1>2, <1>4, FailsAlive
<1> QED  BY <1>3, <1>4

LEMMA TimedOutKeeps == ASSUME HelperInv, NEW c \in Callers, TimedOut(c) PROVE HelperInv'
<1>1. /\ call[c].pc \in HoldPcs /\ Ends(c, "failed") /\ Kill /\ UNCHANGED <<next_id, gpu>>
      /\ PassesWhile(messages # <<>> \/ helper.pc # "hung") /\ HelperTypes
  BY DEF TimedOut, HelperInv, HoldPcs
<1>2. upsets' \in Nat
  BY <1>1 DEF PassesWhile, Upset, HelperTypes
<1> QED  BY <1>1, <1>2, EndsAndKills DEF HelperTypes

LEMMA CloseKeeps == ASSUME HelperInv, NEW c \in Callers, Close(c) PROVE HelperInv'
<1>1. /\ HelperTypes /\ LockShape /\ Told /\ lock = None /\ Upset /\ Kill
      /\ UNCHANGED <<call, lock, next_id, gpu>>
  BY DEF Close, HelperInv
<1>2. /\ started' = "none" /\ requests' = <<>> /\ requests' \in Seq(Requests)
      /\ DOMAIN helper' = {"pc", "request"} /\ helper'.pc = "none"
      /\ messages' \in Seq(Messages)
  BY <1>1, KillIs
<1>3. \A d \in Callers : call[d].pc \notin HoldPcs
  BY <1>1, HelperAssumption DEF LockShape
<1>4. HelperTypes'
  BY <1>1, <1>2, UpsetsAre DEF HelperTypes
<1>5. LockShape'
  BY <1>1, <1>3 DEF LockShape, HoldPcs
<1>6. OneInFlight'
  BY <1>2 DEF OneInFlight
<1>7. Told'
  BY <1>1, <1>3 DEF Told, HoldPcs
<1> QED  BY <1>4, <1>5, <1>6, <1>7 DEF HelperInv

LEMMA IsReadyKeeps == ASSUME HelperInv, NEW c \in Callers, IsReady(c) PROVE HelperInv'
<1> DEFINE pc == IF started' = "ready" THEN "send" ELSE "await_ready"
<1>1. /\ HelperTypes /\ LockShape /\ OneInFlight /\ Told
      /\ call[c].pc = "await_ready" /\ messages # <<>>
      /\ started' = (IF Head(messages) = Ready THEN "ready" ELSE started)
      /\ Goto(c, pc) /\ messages' = Tail(messages)
      /\ UNCHANGED <<lock, next_id, requests, helper, gpu, upsets>>
  BY DEF IsReady, Received, HelperInv
<1>2. started' \in {"starting", "ready"} /\ started # "none"
  BY <1>1 DEF HelperTypes, LockShape
<1>3. pc \in {"send", "await_ready"} /\ (pc = "send" => started' = "ready")
  OBVIOUS
<1> HIDE DEF pc
<1>4. /\ call' \in [Callers -> Calls] /\ call'[c].pc = pc
      /\ call'[c].answer = call[c].answer /\ call'[c].seen = call[c].seen
      /\ \A d \in Callers \ {c} : call'[d] = call[d]
  BY <1>1, <1>3, GotoIs DEF Pcs
<1>5. lock = c /\ \A d \in Callers \ {c} : call[d].pc \notin HoldPcs
  BY <1>1, Alone DEF HoldPcs
<1>6. ~Awaiting /\ ~Awaiting'
  BY <1>1, <1>3, <1>4, <1>5 DEF Awaiting, HoldPcs
<1>7. requests = <<>> /\ helper.pc # "nvml" /\ Answers = {}
  BY <1>1, <1>2, <1>6 DEF OneInFlight
<1>8. messages' \in Seq(Messages) /\ Answers' = {}
  BY <1>1, <1>7, TailAnswers DEF HelperTypes
<1>9. HelperTypes'
  BY <1>1, <1>2, <1>4, <1>8 DEF HelperTypes
<1>10. LockShape'
  BY <1>1, <1>2, <1>3, <1>4, <1>5 DEF LockShape, HoldPcs
<1>11. OneInFlight'
  BY <1>1, <1>2, <1>7, <1>8 DEF OneInFlight
<1>12. Told'
  BY <1>1, <1>4, <1>8 DEF Told
<1> QED  BY <1>9, <1>10, <1>11, <1>12 DEF HelperInv

LEMMA NextId ==
    ASSUME next_id \in Nat PROVE (next_id % Ids) + 1 \in Nat \ {0}
BY HelperAssumption

LEMMA SendKeeps == ASSUME HelperInv, NEW c \in Callers, Send(c) PROVE HelperInv'
<1>1. /\ HelperTypes /\ LockShape /\ OneInFlight /\ Told
      /\ call[c].pc = "send" /\ UNCHANGED <<gpu, upsets>>
      /\ next_id' = (next_id % Ids) + 1
  BY DEF Send, HelperInv
<1>2. next_id' \in Nat \ {0}
  BY <1>1, NextId DEF HelperTypes
<1>3. CASE helper.pc = "none"
  <2>1. Ends(c, "failed") /\ Kill
    BY <1>3 DEF Send
  <2> QED  BY <1>1, <1>2, <2>1, EndsAndKills DEF HoldPcs, HelperTypes
<1>4. CASE helper.pc # "none"
  <2>1. /\ requests' = Append(requests, [id |-> next_id'])
        /\ call' = [call EXCEPT ![c].pc = "await", ![c].id = next_id']
        /\ UNCHANGED <<lock, started, messages, helper>>
    BY <1>4 DEF Send
  <2>2. /\ call' \in [Callers -> Calls] /\ call'[c].pc = "await" /\ call'[c].id = next_id'
        /\ call'[c].answer = call[c].answer /\ call'[c].seen = call[c].seen
        /\ \A d \in Callers \ {c} : call'[d] = call[d]
    BY <1>1, <1>2, <2>1 DEF HelperTypes, Calls, Pcs
  <2>3. lock = c /\ started = "ready" /\ \A d \in Callers \ {c} : call[d].pc \notin HoldPcs
    BY <1>1, Alone DEF HoldPcs, LockShape
  <2>4. ~Awaiting
    BY <1>1, <2>3 DEF Awaiting, HoldPcs
  <2>5. requests = <<>> /\ helper.pc # "nvml" /\ Answers = {}
    BY <1>1, <2>3, <2>4 DEF OneInFlight
  <2>6. requests' \in Seq(Requests) /\ Len(requests') = 1
    BY <1>1, <1>2, <2>1, <2>5 DEF HelperTypes, Requests
  <2>7. Answers' = {}
    BY <2>1, <2>5 DEF Answers
  <2>8. HelperTypes'
    BY <1>1, <1>2, <2>1, <2>2, <2>6 DEF HelperTypes
  <2>9. LockShape'
    BY <1>2, <2>1, <2>2, <2>3 DEF LockShape, HoldPcs
  <2>10. OneInFlight'
    <3>1. Awaiting'
      BY <2>2 DEF Awaiting
    <3> QED  BY <2>1, <2>3, <2>5, <2>6, <2>7, <3>1 DEF OneInFlight
  <2>11. Told'
    BY <1>1, <2>2, <2>7 DEF Told
  <2> QED  BY <2>8, <2>9, <2>10, <2>11 DEF HelperInv
<1> QED  BY <1>3, <1>4

LEMMA AwaitKeeps == ASSUME HelperInv, NEW c \in Callers, Await(c) PROVE HelperInv'
<1>1. /\ HelperTypes /\ LockShape /\ OneInFlight /\ Told
      /\ call[c].pc = "await" /\ messages # <<>> /\ Head(messages) # Exited
      /\ IF Head(messages).id = call[c].id THEN Ends(c, Head(messages).answer)
         ELSE UNCHANGED <<call, lock>>
      /\ messages' = Tail(messages)
      /\ UNCHANGED <<started, next_id, requests, helper, gpu, upsets>>
  BY DEF Await, Received, HelperInv
<1>2. /\ lock = c /\ started = "ready" /\ call[c].id # 0
      /\ \A d \in Callers \ {c} : call[d].pc \notin HoldPcs
  BY <1>1, Alone DEF HoldPcs, LockShape
<1>3. /\ messages' \in Seq(Messages)
      /\ \A k \in Answers' : k + 1 \in Answers /\ messages'[k] = messages[k + 1] /\ k \in Nat \ {0}
  BY <1>1, TailAnswers DEF HelperTypes
<1>4. CASE Head(messages).id = call[c].id
  <2>1. 1 \in Answers /\ Head(messages) = messages[1] /\ Head(messages).answer \in Replies
    <3>1. /\ Head(messages) = messages[1] /\ 1 \in DOMAIN messages
          /\ Head(messages) \in Messages
      BY <1>1 DEF HelperTypes
    <3>2. Head(messages) # Ready
      BY <1>2, <1>4, ReadyIs
    <3> QED  BY <1>1, <3>1, <3>2 DEF Answers, Messages
  <2>2. Answers' = {}
    <3> SUFFICES ASSUME NEW k \in Answers' PROVE FALSE
      OBVIOUS
    <3>1. k + 1 = 1 /\ k \in Nat \ {0}
      BY <1>1, <1>2, <1>3, <2>1 DEF OneInFlight
    <3> QED  BY <3>1
  <2>3. requests = <<>> /\ helper.pc # "nvml"
    BY <1>1, <1>2, <2>1 DEF OneInFlight
  <2>4. /\ call' \in [Callers -> Calls] /\ lock' = None
        /\ call'[c].pc = "done" /\ call'[c].answer = Head(messages).answer
        /\ call'[c].seen = call[c].seen
        /\ \A d \in Callers \ {c} : call'[d] = call[d]
    BY <1>1, <1>4, <2>1, EndsIs
  <2>5. HelperTypes'
    BY <1>1, <1>3, <2>4 DEF HelperTypes
  <2>6. LockShape'
    BY <1>2, <2>4, HelperAssumption DEF LockShape, HoldPcs
  <2>7. OneInFlight'
    BY <1>1, <1>2, <2>2, <2>3 DEF OneInFlight
  <2>8. Told'
    <3>1. TrueOf(call'[c].answer, call'[c].seen) /\ gpu \in call[c].seen
      BY <1>1, <2>1, <2>4 DEF Told
    <3> QED  BY <1>1, <2>2, <2>4, <3>1 DEF Told
  <2> QED  BY <2>5, <2>6, <2>7, <2>8 DEF HelperInv
<1>5. CASE Head(messages).id # call[c].id
  <2>1. UNCHANGED <<call, lock>>
    BY <1>1, <1>5
  <2>2. HelperTypes'
    BY <1>1, <1>3, <2>1 DEF HelperTypes
  <2>3. LockShape'
    BY <1>1, <2>1 DEF LockShape
  <2>4. Awaiting /\ Awaiting'
    BY <1>1, <2>1 DEF Awaiting
  <2>5. \A j, k \in Answers' : j = k
    <3> SUFFICES ASSUME NEW j \in Answers', NEW k \in Answers' PROVE j = k
      OBVIOUS
    <3>1. j + 1 = k + 1 /\ j \in Nat /\ k \in Nat
      BY <1>1, <1>2, <1>3 DEF OneInFlight
    <3> QED  BY <3>1
  <2>6. Answers = {} => Answers' = {}
    BY <1>3
  <2>7. OneInFlight'
    BY <1>1, <1>2, <2>4, <2>5, <2>6 DEF OneInFlight
  <2>8. Told'
    BY <1>1, <1>3, <2>1 DEF Told
  <2> QED  BY <2>2, <2>3, <2>7, <2>8 DEF HelperInv
<1> QED  BY <1>4, <1>5

-----------------------------------------------------------------------------
(* The helper process, the driver and the GPU.                              *)

LEMMA LoadedKeeps == ASSUME HelperInv, Loaded PROVE HelperInv'
<1>1. /\ HelperTypes /\ LockShape /\ OneInFlight /\ Told
      /\ helper.pc = "loading" /\ helper' = [helper EXCEPT !.pc = "idle"]
      /\ messages' = Append(messages, Ready)
      /\ UNCHANGED <<call, lock, started, next_id, gpu, upsets, requests>>
  BY DEF Loaded, Unasked, HelperInv
<1>2. DOMAIN helper' = {"pc", "request"} /\ helper'.pc = "idle"
  BY <1>1 DEF HelperTypes
<1>3. /\ messages' \in Seq(Messages) /\ Answers' = Answers
      /\ \A k \in Answers : messages'[k] = messages[k]
  BY <1>1, AppendPlain DEF HelperTypes
<1>4. HelperTypes'
  BY <1>1, <1>2, <1>3 DEF HelperTypes
<1>5. LockShape'
  BY <1>1 DEF LockShape
<1>6. OneInFlight'
  BY <1>1, <1>2, <1>3 DEF OneInFlight, Awaiting
<1>7. Told'
  BY <1>1, <1>3 DEF Told
<1> QED  BY <1>4, <1>5, <1>6, <1>7 DEF HelperInv

\* An answer goes to the one caller that waits, who saw the GPU as it is.
LEMMA AnswerKeeps ==
    ASSUME HelperInv, NEW m \in Messages, messages' = Append(messages, m),
           started # "none", Awaiting, Answers = {}, TrueOf(m.answer, {gpu}),
           requests' = <<>>, DOMAIN helper' = {"pc", "request"}, helper'.pc = "idle",
           UNCHANGED <<call, lock, started, next_id, gpu, upsets>>
    PROVE  HelperInv'
<1>0. HelperTypes /\ LockShape /\ OneInFlight /\ Told
  BY DEF HelperInv
<1>1. /\ messages' \in Seq(Messages)
      /\ \A k \in Answers' : k = Len(messages) + 1 /\ messages'[k] = m
  BY <1>0, AppendAnswer DEF HelperTypes
<1>2. HelperTypes'
  BY <1>0, <1>1 DEF HelperTypes
<1>3. LockShape'
  BY <1>0 DEF LockShape
<1>4. OneInFlight'
  <2>1. Awaiting'
    BY DEF Awaiting
  <2>2. \A j, k \in Answers' : j = k
    BY <1>1
  <2> QED  BY <2>1, <2>2 DEF OneInFlight
<1>5. Told'
  <2>1. ASSUME NEW d \in Callers, call[d].pc = "await", NEW k \in Answers'
        PROVE  TrueOf(messages'[k].answer, call[d].seen)
    <3>1. gpu \in call[d].seen /\ messages'[k] = m
      BY <1>0, <1>1, <2>1 DEF Told
    <3> QED  BY <3>1 DEF TrueOf
  <2> QED  BY <1>0, <2>1 DEF Told
<1> QED  BY <1>2, <1>3, <1>4, <1>5 DEF HelperInv

LEMMA TakeRequestKeeps == ASSUME HelperInv, TakeRequest PROVE HelperInv'
<1>1. /\ HelperTypes /\ LockShape /\ OneInFlight /\ Told
      /\ helper.pc = "idle" /\ requests # <<>> /\ requests' = Tail(requests)
      /\ UNCHANGED <<call, lock, started, next_id, gpu, upsets>>
  BY DEF TakeRequest, Unasked, HelperInv
<1>2. started # "none" /\ Awaiting /\ Answers = {} /\ Len(requests) \leq 1
  BY <1>1 DEF OneInFlight
<1>3. /\ requests \in Seq(Requests) /\ Head(requests) \in Requests
      /\ requests' \in Seq(Requests) /\ requests' = <<>>
  BY <1>1, <1>2 DEF HelperTypes
<1>4. CASE nvidia_gpu_powered_off(Devices[gpu]) = "off"
  <2>1. messages' = Append(messages, Answer(Head(requests), "off")) /\ helper' = helper
    BY <1>4 DEF TakeRequest
  <2>2. Answer(Head(requests), "off") \in Messages /\ Answer(Head(requests), "off").answer = "off"
    BY <1>3 DEF Answer, Messages, Requests, Replies
  <2>3. gpu = "off"
    BY <1>1, <1>4, OffIsOff DEF HelperTypes
  <2>4. TrueOf("off", {gpu})
    BY <2>3 DEF TrueOf
  <2> QED  BY <1>1, <1>2, <1>3, <2>1, <2>2, <2>4, AnswerKeeps DEF HelperTypes
<1>5. CASE nvidia_gpu_powered_off(Devices[gpu]) # "off"
  <2>1. helper' = [pc |-> "nvml", request |-> Head(requests)] /\ messages' = messages
    BY <1>5 DEF TakeRequest
  <2>2. Answers' = {}
    BY <1>2, <2>1 DEF Answers
  <2>3. HelperTypes'
    BY <1>1, <1>3, <2>1 DEF HelperTypes
  <2>4. LockShape'
    BY <1>1 DEF LockShape
  <2>5. OneInFlight'
    BY <1>1, <1>2, <1>3, <2>1, <2>2 DEF OneInFlight, Awaiting
  <2>6. Told'
    BY <1>1, <2>2 DEF Told
  <2> QED  BY <2>3, <2>4, <2>5, <2>6 DEF HelperInv
<1> QED  BY <1>4, <1>5

LEMMA QueryKeeps == ASSUME HelperInv, Query PROVE HelperInv'
<1> DEFINE reply == IF session' = "open" THEN "value" ELSE "failed"
           m == Answer(helper.request, reply)
<1>1. /\ HelperTypes /\ LockShape /\ OneInFlight
      /\ helper.pc = "nvml" /\ messages' = Append(messages, m)
      /\ session' = (IF session = "lost" \/ gpu = "missing" THEN "none" ELSE "open")
      /\ helper' = [pc |-> "idle", request |-> None] /\ UNCHANGED requests
      /\ UNCHANGED <<call, lock, started, next_id, gpu, upsets>>
  BY DEF Query, Unasked, HelperInv
<1>2. started # "none" /\ Awaiting /\ Answers = {} /\ requests' = <<>>
  BY <1>1 DEF OneInFlight
<1>3. m \in Messages /\ m.answer = reply
  BY <1>1 DEF Answer, Messages, Requests, Replies, HelperTypes
<1>4. TrueOf(reply, {gpu})
  BY <1>1 DEF TrueOf
<1>5. DOMAIN helper' = {"pc", "request"} /\ helper'.pc = "idle"
  BY <1>1
<1> HIDE DEF m, reply
<1> QED  BY <1>1, <1>2, <1>3, <1>4, <1>5, AnswerKeeps

LEMMA HangKeeps == ASSUME HelperInv, Hang PROVE HelperInv'
<1>1. /\ HelperTypes /\ LockShape /\ OneInFlight /\ Told
      /\ helper.pc \in {"loading", "nvml"} /\ Upset
      /\ helper' = [helper EXCEPT !.pc = "hung"]
      /\ UNCHANGED <<call, lock, started, next_id, requests, messages, gpu>>
  BY DEF Hang, HelperInv
<1>2. DOMAIN helper' = {"pc", "request"} /\ helper'.pc = "hung"
  BY <1>1 DEF HelperTypes
<1>3. Answers' = Answers
  BY <1>1 DEF Answers
<1>4. HelperTypes'
  BY <1>1, <1>2, UpsetsAre DEF HelperTypes
<1>5. LockShape'
  BY <1>1 DEF LockShape
<1>6. OneInFlight'
  BY <1>1, <1>2, <1>3 DEF OneInFlight, Awaiting
<1>7. Told'
  BY <1>1, <1>3 DEF Told
<1> QED  BY <1>4, <1>5, <1>6, <1>7 DEF HelperInv

LEMMA DieKeeps == ASSUME HelperInv, Die PROVE HelperInv'
<1>1. /\ HelperTypes /\ LockShape /\ OneInFlight /\ Told
      /\ helper.pc # "none" /\ Upset /\ helper' = [pc |-> "none", request |-> None]
      /\ messages' = Append(messages, Exited)
      /\ UNCHANGED <<call, lock, started, next_id, requests, gpu>>
  BY DEF Die, HelperInv
<1>2. DOMAIN helper' = {"pc", "request"} /\ helper'.pc = "none"
  BY <1>1
<1>3. /\ messages' \in Seq(Messages) /\ Answers' = Answers
      /\ \A k \in Answers : messages'[k] = messages[k]
  BY <1>1, AppendPlain DEF HelperTypes
<1>4. HelperTypes'
  BY <1>1, <1>2, <1>3, UpsetsAre DEF HelperTypes
<1>5. LockShape'
  BY <1>1 DEF LockShape
<1>6. OneInFlight'
  BY <1>1, <1>2, <1>3 DEF OneInFlight, Awaiting
<1>7. Told'
  BY <1>1, <1>3 DEF Told
<1> QED  BY <1>4, <1>5, <1>6, <1>7 DEF HelperInv

\* The queries that run see the GPU change, and what they were told stays true.
LEMMA GpuChangesKeeps == ASSUME HelperInv, GpuChanges PROVE HelperInv'
<1>1. /\ HelperTypes /\ LockShape /\ OneInFlight /\ Told /\ Upset
      /\ gpu' \in States
      /\ call' = [c \in Callers |->
                    IF call[c].pc = "idle" THEN call[c] ELSE [call[c] EXCEPT !.seen = @ \cup {gpu'}]]
      /\ UNCHANGED <<lock, started, next_id, requests, messages, helper>>
  BY DevicesAre DEF GpuChanges, HelperInv
<1>2. ASSUME NEW c \in Callers
      PROVE  /\ call'[c] \in Calls
             /\ call'[c].pc = call[c].pc /\ call'[c].id = call[c].id
             /\ call'[c].answer = call[c].answer /\ call[c].seen \subseteq call'[c].seen
             /\ call[c].pc # "idle" => gpu' \in call'[c].seen
  <2>1. call[c] \in Calls
    BY <1>1 DEF HelperTypes
  <2>2. CASE call[c].pc = "idle"
    BY <1>1, <2>1, <2>2
  <2>3. CASE call[c].pc # "idle"
    <3>1. call'[c] = [call[c] EXCEPT !.seen = @ \cup {gpu'}]
      BY <1>1, <2>3
    <3> QED  BY <1>1, <2>1, <3>1 DEF Calls
  <2> QED  BY <2>2, <2>3
<1>3. call' \in [Callers -> Calls]
  <2>1. call' = [c \in Callers |-> call'[c]]
    BY <1>1
  <2> QED  BY <1>2, <2>1
<1>4. HelperTypes'
  BY <1>1, <1>3, UpsetsAre DEF HelperTypes
<1>5. LockShape'
  BY <1>1, <1>2 DEF LockShape
<1>6. OneInFlight' /\ Answers' = Answers
  <2>1. Awaiting => Awaiting'
    BY <1>2 DEF Awaiting
  <2> QED  BY <1>1, <2>1, PipesStay
<1>7. Told'
  <2> SUFFICES ASSUME NEW c \in Callers
               PROVE  /\ call'[c].pc # "idle" => gpu' \in call'[c].seen
                      /\ TrueOf(call'[c].answer, call'[c].seen)
                      /\ call'[c].pc = "await" =>
                           \A k \in Answers : TrueOf(messages[k].answer, call'[c].seen)
    BY <1>1, <1>6 DEF Told
  <2>1. \A answer : TrueOf(answer, call[c].seen) => TrueOf(answer, call'[c].seen)
    BY <1>2 DEF TrueOf
  <2> QED  BY <1>1, <1>2, <2>1 DEF Told
<1> QED  BY <1>4, <1>5, <1>6, <1>7 DEF HelperInv

LEMMA QuietKeeps ==
    ASSUME HelperInv, SessionLost \/ LimitPasses \/ UNCHANGED vars
    PROVE  HelperInv'
<1>1. UNCHANGED <<call, lock, started, next_id, requests, messages, helper, gpu>>
  BY DEF SessionLost, LimitPasses, vars
<1>2. upsets' \in Nat
  BY DEF SessionLost, LimitPasses, vars, Upset, PassesWhile, HelperInv, HelperTypes
<1>3. HelperTypes' /\ LockShape'
  BY <1>1, <1>2 DEF HelperInv, HelperTypes, LockShape
<1>4. OneInFlight' /\ Answers' = Answers
  BY <1>1, PipesStay DEF HelperInv, Awaiting
<1>5. Told'
  BY <1>1, <1>4 DEF HelperInv, Told
<1> QED  BY <1>3, <1>4, <1>5 DEF HelperInv

LEMMA NextKeeps == ASSUME HelperInv, [Next]_vars PROVE HelperInv'
<1>1. ASSUME NEW c \in Callers, query(c) \/ Close(c) \/ CallerStep(c) \/ Deadline(c)
      PROVE  HelperInv'
  BY <1>1, queryKeeps, CloseKeeps, IsBusyKeeps, AcquireKeeps, StartKeeps, HelperExitedKeeps,
     IsReadyKeeps, SendKeeps, AwaitKeeps, DoneKeeps, StillStartingKeeps, TimedOutKeeps
     DEF CallerStep, Deadline
<1>2. CASE HelperStep
  BY <1>2, LoadedKeeps, TakeRequestKeeps, QueryKeeps DEF HelperStep
<1>3. CASE Environment \/ UNCHANGED vars
  BY <1>3, HangKeeps, DieKeeps, GpuChangesKeeps, QuietKeeps DEF Environment
<1> QED  BY <1>1, <1>2, <1>3 DEF Next

-----------------------------------------------------------------------------
(* What the lane promises.                                                  *)

\* At most one answer is under way, and only while its caller waits: a query
\* that stops waiting kills the helper (nvidia_helper.py:424-465).
THEOREM HelperInvariant == Spec => []HelperInv
<1>1. Init => HelperInv
  BY InitHolds
<1>2. HelperInv /\ [Next]_vars => HelperInv'
  BY NextKeeps
<1> QED  BY <1>1, <1>2, PTL DEF Spec

\* A query that is answered is told of the GPU as it was while the query ran
\* (nvidia_helper.py:450-465, _kill, _start).
THEOREM AnswersAreCurrent == Spec => []AnswerIsCurrent
<1>1. HelperInv => AnswerIsCurrent
  BY DEF HelperInv, Told, TrueOf, AnswerIsCurrent
<1> QED  BY <1>1, HelperInvariant, PTL

\* However short the deadlines of the queries, a start has its time
\* (nvidia_helper.py:434-438).
THEOREM StartsHaveTime == Spec => StartIsGivenTime
<1> DEFINE Killed == started = "starting" /\ started' = "none"
           Due == old \/ messages # <<>> \/ \E c \in Callers : Close(c)
<1>1. ASSUME HelperInv, [Next]_vars, Killed PROVE Due
  <2>1. ASSUME NEW c \in Callers, CallerStep(c) \/ Deadline(c) PROVE Due
    <3>1. LockShape
      BY <1>1 DEF HelperInv
    <3>2. CASE HelperExited(c)
      BY <3>2 DEF HelperExited
    <3>3. CASE StillStarting(c)
      BY <1>1, <3>3 DEF StillStarting, Alive
    <3>4. CASE TimedOut(c) \/ Send(c)
      BY <1>1, <3>1, <3>4 DEF TimedOut, Send, LockShape
    <3>5. CASE IsBusy(c) \/ Acquire(c) \/ _start(c) \/ IsReady(c) \/ Await(c) \/ Done(c)
      BY <1>1, <3>5 DEF IsBusy, Acquire, _start, IsReady, Await, Done, Alive
    <3> QED  BY <2>1, <3>2, <3>3, <3>4, <3>5 DEF CallerStep, Deadline
  <2>2. ASSUME NEW c \in Callers, query(c) PROVE Due
    BY <1>1, <2>2 DEF query
  <2>3. ASSUME HelperStep \/ Environment \/ UNCHANGED vars PROVE Due
    BY <1>1, <2>3 DEF HelperStep, Loaded, TakeRequest, Query, Unasked, Environment, Hang, Die,
       SessionLost, GpuChanges, LimitPasses, vars
  <2> QED  BY <1>1, <2>1, <2>2, <2>3 DEF Next
<1>2. HelperInv /\ [Next]_vars =>
        [started = "starting" /\ started' = "none"
           => old \/ messages # <<>> \/ \E c \in Callers : Close(c)]_vars
  BY <1>1
<1> QED  BY <1>2, HelperInvariant, PTL DEF Spec, StartIsGivenTime

-----------------------------------------------------------------------------
(* PowerMeter.                                                              *)

Readings == [energy : 0 .. Modulus - 1, at : Nat, used : Nat]
Powers   == [energy : Int, time : Nat, used : Nat]

MeterTypes ==
    /\ Parameters
    /\ energy \in 0 .. Modulus - 1 /\ used \in Nat /\ now \in Nat
    /\ previous = NoValue \/ previous \in Readings
    /\ lastPower = NoValue \/ lastPower \in Powers

(* Since the last reading the counter has gone as far as the package used,   *)
(* as long as it went less than once around.                                 *)
Tracks ==
    previous # NoValue =>
        /\ previous.at <= now /\ previous.used <= used
        /\ used - previous.used <= Cap * (now - previous.at)
        /\ used - previous.used < Modulus
            => Consumed(energy, previous.energy) = used - previous.used

MeterInv == MeterTypes /\ Tracks /\ WrapIsUndone /\ RyzenIsTrue

(* A tick of the package costs at most Cap and cannot wrap the counter twice.*)
LEMMA CapIsSmall == ASSUME Parameters PROVE Cap < Modulus
<1>1. Cap <= Cap * MAX_POWER_INTERVAL
  BY DEF Parameters
<1> QED  BY <1>1 DEF Parameters

LEMMA MeterInitHolds == ASSUME Parameters, MeterInit PROVE MeterInv
BY DEF MeterInit, MeterInv, MeterTypes, Tracks, WrapIsUndone, RyzenIsTrue, Parameters

(* A tick.                                                                   *)
LEMMA TickKeeps == ASSUME MeterInv, Tick PROVE MeterInv'
<1> USE DEF MeterInv
<1>1. PICK d \in 0 .. Cap :
        /\ now' = now + 1 /\ used' = used + d
        /\ energy' = IF energy + d < Modulus THEN energy + d ELSE energy + d - Modulus
        /\ UNCHANGED <<meter, previous, lastPower>>
  BY DEF Tick
<1>2. Cap < Modulus /\ Cap \in Nat /\ Modulus \in Nat
  BY CapIsSmall DEF MeterTypes, Parameters
<1>3. MeterTypes'
  BY <1>1, <1>2 DEF MeterTypes, Parameters
<1>4. ASSUME previous # NoValue
      PROVE  /\ previous.at <= now' /\ previous.used <= used'
             /\ used' - previous.used <= Cap * (now' - previous.at)
             /\ used' - previous.used < Modulus
                 => Consumed(energy', previous.energy) = used' - previous.used
  <2>1. /\ previous \in Readings
        /\ previous.energy \in 0 .. Modulus - 1
        /\ previous.at \in Nat /\ previous.used \in Nat
        /\ now \in Nat /\ used \in Nat /\ energy \in 0 .. Modulus - 1
        /\ now' = now + 1 /\ used' = used + d
    BY <1>1, <1>4 DEF MeterTypes, Readings
  <2>2. /\ previous.at <= now /\ previous.used <= used
        /\ used - previous.used <= Cap * (now - previous.at)
        /\ used - previous.used < Modulus
            => Consumed(energy, previous.energy) = used - previous.used
    BY <1>4 DEF Tracks
  <2>3. /\ Cap * (now' - previous.at) = Cap * (now - previous.at) + Cap
        /\ Cap * (now - previous.at) \in Int
    BY <1>2, <2>1
  <2>4. used' - previous.used <= Cap * (now' - previous.at)
    BY <1>1, <1>2, <2>1, <2>2, <2>3
  <2>5. ASSUME used' - previous.used < Modulus
        PROVE  Consumed(energy', previous.energy) = used' - previous.used
    <3>1. /\ used - previous.used \in Nat /\ (used - previous.used) + d < Modulus
          /\ d \in 0 .. Modulus - 1
      BY <1>2, <2>1, <2>2, <2>5
    <3>2. Consumed(energy, previous.energy) = used - previous.used
      BY <1>2, <2>1, <2>2, <3>1
    <3> QED  BY <1>1, <1>2, <2>1, <3>1, <3>2 DEF Consumed
  <2> QED  BY <1>2, <2>1, <2>2, <2>4, <2>5
<1>5. Tracks'
  BY <1>1, <1>4, Zenon DEF Tracks, Consumed
<1>6. WrapIsUndone' /\ RyzenIsTrue'
  BY <1>1 DEF WrapIsUndone, RyzenIsTrue
<1> QED  BY <1>3, <1>5, <1>6

(* The reading that a sample leaves.                                         *)
LEMMA ReadingTracks ==
    ASSUME MeterInv, previous' = Reading, UNCHANGED <<energy, used, now>>
    PROVE  /\ previous' \in Readings
           /\ Tracks'
<1>1. /\ Modulus \in Nat /\ Cap \in Nat /\ energy \in 0 .. Modulus - 1
      /\ used \in Nat /\ now \in Nat
  BY DEF MeterInv, MeterTypes, Parameters
<1>2. previous' \in Readings
  BY <1>1 DEF Reading, Readings
<1>3. previous'.energy = energy /\ previous'.at = now /\ previous'.used = used
  BY DEF Reading
<1>4. Cap * (now - now) = 0
  BY <1>1
<1> QED  BY <1>1, <1>2, <1>3, <1>4 DEF Tracks, Consumed

(* The power between two readings is true unless the counter went around.    *)
LEMMA PowerIsTrue ==
    ASSUME MeterInv, previous # NoValue
    PROVE  /\ Power \in Powers
           /\ Power.used < Modulus => Power.energy = Power.used
           /\ ~TooLate => Power.energy = Power.used
<1>1. /\ previous \in Readings
      /\ previous.energy \in 0 .. Modulus - 1
      /\ previous.at \in Nat /\ previous.used \in Nat
      /\ now \in Nat /\ used \in Nat /\ energy \in 0 .. Modulus - 1
      /\ Modulus \in Nat /\ Cap \in Nat /\ MAX_POWER_INTERVAL \in Nat
      /\ Cap * MAX_POWER_INTERVAL < Modulus
  BY DEF MeterInv, MeterTypes, Readings, Parameters
<1>2. /\ previous.at <= now /\ previous.used <= used
      /\ used - previous.used <= Cap * (now - previous.at)
      /\ used - previous.used < Modulus
          => Consumed(energy, previous.energy) = used - previous.used
  BY DEF MeterInv, Tracks
<1>3. /\ Power.energy = Consumed(energy, previous.energy)
      /\ Power.used = used - previous.used
      /\ Power.time = now - previous.at
  BY DEF Power, Elapsed
<1>4. Power \in Powers
  BY <1>1, <1>2 DEF Power, Powers, Elapsed, Consumed
<1>5. ASSUME ~TooLate PROVE Power.used < Modulus
  <2>1. now - previous.at \in Nat /\ now - previous.at <= MAX_POWER_INTERVAL
    BY <1>1, <1>2, <1>5 DEF TooLate, Elapsed
  <2>2. Cap * (now - previous.at) <= Cap * MAX_POWER_INTERVAL
    BY <1>1, <2>1
  <2>3. Cap * (now - previous.at) \in Int /\ Cap * MAX_POWER_INTERVAL \in Int
    BY <1>1, <2>1
  <2> QED  BY <1>1, <1>2, <1>3, <2>2, <2>3
<1> QED  BY <1>2, <1>3, <1>4, <1>5

LEMMA SampleKeeps ==
    ASSUME MeterInv, RaplSample \/ RyzenFails \/ \E changed \in BOOLEAN : RyzenSample(changed)
    PROVE  MeterInv'
<1>1. UNCHANGED <<meter, energy, used, now>>
  BY DEF RaplSample, RyzenFails, RyzenSample
<1>2. CASE RaplSample
  <2>1. previous' \in Readings /\ Tracks'
    BY <1>1, <1>2, ReadingTracks DEF RaplSample
  <2>2. \/ lastPower' = lastPower \/ lastPower' = NoValue
        \/ previous # NoValue /\ lastPower' = Power
    BY <1>2 DEF RaplSample, Judged
  <2>3. MeterTypes' /\ WrapIsUndone'
    BY <1>1, <2>1, <2>2, PowerIsTrue DEF MeterInv, MeterTypes, WrapIsUndone, Parameters
  <2>4. RyzenIsTrue'
    BY <1>1, <1>2 DEF RaplSample, RyzenIsTrue
  <2> QED  BY <2>1, <2>3, <2>4 DEF MeterInv
<1>3. CASE RyzenFails
  BY <1>1, <1>3 DEF RyzenFails, MeterInv, MeterTypes, Tracks, WrapIsUndone, RyzenIsTrue, Parameters
<1>4. ASSUME NEW changed \in BOOLEAN, RyzenSample(changed) PROVE MeterInv'
  <2>1. previous' \in Readings /\ Tracks'
    BY <1>1, <1>4, ReadingTracks DEF RyzenSample
  <2>2. \/ lastPower' = NoValue
        \/ previous # NoValue /\ ~TooLate /\ lastPower' = Power
    BY <1>4 DEF RyzenSample, Judged
  <2>3. \/ lastPower' = NoValue
        \/ lastPower' \in Powers /\ lastPower'.energy = lastPower'.used
    BY <2>2, PowerIsTrue
  <2> QED
    BY <1>1, <2>1, <2>3 DEF MeterInv, MeterTypes, WrapIsUndone, RyzenIsTrue, Parameters
<1> QED  BY <1>2, <1>3, <1>4

LEMMA MeterInductive == ASSUME Parameters PROVE MeterSpec => []MeterInv
<1>1. MeterInit => MeterInv
  BY MeterInitHolds
<1>2. MeterInv /\ [MeterNext]_meterVars => MeterInv'
  <2> SUFFICES ASSUME MeterInv, [MeterNext]_meterVars PROVE MeterInv'
    OBVIOUS
  <2>1. CASE Tick
    BY <2>1, TickKeeps
  <2>2. CASE RaplSample \/ RyzenFails \/ \E changed \in BOOLEAN : RyzenSample(changed)
    BY <2>2, SampleKeeps
  <2>3. CASE UNCHANGED meterVars
    BY <2>3 DEF meterVars, MeterInv, MeterTypes, Tracks, WrapIsUndone, RyzenIsTrue, Parameters, Consumed
  <2> QED  BY <2>1, <2>2, <2>3 DEF MeterNext
<1> QED  BY <1>1, <1>2, PTL DEF MeterSpec

(* A power of either meter is what the package used, for every range of the  *)
(* counter, as long as less than the range was used between two readings.    *)
THEOREM WrapUndone == ASSUME Parameters PROVE MeterSpec => []WrapIsUndone
<1>1. MeterInv => WrapIsUndone
  BY DEF MeterInv
<1> QED  BY <1>1, MeterInductive, PTL

(* The limit on the interval makes the Ryzen meter's power always true.      *)
THEOREM RyzenTrue == ASSUME Parameters PROVE MeterSpec => []RyzenIsTrue
<1>1. MeterInv => RyzenIsTrue
  BY DEF MeterInv
<1> QED  BY <1>1, MeterInductive, PTL
=============================================================================
