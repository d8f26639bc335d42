---------------------------- MODULE LinuxService ----------------------------
(***************************************************************************)
(* The root service of backend/linux_backend.py around its controller: the *)
(* socket server with its request slots, the settings that it remembers,   *)
(* asserts and saves, the maintenance thread and the process that is       *)
(* stopped, killed and started again.                                      *)
(*                                                                         *)
(* A setting of the EC stands for the GPU power offset, Dynamic Boost or   *)
(* the lightbar: applied in the lane of EC calls, asserted by maintenance. *)
(* "auto" stands for the Automatic end points, which are only kept.  What a*)
(* call does to the fans is in FanController, what it does to the EC byte  *)
(* by byte in LinuxFanService.  One step is one step of a thread between   *)
(* two locks or file operations; a file is a choice of all settings, Empty *)
(* or Torn.  The main thread saves the end points once, as it starts.      *)
(***************************************************************************)
EXTENDS Naturals, FiniteSets

CONSTANTS
    Peers,      \* connections, one after the other on each
    Main,       \* the main thread, in controller.start
    EcSettings,
    Values,
    Unset,      \* a setting that is not in the file, or its default
    Empty, Torn, None,
    MAX_CONCURRENT_REQUESTS,
    Users       \* who is there: peers, whether they make changes, and signals

Settings == {"auto"} \cup EcSettings
Choices  == [Settings -> Values \cup {Unset}]
Threads  == Peers \cup {Main}

ASSUME SettingAssumption == "auto" \notin EcSettings /\ Unset \notin Values
ASSUME FileAssumption    == {Empty, Torn, None} \cap Choices = {} /\ Empty # Torn
ASSUME UserAssumption    == Users \subseteq SUBSET (Peers \cup {"changes", "signals"})
ASSUME SlotAssumption    == MAX_CONCURRENT_REQUESTS \in Nat \ {0}
ASSUME ThreadAssumption  ==
    /\ Main \notin Peers /\ None \notin Threads
    /\ ({None} \cup Threads) \cap [setting : EcSettings, value : Values] = {}

VARIABLES
    uses,      \* who is there
    up,        \* the process: "no", "starting", "entering" Automatic mode,
               \* "serving" or "stopping"
    conn,      \* every connection and the thread that handles it, and the main one
    slots,     \* _request_slots
    memory,    \* _minimum_temp, _maximum_temp, _gpu_power_offset, ...
    desired,   \* what LinuxFanService asserts
    lane,      \* who runs an EC call, and what of a call that timed out
    file, tmp, \* settings.json and settings.tmp
    upkeep,    \* the maintenance thread
    wakeup, resync, handler, \* its two events, and the signal handler
    last,      \* ghost: the choices that were answered, or loaded
    excused    \* ghost: changes overlapped, timed out, or could not be saved,
               \* and things have not settled since

vars == <<uses, up, conn, slots, memory, desired, lane, file, tmp, upkeep,
          wakeup, resync, handler, last, excused>>

server  == <<uses, up, slots>>
chosen  == <<memory, desired, lane>>
disk    == <<file, tmp>>
signals == <<upkeep, wakeup, resync, handler>>

-----------------------------------------------------------------------------

NoConn == [pc |-> "free", setting |-> None, value |-> Unset, snapshot |-> None, fd |-> "none"]

Defaults == [s \in Settings |-> Unset]
Asserted(choice) == [s \in EcSettings |-> choice[s]]

\* load_settings: anything but a whole file gives the defaults.
load_settings == IF file \in Choices THEN file ELSE Defaults

Served  == {c \in Peers : conn[c].pc \notin {"free", "full", "refused"}}
Working == {c \in Threads : conn[c].pc \in
    {"captured", "driver", "remember", "snapshot", "open", "write", "replace"}}

\* Nothing is under way, and every place has the choices that were answered.
Settled ==
    /\ Working = {} /\ lane = None
    /\ load_settings = last /\ memory = last
    /\ desired = Asserted(last)

\* What is excused when the change of c begins: another one that is under way,
\* and what has not settled.
Begins(c) == excused' = (Working \ {c} # {} \/ (excused /\ ~Settled))

Init ==
    /\ uses \in Users
    /\ up = "no"
    /\ conn = [c \in Threads |-> NoConn]
    /\ slots = MAX_CONCURRENT_REQUESTS
    /\ memory = Defaults /\ desired = Asserted(Defaults)
    /\ lane = None
    /\ file \in {Defaults, Empty} /\ tmp = None
    /\ upkeep = "none" /\ wakeup = FALSE /\ resync = FALSE /\ handler = "none"
    /\ last = Defaults /\ excused = FALSE

Moves(c, pc) == conn' = [conn EXCEPT ![c].pc = pc]
Replies(c)   == conn' = [conn EXCEPT ![c] = [NoConn EXCEPT !.pc = "reply"]]

-----------------------------------------------------------------------------
(* PeerCredentialServer.                                                   *)

\* verify_request and process_request on the accept thread
Accept(c) ==
    /\ c \in uses /\ up \in {"starting", "entering", "serving"} /\ conn[c].pc = "free"
    /\ \/ Moves(c, "refused") /\ UNCHANGED slots
       \/ slots = 0 /\ Moves(c, "full") /\ UNCHANGED slots
       \/ slots > 0 /\ slots' = slots - 1 /\ Moves(c, "read")
       \/ slots > 0 /\ Moves(c, "refused") /\ UNCHANGED slots \* no thread starts
    /\ UNCHANGED <<uses, up, chosen, disk, signals, last, excused>>

\* The request: configure_auto, one of the setters, or a read
Read(c) ==
    /\ conn[c].pc = "read"
    /\ \/ \E s \in Settings, v \in Values :
              /\ "changes" \in uses
              /\ conn' = [conn EXCEPT ![c] = [@ EXCEPT !.pc = "call", !.setting = s, !.value = v]]
       \/ Replies(c)
    /\ UNCHANGED <<server, chosen, disk, signals, last, excused>>

\* A faulty variant of the next definition: only an answer frees the slot.
FinishOnlyAnswered(c) ==
    /\ conn[c].pc \in {"read", "reply"}
    /\ conn' = [conn EXCEPT ![c] = NoConn]
    /\ slots' = IF conn[c].pc = "reply" THEN slots + 1 ELSE slots
    /\ UNCHANGED <<uses, up, chosen, disk, signals, last, excused>>

\* The thread ends: after its answer, without one for a peer that stalls or is
\* gone, or that asks for what it may not.
Finish(c) ==
    /\ conn[c].pc \in {"read", "reply"}
    /\ conn' = [conn EXCEPT ![c] = NoConn]
    /\ slots' = slots + 1
    /\ UNCHANGED <<uses, up, chosen, disk, signals, last, excused>>

Leave(c) ==
    /\ conn[c].pc \in {"refused", "full"}
    /\ Moves(c, "free")
    /\ UNCHANGED <<server, chosen, disk, signals, last, excused>>

-----------------------------------------------------------------------------
(* A request that changes a setting.                                       *)

\* configure_auto changes the end points under the state lock: to those of a
\* request, or to those that the main thread captured.
ConfigureAuto(c) ==
    /\ conn[c].pc \in {"call", "captured"} /\ conn[c].setting = "auto"
    /\ memory' = [memory EXCEPT !["auto"] = conn[c].value]
    /\ Moves(c, "snapshot")
    /\ Begins(c)
    /\ UNCHANGED <<server, desired, lane, disk, signals, last>>

\* _call_service: the lane is free before the deadline, or busy.
Call(c) ==
    /\ conn[c].pc = "call" /\ conn[c].setting \in EcSettings
    /\ \/ /\ lane = None
          /\ lane' = c
          /\ Moves(c, "driver")
          /\ Begins(c)
       \/ /\ lane # None
          /\ Replies(c) /\ UNCHANGED <<lane, excused>>
    /\ UNCHANGED <<server, memory, desired, disk, signals, last>>

\* The operation of LinuxFanService: it remembers what it has written.
Applied(setting, value) == desired' = [desired EXCEPT ![setting] = value]

Return(c) ==
    /\ conn[c].pc = "driver" /\ lane = c
    /\ lane' = None
    /\ \/ Applied(conn[c].setting, conn[c].value) /\ Moves(c, "remember")
       \/ UNCHANGED desired /\ Replies(c)
    /\ UNCHANGED <<server, memory, disk, signals, last, excused>>

\* The caller is told that it failed; its operation goes on.
TimeOut(c) ==
    /\ conn[c].pc = "driver" /\ lane = c
    /\ lane' = [setting |-> conn[c].setting, value |-> conn[c].value]
    /\ Replies(c)
    /\ excused' = TRUE
    /\ UNCHANGED <<server, memory, desired, disk, signals, last>>

LateReturn ==
    /\ lane \in [setting : EcSettings, value : Values]
    /\ lane' = None
    /\ Applied(lane.setting, lane.value) \/ UNCHANGED desired
    /\ UNCHANGED <<server, conn, memory, disk, signals, last, excused>>

Remember(c) ==
    /\ conn[c].pc = "remember"
    /\ memory' = [memory EXCEPT ![conn[c].setting] = conn[c].value]
    /\ Moves(c, "snapshot")
    /\ UNCHANGED <<server, desired, lane, disk, signals, last, excused>>

\* _save_settings: a snapshot under the state lock, ...
Snapshot(c) ==
    /\ conn[c].pc = "snapshot"
    /\ conn' = [conn EXCEPT ![c] = [@ EXCEPT !.pc = "open", !.snapshot = memory]]
    /\ UNCHANGED <<server, chosen, disk, signals, last, excused>>

\* A faulty variant of the next definition: settings.json itself is written.
OpenInPlace(c) ==
    /\ conn[c].pc = "open"
    /\ file' = Empty
    /\ conn' = [conn EXCEPT ![c] = [@ EXCEPT !.pc = "write", !.fd = "file"]]
    /\ UNCHANGED <<server, chosen, tmp, signals, last, excused>>

\* ... the same temporary file for every save, ...
OpenFile(c) ==
    /\ conn[c].pc = "open"
    /\ tmp' = Empty
    /\ conn' = [conn EXCEPT ![c] = [@ EXCEPT !.pc = "write", !.fd = "tmp"]]
    /\ UNCHANGED <<server, chosen, file, signals, last, excused>>

\* ... which another save may have written, or made settings.json, meanwhile, ...
Written(old, snapshot) == IF old = Empty THEN {snapshot} ELSE {snapshot, Torn}

WriteText(c) ==
    /\ conn[c].pc = "write"
    /\ tmp'  \in IF conn[c].fd = "tmp"  THEN Written(tmp, conn[c].snapshot)  ELSE {tmp}
    /\ file' \in IF conn[c].fd = "file" THEN Written(file, conn[c].snapshot) ELSE {file}
    /\ conn' = [conn EXCEPT ![c] = [@ EXCEPT !.pc = "replace", !.snapshot = None, !.fd = "none"]]
    /\ UNCHANGED <<server, chosen, signals, last, excused>>

\* The main thread answers nobody.
Answer(c) == last' = IF c = Main THEN last ELSE [last EXCEPT ![conn[c].setting] = conn[c].value]

\* ... and the rename, for whoever still has the file open, too.
Replace(c) ==
    /\ conn[c].pc = "replace"
    /\ IF tmp = None THEN UNCHANGED disk ELSE file' = tmp /\ tmp' = None
    /\ conn' = [d \in Threads |->
           IF d = c THEN [NoConn EXCEPT !.pc = "reply"]
           ELSE IF tmp = None \/ conn[d].fd = "none" THEN conn[d]
           ELSE [conn[d] EXCEPT !.fd = IF @ = "tmp" THEN "file" ELSE "gone"]]
    /\ Answer(c)
    /\ UNCHANGED <<server, chosen, signals, excused>>

\* What cannot be saved is logged; the answer is the same.
SaveFails(c) ==
    /\ conn[c].pc \in {"open", "write", "replace"}
    /\ Replies(c)
    /\ Answer(c)
    /\ excused' = (excused \/ c # Main)
    /\ UNCHANGED <<server, chosen, disk, signals>>

-----------------------------------------------------------------------------
(* Maintenance, and the signal that asks for it after a resume.            *)

\* request_resync sets one event after the other.
SignalArrives ==
    /\ "signals" \in uses /\ up # "no" /\ handler = "none"
    /\ resync' = TRUE /\ handler' = "set"
    /\ UNCHANGED <<server, conn, chosen, disk, upkeep, wakeup, last, excused>>

SignalWakes ==
    /\ handler = "set"
    /\ wakeup' = TRUE /\ handler' = "none"
    /\ UNCHANGED <<server, conn, chosen, disk, upkeep, resync, last, excused>>

\* The wait ends, for the event or after MAINTENANCE_INTERVAL_SECONDS.
Wake ==
    /\ upkeep = "wait"
    /\ upkeep' = "clear"
    /\ UNCHANGED <<server, conn, chosen, disk, wakeup, resync, handler, last, excused>>

Clear ==
    /\ upkeep = "clear"
    /\ wakeup' = FALSE /\ upkeep' = "look"
    /\ UNCHANGED <<server, conn, chosen, disk, resync, handler, last, excused>>

Look ==
    /\ upkeep = "look"
    /\ resync' = FALSE /\ upkeep' = "maintain"
    /\ UNCHANGED <<server, conn, chosen, disk, wakeup, handler, last, excused>>

\* A faulty variant of the next definition: the event is cleared once more.
MaintainAndClear ==
    /\ upkeep = "maintain"
    /\ upkeep' = "wait" /\ wakeup' = FALSE
    /\ UNCHANGED <<server, conn, chosen, disk, resync, handler, last, excused>>

\* maintain of LinuxFanService has had the lane, or failed.
Maintain ==
    /\ upkeep = "maintain"
    /\ upkeep' = "wait"
    /\ UNCHANGED <<server, conn, chosen, disk, wakeup, resync, handler, last, excused>>

-----------------------------------------------------------------------------
(* The process.                                                            *)

\* run_linux_backend under the process lock: LinuxBackendController.__init__
\* asserts what was saved, and the server listens.
Start ==
    /\ up = "no" /\ up' = "starting"
    /\ memory' = load_settings /\ desired' = Asserted(load_settings)
    /\ last' = load_settings /\ excused' = FALSE
    /\ UNCHANGED <<uses, conn, slots, lane, disk, signals>>

\* controller.start: the threads; then the main thread, beside the requests that
\* are served already, captures the end points for set_mode, ...
StartThreads ==
    /\ up = "starting" /\ up' = "entering"
    /\ upkeep' = IF "signals" \in uses THEN "wait" ELSE "none"
    /\ conn' = [conn EXCEPT ![Main] =
                   [@ EXCEPT !.pc = "captured", !.setting = "auto", !.value = memory["auto"]]]
    /\ Begins(Main)
    /\ UNCHANGED <<uses, slots, chosen, disk, wakeup, resync, handler, last>>

\* ... which has configured and saved them.
Started ==
    /\ up = "entering" /\ conn[Main].pc = "reply"
    /\ up' = "serving"
    /\ conn' = [conn EXCEPT ![Main] = NoConn]
    /\ UNCHANGED <<uses, slots, chosen, disk, signals, last, excused>>

\* SIGTERM: begin_stop, and the server is closed; its threads go on.
Stop ==
    /\ up = "serving" /\ up' = "stopping"
    /\ UNCHANGED <<uses, conn, slots, chosen, disk, signals, last, excused>>

\* The process ends, after its final write or killed anywhere, and all threads
\* with it.
End ==
    /\ up # "no" /\ up' = "no"
    /\ conn' = [c \in Threads |-> NoConn]
    /\ slots' = MAX_CONCURRENT_REQUESTS
    /\ memory' = Defaults /\ desired' = Asserted(Defaults)
    /\ lane' = None
    /\ upkeep' = "none" /\ wakeup' = FALSE /\ resync' = FALSE /\ handler' = "none"
    /\ last' = Defaults /\ excused' = FALSE
    /\ UNCHANGED <<uses, disk>>

Request(c) ==
    \/ ConfigureAuto(c) \/ Call(c) \/ Return(c) \/ TimeOut(c) \/ Remember(c)
    \/ Snapshot(c) \/ OpenFile(c) \/ WriteText(c) \/ Replace(c) \/ SaveFails(c)

Upkeep == SignalArrives \/ SignalWakes \/ Wake \/ Clear \/ Look \/ Maintain

Process == Start \/ StartThreads \/ Started \/ Stop \/ End

Next ==
    \/ \E c \in Peers : Accept(c) \/ Read(c) \/ Finish(c) \/ Leave(c)
    \/ \E c \in Threads : Request(c)
    \/ LateReturn \/ Upkeep \/ Process

Spec == Init /\ [][Next]_vars

-----------------------------------------------------------------------------
(* Properties.                                                             *)

\* Whenever the process is killed, settings.json gives back every choice that
\* was answered, or one that is just being changed: a save is never half a save
\* and never loses another setting.  Between requests, what is remembered and
\* asserted is what was answered.  (_save_settings, set_gpu_power)
\* Excused from this are changes that overlap, whose snapshots and settings.tmp
\* mix, also with the start, which saves the end points it captured over those
\* answered meanwhile (:143-146); an EC call that timed out, for it may be done
\* all the same; and an answer whose save failed.  The excuse ends with a
\* restart, or with the next change that begins when file, memory and the
\* asserted settings all have what was answered.
SavedIsChosen ==
    up # "no" /\ ~excused =>
        /\ \A s \in Settings :
              load_settings[s] \in {last[s]} \cup {conn[c].value : c \in {d \in Working : conn[d].setting = s}}
        /\ Working = {} => memory = last /\ desired = Asserted(last)

\* The start of the service changes no choice.  (linux_backend.py:139-146)
StartKeepsChoices ==
    [][conn'[Main] # conn[Main] /\ up # "no" /\ up' # "no" => UNCHANGED memory]_vars

\* A peer that may ask is turned away as one too many only while as many others
\* are served: however requests end, their slots come back.  (process_request)
RefusedOnlyWhenFull ==
    [][\A c \in Peers : conn[c].pc = "free" /\ conn'[c].pc = "full"
           => Cardinality(Served) = MAX_CONCURRENT_REQUESTS]_vars

\* A resync that was asked for does not wait for the interval: while maintenance
\* sleeps, its event is set, or will be.  (request_resync, _maintenance_loop)
ResyncIsPrompt ==
    upkeep = "wait" /\ resync => wakeup \/ handler = "set"
=============================================================================
