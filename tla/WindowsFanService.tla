-------------------------- MODULE WindowsFanService --------------------------
(***************************************************************************)
(* ControlCenterService of backend/fan_control_service.py on the           *)
(* DirectEcClient of backend/direct_fan_control.py and the broker check of *)
(* backend/windows_broker.py.  One request at a time (_operation_lock)     *)
(* picks its client by asking whether the OEM broker listens.  The direct  *)
(* client writes the EC byte by byte and asks again before every byte: the *)
(* OEM service may start between any answer and the byte that follows it.  *)
(*                                                                         *)
(* A cell is what the code writes for one purpose: a mode byte, a group of *)
(* cTGP bits, the fan tables, which take two writes and are torn between   *)
(* them.  Reading a group of cells is one step.                            *)
(* What the OEM client publishes is carried out by the OEM service: here   *)
(* it only succeeds or fails.  Left out are the NVIDIA limits, which only  *)
(* refuse, reads for display, the validation of hashes and of bytes that   *)
(* nobody changes, and Control Center 4.9's or-ed mode bytes.              *)
(***************************************************************************)
EXTENDS Naturals, Sequences

CONSTANTS
    AutoTarget, \* the duties of both fans that Automatic asks for again and again
    Targets,    \* all pairs of duties that are asked for
    Offsets,    \* the GPU power offsets that are asked for
    Lights,     \* the lightbar choices that are asked for
    None,
    Users,      \* the parts that are used, one of these sets is picked
    MaxUpsets,  \* bound: failed accesses, lost writes, drifts and kills
    MaxStarts   \* bound: starts of the OEM service by others

Parts == {"fans", "gpu", "lightbar"}

ASSUME TargetAssumption == AutoTarget \in Targets /\ None \notin Targets
ASSUME TableAssumption  == Targets \cap {"oem", "zero", "torn"} = {}
ASSUME GpuAssumption    == Offsets \subseteq Nat /\ 0 \in Offsets
ASSUME LightAssumption  == None \notin Lights /\ "rainbow" \in Lights
ASSUME UserAssumption   == Users \subseteq SUBSET Parts
ASSUME BoundAssumption  == MaxUpsets \in Nat /\ MaxStarts \in Nat

VARIABLES
    uses,     \* the parts that are used
    ec,       \* the cells of the EC
    broker,   \* the OEM broker listens
    cleanup,  \* GCUService was stopped and has yet to clear the fan tables
    client,   \* _method, "none" without a client
    verified, \* DirectEcClient._verified: the target whose table was verified
    cached,   \* an OEM curve is in last-oem-curve.json
    desired,  \* _desired_gpu_power and _desired_lightbar
    saved,    \* the same in gpu-power.json and lightbar.json
    run,      \* the request under _operation_lock
    late,     \* bytes written since the broker came up
    upsets, starts

vars == <<uses, ec, broker, cleanup, client, verified, cached, desired, saved,
          run, late, upsets, starts>>

-----------------------------------------------------------------------------
(* The cells, and what is wanted in them.                                  *)

ModeCells  == {"presence", "control", "mirror"}
FanCells   == ModeCells \cup {"tables"}
GpuCells   == {"ctgp_offset", "ctgp_limits", "ctgp_control"}
LightCells == {"color", "rainbow"}
CellsOf    == [fans |-> FanCells, gpu |-> GpuCells, lightbar |-> LightCells]
Cells      == UNION {CellsOf[p] : p \in Parts}

\* What firmware and OEM service put there.
PowerOn ==
    [presence |-> FALSE, control |-> "oem", mirror |-> "oem", tables |-> "oem",
     ctgp_offset |-> 0, ctgp_limits |-> FALSE, ctgp_control |-> {},
     color |-> "off", rainbow |-> TRUE]

Read(D) == [c \in D |-> ec[c]]

_table_is_empty == ec.tables = "zero"

\* Cleared tables and no copy of an OEM curve: there is no direct client, not
\* for cTGP and lightbar either (direct_fan_control.py:375-379).
Refused == _table_is_empty /\ ~cached

\* set_curve and set_boost: the mode bytes of either
ModeBytes(control) ==
    [presence |-> TRUE, control |-> control, mirror |-> control]

\* fixed_curve and _write_curve: one duty for each fan in all zones
_write_curve(target) ==
    [c \in FanCells |-> IF c = "tables" THEN target ELSE ModeBytes("user")[c]]

read_ctgp_state ==
    [offset |-> IF "offset" \in ec.ctgp_control THEN ec.ctgp_offset ELSE 0,
     dynamic |-> {"offset", "dynamic"} \subseteq ec.ctgp_control]

write_ctgp(choice) ==
    [ctgp_offset |-> choice.offset, ctgp_limits |-> TRUE,
     ctgp_control |-> {"offset"} \cup (IF choice.dynamic THEN {"dynamic"} ELSE {})]

write_lightbar(light) ==
    IF light = "rainbow" THEN [rainbow |-> TRUE] ELSE [color |-> light, rainbow |-> FALSE]

WRITE_ORDER == <<"presence", "control", "mirror", "tables", "tables",
                 "ctgp_offset", "ctgp_limits", "ctgp_control", "color", "rainbow">>

\* A faulty variant of the next definition: the mode bytes stay.
RestoreTablesOnly == <<"tables", "tables", "ctgp_offset", "ctgp_limits", "ctgp_control",
                       "color", "rainbow">>

RESTORE_ORDER == <<"tables", "tables", "control", "mirror", "presence",
                   "ctgp_offset", "ctgp_limits", "ctgp_control", "color", "rainbow">>

\* The writes of these cells: their places in the order
InOrder(order, D) == {i \in DOMAIN order : order[i] \in D}

-----------------------------------------------------------------------------
(* A request: where it is, what it wants in which cells, what it found      *)
(* there, and whether anybody else, or a failed access, came between.       *)

NoRun ==
    [pc |-> "idle", op |-> "none", arg |-> None, want |-> <<>>, previous |-> <<>>,
     todo |-> {}, written |-> {}, undoing |-> FALSE, again |-> FALSE,
     clean |-> TRUE, faults |-> 0]

Idle == run.pc = "idle"

\* The write that comes next, and the cell that it goes to
Upcoming == {i \in run.todo : \A j \in run.todo : i \leq j}
Cell(i) == IF run.undoing THEN RESTORE_ORDER[i] ELSE WRITE_ORDER[i]

GpuOps   == {"set_offset", "set_dynamic", "maintain_gpu"}
LightOps == {"set_lightbar", "maintain_lightbar"}
CurveOps == {"apply", "auto"}

Init ==
    /\ uses \in Users
    /\ ec = PowerOn
    /\ broker \in BOOLEAN /\ cleanup = FALSE
    /\ client = "none" /\ verified = None
    /\ cached \in BOOLEAN
    /\ desired = [gpu |-> None, lightbar |-> None] /\ saved = desired
    /\ run = NoRun
    /\ late = 0 /\ upsets = 0 /\ starts = 0

Begin(op, arg) ==
    /\ Idle
    /\ run' = [NoRun EXCEPT !.pc = "connect", !.op = op, !.arg = arg]
    /\ UNCHANGED <<uses, ec, broker, cleanup, client, verified, cached, desired,
                   saved, late, upsets, starts>>

\* apply_manual with a backup for Manual, without one for Automatic, set_boost,
\* load_state and read_telemetry
FanRequest ==
    /\ "fans" \in uses
    /\ \/ \E target \in Targets : Begin("apply", target) \/ Begin("auto", target)
       \/ \E on \in BOOLEAN : Begin("boost", on)
       \/ Begin("load", None)

\* With the broker there, they are refused or left for later at once.
GpuRequest ==
    /\ "gpu" \in uses /\ ~broker
    /\ \/ \E watts \in Offsets : Begin("set_offset", watts)
       \/ \E on \in BOOLEAN : Begin("set_dynamic", on)

LightRequest ==
    /\ "lightbar" \in uses /\ ~broker
    /\ \E light \in Lights : Begin("set_lightbar", light)

maintain_gpu_power ==
    desired.gpu # None /\ ~broker /\ Begin("maintain_gpu", desired.gpu)

maintain_lightbar ==
    desired.lightbar # None /\ ~broker /\ Begin("maintain_lightbar", desired.lightbar)

-----------------------------------------------------------------------------
(* The steps of a request.                                                 *)

Goto(pc) == run' = [run EXCEPT !.pc = pc]

\* Only requests that know what was there put it back: a curve everything,
\* cTGP and lightbar what they wrote.
RunFailed ==
    IF run.undoing \/ run.op = "boost" \/ run.pc \notin {"check", "put", "readback"}
    THEN [run EXCEPT !.pc = "failed"]
    ELSE [run EXCEPT !.pc = "check", !.undoing = TRUE,
             !.todo = InOrder(RESTORE_ORDER,
                              IF run.op \in CurveOps THEN DOMAIN run.want ELSE run.written)]

Failing == run' = RunFailed

\* _connected_client, and where its operation begins
Connect ==
    /\ run.pc = "connect"
    /\ LET method == IF broker THEN "oem_mqtt" ELSE "direct_ec" IN
       \/ \* a new client finds no table and no copy of one, or no broker
          /\ client # method
          /\ broker \/ Refused
          /\ client' = "none" /\ verified' = None
          /\ Failing
       \/ /\ client = method \/ broker \/ ~Refused
          /\ client' = method
          /\ verified' = IF client = method THEN verified ELSE None
          /\ \/ run.op = "load" /\ Goto("read")
             \/ /\ run.op # "load" /\ broker
                /\ IF run.op \in GpuOps \cup LightOps THEN Failing ELSE Goto("publish")
             \/ /\ run.op # "load" /\ ~broker
                /\ Goto(CASE run.op = "auto" -> "short"
                          [] run.op = "apply" -> "curve"
                          [] run.op \in GpuOps -> "state"
                          [] OTHER -> "plan")
    /\ UNCHANGED <<uses, ec, broker, cleanup, cached, desired, saved, late, upsets, starts>>

Unwritten == UNCHANGED <<uses, ec, broker, cleanup, client, late, starts>>

\* load_state and read_telemetry; the OEM curve is kept for later
LoadState ==
    /\ run.pc = "read"
    /\ \/ /\ client = "direct_ec" => ~Refused
          /\ cached' = (cached \/ client = "oem_mqtt")
          /\ Goto("done")
       \/ /\ client = "oem_mqtt" \/ Refused
          /\ Failing /\ UNCHANGED cached
    /\ Unwritten /\ UNCHANGED <<verified, desired, saved, upsets>>

\* apply_manual and set_boost through the OEM service
Publish ==
    /\ run.pc = "publish"
    /\ \/ Goto("done") /\ cached' = (cached \/ run.op \in CurveOps)
       \/ Failing /\ cached' \in {cached, TRUE}
    /\ Unwritten /\ UNCHANGED <<verified, desired, saved, upsets>>

\* Faulty variants of the next definition: the modes, or the table, are taken
\* for granted.
ModesNotCompared(target) == verified = target /\ ec.tables = target

NothingCompared(target) == verified = target

\* The table was verified with this target, nothing was written since, and the
\* duties and the mode bytes are still there.
uniform_duty_verified(target) ==
    /\ verified = target
    /\ Read(FanCells) = _write_curve(target)

Short ==
    /\ run.pc = "short"
    /\ IF uniform_duty_verified(run.arg)
       THEN Goto("done") /\ UNCHANGED verified
       ELSE /\ run' = [run EXCEPT !.op = "apply", !.pc = "curve"]
            /\ verified' = IF verified = run.arg THEN None ELSE verified
    /\ Unwritten /\ UNCHANGED <<cached, desired, saved, upsets>>

\* status, curve, save_backup and fixed_curve
Curve ==
    /\ run.pc = "curve"
    /\ IF Refused THEN Failing
       ELSE run' = [run EXCEPT !.pc = "plan", !.previous = Read({"tables"})]
    /\ Unwritten /\ UNCHANGED <<verified, cached, desired, saved, upsets>>

\* gpu_power_state, and what of it the request keeps
State ==
    /\ run.pc = "state"
    /\ LET state == read_ctgp_state
           asked == CASE run.op = "set_offset"  -> [state EXCEPT !.offset = run.arg]
                      [] run.op = "set_dynamic" -> [state EXCEPT !.dynamic = run.arg]
                      [] OTHER -> run.arg IN
       run' = [run EXCEPT !.arg = asked,
                  !.pc = IF run.op = "maintain_gpu" /\ Read(GpuCells) = write_ctgp(asked)
                         THEN "done" ELSE "plan"]
    /\ Unwritten /\ UNCHANGED <<verified, cached, desired, saved, upsets>>

\* What the request wants, having found "previous"; only the cells of "todo"
\* are written.
Planned(want, previous, todo) ==
    run' = [run EXCEPT !.want = want, !.previous = previous,
                       !.todo = InOrder(WRITE_ORDER, todo), !.pc = "check"]

Differing(want) == {c \in DOMAIN want : ec[c] # want[c]}

\* _write_curve: the table that curve() read counts for a second.
PlanCurve ==
    \E tables \in {run.previous.tables, ec.tables} :
        LET want == _write_curve(run.arg)
            previous == [Read(FanCells) EXCEPT !.tables = tables] IN
        IF previous = want
        THEN Goto("done") /\ verified' = run.arg
        ELSE Planned(want, previous, FanCells) /\ UNCHANGED verified

PlanBoost ==
    LET want == ModeBytes(IF run.arg THEN "boost" ELSE "user") IN
    /\ IF Differing(want) = {} THEN Goto("done")
       ELSE Planned(want, Read(ModeCells), ModeCells)
    /\ UNCHANGED verified

PlanGpu ==
    LET want == write_ctgp(run.arg) IN
    Planned(want, Read(GpuCells), Differing(want)) /\ UNCHANGED verified

\* force: a choice of the user, and one a while after the last one
PlanLight ==
    LET want == write_lightbar(run.arg) IN
    /\ \/ Planned(want, Read(LightCells), DOMAIN want)
       \/ run.op # "set_lightbar" /\ Planned(want, Read(LightCells), Differing(want))
    /\ UNCHANGED verified

Plan ==
    /\ run.pc = "plan"
    /\ IF broker THEN Failing /\ UNCHANGED verified
       ELSE CASE run.op \in CurveOps -> PlanCurve
              [] run.op \in GpuOps   -> PlanGpu
              [] run.op \in LightOps -> PlanLight
              [] OTHER -> PlanBoost
    /\ Unwritten /\ UNCHANGED <<cached, desired, saved, upsets>>

\* A faulty variant of the next definition: the broker was asked in the plan.
CheckNothing ==
    /\ run.pc = "check"
    /\ Goto(IF run.todo # {} THEN "put" ELSE IF run.undoing THEN "failed" ELSE "readback")
    /\ Unwritten /\ UNCHANGED <<verified, cached, desired, saved, upsets>>

\* _broker_available before every byte, of the rollback too
Check ==
    /\ run.pc = "check"
    /\ IF run.todo = {} THEN Goto(IF run.undoing THEN "failed" ELSE "readback")
       ELSE IF broker THEN Failing
       ELSE \E i \in Upcoming :
               run' = [run EXCEPT !.pc = "put", !.written = @ \cup {Cell(i)}]
    /\ Unwritten /\ UNCHANGED <<verified, cached, desired, saved, upsets>>

Upset == upsets < MaxUpsets /\ upsets' = upsets + 1

Faulted(r) == [r EXCEPT !.faults = @ + 1]

\* One byte, or one that the EC drops
Put ==
    /\ run.pc = "put"
    /\ \E i \in Upcoming :
          LET rest  == run.todo \ {i}
              value == IF \E j \in rest : Cell(j) = Cell(i) THEN "torn"
                       ELSE IF run.undoing THEN run.previous[Cell(i)] ELSE run.want[Cell(i)]
              next  == [run EXCEPT !.todo = rest, !.pc = "check"] IN
          \/ /\ ec' = [ec EXCEPT ![Cell(i)] = value]
             /\ run' = next /\ UNCHANGED upsets
          \/ /\ run' = Faulted(next) /\ Upset /\ UNCHANGED ec
    /\ verified' = None
    /\ late' = IF broker /\ late < 2 THEN late + 1 ELSE late
    /\ UNCHANGED <<uses, broker, cleanup, client, cached, desired, saved, starts>>

\* set_boost reads two of the four mode bytes.
Readback ==
    /\ run.pc = "readback"
    /\ LET shown == IF run.op = "boost" THEN {"control", "mirror"} ELSE DOMAIN run.want IN
       IF \E c \in shown : ec[c] # run.want[c]
       THEN Failing /\ UNCHANGED verified
       ELSE /\ Goto(IF run.op \in {"set_offset", "set_dynamic", "set_lightbar"}
                    THEN "save" ELSE "done")
            /\ verified' = IF run.op \in CurveOps THEN run.arg ELSE verified
    /\ Unwritten /\ UNCHANGED <<cached, desired, saved, upsets>>

\* _save_gpu_power and the end of set_lightbar: what is applied is remembered,
\* even when it cannot be saved.
Save ==
    /\ run.pc = "save"
    /\ LET chosen(choices) == IF run.op \in GpuOps THEN [choices EXCEPT !.gpu = run.arg]
                              ELSE [choices EXCEPT !.lightbar = run.arg] IN
       /\ desired' = chosen(desired)
       /\ \/ saved' = chosen(saved) /\ Goto("done") /\ UNCHANGED upsets
          \/ UNCHANGED saved /\ run' = NoRun /\ Upset
    /\ Unwritten /\ UNCHANGED <<verified, cached>>

Done ==
    /\ run.pc = "done"
    /\ run' = NoRun
    /\ Unwritten /\ UNCHANGED <<verified, cached, desired, saved, upsets>>

\* _execute drops the client; a read is tried once more, and a second failure
\* keeps it.
Failed ==
    /\ run.pc = "failed"
    /\ run' = IF run.op = "load" /\ ~run.again
              THEN [run EXCEPT !.pc = "connect", !.again = TRUE] ELSE NoRun
    /\ IF run.again THEN UNCHANGED <<client, verified>>
       ELSE client' = "none" /\ verified' = None
    /\ UNCHANGED <<uses, ec, broker, cleanup, cached, desired, saved, late, upsets, starts>>

\* An access, the question for the broker, the backup or a connection fails.
Raises ==
    /\ run.pc \in {"connect", "short", "curve", "state", "plan", "check", "put", "readback"}
    /\ Upset
    /\ run' = Faulted(RunFailed)
    /\ verified' = IF run.pc = "put" THEN None ELSE verified
    /\ Unwritten /\ UNCHANGED <<cached, desired, saved>>

-----------------------------------------------------------------------------
(* The OEM service, the firmware, and the end of the process.              *)

Disturb == run' = IF Idle THEN run ELSE [run EXCEPT !.clean = FALSE]

Cleared == [ec EXCEPT !.tables = "zero"]

\* set_oem_service_running: it may fail or time out, and else ends with the
\* broker as asked, and the tables cleared behind a stopped one.
set_oem_service_running(enabled) ==
    /\ Idle /\ "fans" \in uses
    /\ client' = "none" /\ verified' = None
    /\ \/ UNCHANGED <<broker, late, ec, cleanup>>
       \/ /\ enabled /\ broker' = TRUE
          /\ late' = IF broker THEN late ELSE 0
          /\ UNCHANGED <<ec, cleanup>>
       \/ /\ ~enabled /\ broker' = FALSE
          /\ ec' = IF broker \/ cleanup THEN Cleared ELSE ec
          /\ cleanup' = FALSE /\ late' = 0
    /\ UNCHANGED <<uses, cached, desired, saved, run, upsets, starts>>

\* Somebody else starts or stops the OEM service.
BrokerStarts ==
    /\ ~broker /\ starts < MaxStarts
    /\ broker' = TRUE /\ late' = 0 /\ starts' = starts + 1
    /\ Disturb
    /\ UNCHANGED <<uses, ec, cleanup, client, verified, cached, desired, saved, upsets>>

BrokerStops ==
    /\ broker
    /\ broker' = FALSE /\ cleanup' = TRUE /\ late' = 0
    /\ Disturb
    /\ UNCHANGED <<uses, ec, client, verified, cached, desired, saved, upsets, starts>>

\* GCUService clears the EC tables shortly after it was stopped.
Cleanup ==
    /\ cleanup
    /\ cleanup' = FALSE
    /\ ec' = Cleared
    /\ Disturb
    /\ UNCHANGED <<uses, broker, client, verified, cached, desired, saved, late, upsets, starts>>

\* The firmware, or the OEM service, puts a cell of its own.
Drift ==
    /\ \E p \in uses : \E c \in CellsOf[p] :
          ec[c] # PowerOn[c] /\ ec' = [ec EXCEPT ![c] = PowerOn[c]]
    /\ Upset /\ Disturb
    /\ UNCHANGED <<uses, broker, cleanup, client, verified, cached, desired, saved, late, starts>>

\* FULL_TABLE_CHECK_SECONDS are over.
Expire ==
    /\ verified # None /\ run.pc \in {"idle", "short"}
    /\ verified' = None
    /\ Unwritten /\ UNCHANGED <<cached, desired, saved, run, upsets>>

\* The process ends anywhere and is started again.
Restart ==
    /\ Upset
    /\ run' = NoRun /\ client' = "none" /\ verified' = None
    /\ desired' = saved
    /\ UNCHANGED <<uses, ec, broker, cleanup, cached, saved, late, starts>>

Step ==
    \/ Connect \/ LoadState \/ Publish \/ Short \/ Curve \/ State \/ Plan
    \/ Check \/ Put \/ Readback \/ Save \/ Done \/ Failed

Request == FanRequest \/ GpuRequest \/ LightRequest

Service == \E enabled \in BOOLEAN : set_oem_service_running(enabled)

Maintain == maintain_gpu_power \/ maintain_lightbar

Environment ==
    Raises \/ BrokerStarts \/ BrokerStops \/ Cleanup \/ Drift \/ Expire \/ Restart

Next == Step \/ Request \/ Service \/ Maintain \/ Environment

Spec == Init /\ [][Next]_vars

-----------------------------------------------------------------------------
(* Properties.                                                             *)

Choices == [gpu : {None} \cup [offset : Offsets, dynamic : BOOLEAN],
            lightbar : {None} \cup Lights]

\* Every variable has its type; nothing is written without a direct client.
TypeOK ==
    /\ DOMAIN ec = Cells
    /\ broker \in BOOLEAN /\ cleanup \in BOOLEAN /\ cached \in BOOLEAN
    /\ client \in {"none", "oem_mqtt", "direct_ec"}
    /\ verified \in Targets \cup {None}
    /\ desired \in Choices /\ saved \in Choices
    /\ late \in 0..2 /\ upsets \in 0..MaxUpsets /\ starts \in 0..MaxStarts
    /\ run.pc \in {"check", "put", "readback", "save"} => client = "direct_ec"

\* Between the answer that no broker listens and the byte that follows it the
\* OEM service may start, once; from then on nothing more is written, no
\* rollback either (safety.md:67, direct_fan_control.py:330).
OneByteLate == late \leq 1

\* What a request has just found or written is in the EC when it is answered,
\* provided nobody else wrote meanwhile: on the short way of an unchanged
\* target, with a table read a second ago, or with bytes that the EC dropped
\* (direct_fan_control.py:634-737).
Held ==
    CASE run.op \in CurveOps -> Read(FanCells) = _write_curve(run.arg)
      [] run.op = "boost" -> ec.control = IF run.arg THEN "boost" ELSE "user"
      [] run.op \in GpuOps -> Read(GpuCells) = write_ctgp(run.arg)
      [] run.op \in LightOps -> Differing(write_lightbar(run.arg)) = {}
      [] OTHER -> TRUE

AnswerIsTrue ==
    run.pc = "done" /\ run.clean /\ client = "direct_ec" => Held

\* A request that fails for one reason leaves the EC as it was, Boost excepted,
\* unless the OEM service or the firmware came between
\* (direct_fan_control.py:570-576, 613-623, 727-735).
FailureIsUndone ==
    run.pc = "failed" /\ run.clean /\ run.faults \leq 1 /\ run.op # "boost"
        => Read(DOMAIN run.previous) = run.previous

\* The choice of one half of the GPU's power leaves the other as it was chosen
\* (windows.md:68: the choice is restored after drift).
ChoiceIsKept ==
    [][Save /\ run.op = "set_dynamic" /\ desired.gpu # None
         => desired'.gpu.offset = desired.gpu.offset]_vars

-----------------------------------------------------------------------------
(* Liveness.                                                               *)

\* The request under the lock goes on, GCUService clears the tables when it
\* does; Automatic and the maintenance get the lock in their turn.
Fairness ==
    /\ WF_vars(Step) /\ WF_vars(Cleanup)
    /\ SF_vars("fans" \in uses /\ Begin("auto", AutoTarget))
    /\ SF_vars(maintain_gpu_power)
    /\ SF_vars(maintain_lightbar)

FairSpec == Spec /\ Fairness

\* Nobody asks for anything else.
Steady ==
    \/ run.op \in {"none", "maintain_gpu", "maintain_lightbar"}
    \/ run.op \in CurveOps /\ run.arg = AutoTarget

InPlace ==
    /\ "fans" \in uses => Read(FanCells) = _write_curve(AutoTarget)
    /\ desired.gpu # None => Read(GpuCells) = write_ctgp(desired.gpu)
    /\ desired.lightbar # None => Differing(write_lightbar(desired.lightbar)) = {}

\* Left alone, the service puts everything that is chosen back into the EC,
\* whatever the firmware, the OEM service, failures and restarts left there,
\* unless the OEM service runs, or cleared the tables for good
\* (windows.md:68, DESIGN.md:256).
DriftIsRepaired == <>[]Steady => []<>(broker \/ Refused \/ InPlace)
=============================================================================
