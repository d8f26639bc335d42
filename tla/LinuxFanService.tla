--------------------------- MODULE LinuxFanService ---------------------------
(***************************************************************************)
(* LinuxFanService of backend/linux_fan_service.py on the LinuxEcClient of *)
(* backend/linux_ec.py: one EC transaction at a time (_operation_lock)     *)
(* that writes byte by byte, verifies and rolls back, the choices that the *)
(* service remembers, and the maintenance that puts them back after the    *)
(* firmware changed the EC.                                                *)
(*                                                                         *)
(* A cell is what the code writes for one purpose: the 96 bytes of the fan *)
(* tables, or the bits of one control byte that it changes.  Only the      *)
(* tables can be torn.  Reading, in one step, can fail and changes         *)
(* nothing; so can connecting and the backup.  Left out are the GPU limits *)
(* of nvidia-smi, the reads for display, the two cTGP bytes that only ever *)
(* get one value, and the ctgp_offset file of a kernel driver, which is    *)
(* written in place of the bytes where such a driver is loaded.            *)
(***************************************************************************)
EXTENDS Naturals, Sequences

CONSTANTS
    Duties,    \* the fan duties that are asked for, both fans together
    Full,      \* 100 and 100 percent
    Watts,     \* the GPU power offsets that are asked for
    MaxOffset, \* MAX_CTGP_OFFSET_WATTS
    Colors,    \* the lightbar colors that are asked for
    None,      \* "never chosen"
    Users,     \* the settings that are touched, one of these sets is picked
    MaxUpsets  \* bound: failed accesses, lost writes, drifts and kills

Settings == {"fans", "offset", "dynamic", "lightbar"}
Lights == Colors \cup {"off", "rainbow"}

ASSUME DutiesAssumption == Full \in Duties /\ "firmware" \notin Duties /\ "torn" \notin Duties
ASSUME WattsAssumption  == Watts \subseteq Nat /\ MaxOffset \in Nat
ASSUME UsersAssumption  == Users \subseteq SUBSET Settings
ASSUME BoundAssumption  == MaxUpsets \in Nat
ASSUME NoneAssumption   == None \notin Duties \cup Nat \cup BOOLEAN \cup Lights

VARIABLES
    uses,     \* the settings that are touched
    ec,       \* the cells of the EC
    chosen,   \* _desired_duties, _desired_boost, _desired_gpu_offset, ...
    job,      \* the transaction under _operation_lock
    conflict, \* tccd runs
    shown,    \* the settings that a transaction showed and nothing disturbed
    upsets

vars == <<uses, ec, chosen, job, conflict, shown, upsets>>

-----------------------------------------------------------------------------
(* The cells.                                                              *)

CellsOf ==
    [fans     |-> {"tables", "manual_enable", "fan_mode", "tables_enable"},
     offset   |-> {"ctgp_offset", "ctgp_control"},
     dynamic  |-> {"ctgp_control"},
     lightbar |-> {"color", "rainbow"}]

\* The cell that every transaction for the setting reads back.
KeyOf == [fans |-> "fan_mode", offset |-> "ctgp_offset",
          dynamic |-> "ctgp_control", lightbar |-> "rainbow"]

Cells == UNION {CellsOf[s] : s \in Settings}

\* Settings that a change of the cells D disturbs, and that its readback shows.
Disturbed(D) == {s \in Settings : CellsOf[s] \cap D # {}}
ShownBy(D)   == {s \in Settings : KeyOf[s] \in D}

\* A faulty variant of the next definition: the tables come last.
TablesLast == <<"manual_enable", "fan_mode", "tables_enable", "tables">>

WRITE_ORDER == <<"tables", "manual_enable", "fan_mode", "tables_enable">>
RESTORE_ORDER == <<"tables", "fan_mode", "tables_enable", "manual_enable">>
CTGP_ADDRESSES == <<"ctgp_offset", "ctgp_control">>
LIGHTBAR_ADDRESSES == <<"color", "rainbow">>

CtgpBits == {"general", "dynamic", "offset"}

\* What the firmware puts there at power-on and when it takes over.
PowerOn ==
    [tables |-> "firmware", manual_enable |-> FALSE, fan_mode |-> "normal",
     tables_enable |-> FALSE, ctgp_offset |-> 0, ctgp_control |-> {},
     color |-> "off", rainbow |-> TRUE]

dynamic_boost_enabled == {"general", "dynamic"} \subseteq ec.ctgp_control

-----------------------------------------------------------------------------
(* What an operation wants in which cells, and in which order.             *)

Part(desired, order, restore, force) ==
    [desired |-> desired, order |-> order, restore |-> restore, force |-> force]

Nothing == Part(<<>>, <<>>, <<>>, FALSE)

\* _desired_state, with the tables or without
DesiredState(D, duty, mode) ==
    [c \in D |-> CASE c = "tables" -> duty [] c = "fan_mode" -> mode [] OTHER -> TRUE]

apply_duties(duty) ==
    Part(DesiredState(CellsOf.fans, duty, "user_high"), WRITE_ORDER, RESTORE_ORDER, FALSE)

set_boost ==
    Part(DesiredState(CellsOf.fans \ {"tables"}, None, "boost"),
         WRITE_ORDER, RESTORE_ORDER, FALSE)

Ctgp(desired) == Part(desired, CTGP_ADDRESSES, CTGP_ADDRESSES, FALSE)

\* A faulty variant of the next definition: Dynamic Boost goes on with it.
OffsetTurnsDynamicOn(watts, dynamic) ==
    Ctgp([ctgp_offset |-> watts,
          ctgp_control |-> ec.ctgp_control \cup {"general", "offset", "dynamic"}])

write_ctgp_offset(watts, dynamic) ==
    LET on == ec.ctgp_control \cup {"general", "offset", "dynamic"} IN
    Ctgp([ctgp_offset |-> watts,
          ctgp_control |-> IF dynamic = FALSE THEN on \ {"dynamic"} ELSE on])

write_dynamic_boost(enabled) ==
    LET off == ec.ctgp_control \ {"dynamic"} IN
    Ctgp([ctgp_control |->
            IF enabled THEN off \cup {"general", "dynamic"}
            ELSE IF "offset" \in off THEN off ELSE off \ {"general"}])

\* "off" is a color of its own, without the animation.
write_lightbar(light, force) ==
    Part(IF light = "rainbow" THEN [rainbow |-> TRUE]
         ELSE [color |-> light, rainbow |-> FALSE],
         LIGHTBAR_ADDRESSES, LIGHTBAR_ADDRESSES, force)

-----------------------------------------------------------------------------
NoJob == [phase |-> "idle", part |-> Nothing, previous |-> <<>>, todo |-> {},
          written |-> {}, choice |-> None, stage |-> 0, since |-> 0]

Idle == job.phase = "idle"

\* The access that comes next, by its place in the order, and its cell
Upcoming == {i \in job.todo : \A j \in job.todo : i \leq j}
Cell(i) == IF job.phase = "undo" THEN job.part.restore[i] ELSE job.part.order[i]

\* The choices settings.json can hold; every start begins without fan duties.
Saved ==
    [duties : {None}, boost : {FALSE},
     offset : {None} \cup {w \in Watts : "offset" \in uses /\ w \leq MaxOffset},
     dynamic : {None} \cup {on \in BOOLEAN : "dynamic" \in uses},
     lightbar : {None} \cup {light \in Lights : "lightbar" \in uses}]

Init ==
    /\ uses \in Users
    /\ ec = PowerOn
    /\ chosen \in Saved
    /\ job = NoJob
    /\ conflict = FALSE
    /\ shown = {}
    /\ upsets = 0

Stages == <<"fans", "offset", "dynamic", "lightbar">>

AfterStage(n) ==
    IF n = Len(Stages) THEN NoJob ELSE [NoJob EXCEPT !.phase = "maintain", !.stage = n + 1]

Upset == upsets < MaxUpsets /\ upsets' = upsets + 1

\* The operation ends, or maintain goes on with its next stage.
PartDone(part, choice, stage, since) ==
    /\ IF stage = 0
       THEN job' = NoJob /\ chosen' = choice
       ELSE job' = AfterStage(stage) /\ UNCHANGED chosen
    /\ shown' = IF upsets = since THEN shown \cup ShownBy(DOMAIN part.desired) ELSE shown

\* The exception leaves maintain, too: its later stages wait for the next one.
Fails == job' = NoJob /\ UNCHANGED <<ec, chosen>>

\* The places of the cells of D in an order
InOrder(order, D) == {i \in DOMAIN order : order[i] \in D}

ToWrite(part) ==
    {c \in DOMAIN part.desired : part.force \/ ec[c] # part.desired[c]}

\* What an access to c that goes wrong leaves in it.
Partly(c, value) == {ec[c], value} \cup (IF c = "tables" THEN {"torn"} ELSE {})

-----------------------------------------------------------------------------
(* Faulty variants of actions and helpers below: each has one slip and      *)
(* breaks a property stated further down.  No specification uses them.      *)

\* A lost write is not noticed.
VerifiesNothing ==
    /\ job.phase = "write" /\ job.todo = {}
    /\ PartDone(job.part, job.choice, job.stage, job.since)
    /\ UNCHANGED <<uses, ec, conflict, upsets>>

\* Only the first of the written cells is put back.
UndoesOne ==
    /\ job.phase = "undo"
    /\ \E i \in Upcoming : ec' = [ec EXCEPT ![Cell(i)] = job.previous[Cell(i)]]
    /\ job' = NoJob
    /\ UNCHANGED <<uses, chosen, conflict, shown, upsets>>

\* Maintenance looks at the duties only, not at a Boost before any of them.
WantedDuties(s) ==
    CASE s = "fans" -> chosen.duties # None
      [] s = "offset" -> chosen.offset # None
      [] s = "dynamic" -> chosen.dynamic # None
      [] s = "lightbar" -> chosen.lightbar # None

-----------------------------------------------------------------------------
(* _apply: refuse, compare, write what differs, verify, undo.              *)

\* Everything before the first write.
Transact(part, choice, stage) ==
    /\ \/ /\ conflict /\ part # Nothing
          /\ Fails
          /\ UNCHANGED <<shown, upsets>>
       \/ /\ Upset
          /\ Fails
          /\ UNCHANGED shown
       \/ /\ conflict => part = Nothing
          /\ ToWrite(part) = {}
          /\ PartDone(part, choice, stage, upsets)
          /\ UNCHANGED <<ec, upsets>>
       \/ /\ ~conflict
          /\ ToWrite(part) # {}
          /\ job' = [phase |-> "write", part |-> part,
                     previous |-> [c \in DOMAIN part.desired |-> ec[c]],
                     todo |-> InOrder(part.order, ToWrite(part)),
                     written |-> ToWrite(part),
                     choice |-> choice, stage |-> stage, since |-> upsets]
          /\ UNCHANGED <<ec, chosen, shown, upsets>>
    /\ UNCHANGED <<uses, conflict>>

Without(i) == [job EXCEPT !.todo = @ \ {i}]

Undoing == [job EXCEPT !.phase = "undo", !.todo = InOrder(job.part.restore, job.written)]

Write ==
    /\ job.phase = "write"
    /\ \E i \in Upcoming :
          /\ ec' = [ec EXCEPT ![Cell(i)] = job.part.desired[Cell(i)]]
          /\ job' = Without(i)
    /\ UNCHANGED <<uses, chosen, conflict, shown, upsets>>

\* The access raises, whatever it did, or is lost without a word.
WriteGoesWrong ==
    /\ job.phase = "write"
    /\ Upset
    /\ \E i \in Upcoming :
          /\ \E value \in Partly(Cell(i), job.part.desired[Cell(i)]) :
                ec' = [ec EXCEPT ![Cell(i)] = value]
          /\ job' \in {Undoing, Without(i)}
    /\ UNCHANGED <<uses, chosen, conflict, shown>>

Verify ==
    /\ job.phase = "write" /\ job.todo = {}
    /\ IF \A c \in DOMAIN job.part.desired : ec[c] = job.part.desired[c]
       THEN PartDone(job.part, job.choice, job.stage, job.since)
       ELSE job' = Undoing /\ UNCHANGED <<chosen, shown>>
    /\ UNCHANGED <<uses, ec, conflict, upsets>>

VerifyFails ==
    /\ job.phase = "write" /\ job.todo = {}
    /\ Upset
    /\ job' = Undoing
    /\ UNCHANGED <<uses, ec, chosen, conflict, shown>>

Undone(i) == IF job.todo = {i} THEN NoJob ELSE Without(i)

Undo ==
    /\ job.phase = "undo"
    /\ \E i \in Upcoming :
          /\ ec' = [ec EXCEPT ![Cell(i)] = job.previous[Cell(i)]]
          /\ job' = Undone(i)
    /\ UNCHANGED <<uses, chosen, conflict, shown, upsets>>

\* An access that raises leaves the rest as it is; nothing verifies the undo.
UndoGoesWrong ==
    /\ job.phase = "undo"
    /\ Upset
    /\ \E i \in Upcoming :
          /\ \E value \in Partly(Cell(i), job.previous[Cell(i)]) :
                ec' = [ec EXCEPT ![Cell(i)] = value]
          /\ job' \in {NoJob, Undone(i)}
    /\ shown' = shown \ Disturbed(job.written)
    /\ UNCHANGED <<uses, chosen, conflict>>

-----------------------------------------------------------------------------
(* The requests of LinuxFanService                                         *)

ApplyManual(duty) ==
    /\ Idle /\ "fans" \in uses
    /\ Transact(apply_duties(duty),
                [chosen EXCEPT !.duties = duty, !.boost = FALSE], 0)

BoostOn ==
    /\ Idle /\ "fans" \in uses
    /\ Transact(set_boost, [chosen EXCEPT !.boost = TRUE], 0)

\* Leaving Boost hands control back to the tables, so they are written first.
BoostOff ==
    /\ Idle /\ "fans" \in uses
    /\ LET duty == IF chosen.duties = None THEN Full ELSE chosen.duties IN
       Transact(apply_duties(duty),
                [chosen EXCEPT !.duties = duty, !.boost = FALSE], 0)

SetGpuPowerOffset(watts) ==
    /\ Idle /\ "offset" \in uses
    /\ watts \leq MaxOffset
    /\ Transact(write_ctgp_offset(watts, chosen.dynamic),
                [chosen EXCEPT !.offset = watts], 0)

SetDynamicBoost(enabled) ==
    /\ Idle /\ "dynamic" \in uses
    /\ Transact(write_dynamic_boost(enabled), [chosen EXCEPT !.dynamic = enabled], 0)

SetLightbar(light) ==
    /\ Idle /\ "lightbar" \in uses
    /\ Transact(write_lightbar(light, TRUE), [chosen EXCEPT !.lightbar = light], 0)

-----------------------------------------------------------------------------
(* maintain, one transaction after the other under _operation_lock         *)

Wanted(s) ==
    CASE s = "fans" -> chosen.boost \/ chosen.duties # None
      [] s = "offset" -> chosen.offset # None
      [] s = "dynamic" -> chosen.dynamic # None
      [] s = "lightbar" -> chosen.lightbar # None

\* The lightbar is rewritten from time to time even if its bytes are right.
MaintenancePart(s, refresh) ==
    CASE s = "fans" -> IF chosen.boost THEN set_boost ELSE apply_duties(chosen.duties)
      [] s = "offset" -> IF ec.ctgp_offset = chosen.offset THEN Nothing
                         ELSE write_ctgp_offset(chosen.offset, chosen.dynamic)
      [] s = "dynamic" -> IF dynamic_boost_enabled = chosen.dynamic THEN Nothing
                          ELSE write_dynamic_boost(chosen.dynamic)
      [] s = "lightbar" -> write_lightbar(chosen.lightbar, refresh)

Maintain ==
    /\ Idle /\ \E s \in Settings : Wanted(s)
    /\ job' = AfterStage(0)
    /\ UNCHANGED <<uses, ec, chosen, conflict, shown, upsets>>

MaintenanceSkips ==
    /\ job.phase = "maintain"
    /\ ~Wanted(Stages[job.stage])
    /\ job' = AfterStage(job.stage)
    /\ UNCHANGED <<uses, ec, chosen, conflict, shown, upsets>>

MaintenanceChecks ==
    /\ job.phase = "maintain"
    /\ Wanted(Stages[job.stage])
    /\ \E refresh \in BOOLEAN :
           Transact(MaintenancePart(Stages[job.stage], refresh), chosen, job.stage)

-----------------------------------------------------------------------------
(* The world                                                               *)

\* The firmware takes cells over, all of them at a resume.
Drift ==
    /\ Upset
    /\ \E D \in {{c} : c \in Cells} \cup {Cells} :
        /\ ec' = [c \in Cells |-> IF c \in D THEN PowerOn[c] ELSE ec[c]]
        /\ shown' = shown \ Disturbed(D)
    /\ UNCHANGED <<uses, chosen, job, conflict>>

\* Killed in an access or between two, and started again.
KilledAndRestarted ==
    /\ Upset
    /\ \/ UNCHANGED ec
       \/ /\ \E i \in Upcoming : Cell(i) = "tables"
          /\ ec' = [ec EXCEPT !.tables = "torn"]
    /\ chosen' \in Saved
    /\ job' = NoJob
    /\ shown' = {}
    /\ UNCHANGED <<uses, conflict>>

TccdChanges ==
    /\ conflict' = ~conflict
    /\ UNCHANGED <<uses, ec, chosen, job, shown, upsets>>

-----------------------------------------------------------------------------
JobStep ==
    \/ Write \/ WriteGoesWrong \/ Verify \/ VerifyFails \/ Undo \/ UndoGoesWrong
    \/ MaintenanceSkips \/ MaintenanceChecks

Request ==
    \/ \E duty \in Duties : ApplyManual(duty)
    \/ BoostOn \/ BoostOff
    \/ \E watts \in Watts : SetGpuPowerOffset(watts)
    \/ \E enabled \in BOOLEAN : SetDynamicBoost(enabled)
    \/ \E light \in Lights : SetLightbar(light)

Next == Request \/ Maintain \/ JobStep \/ Drift \/ KilledAndRestarted \/ TccdChanges

Spec == Init /\ [][Next]_vars

\* The maintenance thread runs every 15 s and gets the lock in its turn, and
\* whoever has the lock goes on.
Fairness == WF_vars(JobStep) /\ SF_vars(Maintain)

FairSpec == Spec /\ Fairness

-----------------------------------------------------------------------------
TypeOK ==
    /\ uses \in Users
    /\ ec \in [tables : Duties \cup {"firmware", "torn"}, manual_enable : BOOLEAN,
               fan_mode : {"normal", "user_high", "boost"}, tables_enable : BOOLEAN,
               ctgp_offset : 0 .. MaxOffset, ctgp_control : SUBSET CtgpBits,
               color : Colors \cup {"off"}, rainbow : BOOLEAN]
    /\ chosen \in [duties : Duties \cup {None}, boost : BOOLEAN,
                   offset : (0 .. MaxOffset) \cup {None}, dynamic : BOOLEAN \cup {None},
                   lightbar : Lights \cup {None}]
    /\ job.phase \in {"idle", "maintain", "write", "undo"}
    /\ job.stage \in 0 .. Len(Stages)
    /\ conflict \in BOOLEAN
    /\ shown \subseteq Settings
    /\ upsets \in 0 .. MaxUpsets

FansShow ==
    /\ chosen.boost \/ chosen.duties # None => ec.manual_enable /\ ec.tables_enable
    /\ chosen.boost => ec.fan_mode = "boost"
    /\ ~chosen.boost /\ chosen.duties # None
           => ec.fan_mode = "user_high" /\ ec.tables = chosen.duties

OffsetShows  == chosen.offset # None => ec.ctgp_offset = chosen.offset
DynamicShows == chosen.dynamic # None => dynamic_boost_enabled = chosen.dynamic

LightbarShows ==
    chosen.lightbar # None =>
        /\ ec.rainbow = (chosen.lightbar = "rainbow")
        /\ chosen.lightbar # "rainbow" => ec.color = chosen.lightbar

\* Between transactions the EC runs the fans as the service remembers it, once
\* a transaction showed it and until the firmware, a kill or a failed undo
\* disturbs it: also a transaction that failed half-way and was undone leaves
\* the remembered choice in force (linux_ec.py:311-330).
FansAsChosen == Idle /\ "fans" \in shown => FansShow

\* The same for the GPU, whose two choices share the control byte: neither
\* request undoes the other (linux_ec.py:448-485).
GpuAsChosen ==
    Idle =>
        /\ "offset" \in shown =>
              /\ OffsetShows
              /\ chosen.offset # None => {"general", "offset"} \subseteq ec.ctgp_control
        /\ "dynamic" \in shown => DynamicShows

\* The same for the lightbar, whose two bytes show three modes (linux_ec.py:497-515).
LightbarAsChosen == Idle /\ "lightbar" \in shown => LightbarShows

\* Boost is never left for tables that do not hold the duties to come, unless
\* an access went wrong meanwhile (linux_fan_service.py:198-203).
BoostLeftWithTables ==
    [][job.phase = "write" /\ ec.fan_mode = "boost" /\ ec'.fan_mode = "user_high"
         => upsets # job.since \/ ec.tables = job.part.desired.tables]_vars

\* Whatever went wrong, the EC shows every choice again: the next maintenance
\* that is not refused puts it back (linux_fan_service.py:212-255).
DriftIsRepaired ==
    <>[]~conflict =>
        []<>(Idle /\ FansShow /\ OffsetShows /\ DynamicShows /\ LightbarShows)
=============================================================================
