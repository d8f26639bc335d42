----------------------- MODULE LinuxFanService_proofs -----------------------
(***************************************************************************)
(* The safety properties of LinuxFanService for every set of duties,       *)
(* colors and offsets, and any number of failed accesses, lost writes,     *)
(* drifts and kills.                                                       *)
(***************************************************************************)
EXTENDS LinuxFanService, TLAPS

(* Types.                                                                   *)

Holds ==
    [tables |-> Duties \cup {"firmware", "torn"}, manual_enable |-> BOOLEAN,
     fan_mode |-> {"normal", "user_high", "boost"}, tables_enable |-> BOOLEAN,
     ctgp_offset |-> 0 .. MaxOffset, ctgp_control |-> SUBSET CtgpBits,
     color |-> Colors \cup {"off"}, rainbow |-> BOOLEAN]

Filled(e, D) == DOMAIN e = D /\ \A c \in D : e[c] \in Holds[c]

Ecs ==
    [tables : Duties \cup {"firmware", "torn"}, manual_enable : BOOLEAN,
     fan_mode : {"normal", "user_high", "boost"}, tables_enable : BOOLEAN,
     ctgp_offset : 0 .. MaxOffset, ctgp_control : SUBSET CtgpBits,
     color : Colors \cup {"off"}, rainbow : BOOLEAN]

Choices ==
    [duties : Duties \cup {None}, boost : BOOLEAN,
     offset : (0 .. MaxOffset) \cup {None}, dynamic : BOOLEAN \cup {None},
     lightbar : Lights \cup {None}]

(* What EC e shows of the setting s, if the choices are ch.                 *)

FansIn(e, ch) ==
    /\ ch.boost \/ ch.duties # None => e.manual_enable = TRUE /\ e.tables_enable = TRUE
    /\ ch.boost => e.fan_mode = "boost"
    /\ ~ch.boost /\ ch.duties # None
           => e.fan_mode = "user_high" /\ e.tables = ch.duties

OffsetIn(e, ch) ==
    ch.offset # None =>
        e.ctgp_offset = ch.offset /\ {"general", "offset"} \subseteq e.ctgp_control

DynamicIn(e, ch) ==
    ch.dynamic # None => (ch.dynamic = TRUE <=> {"general", "dynamic"} \subseteq e.ctgp_control)

LightbarIn(e, ch) ==
    ch.lightbar # None =>
        /\ e.rainbow = TRUE <=> ch.lightbar = "rainbow"
        /\ ch.lightbar # "rainbow" => e.color = ch.lightbar

Shows(s, e, ch) ==
    /\ s = "fans" => FansIn(e, ch)
    /\ s = "offset" => OffsetIn(e, ch)
    /\ s = "dynamic" => DynamicIn(e, ch)
    /\ s = "lightbar" => LightbarIn(e, ch)

(* What a transaction may be about: it shows the choice it will leave.      *)

FansPlan(part, ch) == part = apply_duties(ch.duties) /\ ch.duties # None /\ ~ch.boost

BoostPlan(part, ch) == part = set_boost /\ ch.boost

OffsetPlan(part, ch) ==
    /\ part = Ctgp(part.desired)
    /\ DOMAIN part.desired = {"ctgp_offset", "ctgp_control"}
    /\ part.desired.ctgp_control \subseteq CtgpBits
    /\ ch.offset # None
    /\ OffsetIn(part.desired, ch) /\ DynamicIn(part.desired, ch)

DynamicPlan(part, ch, before) ==
    /\ part = Ctgp(part.desired)
    /\ DOMAIN part.desired = {"ctgp_control"}
    /\ part.desired.ctgp_control \subseteq CtgpBits
    /\ DynamicIn(part.desired, ch)
    /\ {"general", "offset"} \subseteq before.ctgp_control
           => {"general", "offset"} \subseteq part.desired.ctgp_control

LightPlan(part, ch) ==
    /\ ch.lightbar # None
    /\ \E force \in BOOLEAN : part = write_lightbar(ch.lightbar, force)

Planned(part, ch, before) ==
    \/ FansPlan(part, ch) \/ BoostPlan(part, ch)
    \/ OffsetPlan(part, ch) \/ DynamicPlan(part, ch, before)
    \/ LightPlan(part, ch)

\* The choices a and b are the same for the setting s.
Agree(s, a, b) ==
    /\ s = "fans" => a.duties = b.duties /\ a.boost = b.boost
    /\ s = "offset" => a.offset = b.offset
    /\ s = "dynamic" => a.dynamic = b.dynamic
    /\ s = "lightbar" => a.lightbar = b.lightbar

AgreeBut(D, a, b) == \A s \in Settings \ ShownBy(D) : Agree(s, a, b)

-----------------------------------------------------------------------------
(* The inductive invariant.                                                 *)

UnderWay == job.phase \in {"write", "undo"}

\* What the EC held before the transaction, drift apart.
Before == [c \in Cells |-> IF c \in DOMAIN job.previous THEN job.previous[c] ELSE ec[c]]

Types ==
    /\ uses \in Users
    /\ ec \in Ecs
    /\ chosen \in Choices
    /\ job.phase \in {"idle", "maintain", "write", "undo"}
    /\ job.stage \in 0 .. Len(Stages)
    /\ conflict \in BOOLEAN
    /\ shown \subseteq Settings
    /\ upsets \in 0 .. MaxUpsets

JobShape ==
    /\ DOMAIN job = {"phase", "part", "previous", "todo", "written", "choice", "stage", "since"}
    /\ job.phase = "maintain" => job.stage # 0
    /\ ~UnderWay => job.todo = {} /\ DOMAIN job.previous = {}
    /\ UnderWay =>
        /\ job.since \in Nat /\ job.since <= upsets
        /\ job.choice \in Choices
        /\ job.stage # 0 => job.choice = chosen
        /\ Filled(job.previous, DOMAIN job.part.desired)
        /\ job.written \subseteq DOMAIN job.part.desired
        /\ Planned(job.part, job.choice, job.previous)
        /\ AgreeBut(DOMAIN job.part.desired, job.choice, chosen)
    /\ job.phase = "write" => job.todo \subseteq InOrder(job.part.order, job.written)
    /\ job.phase = "undo" => job.todo \subseteq InOrder(job.part.restore, job.written)

\* What was shown is what the EC shows, or will show again when it is undone.
Remembered == \A s \in shown : Shows(s, Before, chosen)

\* Only what is written changes, ...
Kept ==
    \A s \in shown : \A c \in CellsOf[s] \cap (DOMAIN job.previous \ job.written) :
        ec[c] = job.previous[c]

\* ... what is undone is as it was or has its turn still to come, ...
PutBack ==
    job.phase = "undo" =>
        \A s \in shown : \A c \in CellsOf[s] \cap job.written :
            ec[c] = job.previous[c] \/ \E i \in job.todo : job.part.restore[i] = c

\* ... and so is what is written, as long as nothing goes wrong.
Pending ==
    job.phase = "write" /\ upsets = job.since =>
        \A c \in DOMAIN job.part.desired :
            ec[c] = job.part.desired[c] \/ \E i \in job.todo : job.part.order[i] = c

IInv == Types /\ JobShape /\ Remembered /\ Kept /\ PutBack /\ Pending

-----------------------------------------------------------------------------
(* The cells and what is read of them.                                      *)

LEMMA CellsAre ==
    /\ Cells = {"tables", "manual_enable", "fan_mode", "tables_enable",
                "ctgp_offset", "ctgp_control", "color", "rainbow"}
    /\ CellsOf["fans"] = {"tables", "manual_enable", "fan_mode", "tables_enable"}
    /\ CellsOf["offset"] = {"ctgp_offset", "ctgp_control"}
    /\ CellsOf["dynamic"] = {"ctgp_control"}
    /\ CellsOf["lightbar"] = {"color", "rainbow"}
    /\ \A s \in Settings : CellsOf[s] \subseteq Cells
<1>1. /\ CellsOf["fans"] = {"tables", "manual_enable", "fan_mode", "tables_enable"}
      /\ CellsOf["offset"] = {"ctgp_offset", "ctgp_control"}
      /\ CellsOf["dynamic"] = {"ctgp_control"}
      /\ CellsOf["lightbar"] = {"color", "rainbow"}
  BY DEF CellsOf
<1>2. Cells = CellsOf["fans"] \cup CellsOf["offset"] \cup CellsOf["dynamic"]
                \cup CellsOf["lightbar"]
  BY DEF Cells, Settings
<1>3. \A s \in Settings : CellsOf[s] \subseteq Cells
  BY DEF Cells
<1> QED  BY <1>1, <1>2, <1>3

LEMMA KeysAre ==
    /\ KeyOf["fans"] = "fan_mode" /\ KeyOf["offset"] = "ctgp_offset"
    /\ KeyOf["dynamic"] = "ctgp_control" /\ KeyOf["lightbar"] = "rainbow"
BY DEF KeyOf

LEMMA HeldIn ==
    /\ Holds["tables"] = Duties \cup {"firmware", "torn"}
    /\ Holds["manual_enable"] = BOOLEAN /\ Holds["tables_enable"] = BOOLEAN
    /\ Holds["fan_mode"] = {"normal", "user_high", "boost"}
    /\ Holds["ctgp_offset"] = 0 .. MaxOffset /\ Holds["ctgp_control"] = SUBSET CtgpBits
    /\ Holds["color"] = Colors \cup {"off"} /\ Holds["rainbow"] = BOOLEAN
BY DEF Holds

\* What is shown of a setting depends on its own cells and choices only.
LEMMA OwnCells ==
    ASSUME NEW s \in Settings, NEW e, NEW f, NEW a, NEW b,
           \A c \in CellsOf[s] : e[c] = f[c], Agree(s, a, b), Shows(s, e, a)
    PROVE  Shows(s, f, b)
<1>1. CASE s = "fans"
  BY <1>1, CellsAre DEF Agree, Shows, FansIn
<1>2. CASE s = "offset"
  BY <1>2, CellsAre DEF Agree, Shows, OffsetIn
<1>3. CASE s = "dynamic"
  BY <1>3, CellsAre DEF Agree, Shows, DynamicIn
<1>4. CASE s = "lightbar"
  BY <1>4, CellsAre DEF Agree, Shows, LightbarIn
<1> QED  BY <1>1, <1>2, <1>3, <1>4 DEF Settings

\* The record of the EC, cell by cell.
LEMMA EcCells == ASSUME NEW e PROVE e \in Ecs <=> e = [c \in Cells |-> e[c]] /\ Filled(e, Cells)
<1>1. ASSUME e \in Ecs PROVE e = [c \in Cells |-> e[c]] /\ Filled(e, Cells)
  BY <1>1, CellsAre DEF Ecs, Holds, Filled
<1>2. ASSUME e = [c \in Cells |-> e[c]], Filled(e, Cells) PROVE e \in Ecs
  BY <1>2, CellsAre DEF Ecs, Holds, Filled
<1> QED  BY <1>1, <1>2

Put(e, c, v) == [e EXCEPT ![c] = v]

LEMMA OneCell ==
    ASSUME NEW e \in Ecs, NEW c \in Cells, NEW v \in Holds[c]
    PROVE  /\ Put(e, c, v) \in Ecs /\ Put(e, c, v)[c] = v
           /\ \A d \in Cells : d # c => Put(e, c, v)[d] = e[d]
<1> DEFINE f == Put(e, c, v)
<1>1. e = [d \in Cells |-> e[d]] /\ \A d \in Cells : e[d] \in Holds[d]
  BY EcCells DEF Filled
<1>2. /\ f = [d \in Cells |-> f[d]] /\ DOMAIN f = Cells
      /\ f[c] = v /\ \A d \in Cells : d # c => f[d] = e[d]
  BY <1>1 DEF Put
<1>3. Filled(f, Cells)
  BY <1>1, <1>2 DEF Filled
<1> QED  BY <1>2, <1>3, EcCells

-----------------------------------------------------------------------------
(* The plans.                                                               *)

LEMMA PartFields ==
    ASSUME NEW desired, NEW order, NEW restore, NEW force
    PROVE  /\ Part(desired, order, restore, force).desired = desired
           /\ Part(desired, order, restore, force).order = order
           /\ Part(desired, order, restore, force).restore = restore
BY DEF Part

LEMMA ApplyFields ==
    ASSUME NEW duty
    PROVE  LET part == apply_duties(duty) IN
           /\ DOMAIN part.desired = {"tables", "manual_enable", "fan_mode", "tables_enable"}
           /\ part.desired["tables"] = duty /\ part.desired["fan_mode"] = "user_high"
           /\ part.desired["manual_enable"] = TRUE /\ part.desired["tables_enable"] = TRUE
           /\ part.order = WRITE_ORDER /\ part.restore = RESTORE_ORDER
BY CellsAre DEF apply_duties, Part, DesiredState

LEMMA BoostFields ==
    /\ DOMAIN set_boost.desired = {"manual_enable", "fan_mode", "tables_enable"}
    /\ set_boost.desired["fan_mode"] = "boost"
    /\ set_boost.desired["manual_enable"] = TRUE /\ set_boost.desired["tables_enable"] = TRUE
    /\ set_boost.order = WRITE_ORDER /\ set_boost.restore = RESTORE_ORDER
BY CellsAre DEF set_boost, Part, DesiredState

LEMMA CtgpFields ==
    ASSUME NEW desired
    PROVE  /\ Ctgp(desired).desired = desired
           /\ Ctgp(desired).order = CTGP_ADDRESSES /\ Ctgp(desired).restore = CTGP_ADDRESSES
BY DEF Ctgp, Part

LEMMA LightFields ==
    ASSUME NEW light, NEW force
    PROVE  LET part == write_lightbar(light, force) IN
           /\ light = "rainbow" => DOMAIN part.desired = {"rainbow"}
           /\ light # "rainbow" => /\ DOMAIN part.desired = {"color", "rainbow"}
                                   /\ part.desired["color"] = light
           /\ part.desired["rainbow"] = (light = "rainbow")
           /\ part.order = LIGHTBAR_ADDRESSES /\ part.restore = LIGHTBAR_ADDRESSES
<1>1. CASE light = "rainbow"
  BY <1>1 DEF write_lightbar, Part
<1>2. CASE light # "rainbow"
  BY <1>2 DEF write_lightbar, Part
<1> QED  BY <1>1, <1>2

\* Every plan fills cells that its two orders reach.
LEMMA PlanIsSound ==
    ASSUME NEW part, NEW ch \in Choices, NEW before, Planned(part, ch, before)
    PROVE  /\ DOMAIN part.desired \subseteq Cells
           /\ \A c \in DOMAIN part.desired :
                /\ part.desired[c] \in Holds[c]
                /\ \E i \in DOMAIN part.order : part.order[i] = c
                /\ \E i \in DOMAIN part.restore : part.restore[i] = c
<1> DEFINE Reached(order) == \A c \in DOMAIN part.desired : \E i \in DOMAIN order : order[i] = c
<1>1. CASE FansPlan(part, ch)
  <2>1. part = apply_duties(ch.duties) /\ ch.duties \in Duties
    BY <1>1 DEF FansPlan, Choices
  <2>2. DOMAIN part.desired = {"tables", "manual_enable", "fan_mode", "tables_enable"}
    BY <2>1, ApplyFields
  <2>3. /\ part.desired["tables"] \in Duties /\ part.desired["fan_mode"] = "user_high"
        /\ part.desired["manual_enable"] = TRUE /\ part.desired["tables_enable"] = TRUE
        /\ part.order = WRITE_ORDER /\ part.restore = RESTORE_ORDER
    BY <2>1, ApplyFields
  <2>4. Reached(part.order) /\ Reached(part.restore)
    BY <2>2, <2>3 DEF WRITE_ORDER, RESTORE_ORDER
  <2>5. \A c \in DOMAIN part.desired : part.desired[c] \in Holds[c]
    <3>1. /\ part.desired["tables"] \in Holds["tables"]
          /\ part.desired["fan_mode"] \in Holds["fan_mode"]
          /\ part.desired["manual_enable"] \in Holds["manual_enable"]
          /\ part.desired["tables_enable"] \in Holds["tables_enable"]
      BY <2>3, HeldIn
    <3> QED  BY <2>2, <3>1
  <2> QED  BY <2>2, <2>4, <2>5, CellsAre
<1>2. CASE BoostPlan(part, ch)
  <2>1. /\ DOMAIN part.desired = {"manual_enable", "fan_mode", "tables_enable"}
        /\ part.desired["fan_mode"] = "boost"
        /\ part.desired["manual_enable"] = TRUE /\ part.desired["tables_enable"] = TRUE
        /\ part.order = WRITE_ORDER /\ part.restore = RESTORE_ORDER
    BY <1>2, BoostFields DEF BoostPlan
  <2>2. Reached(part.order) /\ Reached(part.restore)
    BY <2>1 DEF WRITE_ORDER, RESTORE_ORDER
  <2>3. \A c \in DOMAIN part.desired : part.desired[c] \in Holds[c]
    BY <2>1, HeldIn
  <2> QED  BY <2>1, <2>2, <2>3, CellsAre
<1>3. CASE OffsetPlan(part, ch)
  <2>1. /\ DOMAIN part.desired = {"ctgp_offset", "ctgp_control"}
        /\ part.desired["ctgp_offset"] \in 0 .. MaxOffset
        /\ part.desired["ctgp_control"] \in SUBSET CtgpBits
    BY <1>3 DEF OffsetPlan, OffsetIn, Choices
  <2>2. part.order = CTGP_ADDRESSES /\ part.restore = CTGP_ADDRESSES
    BY <1>3, CtgpFields DEF OffsetPlan
  <2>3. Reached(part.order) /\ Reached(part.restore)
    BY <2>1, <2>2 DEF CTGP_ADDRESSES
  <2>4. \A c \in DOMAIN part.desired : part.desired[c] \in Holds[c]
    BY <2>1, HeldIn
  <2> QED  BY <2>1, <2>3, <2>4, CellsAre
<1>4. CASE DynamicPlan(part, ch, before)
  <2>1. /\ DOMAIN part.desired = {"ctgp_control"}
        /\ part.desired["ctgp_control"] \in SUBSET CtgpBits
    BY <1>4 DEF DynamicPlan
  <2>2. part.order = CTGP_ADDRESSES /\ part.restore = CTGP_ADDRESSES
    BY <1>4, CtgpFields DEF DynamicPlan
  <2>3. Reached(part.order) /\ Reached(part.restore)
    BY <2>1, <2>2 DEF CTGP_ADDRESSES
  <2>4. \A c \in DOMAIN part.desired : part.desired[c] \in Holds[c]
    BY <2>1, HeldIn
  <2> QED  BY <2>1, <2>3, <2>4, CellsAre
<1>5. CASE LightPlan(part, ch)
  <2>1. ch.lightbar \in Lights
    BY <1>5 DEF LightPlan, Choices
  <2>2. PICK force \in BOOLEAN : part = write_lightbar(ch.lightbar, force)
    BY <1>5 DEF LightPlan
  <2>3. /\ DOMAIN part.desired \subseteq {"color", "rainbow"}
        /\ "color" \in DOMAIN part.desired =>
             part.desired["color"] = ch.lightbar /\ ch.lightbar # "rainbow"
        /\ part.desired["rainbow"] = (ch.lightbar = "rainbow")
        /\ part.order = LIGHTBAR_ADDRESSES /\ part.restore = LIGHTBAR_ADDRESSES
    BY <2>2, LightFields
  <2>4. Reached(part.order) /\ Reached(part.restore)
    BY <2>3 DEF LIGHTBAR_ADDRESSES
  <2>5. \A c \in DOMAIN part.desired : part.desired[c] \in Holds[c]
    <3>1. part.desired["rainbow"] \in BOOLEAN
      BY <2>3
    <3>2. "color" \in DOMAIN part.desired => part.desired["color"] \in Colors \cup {"off"}
      BY <2>1, <2>3 DEF Lights
    <3> QED  BY <2>3, <3>1, <3>2, HeldIn
  <2> QED  BY <2>3, <2>4, <2>5, CellsAre
<1> QED  BY <1>1, <1>2, <1>3, <1>4, <1>5 DEF Planned

\* An EC that holds what was planned shows the choices ...
LEMMA PlanShows ==
    ASSUME NEW part, NEW ch \in Choices, NEW before, NEW e, Planned(part, ch, before),
           \A c \in DOMAIN part.desired : e[c] = part.desired[c],
           NEW s \in ShownBy(DOMAIN part.desired)
    PROVE  Shows(s, e, ch)
<1>0. s \in Settings /\ KeyOf[s] \in DOMAIN part.desired
  BY DEF ShownBy
<1>1. CASE FansPlan(part, ch)
  <2>1. /\ e["tables"] = ch.duties /\ e["fan_mode"] = "user_high"
        /\ e["manual_enable"] = TRUE /\ e["tables_enable"] = TRUE
        /\ DOMAIN part.desired = {"tables", "manual_enable", "fan_mode", "tables_enable"}
    BY <1>1, ApplyFields DEF FansPlan
  <2>2. s = "fans"
    BY <1>0, <2>1, KeysAre DEF Settings
  <2> QED  BY <1>1, <2>1, <2>2 DEF Shows, FansIn, FansPlan
<1>2. CASE BoostPlan(part, ch)
  <2>1. /\ e["fan_mode"] = "boost" /\ e["manual_enable"] = TRUE /\ e["tables_enable"] = TRUE
        /\ DOMAIN part.desired = {"manual_enable", "fan_mode", "tables_enable"}
    BY <1>2, BoostFields DEF BoostPlan
  <2>2. s = "fans"
    BY <1>0, <2>1, KeysAre DEF Settings
  <2> QED  BY <1>2, <2>1, <2>2 DEF Shows, FansIn, BoostPlan
<1>3. CASE OffsetPlan(part, ch)
  <2>1. /\ e["ctgp_offset"] = part.desired["ctgp_offset"]
        /\ e["ctgp_control"] = part.desired["ctgp_control"]
        /\ DOMAIN part.desired = {"ctgp_offset", "ctgp_control"}
    BY <1>3 DEF OffsetPlan
  <2>2. s \in {"offset", "dynamic"}
    BY <1>0, <2>1, KeysAre DEF Settings
  <2> QED  BY <1>3, <2>1, <2>2 DEF Shows, OffsetIn, DynamicIn, OffsetPlan
<1>4. CASE DynamicPlan(part, ch, before)
  <2>1. /\ e["ctgp_control"] = part.desired["ctgp_control"]
        /\ DOMAIN part.desired = {"ctgp_control"}
    BY <1>4 DEF DynamicPlan
  <2>2. s = "dynamic"
    BY <1>0, <2>1, KeysAre DEF Settings
  <2> QED  BY <1>4, <2>1, <2>2 DEF Shows, DynamicIn, DynamicPlan
<1>5. CASE LightPlan(part, ch)
  <2>1. PICK force \in BOOLEAN : part = write_lightbar(ch.lightbar, force)
    BY <1>5 DEF LightPlan
  <2>2. /\ e["rainbow"] = (ch.lightbar = "rainbow")
        /\ ch.lightbar # "rainbow" => e["color"] = ch.lightbar
        /\ DOMAIN part.desired \subseteq {"color", "rainbow"}
    BY <2>1, LightFields
  <2>3. s = "lightbar"
    BY <1>0, <2>2, KeysAre DEF Settings
  <2> QED  BY <2>2, <2>3 DEF Shows, LightbarIn
<1> QED  BY <1>1, <1>2, <1>3, <1>4, <1>5 DEF Planned

\* ... and all that base showed of the other settings before.
LEMMA OthersStay ==
    ASSUME NEW part, NEW ch \in Choices, NEW before, NEW e, Planned(part, ch, before),
           \A c \in DOMAIN part.desired : e[c] = part.desired[c],
           NEW old, AgreeBut(DOMAIN part.desired, ch, old),
           NEW s \in Settings, s \notin ShownBy(DOMAIN part.desired),
           NEW base, Shows(s, base, old),
           \A c \in CellsOf[s] : IF c \in DOMAIN part.desired THEN base[c] = before[c]
                                 ELSE base[c] = e[c]
    PROVE  Shows(s, e, ch)
<1>0. KeyOf[s] \notin DOMAIN part.desired /\ Agree(s, old, ch)
  BY DEF ShownBy, AgreeBut, Agree
<1>1. CASE CellsOf[s] \cap DOMAIN part.desired = {}
  BY <1>0, <1>1, OwnCells
<1>2. CASE CellsOf[s] \cap DOMAIN part.desired # {}
  <2>1. DynamicPlan(part, ch, before) /\ s = "offset"
    <3>1. ~FansPlan(part, ch)
      <4>1. ASSUME FansPlan(part, ch) PROVE FALSE
        <5>1. DOMAIN part.desired = CellsOf["fans"]
          BY <4>1, ApplyFields, CellsAre DEF FansPlan
        <5>2. s = "fans"
          BY <1>2, <5>1, CellsAre DEF Settings
        <5> QED  BY <1>0, <5>1, <5>2, CellsAre, KeysAre
      <4> QED  BY <4>1
    <3>2. ~BoostPlan(part, ch)
      BY <1>0, <1>2, BoostFields, CellsAre, KeysAre DEF BoostPlan, Settings
    <3>3. ~OffsetPlan(part, ch)
      BY <1>0, <1>2, CellsAre, KeysAre DEF OffsetPlan, Settings
    <3>4. ~LightPlan(part, ch)
      <4>1. ASSUME NEW force \in BOOLEAN, part = write_lightbar(ch.lightbar, force)
            PROVE  FALSE
        BY <4>1, <1>0, <1>2, LightFields, CellsAre, KeysAre DEF Settings
      <4> QED  BY <4>1 DEF LightPlan
    <3>5. DynamicPlan(part, ch, before)
      BY <3>1, <3>2, <3>3, <3>4 DEF Planned
    <3>6. s = "offset"
      BY <1>0, <1>2, <3>5, CellsAre, KeysAre DEF DynamicPlan, Settings
    <3> QED  BY <3>5, <3>6
  <2>2. /\ base["ctgp_control"] = before["ctgp_control"]
        /\ base["ctgp_offset"] = e["ctgp_offset"]
        /\ e["ctgp_control"] = part.desired["ctgp_control"]
    BY <2>1, CellsAre DEF DynamicPlan
  <2>3. OffsetIn(e, ch)
    BY <1>0, <2>1, <2>2 DEF DynamicPlan, Shows, OffsetIn, Agree
  <2> QED  BY <2>1, <2>3 DEF Shows
<1> QED  BY <1>1, <1>2

-----------------------------------------------------------------------------
(* Between transactions.                                                    *)

Fields == {"phase", "part", "previous", "todo", "written", "choice", "stage", "since"}

LEMMA StagesAre == Len(Stages) = 4
BY DEF Stages

LEMMA NoJobIs ==
    /\ DOMAIN NoJob = Fields
    /\ NoJob.phase = "idle" /\ NoJob.stage = 0
    /\ NoJob.todo = {} /\ DOMAIN NoJob.previous = {}
BY DEF NoJob, Fields

LEMMA AfterStageIs ==
    ASSUME NEW n \in 0 .. Len(Stages)
    PROVE  LET after == AfterStage(n) IN
           /\ DOMAIN after = Fields
           /\ after.phase \in {"idle", "maintain"} /\ after.stage \in 0 .. Len(Stages)
           /\ after.phase = "maintain" => after.stage # 0
           /\ after.todo = {} /\ DOMAIN after.previous = {}
<1>1. CASE n = Len(Stages)
  BY <1>1, NoJobIs, StagesAre DEF AfterStage
<1>2. CASE n # Len(Stages)
  <2>1. AfterStage(n) = [NoJob EXCEPT !.phase = "maintain", !.stage = n + 1]
    BY <1>2 DEF AfterStage
  <2>2. /\ DOMAIN AfterStage(n) = Fields
        /\ AfterStage(n).phase = "maintain" /\ AfterStage(n).stage = n + 1
        /\ AfterStage(n).todo = {} /\ DOMAIN AfterStage(n).previous = {}
    BY <2>1, NoJobIs DEF Fields
  <2> QED  BY <1>2, <2>2, StagesAre
<1> QED  BY <1>1, <1>2

\* Without a transaction the EC itself shows what was shown.
LEMMA Settled ==
    ASSUME Types, JobShape, Remembered, ~UnderWay
    PROVE  \A s \in shown : Shows(s, ec, chosen)
<1> SUFFICES ASSUME NEW s \in shown PROVE Shows(s, ec, chosen)
  OBVIOUS
<1>1. s \in Settings /\ Agree(s, chosen, chosen)
  BY DEF Types, Agree
<1>2. \A c \in CellsOf[s] : Before[c] = ec[c]
  BY <1>1, CellsAre DEF Before, JobShape
<1>3. Shows(s, Before, chosen)
  BY DEF Remembered
<1> QED  BY <1>1, <1>2, <1>3, OwnCells

LEMMA RestKeeps ==
    ASSUME Types', \/ job' = NoJob
                   \/ \E n \in 0 .. Len(Stages) : job' = AfterStage(n),
           \A s \in shown' : Shows(s, ec', chosen')
    PROVE  IInv'
<1>1. /\ DOMAIN job' = Fields
      /\ job'.phase \in {"idle", "maintain"}
      /\ job'.phase = "maintain" => job'.stage # 0
      /\ job'.todo = {} /\ DOMAIN job'.previous = {}
  BY NoJobIs, AfterStageIs
<1>2. JobShape'
  BY <1>1 DEF JobShape, Fields, UnderWay
<1>3. Remembered'
  <2> SUFFICES ASSUME NEW s \in shown' PROVE Shows(s, Before', chosen')
    BY DEF Remembered
  <2>1. s \in Settings /\ Agree(s, chosen', chosen')
    BY DEF Types, Agree
  <2>2. \A c \in CellsOf[s] : Before'[c] = ec'[c]
    BY <1>1, <2>1, CellsAre DEF Before
  <2> QED  BY <2>1, <2>2, OwnCells
<1>4. Kept' /\ PutBack' /\ Pending'
  BY <1>1 DEF Kept, PutBack, Pending
<1> QED  BY <1>2, <1>3, <1>4 DEF IInv

LEMMA SavedIsTyped == Saved \subseteq Choices
<1> SUFFICES ASSUME NEW ch \in Saved PROVE ch \in Choices
  OBVIOUS
<1>1. /\ ch = [duties |-> ch.duties, boost |-> ch.boost, offset |-> ch.offset,
               dynamic |-> ch.dynamic, lightbar |-> ch.lightbar]
      /\ ch.duties = None /\ ch.boost = FALSE
      /\ ch.offset \in {None} \cup {w \in Watts : w \leq MaxOffset}
      /\ ch.dynamic \in {None} \cup BOOLEAN
      /\ ch.lightbar \in {None} \cup Lights
  BY DEF Saved
<1>2. ch.offset \in (0 .. MaxOffset) \cup {None}
  BY <1>1, WattsAssumption
<1> QED  BY <1>1, <1>2 DEF Choices

LEMMA InitHolds == ASSUME Init PROVE IInv
<1>1. /\ uses \in Users /\ ec = PowerOn /\ chosen \in Saved /\ job = NoJob
      /\ conflict = FALSE /\ shown = {} /\ upsets = 0
  BY DEF Init
<1>2. ec \in Ecs
  BY <1>1, WattsAssumption DEF PowerOn, Ecs, CtgpBits
<1>3. chosen \in Choices
  BY <1>1, SavedIsTyped
<1>4. Types
  <2>1. job.phase = "idle" /\ job.stage \in 0 .. Len(Stages)
    BY <1>1, NoJobIs, StagesAre
  <2>2. upsets \in 0 .. MaxUpsets
    BY <1>1, BoundAssumption
  <2>3. conflict \in BOOLEAN /\ shown \subseteq Settings
    BY <1>1
  <2> QED  BY <1>1, <1>2, <1>3, <2>1, <2>2, <2>3 DEF Types
<1>5. JobShape
  BY <1>1, NoJobIs DEF JobShape, Fields, UnderWay
<1>6. Remembered /\ Kept /\ PutBack /\ Pending
  BY <1>1, NoJobIs DEF Remembered, Kept, PutBack, Pending
<1> QED  BY <1>4, <1>5, <1>6 DEF IInv

-----------------------------------------------------------------------------
(* _apply.                                                                  *)

LEMMA UpsetIs ==
    ASSUME Types, Upset
    PROVE  upsets' = upsets + 1 /\ upsets' \in 0 .. MaxUpsets /\ upsets < upsets'
BY BoundAssumption DEF Types, Upset

\* A verified plan: the EC shows what is remembered now.
LEMMA Verified ==
    ASSUME NEW part, NEW ch \in Choices, NEW before, NEW base,
           Planned(part, ch, before), AgreeBut(DOMAIN part.desired, ch, chosen),
           \A c \in DOMAIN part.desired : ec[c] = part.desired[c],
           \A s \in shown : /\ s \in Settings /\ Shows(s, base, chosen)
                            /\ \A c \in CellsOf[s] :
                                 IF c \in DOMAIN part.desired THEN base[c] = before[c]
                                 ELSE base[c] = ec[c]
    PROVE  \A s \in shown \cup ShownBy(DOMAIN part.desired) : Shows(s, ec, ch)
<1> SUFFICES ASSUME NEW s \in shown \cup ShownBy(DOMAIN part.desired)
             PROVE  Shows(s, ec, ch)
  OBVIOUS
<1>1. CASE s \in ShownBy(DOMAIN part.desired)
  BY <1>1, PlanShows
<1>2. CASE s \notin ShownBy(DOMAIN part.desired)
  BY <1>2, OthersStay
<1> QED  BY <1>1, <1>2

LEMMA PartDoneKeeps ==
    ASSUME Types, NEW part, NEW ch \in Choices, NEW stage \in 0 .. Len(Stages),
           stage # 0 => ch = chosen, NEW since, PartDone(part, ch, stage, since),
           \A s \in shown \cup ShownBy(DOMAIN part.desired) : Shows(s, ec, ch),
           UNCHANGED <<uses, ec, conflict, upsets>>
    PROVE  IInv'
<1>1. /\ chosen' = ch
      /\ job' = NoJob \/ \E n \in 0 .. Len(Stages) : job' = AfterStage(n)
  BY DEF PartDone
<1>2. shown' \subseteq shown \cup ShownBy(DOMAIN part.desired)
  BY DEF PartDone
<1>3. shown' \subseteq Settings
  BY <1>2 DEF Types, ShownBy
<1>4. job'.phase \in {"idle", "maintain"} /\ job'.stage \in 0 .. Len(Stages)
  BY <1>1, NoJobIs, AfterStageIs, StagesAre
<1>5. Types'
  BY <1>1, <1>3, <1>4 DEF Types
<1> QED  BY <1>1, <1>2, <1>5, RestKeeps

LEMMA TransactKeeps ==
    ASSUME IInv, ~UnderWay, NEW part, NEW ch \in Choices, NEW stage \in 0 .. Len(Stages),
           stage # 0 => ch = chosen,
           \/ part = Nothing /\ stage # 0
           \/ Planned(part, ch, ec) /\ AgreeBut(DOMAIN part.desired, ch, chosen),
           Transact(part, ch, stage)
    PROVE  IInv'
<1>0. Types /\ JobShape /\ Remembered
  BY DEF IInv
<1>1. \A s \in shown : Shows(s, ec, chosen)
  BY <1>0, Settled
<1>2. UNCHANGED <<uses, conflict>>
  BY DEF Transact
<1>3. ASSUME Fails, UNCHANGED shown, upsets' = upsets \/ Upset PROVE IInv'
  <2>1. UNCHANGED <<ec, chosen>> /\ job' = NoJob /\ upsets' \in 0 .. MaxUpsets
    BY <1>0, <1>3, UpsetIs DEF Fails, Types
  <2>2. Types'
    BY <1>0, <1>2, <1>3, <2>1, NoJobIs, StagesAre DEF Types
  <2> QED  BY <1>1, <1>3, <2>1, <2>2, RestKeeps
<1>4. ASSUME ToWrite(part) = {}, PartDone(part, ch, stage, upsets), UNCHANGED <<ec, upsets>>
      PROVE  IInv'
  <2>1. CASE part = Nothing /\ stage # 0
    <3>1. DOMAIN part.desired = {}
      BY <2>1 DEF Nothing, Part
    <3>2. ShownBy(DOMAIN part.desired) = {}
      BY <3>1 DEF ShownBy
    <3>3. \A s \in shown \cup ShownBy(DOMAIN part.desired) : Shows(s, ec, ch)
      BY <1>1, <2>1, <3>2
    <3> QED  BY <1>0, <1>2, <1>4, <3>3, PartDoneKeeps
  <2>2. CASE Planned(part, ch, ec) /\ AgreeBut(DOMAIN part.desired, ch, chosen)
    <3>1. \A c \in DOMAIN part.desired : ec[c] = part.desired[c]
      BY <1>4 DEF ToWrite
    <3>2. \A s \in shown : s \in Settings
      BY <1>0 DEF Types
    <3>3. \A s \in shown \cup ShownBy(DOMAIN part.desired) : Shows(s, ec, ch)
      BY <1>1, <2>2, <3>1, <3>2, Verified
    <3> QED  BY <1>0, <1>2, <1>4, <3>3, PartDoneKeeps
  <2> QED  BY <2>1, <2>2
<1>5. ASSUME ToWrite(part) # {},
             job' = [phase |-> "write", part |-> part,
                     previous |-> [c \in DOMAIN part.desired |-> ec[c]],
                     todo |-> InOrder(part.order, ToWrite(part)),
                     written |-> ToWrite(part),
                     choice |-> ch, stage |-> stage, since |-> upsets],
             UNCHANGED <<ec, chosen, shown, upsets>>
      PROVE  IInv'
  <2>1. /\ DOMAIN job' = Fields /\ job'.phase = "write" /\ job'.part = part
        /\ job'.previous = [c \in DOMAIN part.desired |-> ec[c]]
        /\ job'.todo = InOrder(part.order, ToWrite(part))
        /\ job'.written = ToWrite(part)
        /\ job'.choice = ch /\ job'.stage = stage /\ job'.since = upsets
    BY <1>5 DEF Fields
  <2>2. ToWrite(part) \subseteq DOMAIN part.desired
    BY DEF ToWrite
  <2>3. Planned(part, ch, ec) /\ AgreeBut(DOMAIN part.desired, ch, chosen)
    <3>1. part # Nothing
      BY <1>5, <2>2 DEF Nothing, Part
    <3> QED  BY <3>1
  <2>4. DOMAIN part.desired \subseteq Cells
    BY <2>3, PlanIsSound
  <2>5. Filled(job'.previous, DOMAIN part.desired)
    BY <1>0, <2>1, <2>4, EcCells DEF Filled, Types
  <2>6. Planned(part, ch, job'.previous)
    <3>1. DynamicPlan(part, ch, ec) => DynamicPlan(part, ch, job'.previous)
      BY <2>1 DEF DynamicPlan
    <3> QED  BY <2>3, <3>1 DEF Planned
  <2>7. Types'
    BY <1>0, <1>2, <1>5, <2>1 DEF Types
  <2>8. JobShape'
    <3>1. job'.since \in Nat /\ job'.since <= upsets'
      BY <1>0, <1>5, <2>1, BoundAssumption DEF Types
    <3>2. job'.todo \subseteq InOrder(job'.part.order, job'.written)
      BY <2>1
    <3> QED
      BY <1>5, <2>1, <2>2, <2>3, <2>5, <2>6, <3>1, <3>2 DEF JobShape, Fields, UnderWay
  <2>9. Remembered'
    <3> SUFFICES ASSUME NEW s \in shown PROVE Shows(s, Before', chosen)
      BY <1>5 DEF Remembered
    <3>1. s \in Settings /\ Agree(s, chosen, chosen)
      BY <1>0 DEF Types, Agree
    <3>2. \A c \in CellsOf[s] : Before'[c] = ec[c]
      BY <1>5, <2>1, <3>1, CellsAre DEF Before
    <3> QED  BY <1>1, <3>1, <3>2, OwnCells
  <2>10. Kept'
    BY <1>5, <2>1 DEF Kept
  <2>11. PutBack'
    BY <2>1 DEF PutBack
  <2>12. Pending'
    <3> SUFFICES ASSUME NEW c \in DOMAIN part.desired, ec[c] # part.desired[c]
                 PROVE  \E i \in job'.todo : part.order[i] = c
      BY <1>5, <2>1 DEF Pending
    <3>1. c \in ToWrite(part)
      BY DEF ToWrite
    <3>2. PICK i \in DOMAIN part.order : part.order[i] = c
      BY <2>3, PlanIsSound
    <3> QED  BY <2>1, <3>1, <3>2 DEF InOrder
  <2> QED  BY <2>7, <2>8, <2>9, <2>10, <2>11, <2>12 DEF IInv
<1> QED  BY <1>3, <1>4, <1>5 DEF Transact

LEMMA WithoutIs ==
    ASSUME JobShape, NEW i
    PROVE  LET next == Without(i) IN
           /\ DOMAIN next = Fields
           /\ next.phase = job.phase /\ next.part = job.part
           /\ next.previous = job.previous /\ next.todo = job.todo \ {i}
           /\ next.written = job.written /\ next.choice = job.choice
           /\ next.stage = job.stage /\ next.since = job.since
BY DEF JobShape, Without, Fields

LEMMA UndoingIs ==
    ASSUME JobShape
    PROVE  /\ DOMAIN Undoing = Fields
           /\ Undoing.phase = "undo" /\ Undoing.part = job.part
           /\ Undoing.previous = job.previous
           /\ Undoing.todo = InOrder(job.part.restore, job.written)
           /\ Undoing.written = job.written /\ Undoing.choice = job.choice
           /\ Undoing.stage = job.stage /\ Undoing.since = job.since
BY DEF JobShape, Undoing, Fields

\* The access that comes next is to a cell of the transaction.
LEMMA CellIs ==
    ASSUME Types, JobShape, UnderWay, NEW i \in Upcoming
    PROVE  /\ i \in job.todo /\ Cell(i) \in job.written
           /\ Cell(i) \in DOMAIN job.part.desired /\ Cell(i) \in DOMAIN job.previous
           /\ Cell(i) \in Cells
           /\ job.part.desired[Cell(i)] \in Holds[Cell(i)]
           /\ job.previous[Cell(i)] \in Holds[Cell(i)]
           /\ \A j \in job.todo : i \leq j
<1>1. i \in job.todo /\ \A j \in job.todo : i \leq j
  BY DEF Upcoming
<1>2. Cell(i) \in job.written
  BY <1>1 DEF Cell, JobShape, UnderWay, InOrder
<1>3. /\ Cell(i) \in DOMAIN job.part.desired
      /\ Filled(job.previous, DOMAIN job.part.desired)
      /\ job.choice \in Choices /\ Planned(job.part, job.choice, job.previous)
  BY <1>2 DEF JobShape
<1>4. Cell(i) \in Cells /\ job.part.desired[Cell(i)] \in Holds[Cell(i)]
  BY <1>3, PlanIsSound
<1> QED  BY <1>1, <1>2, <1>3, <1>4 DEF Filled

\* Whatever an access leaves is of the cell's type.
LEMMA PartlyIs ==
    ASSUME ec \in Ecs, NEW c \in Cells, NEW v \in Holds[c], NEW value \in Partly(c, v)
    PROVE  value \in Holds[c]
<1>1. ec[c] \in Holds[c]
  BY EcCells DEF Filled
<1>2. CASE value \in {ec[c], v}
  BY <1>1, <1>2
<1>3. CASE value \notin {ec[c], v}
  BY <1>3, HeldIn DEF Partly
<1> QED  BY <1>2, <1>3

\* A step of the transaction changes no cell but those it writes.
LEMMA RemembersBefore ==
    ASSUME Types, Remembered, UNCHANGED chosen, job'.previous = job.previous,
           shown' \subseteq shown,
           \A s \in shown' : \A c \in CellsOf[s] \ DOMAIN job.previous : ec'[c] = ec[c]
    PROVE  Remembered'
<1> SUFFICES ASSUME NEW s \in shown' PROVE Shows(s, Before', chosen)
  BY DEF Remembered
<1>1. s \in Settings /\ Agree(s, chosen, chosen) /\ Shows(s, Before, chosen)
  BY DEF Types, Agree, Remembered
<1>2. \A c \in CellsOf[s] : Before'[c] = Before[c]
  BY <1>1, CellsAre DEF Before
<1> QED  BY <1>1, <1>2, OwnCells

\* What the job holds stays while it goes on.
LEMMA JobGoesOn ==
    ASSUME Types, JobShape, UnderWay, UNCHANGED chosen,
           upsets' \in Nat, upsets <= upsets', DOMAIN job' = Fields,
           job'.phase \in {"write", "undo"}, job'.part = job.part,
           job'.previous = job.previous, job'.written = job.written,
           job'.choice = job.choice, job'.stage = job.stage, job'.since = job.since,
           job'.phase = "write" => job'.todo \subseteq InOrder(job.part.order, job.written),
           job'.phase = "undo" => job'.todo \subseteq InOrder(job.part.restore, job.written)
    PROVE  JobShape'
<1>1. job'.since \in Nat /\ job'.since <= upsets'
  <2>1. job.since \in Nat /\ job.since <= upsets /\ upsets \in Nat
    BY BoundAssumption DEF Types, JobShape
  <2> QED  BY <2>1
<1> QED  BY <1>1 DEF JobShape, Fields, UnderWay

LEMMA UndoingKeeps ==
    ASSUME IInv, job.phase = "write", job' = Undoing, ec' \in Ecs,
           upsets' \in 0 .. MaxUpsets, upsets <= upsets',
           UNCHANGED <<uses, chosen, conflict, shown>>,
           \A c \in Cells \ job.written : ec'[c] = ec[c]
    PROVE  IInv'
<1>0. Types /\ JobShape /\ Remembered /\ Kept /\ UnderWay
  BY DEF IInv, UnderWay
<1>1. /\ DOMAIN job' = Fields /\ job'.phase = "undo" /\ job'.part = job.part
      /\ job'.previous = job.previous
      /\ job'.todo = InOrder(job.part.restore, job.written)
      /\ job'.written = job.written /\ job'.choice = job.choice
      /\ job'.stage = job.stage /\ job'.since = job.since
  BY <1>0, UndoingIs
<1>2. Types'
  BY <1>0, <1>1 DEF Types
<1>3. JobShape'
  BY <1>0, <1>1, JobGoesOn, BoundAssumption
<1>4. /\ DOMAIN job.previous = DOMAIN job.part.desired
      /\ job.written \subseteq DOMAIN job.part.desired
      /\ DOMAIN job.part.desired \subseteq Cells
      /\ \A c \in DOMAIN job.part.desired :
            \E i \in DOMAIN job.part.restore : job.part.restore[i] = c
  BY <1>0, PlanIsSound DEF JobShape, Filled
<1>5. \A s \in shown : CellsOf[s] \subseteq Cells
  BY <1>0, CellsAre DEF Types
<1>6. Remembered'
  BY <1>0, <1>1, <1>4, <1>5, RemembersBefore
<1>7. Kept'
  BY <1>0, <1>1, <1>5 DEF Kept
<1>8. PutBack'
  BY <1>1, <1>4 DEF PutBack, InOrder
<1>9. Pending'
  BY <1>1 DEF Pending
<1> QED  BY <1>2, <1>3, <1>6, <1>7, <1>8, <1>9 DEF IInv

\* An access of the write loop, whatever it leaves.
LEMMA AccessKeeps ==
    ASSUME IInv, job.phase = "write", NEW i \in Upcoming, NEW v \in Holds[Cell(i)],
           ec' = [ec EXCEPT ![Cell(i)] = v], job' \in {Undoing, Without(i)},
           \/ UNCHANGED upsets /\ v = job.part.desired[Cell(i)]
           \/ Upset,
           UNCHANGED <<uses, chosen, conflict, shown>>
    PROVE  IInv'
<1>0. Types /\ JobShape /\ Remembered /\ Kept /\ Pending /\ UnderWay
  BY DEF IInv, UnderWay
<1>1. /\ i \in job.todo /\ Cell(i) \in job.written
      /\ Cell(i) \in DOMAIN job.previous /\ Cell(i) \in Cells
  BY <1>0, CellIs
<1>2. /\ ec' \in Ecs /\ ec'[Cell(i)] = v
      /\ \A c \in Cells : c # Cell(i) => ec'[c] = ec[c]
  <2>1. ec \in Ecs
    BY <1>0 DEF Types
  <2>2. ec' = Put(ec, Cell(i), v)
    BY DEF Put
  <2>3. v \in Holds[Cell(i)]
    OBVIOUS
  <2>4. \A c \in Cells : v \in Holds[c] =>
           /\ Put(ec, c, v) \in Ecs /\ Put(ec, c, v)[c] = v
           /\ \A d \in Cells : d # c => Put(ec, c, v)[d] = ec[d]
    BY <2>1, OneCell
  <2>5. Cell(i) \in Cells
    BY <1>1
  <2> QED  BY <2>2, <2>3, <2>4, <2>5
<1>3. upsets' \in 0 .. MaxUpsets /\ upsets <= upsets'
  BY <1>0, UpsetIs, BoundAssumption DEF Types
<1>4. CASE job' = Undoing
  BY <1>1, <1>2, <1>3, <1>4, UndoingKeeps
<1>5. CASE job' = Without(i)
  <2>1. /\ DOMAIN job' = Fields /\ job'.phase = "write" /\ job'.part = job.part
        /\ job'.previous = job.previous /\ job'.todo = job.todo \ {i}
        /\ job'.written = job.written /\ job'.choice = job.choice
        /\ job'.stage = job.stage /\ job'.since = job.since
    BY <1>0, <1>5, WithoutIs
  <2>2. Types'
    BY <1>0, <1>2, <1>3, <2>1 DEF Types
  <2>3. JobShape'
    <3>1. job'.todo \subseteq InOrder(job.part.order, job.written)
      BY <1>0, <2>1 DEF JobShape
    <3> QED  BY <1>0, <1>3, <2>1, <3>1, JobGoesOn, BoundAssumption
  <2>4. \A s \in shown : CellsOf[s] \subseteq Cells
    BY <1>0, CellsAre DEF Types
  <2>5. Remembered'
    BY <1>0, <1>1, <1>2, <2>1, <2>4, RemembersBefore
  <2>6. Kept'
    BY <1>0, <1>1, <1>2, <2>1, <2>4 DEF Kept
  <2>7. PutBack'
    BY <2>1 DEF PutBack
  <2>8. Pending'
    <3> SUFFICES ASSUME upsets' = job.since, NEW c \in DOMAIN job.part.desired,
                        ec'[c] # job.part.desired[c]
                 PROVE  \E j \in job.todo \ {i} : job.part.order[j] = c
      BY <2>1 DEF Pending
    <3>1. upsets = job.since /\ upsets' = upsets
      BY <1>0, <1>3, BoundAssumption DEF Types, JobShape
    <3>2. v = job.part.desired[Cell(i)]
      BY <1>0, <3>1, UpsetIs, BoundAssumption DEF Types
    <3>3. c # Cell(i) /\ Cell(i) = job.part.order[i]
      BY <1>2, <3>2 DEF Cell
    <3>4. c \in Cells
      BY <1>0, PlanIsSound DEF JobShape
    <3>5. ec[c] # job.part.desired[c]
      BY <1>2, <3>3, <3>4
    <3> QED  BY <1>0, <3>1, <3>3, <3>5 DEF Pending
  <2> QED  BY <2>2, <2>3, <2>5, <2>6, <2>7, <2>8 DEF IInv
<1> QED  BY <1>4, <1>5

LEMMA WriteKeeps == ASSUME IInv, Write PROVE IInv'
<1>1. PICK i \in Upcoming : /\ ec' = [ec EXCEPT ![Cell(i)] = job.part.desired[Cell(i)]]
                            /\ job' = Without(i)
  BY DEF Write
<1>2. /\ job.phase = "write" /\ UNCHANGED <<uses, chosen, conflict, shown, upsets>>
      /\ Types /\ JobShape /\ UnderWay
  BY DEF Write, IInv, UnderWay
<1>3. job.part.desired[Cell(i)] \in Holds[Cell(i)]
  BY <1>2, CellIs
<1> QED  BY <1>1, <1>2, <1>3, AccessKeeps

LEMMA WriteGoesWrongKeeps == ASSUME IInv, WriteGoesWrong PROVE IInv'
<1>1. PICK i \in Upcoming : /\ \E value \in Partly(Cell(i), job.part.desired[Cell(i)]) :
                                  ec' = [ec EXCEPT ![Cell(i)] = value]
                            /\ job' \in {Undoing, Without(i)}
  BY DEF WriteGoesWrong
<1>2. PICK value \in Partly(Cell(i), job.part.desired[Cell(i)]) :
          ec' = [ec EXCEPT ![Cell(i)] = value]
  BY <1>1
<1>3. /\ job.phase = "write" /\ Upset /\ UNCHANGED <<uses, chosen, conflict, shown>>
      /\ Types /\ JobShape /\ UnderWay
  BY DEF WriteGoesWrong, IInv, UnderWay
<1>4. value \in Holds[Cell(i)]
  BY <1>3, CellIs, PartlyIs DEF Types
<1> QED  BY <1>1, <1>2, <1>3, <1>4, AccessKeeps

LEMMA VerifyKeeps == ASSUME IInv, Verify PROVE IInv'
<1>0. /\ Types /\ JobShape /\ Remembered /\ Kept /\ UnderWay
      /\ job.phase = "write" /\ UNCHANGED <<uses, ec, conflict, upsets>>
  BY DEF Verify, IInv, UnderWay
<1>1. CASE \A c \in DOMAIN job.part.desired : ec[c] = job.part.desired[c]
  <2>1. PartDone(job.part, job.choice, job.stage, job.since)
    BY <1>1 DEF Verify
  <2>2. /\ job.choice \in Choices /\ job.stage \in 0 .. Len(Stages)
        /\ job.stage # 0 => job.choice = chosen
        /\ Planned(job.part, job.choice, job.previous)
        /\ AgreeBut(DOMAIN job.part.desired, job.choice, chosen)
        /\ DOMAIN job.previous = DOMAIN job.part.desired
    BY <1>0 DEF Types, JobShape, Filled
  <2>3. ASSUME NEW s \in shown
        PROVE  /\ s \in Settings /\ Shows(s, Before, chosen)
               /\ \A c \in CellsOf[s] :
                    IF c \in DOMAIN job.part.desired THEN Before[c] = job.previous[c]
                    ELSE Before[c] = ec[c]
    <3>1. s \in Settings /\ CellsOf[s] \subseteq Cells
      BY <1>0, CellsAre DEF Types
    <3> QED  BY <1>0, <2>2, <3>1 DEF Before, Remembered
  <2>4. \A s \in shown \cup ShownBy(DOMAIN job.part.desired) : Shows(s, ec, job.choice)
    BY <1>1, <2>2, <2>3, Verified
  <2> QED  BY <1>0, <2>1, <2>2, <2>4, PartDoneKeeps
<1>2. CASE ~(\A c \in DOMAIN job.part.desired : ec[c] = job.part.desired[c])
  <2>1. job' = Undoing /\ UNCHANGED <<chosen, shown>>
    BY <1>2 DEF Verify
  <2>2. ec' \in Ecs /\ upsets' \in 0 .. MaxUpsets /\ upsets <= upsets'
    BY <1>0, BoundAssumption DEF Types
  <2> QED  BY <1>0, <2>1, <2>2, UndoingKeeps
<1> QED  BY <1>1, <1>2

LEMMA VerifyFailsKeeps == ASSUME IInv, VerifyFails PROVE IInv'
<1>1. /\ Types /\ job.phase = "write" /\ Upset /\ job' = Undoing
      /\ UNCHANGED <<uses, ec, chosen, conflict, shown>>
  BY DEF VerifyFails, IInv
<1>2. ec' \in Ecs /\ upsets' \in 0 .. MaxUpsets /\ upsets <= upsets'
  BY <1>1, UpsetIs, BoundAssumption DEF Types
<1> QED  BY <1>1, <1>2, UndoingKeeps

-----------------------------------------------------------------------------
(* The undo.                                                                *)

\* Where every written cell is back, the EC shows what it did before.
LEMMA UndoneShows ==
    ASSUME Types, JobShape, Remembered, Kept, UnderWay, NEW s \in shown,
           \A c \in CellsOf[s] \cap job.written : ec'[c] = job.previous[c],
           \A c \in CellsOf[s] \ job.written : ec'[c] = ec[c]
    PROVE  Shows(s, ec', chosen)
<1>1. s \in Settings /\ Agree(s, chosen, chosen) /\ Shows(s, Before, chosen)
  BY DEF Types, Agree, Remembered
<1>2. job.written \subseteq DOMAIN job.previous
  BY DEF JobShape, Filled
<1>3. \A c \in CellsOf[s] : Before[c] = ec'[c]
  BY <1>1, <1>2, CellsAre DEF Before, Kept
<1> QED  BY <1>1, <1>3, OwnCells

\* An access of the undo: the settings that stay shown get their cell back, or
\* have no written cell.
LEMMA UndoAccessKeeps ==
    ASSUME IInv, job.phase = "undo", NEW i \in Upcoming, NEW v \in Holds[Cell(i)],
           ec' = [ec EXCEPT ![Cell(i)] = v], job' \in {NoJob, Undone(i)},
           upsets' \in 0 .. MaxUpsets, upsets <= upsets', shown' \subseteq shown,
           \A s \in shown' : \/ CellsOf[s] \cap job.written = {}
                             \/ v = job.previous[Cell(i)] /\ job' = Undone(i),
           UNCHANGED <<uses, chosen, conflict>>
    PROVE  IInv'
<1>0. Types /\ JobShape /\ Remembered /\ Kept /\ PutBack /\ UnderWay
  BY DEF IInv, UnderWay
<1>1. /\ i \in job.todo /\ Cell(i) \in job.written
      /\ Cell(i) \in DOMAIN job.previous /\ Cell(i) \in Cells
      /\ Cell(i) = job.part.restore[i]
  BY <1>0, CellIs DEF Cell
<1>2. /\ ec' \in Ecs /\ ec'[Cell(i)] = v
      /\ \A c \in Cells : c # Cell(i) => ec'[c] = ec[c]
  <2>1. ec' = Put(ec, Cell(i), v)
    BY DEF Put
  <2>2. v \in Holds[Cell(i)]
    OBVIOUS
  <2>3. ec \in Ecs
    BY <1>0 DEF Types
  <2>4. \A c \in Cells : v \in Holds[c] =>
           /\ Put(ec, c, v) \in Ecs /\ Put(ec, c, v)[c] = v
           /\ \A d \in Cells : d # c => Put(ec, c, v)[d] = ec[d]
    BY <2>3, OneCell
  <2>5. Cell(i) \in Cells
    BY <1>1
  <2> QED  BY <2>1, <2>2, <2>4, <2>5
<1>3. \A s \in shown : s \in Settings /\ CellsOf[s] \subseteq Cells
  BY <1>0, CellsAre DEF Types
<1>4. CASE job' = NoJob
  <2>1. Types'
    BY <1>0, <1>2, <1>4, NoJobIs, StagesAre DEF Types
  <2>2. ASSUME NEW s \in shown' PROVE Shows(s, ec', chosen)
    <3>1. s \in shown
      OBVIOUS
    <3>2. \A c \in CellsOf[s] \ job.written : ec'[c] = ec[c]
      BY <1>1, <1>2, <1>3, <3>1
    <3>3. ASSUME NEW c \in CellsOf[s] \cap job.written PROVE ec'[c] = job.previous[c]
      <4>1. v = job.previous[Cell(i)] /\ job' = Undone(i)
        BY <3>3
      <4>2. job.todo = {i}
        <5>1. ASSUME job.todo # {i} PROVE FALSE
          <6>1. Without(i).phase = "undo"
            BY <1>0, WithoutIs
          <6> QED  BY <1>4, <4>1, <5>1, <6>1, NoJobIs DEF Undone
        <5> QED  BY <5>1
      <4>3. ec[c] = job.previous[c] \/ c = Cell(i)
        BY <1>0, <1>1, <3>1, <4>2 DEF PutBack
      <4> QED  BY <1>2, <1>3, <3>1, <4>1, <4>3
    <3> QED  BY <1>0, <3>1, <3>2, <3>3, UndoneShows
  <2> QED  BY <1>4, <2>1, <2>2, RestKeeps
<1>5. CASE job' # NoJob
  <2>0. job' = Without(i)
    BY <1>5 DEF Undone
  <2>1. /\ DOMAIN job' = Fields /\ job'.phase = "undo" /\ job'.part = job.part
        /\ job'.previous = job.previous /\ job'.todo = job.todo \ {i}
        /\ job'.written = job.written /\ job'.choice = job.choice
        /\ job'.stage = job.stage /\ job'.since = job.since
    BY <1>0, <2>0, WithoutIs
  <2>2. Types'
    BY <1>0, <1>2, <2>1 DEF Types
  <2>3. JobShape'
    <3>1. job'.todo \subseteq InOrder(job.part.restore, job.written)
      BY <1>0, <2>1 DEF JobShape
    <3> QED  BY <1>0, <2>1, <3>1, JobGoesOn, BoundAssumption
  <2>4. Remembered'
    BY <1>0, <1>1, <1>2, <1>3, <2>1, RemembersBefore
  <2>5. Kept'
    BY <1>0, <1>1, <1>2, <1>3, <2>1 DEF Kept
  <2>6. PutBack'
    <3> SUFFICES ASSUME NEW s \in shown', NEW c \in CellsOf[s] \cap job.written,
                        ec'[c] # job.previous[c]
                 PROVE  \E j \in job.todo \ {i} : job.part.restore[j] = c
      BY <2>1 DEF PutBack
    <3>1. v = job.previous[Cell(i)] /\ s \in shown /\ c \in Cells
      BY <1>3
    <3>2. c # Cell(i) /\ ec[c] # job.previous[c]
      BY <1>2, <3>1
    <3> QED  BY <1>0, <1>1, <3>1, <3>2 DEF PutBack
  <2>7. Pending'
    BY <2>1 DEF Pending
  <2> QED  BY <2>2, <2>3, <2>4, <2>5, <2>6, <2>7 DEF IInv
<1> QED  BY <1>4, <1>5

LEMMA UndoKeeps == ASSUME IInv, Undo PROVE IInv'
<1>1. PICK i \in Upcoming : /\ ec' = [ec EXCEPT ![Cell(i)] = job.previous[Cell(i)]]
                            /\ job' = Undone(i)
  BY DEF Undo
<1>2. /\ job.phase = "undo" /\ UNCHANGED <<uses, chosen, conflict, shown, upsets>>
      /\ Types /\ JobShape /\ UnderWay
  BY DEF Undo, IInv, UnderWay
<1>3. job.previous[Cell(i)] \in Holds[Cell(i)]
  BY <1>2, CellIs
<1>4. upsets' \in 0 .. MaxUpsets /\ upsets <= upsets'
  BY <1>2, BoundAssumption DEF Types
<1> QED  BY <1>1, <1>2, <1>3, <1>4, UndoAccessKeeps

LEMMA UndoGoesWrongKeeps == ASSUME IInv, UndoGoesWrong PROVE IInv'
<1>1. PICK i \in Upcoming : /\ \E value \in Partly(Cell(i), job.previous[Cell(i)]) :
                                  ec' = [ec EXCEPT ![Cell(i)] = value]
                            /\ job' \in {NoJob, Undone(i)}
  BY DEF UndoGoesWrong
<1>2. PICK value \in Partly(Cell(i), job.previous[Cell(i)]) :
          ec' = [ec EXCEPT ![Cell(i)] = value]
  BY <1>1
<1>3. /\ job.phase = "undo" /\ Upset /\ UNCHANGED <<uses, chosen, conflict>>
      /\ shown' = shown \ Disturbed(job.written)
      /\ Types /\ JobShape /\ UnderWay
  BY DEF UndoGoesWrong, IInv, UnderWay
<1>4. value \in Holds[Cell(i)]
  BY <1>3, CellIs, PartlyIs DEF Types
<1>5. upsets' \in 0 .. MaxUpsets /\ upsets <= upsets'
  BY <1>3, UpsetIs, BoundAssumption DEF Types
<1>6. shown' \subseteq shown /\ \A s \in shown' : CellsOf[s] \cap job.written = {}
  BY <1>3 DEF Disturbed, Types
<1>7. \A s \in shown' : \/ CellsOf[s] \cap job.written = {}
                        \/ value = job.previous[Cell(i)] /\ job' = Undone(i)
  BY <1>6
<1>8. job.phase = "undo" /\ UNCHANGED <<uses, chosen, conflict>>
  BY <1>3
<1> HIDE DEF Upcoming, Partly
<1> QED  BY <1>1, <1>2, <1>4, <1>5, <1>6, <1>7, <1>8, UndoAccessKeeps

-----------------------------------------------------------------------------
(* The requests: each one plans what it will remember.                      *)

LEMMA IdleIs == ASSUME IInv, Idle PROVE ~UnderWay /\ Types
BY DEF Idle, UnderWay, IInv

LEMMA ApplyIsPlanned ==
    ASSUME Types, NEW duty \in Duties
    PROVE  LET part == apply_duties(duty)
               ch == [chosen EXCEPT !.duties = duty, !.boost = FALSE]
           IN  /\ ch \in Choices
               /\ Planned(part, ch, ec) /\ AgreeBut(DOMAIN part.desired, ch, chosen)
<1> DEFINE part == apply_duties(duty)
           ch == [chosen EXCEPT !.duties = duty, !.boost = FALSE]
<1>1. /\ ch.duties = duty /\ ch.boost = FALSE
      /\ ch.offset = chosen.offset /\ ch.dynamic = chosen.dynamic
      /\ ch.lightbar = chosen.lightbar
      /\ ch \in Choices
  BY DEF Types, Choices
<1>2. duty # None
  BY NoneAssumption
<1>3. FansPlan(part, ch)
  BY <1>1, <1>2 DEF FansPlan
<1>4. "fans" \in ShownBy(DOMAIN part.desired)
  BY ApplyFields, KeysAre DEF ShownBy, Settings
<1>5. AgreeBut(DOMAIN part.desired, ch, chosen)
  BY <1>1, <1>4 DEF AgreeBut, Agree
<1> QED  BY <1>1, <1>3, <1>5 DEF Planned

LEMMA ApplyManualKeeps ==
    ASSUME IInv, NEW duty \in Duties, ApplyManual(duty) PROVE IInv'
<1> DEFINE part == apply_duties(duty)
           ch == [chosen EXCEPT !.duties = duty, !.boost = FALSE]
<1>1. Types /\ ~UnderWay /\ Transact(part, ch, 0)
  BY IdleIs DEF ApplyManual
<1>2. /\ ch \in Choices
      /\ Planned(part, ch, ec) /\ AgreeBut(DOMAIN part.desired, ch, chosen)
  BY <1>1, ApplyIsPlanned
<1> HIDE DEF part, ch
<1>3. 0 \in 0 .. Len(Stages)
  BY StagesAre
<1> QED  BY <1>1, <1>2, <1>3, TransactKeeps

LEMMA BoostOffKeeps == ASSUME IInv, BoostOff PROVE IInv'
<1> DEFINE duty == IF chosen.duties = None THEN Full ELSE chosen.duties
           part == apply_duties(duty)
           ch == [chosen EXCEPT !.duties = duty, !.boost = FALSE]
<1>1. Types /\ ~UnderWay /\ Transact(part, ch, 0)
  BY IdleIs DEF BoostOff
<1>2. duty \in Duties
  BY <1>1, DutiesAssumption DEF Types, Choices
<1> HIDE DEF duty
<1>3. /\ ch \in Choices
      /\ Planned(part, ch, ec) /\ AgreeBut(DOMAIN part.desired, ch, chosen)
  BY <1>1, <1>2, ApplyIsPlanned
<1> HIDE DEF part, ch
<1>4. 0 \in 0 .. Len(Stages)
  BY StagesAre
<1> QED  BY <1>1, <1>3, <1>4, TransactKeeps

LEMMA BoostOnKeeps == ASSUME IInv, BoostOn PROVE IInv'
<1> DEFINE ch == [chosen EXCEPT !.boost = TRUE]
<1>1. Types /\ ~UnderWay /\ Transact(set_boost, ch, 0)
  BY IdleIs DEF BoostOn
<1>2. /\ ch.boost = TRUE /\ ch.offset = chosen.offset /\ ch.dynamic = chosen.dynamic
      /\ ch.lightbar = chosen.lightbar
      /\ ch \in Choices
  BY <1>1 DEF Types, Choices
<1> HIDE DEF ch
<1>3. Planned(set_boost, ch, ec)
  BY <1>2 DEF Planned, BoostPlan
<1>4. "fans" \in ShownBy(DOMAIN set_boost.desired)
  BY BoostFields, KeysAre DEF ShownBy, Settings
<1>5. AgreeBut(DOMAIN set_boost.desired, ch, chosen)
  BY <1>2, <1>4 DEF AgreeBut, Agree
<1>6. 0 \in 0 .. Len(Stages)
  BY StagesAre
<1> QED  BY <1>1, <1>2, <1>3, <1>5, <1>6, TransactKeeps

LEMMA OffsetIsPlanned ==
    ASSUME Types, NEW watts \in 0 .. MaxOffset, NEW ch \in Choices,
           ch.offset = watts, \A s \in Settings \ {"offset"} : Agree(s, ch, chosen)
    PROVE  LET part == write_ctgp_offset(watts, chosen.dynamic) IN
           Planned(part, ch, ec) /\ AgreeBut(DOMAIN part.desired, ch, chosen)
<1> DEFINE on == ec.ctgp_control \cup {"general", "offset", "dynamic"}
           control == IF chosen.dynamic = FALSE THEN on \ {"dynamic"} ELSE on
           desired == [ctgp_offset |-> watts, ctgp_control |-> control]
           part == write_ctgp_offset(watts, chosen.dynamic)
<1>1. part = Ctgp(desired) /\ part.desired = desired
  BY CtgpFields DEF write_ctgp_offset
<1>2. /\ DOMAIN desired = {"ctgp_offset", "ctgp_control"}
      /\ desired.ctgp_offset = watts /\ desired.ctgp_control = control
  OBVIOUS
<1>3. ec.ctgp_control \subseteq CtgpBits
  BY DEF Types, Ecs
<1>4. control \subseteq CtgpBits /\ {"general", "offset"} \subseteq control
  BY <1>3 DEF CtgpBits
<1>5. ch.dynamic = chosen.dynamic /\ ch.dynamic \in BOOLEAN \cup {None}
  BY DEF Settings, Agree, Choices
<1>6. ch.dynamic # None => (ch.dynamic = TRUE <=> {"general", "dynamic"} \subseteq control)
  <2>1. CASE ch.dynamic = FALSE
    BY <1>5, <2>1
  <2>2. CASE ch.dynamic # FALSE
    BY <1>5, <2>2
  <2> QED  BY <2>1, <2>2
<1>7. watts # None
  BY NoneAssumption
<1> HIDE DEF desired, control, part
<1>8. OffsetPlan(part, ch)
  BY <1>1, <1>2, <1>4, <1>6, <1>7 DEF OffsetPlan, OffsetIn, DynamicIn
<1>9. "offset" \in ShownBy(DOMAIN part.desired)
  BY <1>1, <1>2, KeysAre DEF ShownBy, Settings
<1>10. AgreeBut(DOMAIN part.desired, ch, chosen)
  BY <1>9 DEF AgreeBut
<1> QED  BY <1>8, <1>10 DEF Planned, part

LEMMA DynamicIsPlanned ==
    ASSUME Types, NEW enabled \in BOOLEAN, NEW ch \in Choices,
           ch.dynamic = enabled, \A s \in Settings \ {"dynamic"} : Agree(s, ch, chosen)
    PROVE  LET part == write_dynamic_boost(enabled) IN
           Planned(part, ch, ec) /\ AgreeBut(DOMAIN part.desired, ch, chosen)
<1> DEFINE off == ec.ctgp_control \ {"dynamic"}
           control == IF enabled THEN off \cup {"general", "dynamic"}
                      ELSE IF "offset" \in off THEN off ELSE off \ {"general"}
           desired == [ctgp_control |-> control]
           part == write_dynamic_boost(enabled)
<1>1. part = Ctgp(desired) /\ part.desired = desired
  BY CtgpFields DEF write_dynamic_boost
<1>2. DOMAIN desired = {"ctgp_control"} /\ desired.ctgp_control = control
  OBVIOUS
<1>3. ec.ctgp_control \subseteq CtgpBits
  BY DEF Types, Ecs
<1>4. /\ control \subseteq CtgpBits
      /\ {"general", "offset"} \subseteq ec.ctgp_control
           => {"general", "offset"} \subseteq control
  BY <1>3 DEF CtgpBits
<1>5. enabled = TRUE <=> {"general", "dynamic"} \subseteq control
  <2>1. CASE enabled = TRUE
    BY <2>1
  <2>2. CASE enabled = FALSE
    BY <2>2
  <2> QED  BY <2>1, <2>2
<1> HIDE DEF desired, control, part
<1>6. DynamicPlan(part, ch, ec)
  BY <1>1, <1>2, <1>4, <1>5 DEF DynamicPlan, DynamicIn
<1>7. "dynamic" \in ShownBy(DOMAIN part.desired)
  BY <1>1, <1>2, KeysAre DEF ShownBy, Settings
<1>8. AgreeBut(DOMAIN part.desired, ch, chosen)
  BY <1>7 DEF AgreeBut
<1> QED  BY <1>6, <1>8 DEF Planned, part

LEMMA LightIsPlanned ==
    ASSUME Types, NEW light \in Lights, NEW force \in BOOLEAN, NEW ch \in Choices,
           ch.lightbar = light, \A s \in Settings \ {"lightbar"} : Agree(s, ch, chosen)
    PROVE  LET part == write_lightbar(light, force) IN
           Planned(part, ch, ec) /\ AgreeBut(DOMAIN part.desired, ch, chosen)
<1> DEFINE part == write_lightbar(light, force)
<1>1. light # None
  BY NoneAssumption
<1>2. LightPlan(part, ch)
  BY <1>1 DEF LightPlan
<1>3. "rainbow" \in DOMAIN part.desired
  BY LightFields
<1> HIDE DEF part
<1>4. "lightbar" \in ShownBy(DOMAIN part.desired)
  BY <1>3, KeysAre DEF ShownBy, Settings
<1>5. AgreeBut(DOMAIN part.desired, ch, chosen)
  BY <1>4 DEF AgreeBut
<1> QED  BY <1>2, <1>5 DEF Planned, part

LEMMA SetGpuPowerOffsetKeeps ==
    ASSUME IInv, NEW watts \in Watts, SetGpuPowerOffset(watts) PROVE IInv'
<1> DEFINE part == write_ctgp_offset(watts, chosen.dynamic)
           ch == [chosen EXCEPT !.offset = watts]
<1>1. Types /\ ~UnderWay /\ Transact(part, ch, 0) /\ watts \leq MaxOffset
  BY IdleIs DEF SetGpuPowerOffset
<1>2. watts \in 0 .. MaxOffset
  BY <1>1, WattsAssumption
<1>3. /\ ch.offset = watts /\ ch \in Choices
      /\ ch.duties = chosen.duties /\ ch.boost = chosen.boost
      /\ ch.dynamic = chosen.dynamic /\ ch.lightbar = chosen.lightbar
  BY <1>1, <1>2 DEF Types, Choices
<1> HIDE DEF part, ch
<1>4. \A s \in Settings \ {"offset"} : Agree(s, ch, chosen)
  BY <1>3 DEF Agree
<1>5. Planned(part, ch, ec) /\ AgreeBut(DOMAIN part.desired, ch, chosen)
  BY <1>1, <1>2, <1>3, <1>4, OffsetIsPlanned DEF part
<1>6. 0 \in 0 .. Len(Stages)
  BY StagesAre
<1> QED  BY <1>1, <1>3, <1>5, <1>6, TransactKeeps

LEMMA SetDynamicBoostKeeps ==
    ASSUME IInv, NEW enabled \in BOOLEAN, SetDynamicBoost(enabled) PROVE IInv'
<1> DEFINE part == write_dynamic_boost(enabled)
           ch == [chosen EXCEPT !.dynamic = enabled]
<1>1. Types /\ ~UnderWay /\ Transact(part, ch, 0)
  BY IdleIs DEF SetDynamicBoost
<1>2. /\ ch.dynamic = enabled /\ ch \in Choices
      /\ ch.duties = chosen.duties /\ ch.boost = chosen.boost
      /\ ch.offset = chosen.offset /\ ch.lightbar = chosen.lightbar
  BY <1>1 DEF Types, Choices
<1> HIDE DEF part, ch
<1>3. \A s \in Settings \ {"dynamic"} : Agree(s, ch, chosen)
  BY <1>2 DEF Agree
<1>4. Planned(part, ch, ec) /\ AgreeBut(DOMAIN part.desired, ch, chosen)
  BY <1>1, <1>2, <1>3, DynamicIsPlanned DEF part
<1>5. 0 \in 0 .. Len(Stages)
  BY StagesAre
<1> QED  BY <1>1, <1>2, <1>4, <1>5, TransactKeeps

LEMMA SetLightbarKeeps ==
    ASSUME IInv, NEW light \in Lights, SetLightbar(light) PROVE IInv'
<1> DEFINE part == write_lightbar(light, TRUE)
           ch == [chosen EXCEPT !.lightbar = light]
<1>1. Types /\ ~UnderWay /\ Transact(part, ch, 0)
  BY IdleIs DEF SetLightbar
<1>2. /\ ch.lightbar = light /\ ch \in Choices
      /\ ch.duties = chosen.duties /\ ch.boost = chosen.boost
      /\ ch.offset = chosen.offset /\ ch.dynamic = chosen.dynamic
  BY <1>1 DEF Types, Choices
<1> HIDE DEF part, ch
<1>3. \A s \in Settings \ {"lightbar"} : Agree(s, ch, chosen)
  BY <1>2 DEF Agree
<1>4. Planned(part, ch, ec) /\ AgreeBut(DOMAIN part.desired, ch, chosen)
  BY <1>1, <1>2, <1>3, LightIsPlanned DEF part
<1>5. 0 \in 0 .. Len(Stages)
  BY StagesAre
<1> QED  BY <1>1, <1>2, <1>4, <1>5, TransactKeeps

-----------------------------------------------------------------------------
(* Maintenance.                                                             *)

LEMMA MaintainKeeps == ASSUME IInv, Maintain PROVE IInv'
<1>1. /\ Types /\ JobShape /\ Remembered /\ ~UnderWay
      /\ job' = AfterStage(0) /\ UNCHANGED <<uses, ec, chosen, conflict, shown, upsets>>
  BY IdleIs DEF Maintain, IInv
<1>2. 0 \in 0 .. Len(Stages)
  BY StagesAre
<1>3. job'.phase \in {"idle", "maintain"} /\ job'.stage \in 0 .. Len(Stages)
  BY <1>1, <1>2, AfterStageIs
<1>4. Types'
  BY <1>1, <1>3 DEF Types
<1>5. \A s \in shown : Shows(s, ec, chosen)
  BY <1>1, Settled
<1> QED  BY <1>1, <1>2, <1>4, <1>5, RestKeeps

LEMMA MaintenanceSkipsKeeps == ASSUME IInv, MaintenanceSkips PROVE IInv'
<1>1. /\ Types /\ JobShape /\ Remembered /\ ~UnderWay
      /\ job' = AfterStage(job.stage)
      /\ UNCHANGED <<uses, ec, chosen, conflict, shown, upsets>>
  BY DEF MaintenanceSkips, IInv, UnderWay
<1>2. job.stage \in 0 .. Len(Stages)
  BY <1>1 DEF Types
<1>3. job'.phase \in {"idle", "maintain"} /\ job'.stage \in 0 .. Len(Stages)
  BY <1>1, <1>2, AfterStageIs
<1>4. Types'
  BY <1>1, <1>3 DEF Types
<1>5. \A s \in shown : Shows(s, ec, chosen)
  BY <1>1, Settled
<1> QED  BY <1>1, <1>2, <1>4, <1>5, RestKeeps

\* Every stage plans what is remembered, or nothing.
LEMMA MaintenanceIsPlanned ==
    ASSUME Types, NEW s \in Settings, Wanted(s), NEW refresh \in BOOLEAN
    PROVE  LET part == MaintenancePart(s, refresh) IN
           part = Nothing \/ Planned(part, chosen, ec)
<1> DEFINE part == MaintenancePart(s, refresh)
<1>0. chosen \in Choices /\ \A r \in Settings : Agree(r, chosen, chosen)
  BY DEF Types, Agree
<1>1. CASE s = "fans"
  <2>1. part = IF chosen.boost THEN set_boost ELSE apply_duties(chosen.duties)
    BY <1>1 DEF MaintenancePart
  <2>2. CASE chosen.boost
    BY <2>1, <2>2 DEF Planned, BoostPlan
  <2>3. CASE ~chosen.boost
    <3>1. chosen.duties # None
      BY <1>1, <2>3 DEF Wanted
    <3> QED  BY <2>1, <2>3, <3>1 DEF Planned, FansPlan
  <2> QED  BY <2>2, <2>3
<1>2. CASE s = "offset"
  <2>1. chosen.offset \in 0 .. MaxOffset
    BY <1>0, <1>2 DEF Wanted, Choices
  <2>2. part = Nothing \/ part = write_ctgp_offset(chosen.offset, chosen.dynamic)
    BY <1>2 DEF MaintenancePart
  <2>3. Planned(write_ctgp_offset(chosen.offset, chosen.dynamic), chosen, ec)
    BY <1>0, <2>1, OffsetIsPlanned
  <2> QED  BY <2>2, <2>3
<1>3. CASE s = "dynamic"
  <2>1. chosen.dynamic \in BOOLEAN
    BY <1>0, <1>3 DEF Wanted, Choices
  <2>2. part = Nothing \/ part = write_dynamic_boost(chosen.dynamic)
    BY <1>3 DEF MaintenancePart
  <2>3. Planned(write_dynamic_boost(chosen.dynamic), chosen, ec)
    BY <1>0, <2>1, DynamicIsPlanned
  <2> QED  BY <2>2, <2>3
<1>4. CASE s = "lightbar"
  <2>1. chosen.lightbar \in Lights
    BY <1>0, <1>4 DEF Wanted, Choices
  <2>2. part = write_lightbar(chosen.lightbar, refresh)
    BY <1>4 DEF MaintenancePart
  <2>3. Planned(write_lightbar(chosen.lightbar, refresh), chosen, ec)
    BY <1>0, <2>1, LightIsPlanned
  <2> QED  BY <2>2, <2>3
<1> QED  BY <1>1, <1>2, <1>3, <1>4 DEF Settings

LEMMA MaintenanceChecksKeeps == ASSUME IInv, MaintenanceChecks PROVE IInv'
<1> DEFINE s == Stages[job.stage]
<1>1. PICK refresh \in BOOLEAN : Transact(MaintenancePart(s, refresh), chosen, job.stage)
  BY DEF MaintenanceChecks
<1>2. /\ Types /\ JobShape /\ ~UnderWay /\ job.phase = "maintain" /\ Wanted(s)
  BY DEF MaintenanceChecks, IInv, UnderWay
<1>3. /\ job.stage \in 0 .. Len(Stages) /\ job.stage # 0
      /\ chosen \in Choices
  BY <1>2 DEF Types, JobShape
<1>4. s \in Settings
  <2>1. job.stage \in 1 .. 4
    BY <1>3, StagesAre
  <2> QED  BY <2>1 DEF Stages, Settings
<1> HIDE DEF s
<1> DEFINE part == MaintenancePart(s, refresh)
<1>5. part = Nothing \/ Planned(part, chosen, ec)
  BY <1>2, <1>4, MaintenanceIsPlanned
<1>6. Transact(part, chosen, job.stage)
  BY <1>1
<1> HIDE DEF part
<1>7. AgreeBut(DOMAIN part.desired, chosen, chosen)
  BY DEF AgreeBut, Agree
<1> QED  BY <1>2, <1>3, <1>5, <1>6, <1>7, TransactKeeps

-----------------------------------------------------------------------------
(* The world.                                                               *)

LEMMA PowerOnIs == PowerOn \in Ecs
BY WattsAssumption DEF PowerOn, Ecs, CtgpBits

LEMMA DriftKeeps == ASSUME IInv, Drift PROVE IInv'
<1>1. PICK D \in {{c} : c \in Cells} \cup {Cells} :
          /\ ec' = [c \in Cells |-> IF c \in D THEN PowerOn[c] ELSE ec[c]]
          /\ shown' = shown \ Disturbed(D)
  BY DEF Drift
<1>2. /\ Types /\ JobShape /\ Remembered /\ Kept /\ PutBack
      /\ UNCHANGED <<uses, chosen, job, conflict>>
      /\ upsets' \in 0 .. MaxUpsets /\ upsets < upsets' /\ upsets \in Nat /\ upsets' \in Nat
  BY UpsetIs, BoundAssumption DEF Drift, IInv, Types
<1>3. \A s \in shown' :
          /\ s \in shown /\ s \in Settings /\ CellsOf[s] \subseteq Cells
          /\ \A c \in CellsOf[s] : ec'[c] = ec[c]
  BY <1>1, <1>2, CellsAre DEF Disturbed, Types
<1>4. ec' \in Ecs
  <2>1. \A c \in Cells : PowerOn[c] \in Holds[c] /\ ec[c] \in Holds[c]
    BY <1>2, PowerOnIs, EcCells DEF Filled, Types
  <2>2. Filled(ec', Cells)
    BY <1>1, <2>1 DEF Filled
  <2>3. ec' = [c \in Cells |-> ec'[c]]
    BY <1>1
  <2> QED  BY <2>2, <2>3, EcCells
<1>5. Types'
  BY <1>2, <1>3, <1>4 DEF Types
<1>6. JobShape'
  <2>1. UnderWay => job.since \in Nat /\ job.since <= upsets'
    BY <1>2 DEF JobShape
  <2> QED  BY <1>2, <2>1 DEF JobShape, UnderWay
<1>7. Remembered'
  BY <1>2, <1>3, RemembersBefore
<1>8. Kept'
  BY <1>2, <1>3 DEF Kept
<1>9. PutBack'
  BY <1>2, <1>3 DEF PutBack
<1>10. Pending'
  <2>1. job.phase = "write" => job.since \in Nat /\ job.since <= upsets
    BY <1>2 DEF JobShape, UnderWay
  <2> QED  BY <1>2, <2>1 DEF Pending
<1> QED  BY <1>5, <1>6, <1>7, <1>8, <1>9, <1>10 DEF IInv

LEMMA KilledKeeps == ASSUME IInv, KilledAndRestarted PROVE IInv'
<1>1. /\ Types /\ Upset /\ job' = NoJob /\ shown' = {} /\ chosen' \in Saved
      /\ UNCHANGED <<uses, conflict>>
      /\ ec' = ec \/ ec' = [ec EXCEPT !.tables = "torn"]
  BY DEF KilledAndRestarted, IInv
<1>2. upsets' \in 0 .. MaxUpsets
  BY <1>1, UpsetIs
<1>3. ec' \in Ecs
  BY <1>1 DEF Types, Ecs
<1>4. chosen' \in Choices
  BY <1>1, SavedIsTyped
<1>5. Types'
  BY <1>1, <1>2, <1>3, <1>4, NoJobIs, StagesAre DEF Types
<1> QED  BY <1>1, <1>5, RestKeeps

LEMMA TccdKeeps == ASSUME IInv, TccdChanges PROVE IInv'
<1>1. UNCHANGED <<uses, ec, chosen, job, shown, upsets>> /\ conflict' = ~conflict
  BY DEF TccdChanges
<1>2. Types'
  <2>1. conflict' \in BOOLEAN
    BY <1>1
  <2> QED  BY <1>1, <2>1 DEF Types, IInv
<1>3. JobShape' /\ Remembered' /\ Kept' /\ PutBack' /\ Pending'
  BY <1>1 DEF IInv, JobShape, Remembered, Kept, PutBack, Pending, UnderWay, Before
<1> QED  BY <1>2, <1>3 DEF IInv

LEMMA StutterKeeps == ASSUME IInv, UNCHANGED vars PROVE IInv'
BY DEF vars, IInv, Types, JobShape, Remembered, Kept, PutBack, Pending, UnderWay, Before

LEMMA NextKeeps == ASSUME IInv, [Next]_vars PROVE IInv'
<1>1. CASE Request
  BY <1>1, ApplyManualKeeps, BoostOnKeeps, BoostOffKeeps, SetGpuPowerOffsetKeeps,
     SetDynamicBoostKeeps, SetLightbarKeeps DEF Request
<1>2. CASE JobStep
  BY <1>2, WriteKeeps, WriteGoesWrongKeeps, VerifyKeeps, VerifyFailsKeeps, UndoKeeps,
     UndoGoesWrongKeeps, MaintenanceSkipsKeeps, MaintenanceChecksKeeps DEF JobStep
<1>3. CASE Maintain \/ Drift \/ KilledAndRestarted \/ TccdChanges
  BY <1>3, MaintainKeeps, DriftKeeps, KilledKeeps, TccdKeeps
<1>4. CASE UNCHANGED vars
  BY <1>4, StutterKeeps
<1> QED  BY <1>1, <1>2, <1>3, <1>4 DEF Next

-----------------------------------------------------------------------------
(* What the service promises.                                               *)

\* One transaction at a time under _operation_lock, through write, verify and
\* undo: the invariant holds in every state (linux_ec.py:290-331).
THEOREM Invariant == Spec => []IInv
<1>1. Init => IInv
  BY InitHolds
<1>2. IInv /\ [Next]_vars => IInv'
  BY NextKeeps
<1> QED  BY <1>1, <1>2, PTL DEF Spec

\* No cell ever holds a value that nobody could have put there, and no choice
\* is remembered that was not asked for (linux_fan_service.py:102-110).
THEOREM TypeCorrect == Spec => []TypeOK
<1>1. IInv => TypeOK
  BY DEF IInv, Types, TypeOK, Ecs, Choices
<1> QED  BY <1>1, Invariant, PTL

LEMMA IdleShows ==
    ASSUME IInv, Idle
    PROVE  \A s \in shown : Shows(s, ec, chosen)
BY IdleIs, Settled DEF IInv

\* Between transactions the fans run as remembered, also after a transaction
\* that failed half-way and was undone (linux_ec.py:311-330).
THEOREM FansFollow == Spec => []FansAsChosen
<1>1. ASSUME IInv PROVE FansAsChosen
  <2> SUFFICES ASSUME Idle, "fans" \in shown PROVE FansShow
    BY DEF FansAsChosen
  <2>1. FansIn(ec, chosen)
    BY <1>1, IdleShows DEF Shows
  <2> QED  BY <2>1 DEF FansIn, FansShow
<1> QED  BY <1>1, Invariant, PTL

\* The two GPU choices share a control byte and neither request undoes the
\* other (linux_ec.py:448-485).
THEOREM GpuFollows == Spec => []GpuAsChosen
<1>1. ASSUME IInv PROVE GpuAsChosen
  <2> SUFFICES ASSUME Idle PROVE
        /\ "offset" \in shown =>
              /\ OffsetShows
              /\ chosen.offset # None => {"general", "offset"} \subseteq ec.ctgp_control
        /\ "dynamic" \in shown => DynamicShows
    BY DEF GpuAsChosen
  <2>1. "offset" \in shown => OffsetIn(ec, chosen)
    BY <1>1, IdleShows DEF Shows
  <2>2. "dynamic" \in shown => DynamicIn(ec, chosen)
    BY <1>1, IdleShows DEF Shows
  <2>3. chosen.dynamic \in BOOLEAN \cup {None}
    BY <1>1 DEF IInv, Types, Choices
  <2>4. DynamicIn(ec, chosen) => DynamicShows
    <3>1. CASE chosen.dynamic = None
      BY <3>1 DEF DynamicShows
    <3>2. CASE chosen.dynamic = TRUE
      BY <3>2 DEF DynamicIn, DynamicShows, dynamic_boost_enabled
    <3>3. CASE chosen.dynamic = FALSE
      BY <3>3 DEF DynamicIn, DynamicShows, dynamic_boost_enabled
    <3> QED  BY <2>3, <3>1, <3>2, <3>3
  <2> QED  BY <2>1, <2>2, <2>4 DEF OffsetIn, OffsetShows
<1> QED  BY <1>1, Invariant, PTL

\* The two lightbar bytes show the one mode that is remembered
\* (linux_ec.py:497-515).
THEOREM LightbarFollows == Spec => []LightbarAsChosen
<1>1. ASSUME IInv PROVE LightbarAsChosen
  <2> SUFFICES ASSUME Idle, "lightbar" \in shown PROVE LightbarShows
    BY DEF LightbarAsChosen
  <2>1. LightbarIn(ec, chosen)
    BY <1>1, IdleShows DEF Shows
  <2>2. ec.rainbow \in BOOLEAN
    BY <1>1 DEF IInv, Types, Ecs
  <2> QED  BY <2>1, <2>2 DEF LightbarIn, LightbarShows
<1> QED  BY <1>1, Invariant, PTL

\* In a plan that leaves Boost the tables have their turn before the mode.
LEMMA TablesFirst ==
    ASSUME IInv, job.phase = "write", upsets = job.since, NEW i \in Upcoming,
           job.part.order[i] = "fan_mode",
           "user_high" \in Partly("fan_mode", job.part.desired["fan_mode"]),
           ec["fan_mode"] = "boost"
    PROVE  ec["tables"] = job.part.desired["tables"]
<1>1. Types /\ JobShape /\ Pending /\ UnderWay
  BY DEF IInv, UnderWay
<1>2. job.part.desired["fan_mode"] = "user_high"
  BY DEF Partly
<1>3. /\ i \in job.todo /\ \A j \in job.todo : i \leq j
      /\ "fan_mode" \in DOMAIN job.part.desired
  BY <1>1, CellIs DEF Cell
<1>4. Planned(job.part, job.choice, job.previous)
  BY <1>1 DEF JobShape
<1>5. FansPlan(job.part, job.choice)
  <2>1. ~BoostPlan(job.part, job.choice)
    BY <1>2, BoostFields DEF BoostPlan
  <2>2. ~OffsetPlan(job.part, job.choice) /\ ~DynamicPlan(job.part, job.choice, job.previous)
    BY <1>3 DEF OffsetPlan, DynamicPlan
  <2>3. ~LightPlan(job.part, job.choice)
    <3>1. ASSUME NEW force \in BOOLEAN, job.part = write_lightbar(job.choice.lightbar, force)
          PROVE  FALSE
      BY <3>1, <1>3, LightFields
    <3> QED  BY <3>1 DEF LightPlan
  <2> QED  BY <1>4, <2>1, <2>2, <2>3 DEF Planned
<1>6. job.part.order = WRITE_ORDER /\ "tables" \in DOMAIN job.part.desired
  <2> DEFINE duty == job.choice.duties
  <2>1. job.part = apply_duties(duty)
    BY <1>5 DEF FansPlan
  <2> HIDE DEF duty
  <2>2. apply_duties(duty).order = WRITE_ORDER /\ "tables" \in DOMAIN apply_duties(duty).desired
    BY ApplyFields
  <2> QED  BY <2>1, <2>2
<1>7. job.todo \subseteq DOMAIN WRITE_ORDER
  BY <1>1, <1>6 DEF JobShape, InOrder
<1>8. \A j \in job.todo : WRITE_ORDER[j] # "tables"
  <2>1. DOMAIN WRITE_ORDER = 1 .. 4 /\ WRITE_ORDER[1] = "tables"
        /\ WRITE_ORDER[2] = "manual_enable" /\ WRITE_ORDER[3] = "fan_mode"
        /\ WRITE_ORDER[4] = "tables_enable"
    BY DEF WRITE_ORDER
  <2>2. i = 3
    BY <1>3, <1>6, <1>7, <2>1
  <2> QED  BY <1>3, <1>7, <2>1, <2>2
<1> QED  BY <1>1, <1>6, <1>8 DEF Pending

\* Boost is never left for tables that do not hold the duties to come
\* (linux_fan_service.py:198-203).
THEOREM TablesBeforeMode == Spec => BoostLeftWithTables
<1> DEFINE Leaves == job.phase = "write" /\ ec.fan_mode = "boost" /\ ec'.fan_mode = "user_high"
           Safe == upsets # job.since \/ ec.tables = job.part.desired.tables
<1>1. ASSUME IInv, [Next]_vars, Leaves PROVE Safe
  <2>0. /\ Types /\ JobShape /\ UnderWay /\ job.phase = "write"
        /\ ec["fan_mode"] = "boost" /\ ec'["fan_mode"] = "user_high"
    BY <1>1 DEF IInv, UnderWay
  <2>1. ASSUME NEW i \in Upcoming, NEW value \in Partly(Cell(i), job.part.desired[Cell(i)]),
               ec' = [ec EXCEPT ![Cell(i)] = value]
        PROVE  Safe
    <3>1. ec = [c \in Cells |-> ec[c]] /\ Cell(i) \in Cells /\ Cell(i) = job.part.order[i]
      BY <2>0, CellIs, EcCells DEF Types, Cell
    <3>2. Cell(i) = "fan_mode" /\ value = "user_high"
      BY <2>0, <2>1, <3>1, CellsAre
    <3>3. upsets = job.since => ec["tables"] = job.part.desired["tables"]
      BY <1>1, <2>0, <2>1, <3>1, <3>2, TablesFirst
    <3> QED  BY <3>3
  <2>2. CASE Write
    <3>1. PICK i \in Upcoming : ec' = [ec EXCEPT ![Cell(i)] = job.part.desired[Cell(i)]]
      BY <2>2 DEF Write
    <3>2. job.part.desired[Cell(i)] \in Partly(Cell(i), job.part.desired[Cell(i)])
      BY DEF Partly
    <3> QED  BY <2>1, <3>1, <3>2
  <2>3. CASE WriteGoesWrong
    BY <2>1, <2>3 DEF WriteGoesWrong
  <2>4. CASE Drift
    <3>1. ec'["fan_mode"] \in {"normal", "boost"}
      <4>1. PICK D : ec' = [c \in Cells |-> IF c \in D THEN PowerOn[c] ELSE ec[c]]
        BY <2>4 DEF Drift
      <4>2. PowerOn["fan_mode"] = "normal" /\ "fan_mode" \in Cells
        BY CellsAre DEF PowerOn
      <4> QED  BY <2>0, <4>1, <4>2
    <3> QED  BY <2>0, <3>1
  <2>5. CASE KilledAndRestarted
    <3>1. ec' = ec \/ ec' = [ec EXCEPT !.tables = "torn"]
      BY <2>5 DEF KilledAndRestarted
    <3>2. ec'["fan_mode"] = ec["fan_mode"]
      BY <2>0, <3>1 DEF Types, Ecs
    <3> QED  BY <2>0, <3>2
  <2>6. CASE UNCHANGED ec
    BY <2>0, <2>6
  <2>7. CASE Request \/ Maintain \/ Undo \/ UndoGoesWrong \/ MaintenanceChecks
    BY <2>0, <2>7 DEF Request, ApplyManual, BoostOn, BoostOff, SetGpuPowerOffset,
       SetDynamicBoost, SetLightbar, Maintain, Idle, Undo, UndoGoesWrong, MaintenanceChecks
  <2>8. CASE Verify \/ VerifyFails \/ MaintenanceSkips \/ TccdChanges \/ UNCHANGED vars
    BY <2>6, <2>8 DEF Verify, VerifyFails, MaintenanceSkips, TccdChanges, vars
  <2> QED  BY <1>1, <2>2, <2>3, <2>4, <2>5, <2>7, <2>8 DEF Next, JobStep
<1>2. IInv /\ [Next]_vars =>
        [job.phase = "write" /\ ec.fan_mode = "boost" /\ ec'.fan_mode = "user_high"
           => upsets # job.since \/ ec.tables = job.part.desired.tables]_vars
  BY <1>1
<1> QED  BY <1>2, Invariant, PTL DEF Spec, BoostLeftWithTables
=============================================================================
