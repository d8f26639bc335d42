----------------------- MODULE WindowsFanService_proofs -----------------------
(***************************************************************************)
(* The safety properties of WindowsFanService for all duties, offsets and  *)
(* lights, any number of failures and of starts of the OEM service: at     *)
(* most one byte is late, answers are true, failures are undone.           *)
(***************************************************************************)
EXTENDS WindowsFanService, TLAPS

Writing   == {"check", "put", "readback"}
Connected == {"short", "curve", "state", "plan", "save"} \cup Writing
Pcs       == {"idle", "connect", "read", "publish", "done", "failed"} \cup Connected
Ops       == {"none", "load", "boost"} \cup CurveOps \cup GpuOps \cup LightOps

Places == 1 .. 10

IsRequest(r) ==
    r = [pc |-> r.pc, op |-> r.op, arg |-> r.arg, want |-> r.want, previous |-> r.previous,
         todo |-> r.todo, written |-> r.written, undoing |-> r.undoing, again |-> r.again,
         clean |-> r.clean, faults |-> r.faults]

Types ==
    /\ ec = [c \in Cells |-> ec[c]]
    /\ IsRequest(run)
    /\ run.pc \in Pcs /\ run.op \in Ops
    /\ run.undoing \in BOOLEAN /\ run.clean \in BOOLEAN /\ run.faults \in Nat
    /\ run.todo \subseteq Places
    /\ run.previous = [c \in DOMAIN run.previous |-> run.previous[c]]
    /\ DOMAIN run.previous \subseteq Cells

\* A request that has asked for the broker has the direct client, and nobody
\* else writes before it is disturbed.
Direct ==
    /\ run.pc \in Connected =>
          /\ client = "direct_ec" /\ (run.clean => ~broker)
          /\ run.op \notin {"none", "load"}
    /\ run.pc = "publish" => client = "oem_mqtt"
    /\ run.pc = "readback" => run.todo = {}
    /\ run.pc = "state" => run.op \in GpuOps
    /\ run.pc \in {"short", "curve"} => run.op \in CurveOps
    /\ run.pc = "read" => run.op = "load"
    /\ run.pc = "connect" => run.op # "none"
    /\ run.undoing => /\ run.pc \in {"check", "put", "failed"}
                      /\ run.op \notin {"none", "load", "boost"}

\* The byte after the answer of the broker check, and no other.
LateByte == late \in {0, 1} /\ (run.pc = "put" /\ broker => late = 0)

\* What a request wants, by what it was asked for.
Wanted ==
    CASE run.op \in CurveOps -> _write_curve(run.arg)
      [] run.op = "boost"    -> ModeBytes(IF run.arg THEN "boost" ELSE "user")
      [] run.op \in GpuOps   -> write_ctgp(run.arg)
      [] OTHER               -> write_lightbar(run.arg)

Asked ==
    run.pc \in Writing => /\ run.want = Wanted
                          /\ run.op \in CurveOps => DOMAIN run.previous = FanCells

\* A cell has what the request found there.
AsBefore(c) == ec[c] = run.previous[c]

\* Before the plan a request knows at most the tables.
Found ==
    /\ run.pc \in {"connect", "read", "publish", "short", "curve", "state"} \/ run.op = "load" =>
          run.previous = <<>>
    /\ run.pc = "plan" =>
          IF run.op \in CurveOps
          THEN DOMAIN run.previous = {"tables"} /\ (run.clean => AsBefore("tables"))
          ELSE run.previous = <<>>

\* On the way to what is wanted: a cell is right, or still to be written; and
\* as it was found, unless it was written.
Forward ==
    run.pc \in Writing /\ ~run.undoing =>
        /\ run.clean /\ run.faults = 0 =>
              \A c \in DOMAIN run.want :
                 ec[c] = run.want[c] \/ \E i \in run.todo : WRITE_ORDER[i] = c
        /\ run.clean => \A c \in DOMAIN run.previous : AsBefore(c) \/ c \in run.written
        /\ run.pc = "put" => \A i \in Upcoming : WRITE_ORDER[i] \in run.written

\* On the way back, for one reason: a cell is as it was, or still to be restored.
Back ==
    /\ run.pc \in Writing /\ run.undoing /\ run.clean =>
          /\ run.faults # 0
          /\ run.faults = 1 =>
                \A c \in DOMAIN run.previous :
                   AsBefore(c) \/ \E i \in run.todo : RESTORE_ORDER[i] = c
    /\ run.pc = "failed" /\ run.clean /\ run.faults \leq 1 /\ run.op # "boost" =>
          \A c \in DOMAIN run.previous : AsBefore(c)

Answered ==
    run.pc \in {"save", "done"} /\ run.clean /\ client = "direct_ec" => Held

IInv == Types /\ Direct /\ LateByte /\ Asked /\ Found /\ Forward /\ Back /\ Answered

-----------------------------------------------------------------------------
(* Requests.                                                               *)

SameRequest == run'.op = run.op /\ run'.arg = run.arg

SameWork == run'.want = run.want /\ run'.previous = run.previous /\ run'.written = run.written

SameFate == run'.clean = run.clean /\ run'.faults = run.faults /\ run'.undoing = run.undoing

LEMMA SameHeld == ASSUME ec' = ec, SameRequest PROVE Held' <=> Held
BY DEF Held, SameRequest, Read, Differing

LEMMA SameWanted == ASSUME SameRequest PROVE Wanted' = Wanted
BY DEF Wanted, SameRequest

LEMMA GotoIs ==
    ASSUME Types, NEW pc \in Pcs, Goto(pc)
    PROVE  /\ run'.pc = pc /\ SameRequest /\ SameWork /\ SameFate /\ run'.todo = run.todo
           /\ ec' = ec => Types'
BY DEF Types, IsRequest, Goto, SameRequest, SameWork, SameFate

LEMMA NoRequest ==
    ASSUME ec' = [c \in Cells |-> ec'[c]], run' = NoRun, late' \in {0, 1}
    PROVE  IInv'
<1>1. /\ run'.pc = "idle" /\ run'.op = "none" /\ run'.previous = <<>> /\ run'.todo = {}
      /\ run'.undoing = FALSE /\ run'.clean = TRUE /\ run'.faults = 0
  BY DEF NoRun
<1>2. DOMAIN run'.previous = {} /\ run'.previous = [c \in {} |-> run'.previous[c]]
  BY <1>1
<1>3. Types'
  BY <1>1, <1>2 DEF NoRun, Types, IsRequest, Pcs, Ops, Places
<1> QED
  BY <1>1, <1>3 DEF IInv, Direct, LateByte, Asked, Found, Forward, Back, Answered, Writing, Connected

\* Somebody else comes between the steps of a request.
LEMMA Disturbed ==
    ASSUME IInv, Disturb, ec' = [c \in Cells |-> ec'[c]], client' = client,
           late' \in {0, 1}, run.pc = "put" /\ broker' => late' = 0
    PROVE  IInv'
<1>1. CASE Idle
  <2>1. run' = run /\ run.pc = "idle"
    BY <1>1 DEF Disturb, Idle
  <2> QED
    BY <2>1 DEF IInv, Types, IsRequest, Direct, LateByte, Asked, Found, Forward, Back, Answered, Writing, Connected
<1>2. CASE ~Idle
  <2>1. run' = [run EXCEPT !.clean = FALSE]
    BY <1>2 DEF Disturb
  <2>2. /\ run'.pc = run.pc /\ SameRequest /\ SameWork /\ run'.todo = run.todo
        /\ run'.undoing = run.undoing /\ run'.faults = run.faults /\ run'.clean = FALSE
        /\ Types'
    BY <2>1 DEF IInv, Types, IsRequest, SameRequest, SameWork
  <2>3. Direct' /\ LateByte' /\ Back' /\ Answered'
    BY <2>2 DEF IInv, Direct, LateByte, Back, Answered, SameRequest, SameWork
  <2>4. Asked' /\ Found'
    BY <2>2, SameWanted DEF IInv, Asked, Found, SameRequest, SameWork
  <2>5. Forward'
    <3>1. Upcoming' = Upcoming
      BY <2>2 DEF Upcoming
    <3> QED  BY <2>2, <3>1 DEF IInv, Forward, SameWork
  <2> QED  BY <2>2, <2>3, <2>4, <2>5 DEF IInv
<1> QED  BY <1>1, <1>2

-----------------------------------------------------------------------------
(* A request that fails, and the restore that it begins.                   *)

LEMMA CellsAre == Cells = FanCells \cup GpuCells \cup LightCells
<1>1. CellsOf["fans"] = FanCells /\ CellsOf["gpu"] = GpuCells /\ CellsOf["lightbar"] = LightCells
  BY DEF CellsOf
<1> QED  BY <1>1 DEF Cells, Parts

LEMMA OrdersAre ==
    /\ DOMAIN WRITE_ORDER = Places /\ DOMAIN RESTORE_ORDER = Places
    /\ \A i \in Places : WRITE_ORDER[i] \in Cells /\ RESTORE_ORDER[i] \in Cells
    /\ \A c \in Cells : (\E i \in Places : WRITE_ORDER[i] = c) /\ (\E i \in Places : RESTORE_ORDER[i] = c)
<1>1. DOMAIN WRITE_ORDER = Places /\ DOMAIN RESTORE_ORDER = Places
  BY DEF WRITE_ORDER, RESTORE_ORDER, Places
<1>2. \A i \in Places : WRITE_ORDER[i] \in Cells
  BY CellsAre DEF WRITE_ORDER, Places, FanCells, ModeCells, GpuCells, LightCells
<1>3. \A i \in Places : RESTORE_ORDER[i] \in Cells
  BY CellsAre DEF RESTORE_ORDER, Places, FanCells, ModeCells, GpuCells, LightCells
<1>4. /\ WRITE_ORDER[1] = "presence" /\ WRITE_ORDER[2] = "control" /\ WRITE_ORDER[3] = "mirror"
      /\ WRITE_ORDER[4] = "tables" /\ WRITE_ORDER[6] = "ctgp_offset"
      /\ WRITE_ORDER[7] = "ctgp_limits" /\ WRITE_ORDER[8] = "ctgp_control"
      /\ WRITE_ORDER[9] = "color" /\ WRITE_ORDER[10] = "rainbow"
  BY DEF WRITE_ORDER
<1>5. /\ RESTORE_ORDER[5] = "presence" /\ RESTORE_ORDER[3] = "control" /\ RESTORE_ORDER[4] = "mirror"
      /\ RESTORE_ORDER[1] = "tables" /\ RESTORE_ORDER[6] = "ctgp_offset"
      /\ RESTORE_ORDER[7] = "ctgp_limits" /\ RESTORE_ORDER[8] = "ctgp_control"
      /\ RESTORE_ORDER[9] = "color" /\ RESTORE_ORDER[10] = "rainbow"
  BY DEF RESTORE_ORDER
<1>6. \A c \in Cells : c \in {"presence", "control", "mirror", "tables", "ctgp_offset", "ctgp_limits",
                             "ctgp_control", "color", "rainbow"}
  BY CellsAre DEF FanCells, ModeCells, GpuCells, LightCells
<1>7. \A i \in {1, 2, 3, 4, 5, 6, 7, 8, 9, 10} : i \in Places
  BY DEF Places
<1>8. \A c \in Cells : \E i \in Places : WRITE_ORDER[i] = c
  BY <1>4, <1>6, <1>7
<1>9. \A c \in Cells : \E i \in Places : RESTORE_ORDER[i] = c
  BY <1>5, <1>6, <1>7
<1> QED  BY <1>1, <1>2, <1>3, <1>8, <1>9

LEMMA PlannedPlaces ==
    ASSUME NEW D
    PROVE  /\ InOrder(WRITE_ORDER, D) \subseteq Places /\ InOrder(RESTORE_ORDER, D) \subseteq Places
           /\ \A c \in Cells : c \in D =>
                 /\ \E i \in InOrder(WRITE_ORDER, D) : WRITE_ORDER[i] = c
                 /\ \E i \in InOrder(RESTORE_ORDER, D) : RESTORE_ORDER[i] = c
BY OrdersAre DEF InOrder

LEMMA FaultedIs ==
    ASSUME NEW r, IsRequest(r), r.faults \in Nat
    PROVE  /\ IsRequest(Faulted(r)) /\ Faulted(r).faults = r.faults + 1
           /\ Faulted(r).pc = r.pc /\ Faulted(r).op = r.op /\ Faulted(r).arg = r.arg
           /\ Faulted(r).want = r.want /\ Faulted(r).previous = r.previous
           /\ Faulted(r).todo = r.todo /\ Faulted(r).written = r.written
           /\ Faulted(r).undoing = r.undoing /\ Faulted(r).clean = r.clean
BY DEF IsRequest, Faulted

\* Where a failure leads: to the end, ...
LEMMA FailsForGood ==
    ASSUME Types, run.undoing \/ run.op = "boost" \/ run.pc \notin Writing,
           run' = RunFailed \/ run' = Faulted(RunFailed)
    PROVE  /\ run'.pc = "failed" /\ SameRequest /\ SameWork /\ run'.todo = run.todo
           /\ run'.clean = run.clean /\ run'.undoing = run.undoing
           /\ run'.faults = run.faults \/ run'.faults = run.faults + 1
           /\ ec' = ec => Types'
<1>1. RunFailed = [run EXCEPT !.pc = "failed"]
  BY DEF RunFailed, Writing
<1> DEFINE r == RunFailed
<1>2. /\ IsRequest(r) /\ r.pc = "failed" /\ r.op = run.op /\ r.arg = run.arg /\ r.want = run.want
      /\ r.previous = run.previous /\ r.todo = run.todo /\ r.written = run.written
      /\ r.undoing = run.undoing /\ r.clean = run.clean /\ r.faults = run.faults /\ r.faults \in Nat
  BY <1>1 DEF Types, IsRequest
<1> HIDE DEF r
<1>3. /\ IsRequest(run') /\ run'.pc = r.pc /\ run'.op = r.op /\ run'.arg = r.arg
      /\ run'.want = r.want /\ run'.previous = r.previous /\ run'.todo = r.todo
      /\ run'.written = r.written /\ run'.undoing = r.undoing /\ run'.clean = r.clean
      /\ run'.faults = r.faults \/ run'.faults = r.faults + 1
  BY <1>2, FaultedIs DEF r
<1> QED  BY <1>2, <1>3 DEF Types, SameRequest, SameWork, Pcs

\* ... or back.
LEMMA FailsBack ==
    ASSUME Types, ~run.undoing, run.op # "boost", run.pc \in Writing,
           run' = RunFailed \/ run' = Faulted(RunFailed)
    PROVE  /\ run'.pc = "check" /\ SameRequest /\ SameWork
           /\ run'.todo = InOrder(RESTORE_ORDER,
                                  IF run.op \in CurveOps THEN DOMAIN run.want ELSE run.written)
           /\ run'.clean = run.clean /\ run'.undoing = TRUE
           /\ run'.faults = run.faults \/ run'.faults = run.faults + 1
           /\ ec' = ec => Types'
<1> DEFINE todo == InOrder(RESTORE_ORDER, IF run.op \in CurveOps THEN DOMAIN run.want ELSE run.written)
<1>1. RunFailed = [run EXCEPT !.pc = "check", !.undoing = TRUE, !.todo = todo]
  BY DEF RunFailed, Writing
<1>2. todo \subseteq Places
  BY PlannedPlaces
<1> HIDE DEF todo
<1> DEFINE r == RunFailed
<1>3. /\ IsRequest(r) /\ r.pc = "check" /\ r.op = run.op /\ r.arg = run.arg /\ r.want = run.want
      /\ r.previous = run.previous /\ r.todo = todo /\ r.written = run.written
      /\ r.undoing = TRUE /\ r.clean = run.clean /\ r.faults = run.faults /\ r.faults \in Nat
  BY <1>1 DEF Types, IsRequest
<1> HIDE DEF r
<1>4. /\ IsRequest(run') /\ run'.pc = r.pc /\ run'.op = r.op /\ run'.arg = r.arg
      /\ run'.want = r.want /\ run'.previous = r.previous /\ run'.todo = r.todo
      /\ run'.written = r.written /\ run'.undoing = r.undoing /\ run'.clean = r.clean
      /\ run'.faults = r.faults \/ run'.faults = r.faults + 1
  BY <1>3, FaultedIs DEF r
<1>5. /\ run'.previous = run.previous /\ run'.op = run.op /\ run'.todo \subseteq Places
      /\ run'.pc \in Pcs /\ run'.undoing \in BOOLEAN /\ run'.clean = run.clean /\ run'.faults \in Nat
  <2>1. run'.pc \in Pcs
    BY <1>3, <1>4 DEF Pcs, Connected, Writing
  <2>2. run'.faults \in Nat
    BY <1>3, <1>4
  <2> QED  BY <1>2, <1>3, <1>4, <2>1, <2>2
<1>6. ec' = ec => Types'
  BY <1>4, <1>5 DEF Types
<1> QED  BY <1>3, <1>4, <1>6 DEF SameRequest, SameWork, todo

LEMMA FailKeeps ==
    ASSUME IInv, run.pc \notin {"idle", "save", "done", "failed"},
           run' = RunFailed \/ run' = Faulted(RunFailed),
           run.clean /\ run.pc \in Writing => /\ run'.faults # 0
                                              /\ run.undoing => run'.faults > 1,
           UNCHANGED <<ec, broker, late>>, run.pc \in Writing => client' = client
    PROVE  IInv'
<1>0. Types /\ run.faults \in Nat
  BY DEF IInv, Types
<1>1. CASE run.undoing \/ run.op = "boost" \/ run.pc \notin Writing
  <2>1. /\ run'.pc = "failed" /\ SameRequest /\ SameWork /\ run'.todo = run.todo
        /\ run'.clean = run.clean /\ run'.undoing = run.undoing
        /\ run'.faults = run.faults \/ run'.faults = run.faults + 1
        /\ Types'
    BY <1>0, <1>1, FailsForGood
  <2>2. Direct' /\ LateByte' /\ Asked' /\ Forward' /\ Answered'
    BY <2>1 DEF IInv, Direct, LateByte, Asked, Forward, Answered, SameRequest, Writing, Connected
  <2>4. Found'
    BY <2>1 DEF IInv, Found, SameRequest, SameWork
  <2>3. Back'
    <3>1. SUFFICES ASSUME run.clean, run'.faults \leq 1, run.op # "boost"
                   PROVE  \A c \in DOMAIN run.previous : AsBefore(c)
      BY <2>1 DEF Back, AsBefore, SameRequest, SameWork, Writing
    <3>2. CASE run.pc \in Writing
      BY <1>0, <1>1, <2>1, <3>1, <3>2
    <3>3. CASE run.pc \notin Writing
      <4>1. run.pc \in {"connect", "read", "publish", "short", "curve", "state", "plan"}
        BY <3>3 DEF IInv, Types, Pcs, Connected, Writing
      <4> QED  BY <3>1, <4>1 DEF IInv, Found
    <3> QED  BY <3>2, <3>3
  <2> QED  BY <2>1, <2>2, <2>3, <2>4 DEF IInv
<1>2. CASE ~run.undoing /\ run.op # "boost" /\ run.pc \in Writing
  <2>1. /\ run'.pc = "check" /\ SameRequest /\ SameWork
        /\ run'.todo = InOrder(RESTORE_ORDER,
                               IF run.op \in CurveOps THEN DOMAIN run.want ELSE run.written)
        /\ run'.clean = run.clean /\ run'.undoing = TRUE
        /\ run'.faults = run.faults \/ run'.faults = run.faults + 1
        /\ Types'
    BY <1>0, <1>2, FailsBack
  <2>2. Direct'
    BY <1>2, <2>1 DEF IInv, Direct, SameRequest, Connected, Writing
  <2>3. Asked'
    BY <1>2, <2>1, SameWanted DEF IInv, Asked, SameRequest, SameWork
  <2>4. LateByte' /\ Forward' /\ Answered'
    BY <2>1 DEF IInv, LateByte, Forward, Answered
  <2>7. Found'
    BY <2>1 DEF IInv, Found, SameRequest, SameWork
  <2>5. ASSUME run.clean, NEW c \in DOMAIN run.previous
        PROVE  AsBefore(c) \/ \E i \in run'.todo : RESTORE_ORDER[i] = c
    <3>1. c \in Cells
      BY DEF IInv, Types
    <3>2. CASE run.op \in CurveOps
      <4>1. c \in DOMAIN run.want
        <5>1. run.want = Wanted /\ DOMAIN run.previous = FanCells
          BY <1>2, <3>2 DEF IInv, Asked
        <5>2. Wanted = _write_curve(run.arg)
          BY <3>2 DEF Wanted, CurveOps, GpuOps
        <5> QED  BY <5>1, <5>2 DEF _write_curve
      <4> QED  BY <2>1, <3>1, <3>2, <4>1, PlannedPlaces
    <3>3. CASE run.op \notin CurveOps
      <4>1. AsBefore(c) \/ c \in run.written
        BY <1>2, <2>5 DEF IInv, Forward
      <4> QED  BY <2>1, <3>1, <3>3, <4>1, PlannedPlaces
    <3> QED  BY <3>2, <3>3
  <2>6. Back'
    BY <1>2, <2>1, <2>5 DEF Back, AsBefore, SameWork
  <2> QED  BY <2>1, <2>2, <2>3, <2>4, <2>6, <2>7 DEF IInv
<1> QED  BY <1>1, <1>2

-----------------------------------------------------------------------------
(* The steps of a request.                                                 *)

LEMMA BeginKeeps ==
    ASSUME IInv, NEW op \in Ops, op # "none", NEW arg, Begin(op, arg) PROVE IInv'
<1>1. /\ run' = [NoRun EXCEPT !.pc = "connect", !.op = op, !.arg = arg]
      /\ UNCHANGED <<ec, late>> /\ late \in {0, 1}
  BY DEF Begin, IInv, LateByte
<1>2. /\ run'.pc = "connect" /\ run'.op = op /\ run'.previous = <<>> /\ run'.todo = {}
      /\ run'.undoing = FALSE /\ run'.clean = TRUE /\ run'.faults = 0 /\ IsRequest(run')
  BY <1>1 DEF NoRun, IsRequest
<1>3. DOMAIN run'.previous = {} /\ run'.previous = [c \in {} |-> run'.previous[c]]
  BY <1>2
<1>4. Types'
  <2>1. ec' = [c \in Cells |-> ec'[c]]
    BY <1>1 DEF IInv, Types
  <2>2. run'.pc \in Pcs /\ run'.op \in Ops /\ run'.undoing \in BOOLEAN /\ run'.clean \in BOOLEAN
        /\ run'.faults \in Nat /\ run'.todo \subseteq Places
    <3>1. run'.pc \in Pcs
      BY <1>2 DEF Pcs
    <3>2. run'.op \in Ops
      BY <1>2
    <3>3. run'.todo \subseteq Places /\ run'.faults \in Nat
      BY <1>2
    <3> QED  BY <1>2, <3>1, <3>2, <3>3
  <2>3. DOMAIN run'.previous \subseteq Cells
    BY <1>3
  <2>4. run'.previous = [c \in DOMAIN run'.previous |-> run'.previous[c]]
    BY <1>3
  <2> QED  BY <1>2, <2>1, <2>2, <2>3, <2>4 DEF Types, IsRequest
<1> QED
  BY <1>1, <1>2, <1>4 DEF IInv, Direct, LateByte, Asked, Found, Forward, Back, Answered, Writing, Connected

\* The client is found, and the operation begins.
LEMMA BeginsWith ==
    ASSUME IInv, run.pc = "connect",
           NEW pc \in {"read", "publish", "short", "curve", "state", "plan"}, Goto(pc),
           pc \in Connected => client' = "direct_ec" /\ ~broker /\ run.op # "load",
           pc = "publish" => client' = "oem_mqtt",
           pc = "state" => run.op \in GpuOps, pc = "read" => run.op = "load",
           pc \in {"short", "curve"} => run.op \in CurveOps,
           pc = "plan" => run.op \notin CurveOps, UNCHANGED <<ec, broker, late>>
    PROVE  IInv'
<1>1. /\ run'.pc = pc /\ SameRequest /\ SameWork /\ SameFate /\ run'.todo = run.todo /\ Types'
  BY GotoIs DEF IInv, Pcs, Connected, Writing
<1>2. Direct'
  BY <1>1 DEF IInv, Direct, SameRequest, SameFate, Connected, Writing
<1>3. LateByte' /\ Asked' /\ Forward' /\ Back' /\ Answered'
  BY <1>1 DEF IInv, LateByte, Asked, Forward, Back, Answered, Writing
<1>4. Found'
  BY <1>1 DEF IInv, Found, SameRequest, SameWork
<1> QED  BY <1>1, <1>2, <1>3, <1>4 DEF IInv

LEMMA OpsAre ==
    /\ CurveOps \cap GpuOps = {} /\ CurveOps \cap LightOps = {} /\ GpuOps \cap LightOps = {}
    /\ {"none", "load", "boost"} \cap (CurveOps \cup GpuOps \cup LightOps) = {}
    /\ "apply" \in CurveOps /\ "auto" \in CurveOps
    /\ "load" # "none" /\ "load" # "boost" /\ "boost" # "none"
BY DEF CurveOps, GpuOps, LightOps

LEMMA ConnectKeeps == ASSUME IInv, Connect PROVE IInv'
<1> DEFINE method == IF broker THEN "oem_mqtt" ELSE "direct_ec"
<1>1. /\ run.pc = "connect" /\ UNCHANGED <<ec, broker, late>> /\ run.pc \notin Writing
      /\ run.pc \notin {"idle", "save", "done", "failed"}
  BY DEF Connect, Writing
<1>2. CASE Failing
  BY <1>1, <1>2, FailKeeps DEF Failing
<1>3. CASE ~Failing
  <2>1. /\ client' = method
        /\ \/ run.op = "load" /\ Goto("read")
           \/ run.op # "load" /\ broker /\ Goto("publish")
           \/ /\ run.op # "load" /\ ~broker
              /\ Goto(CASE run.op = "auto" -> "short"
                        [] run.op = "apply" -> "curve"
                        [] run.op \in GpuOps -> "state"
                        [] OTHER -> "plan")
    BY <1>3 DEF Connect
  <2>2. CASE run.op = "load"
    BY <1>1, <2>1, <2>2, BeginsWith DEF Connected, Writing
  <2>3. CASE run.op # "load" /\ broker
    <3>1. Goto("publish") /\ client' = "oem_mqtt"
      BY <2>1, <2>3
    <3> QED  BY <1>1, <3>1, BeginsWith DEF Connected, Writing
  <2>4. CASE run.op # "load" /\ ~broker
    <3>1. /\ client' = "direct_ec"
          /\ Goto(CASE run.op = "auto" -> "short"
                    [] run.op = "apply" -> "curve"
                    [] run.op \in GpuOps -> "state"
                    [] OTHER -> "plan")
      BY <2>1, <2>4
    <3>2. CASE run.op = "auto"
      <4>1. Goto("short")
        BY <3>1, <3>2 DEF GpuOps
      <4> QED  BY <1>1, <2>4, <3>1, <3>2, <4>1, BeginsWith, OpsAre
    <3>3. CASE run.op = "apply"
      <4>1. Goto("curve")
        BY <3>1, <3>3 DEF GpuOps
      <4> QED  BY <1>1, <2>4, <3>1, <3>3, <4>1, BeginsWith, OpsAre
    <3>4. CASE run.op \in GpuOps
      <4>1. Goto("state")
        BY <3>1, <3>4 DEF GpuOps
      <4> QED  BY <1>1, <2>4, <3>1, <3>4, <4>1, BeginsWith
    <3>5. CASE run.op \notin CurveOps \cup GpuOps
      <4>1. Goto("plan")
        BY <3>1, <3>5, OpsAre
      <4> QED  BY <1>1, <2>4, <3>1, <3>5, <4>1, BeginsWith
    <3> QED  BY <3>2, <3>3, <3>4, <3>5 DEF CurveOps
  <2> QED  BY <2>2, <2>3, <2>4
<1> QED  BY <1>2, <1>3

\* The answer is that of what the EC shows.
LEMMA DoneKeeps ==
    ASSUME IInv, run.pc \in {"read", "publish", "short", "state", "plan", "readback", "save"},
           NEW pc \in {"done", "save"}, Goto(pc), run.clean /\ client = "direct_ec" => Held,
           pc = "save" => run.pc = "readback",
           UNCHANGED <<ec, broker, client, late>>
    PROVE  IInv'
<1>1. /\ run'.pc = pc /\ SameRequest /\ SameWork /\ SameFate /\ run'.todo = run.todo /\ Types'
  BY GotoIs DEF IInv, Pcs, Connected, Writing
<1>2. Answered'
  BY <1>1, SameHeld DEF Answered, SameFate
<1>3. Direct'
  BY <1>1 DEF IInv, Direct, SameRequest, SameFate, Connected, Writing
<1>4. LateByte' /\ Asked' /\ Forward' /\ Back'
  BY <1>1 DEF IInv, LateByte, Asked, Forward, Back, Writing
<1>5. Found'
  BY <1>1 DEF IInv, Found, SameRequest, SameWork
<1> QED  BY <1>1, <1>2, <1>3, <1>4, <1>5 DEF IInv

LEMMA EarlyFail ==
    ASSUME IInv, Failing, run.pc \in {"read", "publish", "short", "curve", "state", "plan"},
           UNCHANGED <<ec, broker, late>>
    PROVE  IInv'
BY FailKeeps DEF Failing, Writing

LEMMA ReadsKeep == ASSUME IInv, LoadState \/ Publish PROVE IInv'
<1>1. UNCHANGED <<ec, broker, client, late>> /\ run.pc \in {"read", "publish"}
  BY DEF LoadState, Publish, Unwritten
<1>2. CASE Failing
  BY <1>1, <1>2, EarlyFail
<1>3. CASE Goto("done")
  <2>1. run.pc = "publish" => client # "direct_ec"
    BY DEF IInv, Direct
  <2>2. run.pc = "read" => Held
    BY DEF IInv, Direct, Held, CurveOps, GpuOps, LightOps
  <2> QED  BY <1>1, <1>3, <2>1, <2>2, DoneKeeps
<1> QED  BY <1>2, <1>3 DEF LoadState, Publish

\* The short way of an unchanged target, and else the long one
LEMMA ShortKeeps == ASSUME IInv, Short PROVE IInv'
<1>1. run.pc = "short" /\ UNCHANGED <<ec, broker, client, late>> /\ run.op \in CurveOps
  BY DEF Short, Unwritten, IInv, Direct
<1>2. CASE uniform_duty_verified(run.arg)
  <2>1. Goto("done")
    BY <1>2 DEF Short
  <2>2. Held
    BY <1>1, <1>2 DEF Held, uniform_duty_verified, CurveOps, GpuOps, LightOps
  <2> QED  BY <1>1, <2>1, <2>2, DoneKeeps
<1>3. CASE ~uniform_duty_verified(run.arg)
  <2>1. run' = [run EXCEPT !.op = "apply", !.pc = "curve"]
    BY <1>3 DEF Short
  <2>2. /\ run'.pc = "curve" /\ run'.op = "apply" /\ SameWork /\ SameFate
        /\ run'.todo = run.todo /\ IsRequest(run')
    BY <2>1 DEF IInv, Types, IsRequest, SameWork, SameFate
  <2>3. Types'
    BY <1>1, <2>2, OpsAre DEF IInv, Types, SameWork, SameFate, Pcs, Ops, Connected
  <2>4. Direct'
    BY <1>1, <2>2, OpsAre DEF IInv, Direct, SameFate, Connected, Writing
  <2>5. LateByte' /\ Asked' /\ Forward' /\ Back' /\ Answered'
    BY <1>1, <2>2 DEF IInv, LateByte, Asked, Forward, Back, Answered, Writing
  <2>6. Found'
    BY <1>1, <2>2 DEF IInv, Found, SameWork
  <2> QED  BY <2>3, <2>4, <2>5, <2>6 DEF IInv
<1> QED  BY <1>2, <1>3

\* The table that a later write puts back
LEMMA CurveKeeps == ASSUME IInv, Curve PROVE IInv'
<1>1. run.pc = "curve" /\ UNCHANGED <<ec, broker, client, late>> /\ run.op \in CurveOps
  BY DEF Curve, Unwritten, IInv, Direct
<1>2. CASE Refused
  BY <1>1, <1>2, EarlyFail DEF Curve
<1>3. CASE ~Refused
  <2>1. run' = [run EXCEPT !.pc = "plan", !.previous = Read({"tables"})]
    BY <1>3 DEF Curve
  <2>2. /\ run'.pc = "plan" /\ SameRequest /\ SameFate /\ run'.todo = run.todo
        /\ run'.previous = [c \in {"tables"} |-> ec[c]] /\ IsRequest(run')
    BY <2>1 DEF IInv, Types, IsRequest, SameRequest, SameFate, Read
  <2>3. /\ DOMAIN run'.previous = {"tables"} /\ run'.previous["tables"] = ec["tables"]
        /\ run'.previous = [c \in {"tables"} |-> run'.previous[c]]
    BY <2>2
  <2>4. Types'
    <3>1. {"tables"} \subseteq Cells
      BY CellsAre DEF FanCells
    <3> QED  BY <1>1, <2>2, <2>3, <3>1 DEF IInv, Types, SameRequest, SameFate, Pcs, Connected
  <2>5. Direct'
    BY <1>1, <2>2 DEF IInv, Direct, SameRequest, SameFate, Connected, Writing
  <2>6. LateByte' /\ Asked' /\ Forward' /\ Back' /\ Answered'
    BY <1>1, <2>2 DEF IInv, LateByte, Asked, Forward, Back, Answered, Writing
  <2>7. Found'
    BY <1>1, <2>2, <2>3, OpsAre DEF Found, SameRequest, SameFate, AsBefore
  <2> QED  BY <2>4, <2>5, <2>6, <2>7 DEF IInv
<1> QED  BY <1>2, <1>3

LEMMA StateKeeps == ASSUME IInv, State PROVE IInv'
<1>1. run.pc = "state" /\ UNCHANGED <<ec, broker, client, late>> /\ run.op \in GpuOps
  BY DEF State, Unwritten, IInv, Direct
<1> DEFINE state == read_ctgp_state
           asked == CASE run.op = "set_offset"  -> [state EXCEPT !.offset = run.arg]
                      [] run.op = "set_dynamic" -> [state EXCEPT !.dynamic = run.arg]
                      [] OTHER -> run.arg
           pc    == IF run.op = "maintain_gpu" /\ Read(GpuCells) = write_ctgp(asked)
                    THEN "done" ELSE "plan"
<1>2. /\ run' = [run EXCEPT !.arg = asked, !.pc = pc] /\ pc \in {"done", "plan"}
      /\ pc = "done" => Read(GpuCells) = write_ctgp(asked)
  BY DEF State
<1> HIDE DEF asked, pc
<1>3. /\ run'.pc = pc /\ pc \in {"done", "plan"} /\ run'.arg = asked /\ run'.op = run.op /\ SameWork /\ SameFate
      /\ run'.todo = run.todo /\ IsRequest(run')
  BY <1>2 DEF IInv, Types, IsRequest, SameWork, SameFate
<1>4. Types'
  BY <1>1, <1>3 DEF IInv, Types, SameWork, SameFate, Pcs, Connected
<1>5. Direct'
  BY <1>1, <1>3 DEF IInv, Direct, SameFate, Connected, Writing
<1>6. LateByte' /\ Asked' /\ Forward' /\ Back'
  BY <1>1, <1>3 DEF IInv, LateByte, Asked, Forward, Back, Writing
<1>7. Found'
  BY <1>1, <1>3, OpsAre DEF IInv, Found, SameWork
<1>8. Answered'
  <2>1. SUFFICES ASSUME pc = "done"  PROVE Held'
    BY <1>3 DEF Answered
  <2> QED  BY <1>1, <1>2, <1>3, <2>1 DEF Held, Read, CurveOps, GpuOps, LightOps
<1> QED  BY <1>4, <1>5, <1>6, <1>7, <1>8 DEF IInv


-----------------------------------------------------------------------------
(* The plan.                                                               *)

LEMMA WantedIs ==
    /\ run.op \in CurveOps => Wanted = _write_curve(run.arg) /\ DOMAIN Wanted = FanCells
    /\ run.op = "boost" => /\ Wanted = ModeBytes(IF run.arg THEN "boost" ELSE "user")
                           /\ DOMAIN Wanted = ModeCells
    /\ run.op \in GpuOps => Wanted = write_ctgp(run.arg) /\ DOMAIN Wanted = GpuCells
    /\ run.op \in LightOps => /\ Wanted = write_lightbar(run.arg)
                              /\ DOMAIN Wanted \subseteq LightCells
<1>1. run.op \in CurveOps => Wanted = _write_curve(run.arg)
  BY DEF Wanted, CurveOps, GpuOps
<1>2. run.op = "boost" => Wanted = ModeBytes(IF run.arg THEN "boost" ELSE "user")
  BY DEF Wanted, CurveOps, GpuOps
<1>3. run.op \in GpuOps => Wanted = write_ctgp(run.arg)
  BY DEF Wanted, CurveOps, GpuOps
<1>4. run.op \in LightOps => Wanted = write_lightbar(run.arg)
  BY DEF Wanted, CurveOps, GpuOps, LightOps
<1>5. DOMAIN _write_curve(run.arg) = FanCells
  BY DEF _write_curve
<1>6. \A control : DOMAIN ModeBytes(control) = ModeCells
  BY DEF ModeBytes, ModeCells
<1>7. DOMAIN write_ctgp(run.arg) = GpuCells
  BY DEF write_ctgp, GpuCells
<1>8. DOMAIN write_lightbar(run.arg) \subseteq LightCells
  <2>1. CASE run.arg = "rainbow"
    <3>1. write_lightbar(run.arg) = [rainbow |-> TRUE]
      BY <2>1 DEF write_lightbar
    <3> QED  BY <3>1 DEF LightCells
  <2>2. CASE run.arg # "rainbow"
    <3>1. write_lightbar(run.arg) = [color |-> run.arg, rainbow |-> FALSE]
      BY <2>2 DEF write_lightbar
    <3> QED  BY <3>1 DEF LightCells
  <2> QED  BY <2>1, <2>2
<1> QED  BY <1>1, <1>2, <1>3, <1>4, <1>5, <1>6, <1>7, <1>8

LEMMA PlannedKeeps ==
    ASSUME IInv, run.pc = "plan", ~broker, NEW previous, NEW todo,
           Planned(Wanted, previous, todo), UNCHANGED <<ec, broker, client, late>>,
           previous = [c \in DOMAIN previous |-> previous[c]], DOMAIN previous \subseteq Cells,
           run.op \in CurveOps => DOMAIN previous = FanCells, DOMAIN Wanted \subseteq Cells,
           run.clean => \A c \in DOMAIN Wanted : ec[c] = Wanted[c] \/ c \in todo,
           run.clean => \A c \in DOMAIN previous : ec[c] = previous[c]
    PROVE  IInv'
<1> DEFINE places == InOrder(WRITE_ORDER, todo)
<1>1. places \subseteq Places /\ \A c \in Cells : c \in todo => \E i \in places : WRITE_ORDER[i] = c
  BY PlannedPlaces
<1>2. run' = [run EXCEPT !.want = Wanted, !.previous = previous, !.todo = places, !.pc = "check"]
  BY DEF Planned
<1> HIDE DEF places
<1>3. /\ run'.pc = "check" /\ SameRequest /\ SameFate /\ run'.want = Wanted
      /\ run'.previous = previous /\ run'.todo = places /\ run'.undoing = FALSE /\ IsRequest(run')
  BY <1>2 DEF IInv, Types, IsRequest, Direct, SameRequest, SameFate
<1>4. Types'
  <2>1. run'.pc \in Pcs
    BY <1>3 DEF Pcs, Connected, Writing
  <2> QED  BY <1>1, <1>3, <2>1 DEF IInv, Types, SameRequest, SameFate
<1>5. Direct'
  BY <1>3 DEF IInv, Direct, SameRequest, SameFate, Connected, Writing
<1>6. LateByte' /\ Back' /\ Answered'
  BY <1>3 DEF IInv, LateByte, Back, Answered
<1>7. Asked'
  BY <1>3, SameWanted DEF Asked, SameRequest
<1>8. Found'
  BY <1>3 DEF IInv, Direct, Found, SameRequest, Connected
<1>9. Forward'
  <2>1. ASSUME run.clean, NEW c \in DOMAIN Wanted
        PROVE  ec[c] = Wanted[c] \/ \E i \in places : WRITE_ORDER[i] = c
    BY <1>1, <2>1
  <2> QED  BY <1>3, <2>1 DEF Forward, AsBefore, SameFate
<1> QED  BY <1>4, <1>5, <1>6, <1>7, <1>8, <1>9 DEF IInv

LEMMA ReadIs ==
    ASSUME NEW D
    PROVE  /\ DOMAIN Read(D) = D /\ \A c \in D : Read(D)[c] = ec[c]
           /\ Read(D) = [c \in D |-> Read(D)[c]]
BY DEF Read

LEMMA PlanKeeps == ASSUME IInv, Plan PROVE IInv'
<1>1. /\ run.pc = "plan" /\ UNCHANGED <<ec, broker, client, late>>
      /\ run.op \in CurveOps \cup GpuOps \cup LightOps \cup {"boost"}
  BY DEF Plan, Unwritten, IInv, Types, Direct, Connected, Ops
<1>2. FanCells \subseteq Cells /\ ModeCells \subseteq FanCells /\ GpuCells \subseteq Cells
      /\ LightCells \subseteq Cells /\ ModeCells \subseteq Cells /\ "tables" \in FanCells
  BY CellsAre DEF FanCells
<1>3. CASE broker
  BY <1>1, <1>3, EarlyFail DEF Plan
<1>4. CASE ~broker /\ run.op \in CurveOps
  <2>1. PlanCurve
    BY <1>4, OpsAre DEF Plan
  <2>2. /\ Wanted = _write_curve(run.arg) /\ DOMAIN Wanted = FanCells
    BY <1>4, WantedIs
  <2> DEFINE previous(tables) == [Read(FanCells) EXCEPT !.tables = tables]
  <2>3. PICK tables \in {run.previous.tables, ec.tables} :
           IF previous(tables) = Wanted THEN Goto("done")
           ELSE Planned(Wanted, previous(tables), FanCells)
    BY <2>1, <2>2 DEF PlanCurve
  <2>4. /\ DOMAIN previous(tables) = FanCells
        /\ previous(tables) = [c \in FanCells |-> previous(tables)[c]]
        /\ \A c \in FanCells : previous(tables)[c] = IF c = "tables" THEN tables ELSE ec[c]
    BY <1>2, ReadIs
  <2>5. run.clean => tables = ec["tables"]
    BY <1>1, <1>4, <2>3 DEF IInv, Found, AsBefore
  <2> HIDE DEF previous
  <2>6. run.clean => \A c \in FanCells : ec[c] = previous(tables)[c]
    BY <2>4, <2>5
  <2>7. CASE previous(tables) = Wanted
    <3>1. ASSUME run.clean  PROVE Held
      <4>1. Read(FanCells) = previous(tables)
        BY <2>4, <2>6, <3>1 DEF Read
      <4> QED  BY <1>4, <2>2, <2>7, <4>1 DEF Held, CurveOps, GpuOps, LightOps
    <3> QED  BY <1>1, <2>3, <2>7, <3>1, DoneKeeps
  <2>8. CASE previous(tables) # Wanted
    BY <1>1, <1>2, <1>4, <2>2, <2>3, <2>4, <2>6, <2>8, PlannedKeeps
  <2> QED  BY <2>7, <2>8
<1>5. CASE ~broker /\ run.op \in GpuOps
  <2>1. PlanGpu
    BY <1>5, OpsAre DEF Plan
  <2>2. Planned(Wanted, Read(GpuCells), Differing(Wanted)) /\ DOMAIN Wanted = GpuCells
    BY <1>5, <2>1, WantedIs DEF PlanGpu
  <2>3. \A c \in DOMAIN Wanted : ec[c] = Wanted[c] \/ c \in Differing(Wanted)
    BY DEF Differing
  <2> QED  BY <1>1, <1>2, <1>5, <2>2, <2>3, ReadIs, OpsAre, PlannedKeeps
<1>6. CASE ~broker /\ run.op \in LightOps
  <2>1. PlanLight
    BY <1>6, OpsAre DEF Plan
  <2>2. PICK todo \in {DOMAIN Wanted, Differing(Wanted)} : Planned(Wanted, Read(LightCells), todo)
    BY <1>6, <2>1, WantedIs DEF PlanLight
  <2>3. \A c \in DOMAIN Wanted : ec[c] = Wanted[c] \/ c \in todo
    BY <2>2 DEF Differing
  <2>4. DOMAIN Wanted \subseteq Cells
    BY <1>2, <1>6, WantedIs
  <2> QED  BY <1>1, <1>2, <1>6, <2>2, <2>3, <2>4, ReadIs, OpsAre, PlannedKeeps
<1>7. CASE ~broker /\ run.op = "boost"
  <2>1. PlanBoost
    BY <1>7, OpsAre DEF Plan
  <2>2. Wanted = ModeBytes(IF run.arg THEN "boost" ELSE "user") /\ DOMAIN Wanted = ModeCells
    BY <1>7, WantedIs
  <2>3. CASE Differing(Wanted) = {}
    <3>1. Goto("done")
      BY <2>1, <2>2, <2>3 DEF PlanBoost
    <3>2. ec["control"] = Wanted["control"]
      BY <2>2, <2>3 DEF Differing, ModeCells
    <3>3. Held
      BY <1>7, <2>2, <3>2 DEF Held, ModeBytes, CurveOps, GpuOps, LightOps
    <3> QED  BY <1>1, <3>1, <3>3, DoneKeeps
  <2>4. CASE Differing(Wanted) # {}
    <3>1. Planned(Wanted, Read(ModeCells), ModeCells)
      BY <2>1, <2>2, <2>4 DEF PlanBoost
    <3> QED  BY <1>1, <1>2, <1>7, <2>2, <3>1, ReadIs, OpsAre, PlannedKeeps
  <2> QED  BY <2>3, <2>4
<1> QED  BY <1>1, <1>3, <1>4, <1>5, <1>6, <1>7


-----------------------------------------------------------------------------
(* The bytes.                                                              *)

LEMMA UpcomingIs == ASSUME Types, NEW i \in Upcoming PROVE i \in Places /\ Upcoming = {i}
BY DEF Types, Upcoming, Places

LEMMA WantedCells ==
    ASSUME IInv, run.pc \in Writing
    PROVE  run.want = Wanted /\ DOMAIN run.want \subseteq Cells
<1>1. run.want = Wanted /\ run.op \in CurveOps \cup GpuOps \cup LightOps \cup {"boost"}
  BY DEF IInv, Types, Direct, Asked, Connected, Ops
<1>2. FanCells \subseteq Cells /\ GpuCells \subseteq Cells /\ LightCells \subseteq Cells
      /\ ModeCells \subseteq Cells
  BY CellsAre DEF FanCells
<1> QED  BY <1>1, <1>2, WantedIs

\* The broker is asked before every byte.
LEMMA CheckKeeps == ASSUME IInv, Check PROVE IInv'
<1>1. run.pc = "check" /\ UNCHANGED <<ec, broker, client, late>> /\ Types
  BY DEF Check, Unwritten, IInv
<1>2. CASE run.todo = {} /\ run.undoing
  <2>1. Goto("failed")
    BY <1>2 DEF Check
  <2>2. /\ run'.pc = "failed" /\ SameRequest /\ SameWork /\ SameFate /\ run'.todo = run.todo /\ Types'
    BY <1>1, <2>1, GotoIs DEF Pcs
  <2>3. Direct' /\ LateByte' /\ Asked' /\ Forward' /\ Answered'
    BY <1>1, <2>2 DEF IInv, Direct, LateByte, Asked, Forward, Answered, Writing, Connected, SameRequest, SameFate
  <2>4. Found'
    BY <1>1, <2>2 DEF IInv, Found, SameRequest, SameWork
  <2>5. ASSUME run.clean, run.faults \leq 1, NEW c \in DOMAIN run.previous
        PROVE  AsBefore(c)
    <3>1. run.faults = 1
      BY <1>1, <1>2, <2>5 DEF IInv, Types, Back, Writing
    <3> QED  BY <1>1, <1>2, <2>5, <3>1 DEF IInv, Back, Writing
  <2>6. Back'
    BY <1>1, <2>2, <2>5 DEF Back, AsBefore, SameWork, SameFate, Writing
  <2> QED  BY <2>2, <2>3, <2>4, <2>5, <2>6 DEF IInv
<1>3. CASE run.todo = {} /\ ~run.undoing
  <2>1. Goto("readback")
    BY <1>3 DEF Check
  <2>2. /\ run'.pc = "readback" /\ SameRequest /\ SameWork /\ SameFate /\ run'.todo = run.todo /\ Types'
    BY <1>1, <2>1, GotoIs DEF Pcs, Connected, Writing
  <2>3. Direct' /\ LateByte' /\ Back' /\ Answered'
    BY <1>1, <1>3, <2>2 DEF IInv, Direct, LateByte, Back, Answered, Writing, Connected, SameRequest, SameFate
  <2>4. Asked' /\ Found'
    BY <1>1, <2>2, SameWanted DEF IInv, Asked, Found, SameRequest, SameWork, Writing
  <2>5. Forward'
    BY <1>1, <1>3, <2>2 DEF IInv, Forward, AsBefore, SameWork, SameFate, Writing
  <2> QED  BY <2>2, <2>3, <2>4, <2>5 DEF IInv
<1>4. CASE run.todo # {} /\ broker
  <2>1. Failing /\ ~run.clean
    BY <1>1, <1>4 DEF Check, IInv, Direct, Connected, Writing
  <2> QED  BY <1>1, <2>1, FailKeeps DEF Failing
<1>5. CASE run.todo # {} /\ ~broker
  <2>1. PICK i \in Upcoming : run' = [run EXCEPT !.pc = "put", !.written = @ \cup {Cell(i)}]
    BY <1>5 DEF Check
  <2>2. /\ run'.pc = "put" /\ SameRequest /\ SameFate /\ run'.todo = run.todo
        /\ run'.want = run.want /\ run'.previous = run.previous
        /\ run'.written = run.written \cup {Cell(i)} /\ IsRequest(run')
    BY <1>1, <2>1 DEF Types, IsRequest, SameRequest, SameFate
  <2>3. Types'
    BY <1>1, <2>2 DEF Types, SameRequest, SameFate, Pcs, Connected, Writing
  <2>4. Direct' /\ LateByte' /\ Back' /\ Answered'
    BY <1>1, <1>5, <2>2 DEF IInv, Direct, LateByte, Back, AsBefore, Answered, Writing, Connected, SameRequest, SameFate
  <2>5. Asked' /\ Found'
    BY <1>1, <2>2, SameWanted DEF IInv, Asked, Found, SameRequest, Writing
  <2>6. Forward'
    <3>1. Upcoming' = {i} /\ Upcoming' = Upcoming
      BY <1>1, <2>2, UpcomingIs DEF Upcoming
    <3>2. ~run.undoing => Cell(i) = WRITE_ORDER[i]
      BY DEF Cell
    <3> QED  BY <1>1, <2>2, <3>1, <3>2 DEF IInv, Forward, AsBefore, SameFate, Writing
  <2> QED  BY <2>3, <2>4, <2>5, <2>6 DEF IInv
<1> QED  BY <1>2, <1>3, <1>4, <1>5 DEF IInv, Types

LEMMA PutKeeps == ASSUME IInv, Put PROVE IInv'
<1>1. /\ run.pc = "put" /\ UNCHANGED <<broker, client>> /\ Types
      /\ late' = IF broker /\ late < 2 THEN late + 1 ELSE late
  BY DEF Put, IInv
<1> DEFINE value(i) == IF \E j \in run.todo \ {i} : Cell(j) = Cell(i) THEN "torn"
                       ELSE IF run.undoing THEN run.previous[Cell(i)] ELSE run.want[Cell(i)]
           next(i)  == [run EXCEPT !.todo = run.todo \ {i}, !.pc = "check"]
<1>2. PICK i \in Upcoming :
         \/ ec' = [ec EXCEPT ![Cell(i)] = value(i)] /\ run' = next(i)
         \/ ec' = ec /\ run' = Faulted(next(i))
  BY DEF Put
<1>3. i \in Places /\ i \in run.todo /\ Upcoming = {i} /\ Cell(i) \in Cells
  BY <1>1, UpcomingIs, OrdersAre DEF Upcoming, Cell
<1> DEFINE r == next(i)
<1>4. /\ IsRequest(r) /\ r.pc = "check" /\ r.op = run.op /\ r.arg = run.arg /\ r.want = run.want
      /\ r.previous = run.previous /\ r.todo = run.todo \ {i} /\ r.written = run.written
      /\ r.undoing = run.undoing /\ r.clean = run.clean /\ r.faults = run.faults /\ r.faults \in Nat
  <2> DEFINE todo == run.todo \ {i}
  <2>1. r = [run EXCEPT !.todo = todo, !.pc = "check"]
    OBVIOUS
  <2>2. /\ run = [pc |-> run.pc, op |-> run.op, arg |-> run.arg, want |-> run.want,
                  previous |-> run.previous, todo |-> run.todo, written |-> run.written,
                  undoing |-> run.undoing, again |-> run.again, clean |-> run.clean,
                  faults |-> run.faults]
        /\ run.faults \in Nat
    BY <1>1 DEF Types, IsRequest
  <2> HIDE DEF todo, r
  <2>3. r = [pc |-> "check", op |-> run.op, arg |-> run.arg, want |-> run.want,
             previous |-> run.previous, todo |-> todo, written |-> run.written,
             undoing |-> run.undoing, again |-> run.again, clean |-> run.clean,
             faults |-> run.faults]
    BY <2>1, <2>2
  <2> QED  BY <2>2, <2>3 DEF IsRequest, todo
<1> HIDE DEF next
<1>5. /\ IsRequest(run') /\ run'.pc = "check" /\ SameRequest /\ SameWork
      /\ run'.todo = run.todo \ {i} /\ run'.undoing = run.undoing /\ run'.clean = run.clean
      /\ run'.faults \in Nat
      /\ \/ /\ run'.faults = run.faults
            /\ \A c \in Cells : ec'[c] = IF c = Cell(i) THEN value(i) ELSE ec[c]
         \/ run'.faults = run.faults + 1 /\ ec' = ec
      /\ \A c \in Cells : c # Cell(i) => ec'[c] = ec[c]
      /\ ec' = [c \in Cells |-> ec'[c]]
  <2>1. CASE run' = r /\ ec' = [ec EXCEPT ![Cell(i)] = value(i)]
    <3> HIDE DEF value
    <3> QED  BY <1>1, <1>3, <1>4, <2>1 DEF Types, SameRequest, SameWork
  <2>2. CASE run' = Faulted(r) /\ ec' = ec
    <3> HIDE DEF value, r
    <3> QED  BY <1>1, <1>4, <2>2, FaultedIs DEF Types, SameRequest, SameWork
  <2> QED  BY <1>2, <2>1, <2>2
<1>6. Types'
  BY <1>1, <1>5 DEF Types, SameRequest, SameWork, Pcs, Connected, Writing
<1>7. Direct' /\ Answered'
  BY <1>1, <1>5 DEF IInv, Direct, Answered, Writing, Connected, SameRequest
<1>8. LateByte'
  BY <1>1, <1>5 DEF IInv, LateByte
<1>9. Asked' /\ Found'
  BY <1>1, <1>5, SameWanted DEF IInv, Asked, Found, SameRequest, SameWork, Writing
<1>10. Forward'
  <2>1. SUFFICES ASSUME ~run.undoing, run.clean
        PROVE  /\ run'.faults = 0 => \A c \in DOMAIN run.want :
                      ec'[c] = run.want[c] \/ \E j \in run.todo \ {i} : WRITE_ORDER[j] = c
               /\ \A c \in DOMAIN run.previous : ec'[c] = run.previous[c] \/ c \in run.written
    BY <1>5 DEF Forward, AsBefore, SameWork
  <2>2. /\ \A j \in run.todo : Cell(j) = WRITE_ORDER[j]
        /\ Cell(i) \in run.written
    BY <1>1, <1>3, <2>1 DEF IInv, Forward, Writing, Cell
  <2>3. ASSUME run'.faults = 0, NEW c \in DOMAIN run.want
        PROVE  ec'[c] = run.want[c] \/ \E j \in run.todo \ {i} : WRITE_ORDER[j] = c
    <3>1. run.faults = 0 /\ \A d \in Cells : ec'[d] = IF d = Cell(i) THEN value(i) ELSE ec[d]
      BY <1>1, <1>5, <2>3 DEF Types
    <3>2. ec[c] = run.want[c] \/ \E j \in run.todo : WRITE_ORDER[j] = c
      BY <1>1, <2>1, <3>1 DEF IInv, Forward, Writing
    <3>3. c \in Cells
      BY <1>1, <2>3, WantedCells DEF IInv, Asked, Writing
    <3>4. CASE c = Cell(i)
      BY <1>3, <2>1, <2>2, <3>1, <3>3, <3>4
    <3>5. CASE c # Cell(i)
      BY <1>3, <2>2, <3>1, <3>2, <3>3, <3>5
    <3> QED  BY <3>4, <3>5
  <2>4. ASSUME NEW c \in DOMAIN run.previous
        PROVE  ec'[c] = run.previous[c] \/ c \in run.written
    <3>1. c \in Cells /\ (AsBefore(c) \/ c \in run.written)
      BY <1>1, <2>1 DEF IInv, Types, Forward, Writing
    <3> QED  BY <1>5, <2>2, <3>1 DEF AsBefore
  <2> QED  BY <2>3, <2>4
<1>11. Back'
  <2>1. SUFFICES ASSUME run.undoing, run.clean
        PROVE  /\ run'.faults # 0
               /\ run'.faults = 1 => \A c \in DOMAIN run.previous :
                     ec'[c] = run.previous[c] \/ \E j \in run.todo \ {i} : RESTORE_ORDER[j] = c
    BY <1>5 DEF Back, AsBefore, SameWork
  <2>2. run.faults # 0 /\ \A j \in run.todo : Cell(j) = RESTORE_ORDER[j]
    BY <1>1, <2>1 DEF IInv, Back, Writing, Cell
  <2>3. run'.faults # 0
    BY <1>1, <1>5, <2>2 DEF Types
  <2>4. ASSUME run'.faults = 1, NEW c \in DOMAIN run.previous
        PROVE  ec'[c] = run.previous[c] \/ \E j \in run.todo \ {i} : RESTORE_ORDER[j] = c
    <3>1. run.faults = 1 /\ \A d \in Cells : ec'[d] = IF d = Cell(i) THEN value(i) ELSE ec[d]
      BY <1>1, <1>5, <2>2, <2>4 DEF Types
    <3>2. c \in Cells /\ (AsBefore(c) \/ \E j \in run.todo : RESTORE_ORDER[j] = c)
      BY <1>1, <2>1, <3>1 DEF IInv, Types, Back, Writing
    <3>3. CASE c = Cell(i)
      BY <1>3, <2>1, <2>2, <3>1, <3>2, <3>3
    <3>4. CASE c # Cell(i)
      BY <1>3, <2>2, <3>1, <3>2, <3>4 DEF AsBefore
    <3> QED  BY <3>3, <3>4
  <2> QED  BY <2>3, <2>4
<1> QED  BY <1>6, <1>7, <1>8, <1>9, <1>10, <1>11 DEF IInv


-----------------------------------------------------------------------------
(* The end of a request.                                                   *)

\* What is read back decides about the answer.
LEMMA ReadbackKeeps == ASSUME IInv, Readback PROVE IInv'
<1> DEFINE shown == IF run.op = "boost" THEN {"control", "mirror"} ELSE DOMAIN run.want
<1>1. run.pc = "readback" /\ UNCHANGED <<ec, broker, client, late>> /\ run.todo = {} /\ ~run.undoing
  BY DEF Readback, Unwritten, IInv, Direct
<1>2. /\ run.want = Wanted /\ run.op \in CurveOps \cup GpuOps \cup LightOps \cup {"boost"}
  BY <1>1, WantedCells DEF IInv, Types, Direct, Connected, Ops, Writing
<1>3. CASE \E c \in shown : ec[c] # run.want[c]
  <2>1. Failing
    BY <1>3 DEF Readback
  <2>2. shown \subseteq DOMAIN run.want
    BY <1>2, WantedIs DEF ModeCells
  <2>3. run.clean => run.faults # 0
    BY <1>1, <1>3, <2>2 DEF IInv, Forward, Writing
  <2>4. run'.faults = run.faults
    BY <1>1, <2>1 DEF IInv, Types, IsRequest, Failing, RunFailed
  <2> QED  BY <1>1, <2>1, <2>3, <2>4, FailKeeps DEF Failing
<1>4. CASE \A c \in shown : ec[c] = run.want[c]
  <2>1. PICK pc \in {"done", "save"} : Goto(pc)
    BY <1>4 DEF Readback
  <2>2. CASE run.op \in CurveOps
    <3>1. /\ Wanted = _write_curve(run.arg) /\ DOMAIN Wanted = FanCells
          /\ Wanted = [c \in FanCells |-> Wanted[c]]
      BY <2>2, WantedIs DEF _write_curve
    <3>2. \A c \in FanCells : ec[c] = Wanted[c]
      BY <1>2, <1>4, <2>2, <3>1, OpsAre
    <3>4. Read(FanCells) = Wanted
      BY <3>1, <3>2 DEF Read
    <3>3. Held
      BY <2>2, <3>1, <3>4 DEF Held, CurveOps, GpuOps, LightOps
    <3> QED  BY <1>1, <2>1, <3>3, DoneKeeps
  <2>3. CASE run.op \in GpuOps
    <3>1. /\ Wanted = write_ctgp(run.arg) /\ DOMAIN Wanted = GpuCells
          /\ Wanted = [c \in GpuCells |-> Wanted[c]]
      BY <2>3, WantedIs DEF write_ctgp
    <3>2. \A c \in GpuCells : ec[c] = Wanted[c]
      BY <1>2, <1>4, <2>3, <3>1, OpsAre
    <3>4. Read(GpuCells) = Wanted
      BY <3>1, <3>2 DEF Read
    <3>3. Held
      BY <2>3, <3>1, <3>4 DEF Held, CurveOps, GpuOps, LightOps
    <3> QED  BY <1>1, <2>1, <3>3, DoneKeeps
  <2>4. CASE run.op \in LightOps
    <3>1. Wanted = write_lightbar(run.arg) /\ \A c \in DOMAIN Wanted : ec[c] = Wanted[c]
      BY <1>2, <1>4, <2>4, WantedIs, OpsAre
    <3>2. Held
      BY <2>4, <3>1 DEF Held, Differing, CurveOps, GpuOps, LightOps
    <3> QED  BY <1>1, <2>1, <3>2, DoneKeeps
  <2>5. CASE run.op = "boost"
    <3>1. ec["control"] = Wanted["control"] /\ Wanted = ModeBytes(IF run.arg THEN "boost" ELSE "user")
      BY <1>2, <1>4, <2>5, WantedIs
    <3>2. Held
      BY <2>5, <3>1 DEF Held, ModeBytes, CurveOps, GpuOps, LightOps
    <3> QED  BY <1>1, <2>1, <3>2, DoneKeeps
  <2> QED  BY <1>2, <2>2, <2>3, <2>4, <2>5
<1> QED  BY <1>3, <1>4

LEMMA SaveKeeps == ASSUME IInv, Save PROVE IInv'
<1>1. /\ run.pc = "save" /\ UNCHANGED <<ec, broker, client, late>>
      /\ ec = [c \in Cells |-> ec[c]] /\ late \in {0, 1}
  BY DEF Save, Unwritten, IInv, Types, LateByte
<1>2. CASE Goto("done")
  <2>1. run.clean /\ client = "direct_ec" => Held
    BY <1>1 DEF IInv, Answered
  <2> QED  BY <1>1, <1>2, <2>1, DoneKeeps
<1>3. CASE run' = NoRun
  BY <1>1, <1>3, NoRequest
<1> QED  BY <1>2, <1>3 DEF Save

LEMMA EndKeeps == ASSUME IInv, Done \/ Failed PROVE IInv'
<1>1. /\ run.pc \in {"done", "failed"} /\ UNCHANGED <<ec, broker, late>>
      /\ ec = [c \in Cells |-> ec[c]] /\ late \in {0, 1}
  BY DEF Done, Failed, Unwritten, IInv, Types, LateByte
<1>2. CASE run' = NoRun
  BY <1>1, <1>2, NoRequest
<1>3. CASE run' # NoRun
  <2>1. run.pc = "failed" /\ run.op = "load" /\ run' = [run EXCEPT !.pc = "connect", !.again = TRUE]
    BY <1>3 DEF Done, Failed
  <2>2. /\ run'.pc = "connect" /\ SameRequest /\ SameWork /\ SameFate /\ run'.todo = run.todo
        /\ IsRequest(run')
    BY <2>1 DEF IInv, Types, IsRequest, SameRequest, SameWork, SameFate
  <2>3. Types'
    BY <1>1, <2>2 DEF IInv, Types, SameRequest, SameWork, SameFate, Pcs
  <2>4. Direct'
    BY <1>1, <2>1, <2>2, OpsAre DEF IInv, Direct, SameRequest, SameFate, Connected, Writing
  <2>5. LateByte' /\ Asked' /\ Forward' /\ Back' /\ Answered'
    BY <1>1, <2>2 DEF IInv, LateByte, Asked, Forward, Back, Answered, Writing
  <2>6. Found'
    BY <1>1, <2>1, <2>2 DEF IInv, Found, SameRequest, SameWork
  <2> QED  BY <2>3, <2>4, <2>5, <2>6 DEF IInv
<1> QED  BY <1>2, <1>3

\* An access fails.
LEMMA RaisesKeep == ASSUME IInv, Raises PROVE IInv'
<1>1. /\ run.pc \in {"connect", "short", "curve", "state", "plan", "check", "put", "readback"}
      /\ run' = Faulted(RunFailed) /\ UNCHANGED <<ec, broker, client, late>>
  BY DEF Raises, Unwritten
<1>2. run.faults \in Nat /\ IsRequest(run)
  BY DEF IInv, Types
<1>3. run'.faults = run.faults + 1
  BY <1>1, <1>2 DEF RunFailed, Faulted, IsRequest
<1>4. ASSUME run.undoing, run.clean, run.pc \in Writing  PROVE run.faults # 0
  BY <1>4 DEF IInv, Back
<1> QED  BY <1>1, <1>2, <1>3, <1>4, FailKeeps

-----------------------------------------------------------------------------
(* The others, and the specification.                                      *)

LEMMA ClearedIs ==
    ASSUME ec = [c \in Cells |-> ec[c]]
    PROVE  Cleared = [c \in Cells |-> Cleared[c]]
BY DEF Cleared

LEMMA Unmoved ==
    ASSUME IInv, UNCHANGED <<ec, broker, client, late, run>>
    PROVE  IInv'
<1>1. Types' /\ Direct' /\ LateByte' /\ Asked' /\ Found'
  BY DEF IInv, Types, IsRequest, Direct, LateByte, Asked, Wanted, Found, AsBefore
<1>2. Forward' /\ Back' /\ Answered'
  BY SameHeld DEF IInv, Forward, Upcoming, Back, Answered, AsBefore, SameRequest
<1> QED  BY <1>1, <1>2 DEF IInv

LEMMA EnvironmentKeeps == ASSUME IInv, Environment PROVE IInv'
<1>1. ec = [c \in Cells |-> ec[c]] /\ late \in {0, 1} /\ (run.pc = "put" /\ broker => late = 0)
  BY DEF IInv, Types, LateByte
<1>2. CASE Raises
  BY <1>2, RaisesKeep
<1>3. CASE BrokerStarts \/ BrokerStops
  BY <1>1, <1>3, Disturbed DEF BrokerStarts, BrokerStops
<1>4. CASE Cleanup
  BY <1>1, <1>4, ClearedIs, Disturbed DEF Cleanup
<1>5. CASE Drift
  <2>1. PICK c : ec' = [ec EXCEPT ![c] = PowerOn[c]]
    BY <1>5 DEF Drift
  <2>2. ec' = [d \in Cells |-> ec'[d]]
    BY <1>1, <2>1
  <2> QED  BY <1>1, <1>5, <2>2, Disturbed DEF Drift
<1>6. CASE Expire
  BY <1>6, Unmoved DEF Expire, Unwritten
<1>7. CASE Restart
  BY <1>1, <1>7, NoRequest DEF Restart
<1> QED  BY <1>2, <1>3, <1>4, <1>5, <1>6, <1>7 DEF Environment

LEMMA ServiceKeeps == ASSUME IInv, Service PROVE IInv'
<1>1. PICK enabled \in BOOLEAN : set_oem_service_running(enabled)
  BY DEF Service
<1>2. /\ Idle /\ run' = run /\ ec = [c \in Cells |-> ec[c]] /\ late \in {0, 1}
      /\ late' \in {0, late} /\ ec' \in {ec, Cleared} /\ client' = "none"
  BY <1>1 DEF set_oem_service_running, IInv, Types, LateByte
<1>3. run.pc = "idle" /\ late' \in {0, 1} /\ ec' = [c \in Cells |-> ec'[c]]
  BY <1>2, ClearedIs DEF Idle
<1>4. Types'
  BY <1>2, <1>3 DEF IInv, Types, IsRequest
<1> QED
  BY <1>2, <1>3, <1>4 DEF IInv, Direct, LateByte, Asked, Found, Forward, Back, Answered, Writing, Connected

LEMMA BeginningKeeps == ASSUME IInv, Request \/ Maintain PROVE IInv'
<1>1. /\ {"apply", "auto", "boost", "load"} \subseteq Ops /\ GpuOps \subseteq Ops /\ LightOps \subseteq Ops
      /\ {"set_offset", "set_dynamic", "maintain_gpu"} = GpuOps
      /\ {"set_lightbar", "maintain_lightbar"} = LightOps
      /\ "none" \notin {"apply", "auto", "boost", "load"} \cup GpuOps \cup LightOps
  BY OpsAre DEF Ops, GpuOps, LightOps
<1>2. CASE Request
  BY <1>1, <1>2, BeginKeeps DEF Request, FanRequest, GpuRequest, LightRequest
<1>3. CASE Maintain
  BY <1>1, <1>3, BeginKeeps DEF Maintain, maintain_gpu_power, maintain_lightbar
<1> QED  BY <1>2, <1>3

LEMMA InitHolds == Init => IInv
<1> SUFFICES ASSUME Init PROVE IInv
  OBVIOUS
<1>1. ec = PowerOn /\ run = NoRun /\ late = 0
  BY DEF Init
<1>2. PowerOn = [c \in Cells |-> PowerOn[c]]
  BY CellsAre DEF PowerOn, FanCells, ModeCells, GpuCells, LightCells
<1>3. /\ run.pc = "idle" /\ run.op = "none" /\ run.previous = <<>> /\ run.todo = {}
      /\ run.undoing = FALSE /\ run.clean = TRUE /\ run.faults = 0 /\ IsRequest(run)
  BY <1>1 DEF NoRun, IsRequest
<1>4. DOMAIN run.previous = {} /\ run.previous = [c \in {} |-> run.previous[c]]
  BY <1>3
<1>5. Types
  <2>1. run.pc \in Pcs /\ run.op \in Ops
    BY <1>3 DEF Pcs, Ops
  <2>2. run.todo \subseteq Places /\ DOMAIN run.previous \subseteq Cells /\ run.faults \in Nat
    BY <1>3, <1>4
  <2>3. run.previous = [c \in DOMAIN run.previous |-> run.previous[c]]
    BY <1>4
  <2> QED  BY <1>1, <1>2, <1>3, <2>1, <2>2, <2>3 DEF Types
<1> QED
  BY <1>1, <1>3, <1>5 DEF IInv, Direct, LateByte, Asked, Found, Forward, Back, Answered, Writing, Connected

LEMMA StepHolds == IInv /\ [Next]_vars => IInv'
<1> SUFFICES ASSUME IInv, [Next]_vars PROVE IInv'
  OBVIOUS
<1>1. CASE Step
  BY <1>1, ConnectKeeps, ReadsKeep, ShortKeeps, CurveKeeps, StateKeeps, PlanKeeps, CheckKeeps,
     PutKeeps, ReadbackKeeps, SaveKeeps, EndKeeps DEF Step
<1>2. CASE Request \/ Maintain
  BY <1>2, BeginningKeeps
<1>3. CASE Service
  BY <1>3, ServiceKeeps
<1>4. CASE Environment
  BY <1>4, EnvironmentKeeps
<1>5. CASE UNCHANGED vars
  BY <1>5, Unmoved DEF vars
<1> QED  BY <1>1, <1>2, <1>3, <1>4, <1>5 DEF Next

\* Whatever comes between its steps, a request knows what it found and wants,
\* and every cell is right, as it was, or still to be written.
THEOREM Invariant == Spec => []IInv
BY InitHolds, StepHolds, PTL DEF Spec

\* Once the OEM broker listens, at most one byte is still written, however
\* often it starts and stops, and whether the bytes are set or restored.
THEOREM LateByteAtMost == Spec => []OneByteLate
<1>1. IInv => OneByteLate
  BY DEF IInv, LateByte, OneByteLate
<1> QED  BY <1>1, Invariant, PTL

\* What a direct request is answered with is in the EC.
THEOREM AnswersHold == Spec => []AnswerIsTrue
<1>1. IInv => AnswerIsTrue
  BY DEF IInv, Answered, AnswerIsTrue
<1> QED  BY <1>1, Invariant, PTL

\* A request that failed for one reason leaves what it found.
THEOREM FailuresAreUndone == Spec => []FailureIsUndone
<1>1. IInv => FailureIsUndone
  BY DEF IInv, Types, Back, AsBefore, FailureIsUndone, Read
<1> QED  BY <1>1, Invariant, PTL
=============================================================================
