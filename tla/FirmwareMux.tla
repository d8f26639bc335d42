----------------------------- MODULE FirmwareMux -----------------------------
(***************************************************************************)
(* FirmwareMux of backend/gpu_mux.py as the Linux service uses it: request *)
(* threads save the GPU mode into one byte of a UEFI variable, behind a    *)
(* polkit password that is asked for outside the lock, while other tools   *)
(* may write the same variable, the service stops or is killed, and the    *)
(* machine reboots.                                                        *)
(*                                                                         *)
(* The variable is its mode byte and `rest', a version of everything else. *)
(* Argument checks, the platform gate and the dialog itself are left out;  *)
(* so is read_state, which changes nothing: it is a look under the lock.   *)
(* The Windows transport has neither password, boot ID nor immutable flag. *)
(***************************************************************************)
EXTENDS Naturals, Sequences, FiniteSets

CONSTANTS
    MaxCallers,  \* bound: set_mode calls in one life of the service
    Rests,       \* versions of the rest of the variable
    NoState,     \* "not read yet"
    MaxLives,    \* bound: lives of the service, over lives and reboots
    MaxForeign   \* bound: writes and starts of other tools

ASSUME NatAssumption ==
    /\ {MaxLives, MaxCallers} \subseteq Nat \ {0}
    /\ MaxForeign \in Nat

\* Request threads, numbered in the order of their requests.
Callers == 1 .. MaxCallers

\* The other owners of the lock.
Nobody  == 0
Stopper == MaxCallers + 1

Modes    == {"hybrid", "dgpu"}
Firmware == [mode : Modes \cup {"unknown"}, rest : Rests]

ASSUME NoStateAssumption == NoState \notin Firmware

VARIABLES
    nvram,     \* UniWillVariable
    immutable, \* the immutable flag of its efivarfs file
    flagLost,  \* a save of this boot could not put the flag back
    boot,      \* the kernel's boot ID
    active,    \* the mode this boot started with
    backups,   \* the complete backup files, in the order of their names
    foreign,   \* how often other tools wrote or started
    foreignNow,\* another tool wrote in this boot
    conflict,  \* tccd runs
    lives,     \* how often the service was started
    main,      \* the service process
    lock,      \* _lock: a caller, Nobody, or the Stopper
    save       \* save[c]: what the thread of a set_mode call holds

vars == <<nvram, immutable, flagLost, boot, active, backups, foreign, foreignNow,
          conflict, lives, main, lock, save>>

machine == <<boot, active, foreign, foreignNow, conflict, lives, main>>
file    == <<nvram, immutable, flagLost>>

Idle == [pc |-> "idle", mode |-> "hybrid", authorized |-> NoState,
         before |-> NoState, password |-> FALSE, lifted |-> FALSE]

Up == main \in {"up", "stopping", "blocked"}

\* _refuse_writer and the checks of _validated_read
Refused == conflict \/ nvram.mode = "unknown"

At(c, pc) == save[c].pc = pc
Goto(c, pc) == save' = [save EXCEPT ![c].pc = pc]

\* The call ends; `with self._lock' is left.
Answer(c, how) == Goto(c, how) /\ lock' = Nobody

\* Under the lock, from the decision to write to the readback.
Saving == {"backup", "check", "last", "writing", "restore_ok", "restore_error", "readback"}

-----------------------------------------------------------------------------
(* _mode_at_boot and the hint of read_state                                *)

\* A faulty variant of the next definition: backups of earlier boots count.
AllBackups == DOMAIN backups

\* Their places among the names
BackupsOfBoot == {i \in DOMAIN backups : backups[i].boot = boot}

First(places) == CHOOSE i \in places : \A j \in places : i \leq j

ModeAtBoot(saved) ==
    IF BackupsOfBoot = {} THEN saved ELSE backups[First(BackupsOfBoot)].mode

RebootRequired == nvram.mode # ModeAtBoot(nvram.mode)

Init ==
    /\ nvram \in [mode : Modes, rest : Rests]
    /\ immutable = TRUE
    /\ flagLost = FALSE
    /\ boot = 1
    /\ active = nvram.mode
    /\ backups = <<>>
    /\ foreign = 0
    /\ foreignNow = FALSE
    /\ conflict = FALSE
    /\ lives = 1
    /\ main = "up"
    /\ lock = Nobody
    /\ save = [c \in Callers |-> Idle]

-----------------------------------------------------------------------------
(* Faulty variants of actions and helpers below: each has one slip and      *)
(* breaks a property stated further down.  No specification uses them.      *)

\* The state the password was asked for is not compared.
SecondLookUncompared(c) ==
    /\ At(c, "second") /\ Up /\ lock = Nobody
    /\ ~Refused /\ nvram.mode # save[c].mode
    /\ lock' = c
    /\ save' = [save EXCEPT ![c].pc = "backup", ![c].before = nvram]
    /\ UNCHANGED <<file, machine, backups>>

\* The lock is kept while the password is asked for.
FirstLookLocked(c) ==
    /\ At(c, "first") /\ Up /\ lock = Nobody
    /\ ~Refused
    /\ save' = [save EXCEPT ![c].authorized = nvram,
                            ![c].pc = IF nvram.mode # @ THEN "asking" ELSE "second"]
    /\ lock' = c
    /\ UNCHANGED <<file, machine, backups>>

\* The flag is put back only after a write that succeeded.
WriteFailsLeavingFlag(c) ==
    /\ At(c, "writing")
    /\ nvram' \in {nvram, [save[c].before EXCEPT !.mode = save[c].mode]}
    /\ Answer(c, "failed")
    /\ UNCHANGED <<immutable, flagLost, machine, backups>>

\* The lock is not taken again after the password.
SecondLookUnlocked(c) ==
    /\ At(c, "second") /\ Up
    /\ ~Refused /\ nvram.mode # save[c].mode /\ nvram = save[c].authorized
    /\ save' = [save EXCEPT ![c].pc = "backup", ![c].before = nvram]
    /\ UNCHANGED <<file, machine, backups, lock>>

\* The call keeps the mode the variable holds, not the one it was asked for.
RequestAny(c, mode) ==
    /\ At(c, "idle") /\ main = "up"
    /\ save' = [save EXCEPT ![c].pc = "first", ![c].mode = nvram.mode]
    /\ UNCHANGED <<file, machine, backups, lock>>

-----------------------------------------------------------------------------
(* set_mode                                                                *)

Request(c, mode) ==
    /\ At(c, "idle") /\ main = "up"
    /\ \A d \in Callers : d < c => ~At(d, "idle")
    /\ save' = [save EXCEPT ![c].pc = "first", ![c].mode = mode]
    /\ UNCHANGED <<file, machine, backups, lock>>

\* What the password is asked for; no password for a mode that is saved.
FirstLook(c) ==
    /\ At(c, "first") /\ Up /\ lock = Nobody
    /\ save' = [save EXCEPT
         ![c].authorized = IF Refused THEN @ ELSE nvram,
         ![c].pc = IF Refused THEN "refused"
                   ELSE IF nvram.mode # save[c].mode THEN "asking" ELSE "second"]
    /\ UNCHANGED <<file, machine, backups, lock>>

\* pkcheck, outside the lock: given, or denied, cancelled, out of time.
PasswordGiven(c) ==
    /\ At(c, "asking") /\ Up
    /\ save' = [save EXCEPT ![c].pc = "second", ![c].password = TRUE]
    /\ UNCHANGED <<file, machine, backups, lock>>

PasswordRefused(c) ==
    /\ At(c, "asking") /\ Up
    /\ Goto(c, "refused")
    /\ UNCHANGED <<file, machine, backups, lock>>

SecondLookRefuses(c) ==
    /\ At(c, "second") /\ Up /\ lock = Nobody
    /\ Goto(c, IF ~Refused /\ nvram.mode = save[c].mode THEN "unchanged" ELSE "refused")
    /\ Refused \/ nvram.mode = save[c].mode \/ nvram # save[c].authorized
    /\ UNCHANGED <<file, machine, backups, lock>>

SecondLook(c) ==
    /\ At(c, "second") /\ Up /\ lock = Nobody
    /\ ~Refused /\ nvram.mode # save[c].mode /\ nvram = save[c].authorized
    /\ lock' = c
    /\ save' = [save EXCEPT ![c].pc = "backup", ![c].before = nvram]
    /\ UNCHANGED <<file, machine, backups>>

Backup(c) ==
    /\ At(c, "backup")
    /\ backups' = Append(backups, [boot |-> boot, mode |-> save[c].before.mode])
    /\ Goto(c, "check")
    /\ UNCHANGED <<file, machine, lock>>

\* A disk error leaves no complete file.
BackupFails(c) ==
    /\ At(c, "backup")
    /\ Answer(c, "refused")
    /\ UNCHANGED <<file, machine, backups>>

Recheck(c) ==
    /\ At(c, "check")
    /\ IF Refused \/ nvram # save[c].before
       THEN Answer(c, "refused")
       ELSE Goto(c, "last") /\ UNCHANGED lock
    /\ UNCHANGED <<file, machine, backups>>

\* The last look at other writers.
LastRefused(c) ==
    /\ At(c, "last") /\ conflict
    /\ Answer(c, "refused")
    /\ UNCHANGED <<file, machine, backups>>

\* LinuxFirmwareTransport.write: lift the flag, write, put the flag back.
LiftFlag(c) ==
    /\ At(c, "last") /\ ~conflict
    /\ immutable' = FALSE
    /\ save' = [save EXCEPT ![c].pc = "writing", ![c].lifted = immutable]
    /\ UNCHANGED <<nvram, flagLost, machine, backups, lock>>

LiftFails(c) ==
    /\ At(c, "last") /\ ~conflict
    /\ Answer(c, "failed")
    /\ UNCHANGED <<file, machine, backups>>

Payload(c) == [save[c].before EXCEPT !.mode = save[c].mode]

Write(c) ==
    /\ At(c, "writing")
    /\ nvram' = Payload(c)
    /\ Goto(c, "restore_ok")
    /\ UNCHANGED <<immutable, flagLost, machine, backups, lock>>

\* efivarfs can report an error after the variable was set.
WriteFails(c) ==
    /\ At(c, "writing")
    /\ nvram' \in {nvram, Payload(c)}
    /\ Goto(c, "restore_error")
    /\ UNCHANGED <<immutable, flagLost, machine, backups, lock>>

\* The finally block, for a flag that was set; a failure is only logged.
RestoreFlag(c) ==
    /\ save[c].pc \in {"restore_ok", "restore_error"}
    /\ immutable' \in IF save[c].lifted THEN BOOLEAN ELSE {immutable}
    /\ flagLost' = (flagLost \/ ~immutable')
    /\ IF At(c, "restore_ok")
       THEN Goto(c, "readback") /\ UNCHANGED lock
       ELSE Answer(c, "failed")
    /\ UNCHANGED <<nvram, machine, backups>>

Readback(c) ==
    /\ At(c, "readback")
    /\ Answer(c, IF nvram = Payload(c) THEN "changed" ELSE "failed")
    /\ UNCHANGED <<file, machine, backups>>

-----------------------------------------------------------------------------
(* Other tools, the service process and the machine                        *)

ConflictStarts ==
    /\ ~conflict /\ foreign < MaxForeign
    /\ conflict' = TRUE
    /\ foreign' = foreign + 1
    /\ UNCHANGED <<file, boot, active, foreignNow, lives, main,
                   backups, lock, save>>

ConflictEnds ==
    /\ conflict
    /\ conflict' = FALSE
    /\ UNCHANGED <<file, boot, active, foreign, foreignNow, lives, main,
                   backups, lock, save>>

ForeignWrite ==
    /\ foreign < MaxForeign
    /\ nvram' \in Firmware \ {nvram}
    /\ foreign' = foreign + 1
    /\ foreignNow' = TRUE
    /\ UNCHANGED <<immutable, flagLost, boot, active, conflict, lives, main,
                   backups, lock, save>>

\* stop(): the fans are safe, now keep saves out.
BeginStop ==
    /\ main = "up"
    /\ main' = "stopping"
    /\ UNCHANGED <<file, boot, active, foreign, foreignNow, conflict, lives,
                   backups, lock, save>>

\* block_writes takes the lock and never gives it back.
BlockWrites ==
    /\ main = "stopping" /\ lock = Nobody
    /\ main' = "blocked"
    /\ lock' = Stopper
    /\ UNCHANGED <<file, boot, active, foreign, foreignNow, conflict, lives,
                   backups, save>>

\* The process ends and its daemon threads with it.
Ends ==
    /\ main' = "down"
    /\ lock' = Nobody
    /\ save' = [c \in Callers |-> Idle]
    /\ flagLost' = (flagLost \/ ~immutable)
    /\ UNCHANGED <<nvram, immutable, boot, active, foreign, foreignNow, conflict,
                   lives, backups>>

Exit == main = "blocked" /\ Ends

\* block_writes waited 10 s for a save that is still running.
ExitInSave == main = "stopping" /\ lock # Nobody /\ Ends

Killed == Up /\ Ends

Restart ==
    /\ main = "down" /\ lives < MaxLives
    /\ main' = "up"
    /\ lives' = lives + 1
    /\ UNCHANGED <<file, boot, active, foreign, foreignNow, conflict,
                   backups, lock, save>>

\* The firmware applies what is saved; the kernel sets the flag again.
Reboot ==
    /\ main = "down" /\ lives < MaxLives
    /\ boot' = boot + 1
    /\ lives' = lives + 1
    /\ active' = IF nvram.mode \in Modes THEN nvram.mode ELSE active
    /\ immutable' = TRUE
    /\ flagLost' = FALSE
    /\ foreignNow' = FALSE
    /\ main' = "up"
    /\ UNCHANGED <<nvram, foreign, conflict, backups, lock, save>>

-----------------------------------------------------------------------------
\* Steps of a caller that need nobody from outside.
CallerStep(c) ==
    \/ FirstLook(c) \/ SecondLookRefuses(c) \/ SecondLook(c)
    \/ Backup(c) \/ BackupFails(c) \/ Recheck(c) \/ LastRefused(c)
    \/ LiftFlag(c) \/ LiftFails(c) \/ Write(c) \/ WriteFails(c)
    \/ RestoreFlag(c) \/ Readback(c)

Next ==
    \/ \E c \in Callers :
        \/ \E mode \in Modes : Request(c, mode)
        \/ PasswordGiven(c) \/ PasswordRefused(c)
        \/ CallerStep(c)
    \/ ConflictStarts \/ ConflictEnds \/ ForeignWrite
    \/ BeginStop \/ BlockWrites \/ Exit \/ ExitInSave \/ Killed
    \/ Restart \/ Reboot

Spec == Init /\ [][Next]_vars

\* Threads run and the lock is granted in turn; nobody promises that a
\* password dialog is ever answered.
Fairness == \A c \in Callers : WF_vars(CallerStep(c))

FairSpec == Spec /\ Fairness

-----------------------------------------------------------------------------
Saves ==
    [pc : Saving \cup {"idle", "first", "asking", "second", "refused",
                       "unchanged", "failed", "changed"},
     mode : Modes, authorized : Firmware \cup {NoState},
     before : Firmware \cup {NoState}, password : BOOLEAN, lifted : BOOLEAN]

TypeOK ==
    /\ nvram \in Firmware
    /\ immutable \in BOOLEAN /\ flagLost \in BOOLEAN
    /\ foreignNow \in BOOLEAN /\ conflict \in BOOLEAN
    /\ boot \in 1 .. MaxLives
    /\ active \in Modes
    /\ backups \in Seq([boot : 1 .. MaxLives, mode : Modes])
    /\ foreign \in 0 .. MaxForeign
    /\ lives \in 1 .. MaxLives
    /\ main \in {"up", "stopping", "blocked", "down"}
    /\ lock \in Callers \cup {Nobody, Stopper}
    /\ save \in [Callers -> Saves]

\* A write by the service changes nothing but the mode of the very state the
\* password was asked for, whatever other callers and tools did while the
\* dialog was open (gpu_mux.py:364-368).
PasswordCoversWrite ==
    [][\A c \in Callers :
         At(c, "writing") /\ save'[c].pc \in {"restore_ok", "restore_error"}
           /\ nvram' # nvram
         => /\ save[c].password
            /\ nvram' = [save[c].authorized EXCEPT !.mode = save[c].mode]]_vars

\* The reboot hint tells whether the saved mode is the one this boot started
\* with, across saves, failed saves, kills and lives of the service, unless
\* another tool wrote the variable in this boot (gpu_mux.py:298-303).
RebootHintIsTrue ==
    ~foreignNow /\ nvram.mode \in Modes
        => (RebootRequired <=> nvram.mode # active)

\* At most one save is between its backup and its readback, and none once a
\* stop has the lock: an orderly stop cuts no save off (gpu_mux.py:265-269).
SaveIsWhole ==
    /\ \A c, d \in Callers :
         save[c].pc \in Saving /\ save[d].pc \in Saving => c = d
    /\ main = "blocked" => \A c \in Callers : save[c].pc \notin Saving

\* The immutable flag is off only while a save writes, or after a save of this
\* boot failed to restore it or was cut off (gpu_mux.py:90-111).
FlagIsRestored ==
    immutable \/ flagLost \/ \E c \in Callers :
        save[c].pc \in {"writing", "restore_ok", "restore_error"}

\* A save gives the lock back, also when the password dialog of another one is
\* never answered: the state can be read meanwhile (gpu_mux.py:352-353).
LockComesFree == lock \in Callers ~> lock \notin Callers
=============================================================================
