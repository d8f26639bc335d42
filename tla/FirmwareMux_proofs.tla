-------------------------- MODULE FirmwareMux_proofs --------------------------
(***************************************************************************)
(* The safety of FirmwareMux for any number of set_mode calls, of lives of *)
(* the service and of foreign writes.                                      *)
(***************************************************************************)
EXTENDS FirmwareMux, TLAPS

(* The inductive strengthening.                                            *)

\* A save from its backup to its readback holds the lock, and so does a stop
\* from then on.
LockShape ==
    /\ \A c \in Callers : save[c].pc \in Saving => lock = c
    /\ main = "blocked" => lock = Stopper

\* What a call knows of a password: it was given if the state that was looked
\* at has another mode than the one asked for, and this state is written.
Knows(s) ==
    /\ s.pc = "second" => (s.authorized.mode # s.mode => s.password)
    /\ s.pc \in Saving =>
         s.password /\ s.before = s.authorized /\ s.before \in [mode : Modes, rest : Rests]

PasswordShape == \A c \in Callers : Knows(save[c])

BootCounted == boot \leq lives

IInv == TypeOK /\ BootCounted /\ LockShape /\ PasswordShape /\ FlagIsRestored

-----------------------------------------------------------------------------
(* What a step of a caller c leaves it with, r, and what it does meanwhile. *)

Open == {"writing", "restore_ok", "restore_error"}

LockMoves(c, r) ==
    \/ lock' = lock /\ (r.pc \notin Saving \/ save[c].pc \in Saving)
    \/ lock = Nobody /\ lock' = c
    \/ lock' = Nobody /\ save[c].pc \in Saving /\ r.pc \notin Saving

FlagMoves(c, r) ==
    \/ immutable' \/ flagLost'
    \/ r.pc \in Open
    \/ UNCHANGED <<immutable, flagLost>> /\ save[c].pc \notin Open

Moves(c, r) ==
    /\ save' = [save EXCEPT ![c] = r]
    /\ UNCHANGED main
    /\ LockMoves(c, r)
    /\ FlagMoves(c, r)
    /\ Knows(r)

\* A step to pc that changes nothing else of what the call holds.
LEMMA Going ==
  ASSUME NEW c \in Callers, save \in [Callers -> Saves],
         NEW pc \in Saving \cup {"refused", "unchanged", "failed", "changed"},
         Goto(c, pc)
  PROVE  LET r == [save[c] EXCEPT !.pc = pc] IN
         /\ r \in Saves
         /\ save' = [save EXCEPT ![c] = r]
         /\ r.pc = pc
         /\ r.password = save[c].password
         /\ r.before = save[c].before
         /\ r.authorized = save[c].authorized
<1>1. save[c] \in Saves
  OBVIOUS
<1> DEFINE r == [save[c] EXCEPT !.pc = pc]
<1>2. r \in Saves
  BY <1>1, Zenon DEF Saves
<1>3. save' = [save EXCEPT ![c] = r]
  BY Zenon DEF Goto
<1>4. /\ r.pc = pc /\ r.password = save[c].password
      /\ r.before = save[c].before /\ r.authorized = save[c].authorized
  BY <1>1, Zenon DEF Saves
<1> QED
  BY <1>2, <1>3, <1>4

LEMMA CallerMoves ==
  ASSUME TypeOK, PasswordShape, NEW c \in Callers,
         \/ \E mode \in Modes : Request(c, mode)
         \/ PasswordGiven(c) \/ PasswordRefused(c) \/ CallerStep(c)
  PROVE  \E r \in Saves : Moves(c, r)
<1>1. save[c] \in Saves /\ Knows(save[c])
  BY DEF TypeOK, PasswordShape
<1>2. ASSUME NEW mode \in Modes, Request(c, mode)
      PROVE  \E r \in Saves : Moves(c, r)
  <2> DEFINE r == [save[c] EXCEPT !.pc = "first", !.mode = mode]
  <2>1. r \in Saves /\ r.pc = "first"
    BY <1>1, Zenon DEF Saves
  <2>2. save' = [save EXCEPT ![c] = r]
    BY <1>2, Zenon DEF Request
  <2>3. LockMoves(c, r) /\ FlagMoves(c, r) /\ UNCHANGED main
    BY <1>2, <2>1 DEF Request, At, LockMoves, FlagMoves, Saving, Open, file, machine
  <2>4. Knows(r)
    BY <2>1 DEF Knows, Saving
  <2> HIDE DEF r
  <2> QED
    BY <2>1, <2>2, <2>3, <2>4 DEF Moves
<1>3. CASE FirstLook(c)
  <2> DEFINE known == IF Refused THEN save[c].authorized ELSE nvram
             next  == IF Refused THEN "refused"
                      ELSE IF nvram.mode # save[c].mode THEN "asking" ELSE "second"
             r == [save[c] EXCEPT !.authorized = known, !.pc = next]
  <2>1. known \in Firmware \cup {NoState} /\ next \in {"refused", "asking", "second"}
    BY <1>1, SMT DEF Saves, TypeOK
  <2>2. next = "second" => known.mode = save[c].mode
    OBVIOUS
  <2>3. /\ r \in Saves /\ r.pc = next
        /\ r.authorized = known /\ r.mode = save[c].mode
    <3> HIDE DEF known, next
    <3> QED
      BY <1>1, <2>1, Zenon DEF Saves
  <2>4. save' = [save EXCEPT ![c] = r]
    BY <1>3, Zenon DEF FirstLook
  <2> HIDE DEF known, next, r
  <2>5. LockMoves(c, r) /\ FlagMoves(c, r) /\ UNCHANGED main
    BY <1>3, <2>1, <2>3 DEF FirstLook, At, LockMoves, FlagMoves, Saving, Open, file, machine
  <2>6. Knows(r)
    BY <2>1, <2>2, <2>3 DEF Knows, Saving
  <2> QED
    BY <2>3, <2>4, <2>5, <2>6 DEF Moves
<1>4. CASE PasswordGiven(c)
  <2> DEFINE r == [save[c] EXCEPT !.pc = "second", !.password = TRUE]
  <2>1. r \in Saves /\ r.pc = "second" /\ r.password
    BY <1>1, Zenon DEF Saves
  <2>2. save' = [save EXCEPT ![c] = r]
    BY <1>4, Zenon DEF PasswordGiven
  <2>3. LockMoves(c, r) /\ FlagMoves(c, r) /\ UNCHANGED main
    BY <1>4, <2>1 DEF PasswordGiven, At, LockMoves, FlagMoves, Saving, Open, file, machine
  <2>4. Knows(r)
    BY <2>1 DEF Knows, Saving
  <2> HIDE DEF r
  <2> QED
    BY <2>1, <2>2, <2>3, <2>4 DEF Moves
<1>5. CASE PasswordRefused(c) \/ SecondLookRefuses(c)
  <2>1. PICK pc \in {"refused", "unchanged"} : Goto(c, pc)
    BY <1>5, Zenon DEF PasswordRefused, SecondLookRefuses
  <2> DEFINE r == [save[c] EXCEPT !.pc = pc]
  <2>2. r \in Saves /\ save' = [save EXCEPT ![c] = r] /\ r.pc = pc
    BY <2>1, Going DEF TypeOK
  <2> HIDE DEF r
  <2>3. LockMoves(c, r) /\ FlagMoves(c, r) /\ UNCHANGED main
    BY <1>5, <2>2 DEF PasswordRefused, SecondLookRefuses, At, LockMoves, FlagMoves,
                      Saving, Open, file, machine
  <2>4. Knows(r)
    BY <2>2 DEF Knows, Saving
  <2> QED
    BY <2>2, <2>3, <2>4 DEF Moves
<1>6. CASE SecondLook(c)
  <2> DEFINE r == [save[c] EXCEPT !.pc = "backup", !.before = nvram]
  <2>1. /\ r \in Saves /\ r.pc = "backup" /\ r.before = nvram
        /\ r.password = save[c].password /\ r.authorized = save[c].authorized
    BY <1>1, Zenon DEF Saves, Saving, TypeOK
  <2>2. save' = [save EXCEPT ![c] = r]
    BY <1>6, Zenon DEF SecondLook
  <2> HIDE DEF r
  <2>3. LockMoves(c, r) /\ FlagMoves(c, r) /\ UNCHANGED main
    BY <1>6, <2>1 DEF SecondLook, At, LockMoves, FlagMoves, Saving, Open, file, machine
  <2>4. save[c].password /\ save[c].authorized = nvram
    BY <1>1, <1>6, Zenon DEF SecondLook, At, Knows
  <2>5. nvram \in [mode : Modes, rest : Rests]
    <3>1. nvram \in Firmware /\ nvram.mode # "unknown"
      BY <1>6 DEF SecondLook, Refused, TypeOK
    <3>2. nvram.mode \in Modes /\ nvram.rest \in Rests
      BY <3>1 DEF Firmware
    <3>3. nvram = [mode |-> nvram.mode, rest |-> nvram.rest]
      BY <3>1, Zenon DEF Firmware
    <3> QED
      BY <3>2, <3>3, Zenon
  <2>6. Knows(r)
    BY <2>1, <2>4, <2>5, Zenon DEF Knows, Saving
  <2> QED
    BY <2>1, <2>2, <2>3, <2>6 DEF Moves
<1>7. CASE LiftFlag(c)
  <2> DEFINE r == [save[c] EXCEPT !.pc = "writing", !.lifted = immutable]
  <2>1. /\ r \in Saves /\ r.pc = "writing" /\ r.before = save[c].before
        /\ r.password = save[c].password /\ r.authorized = save[c].authorized
    BY <1>1, Zenon DEF Saves, Saving, TypeOK
  <2>2. save' = [save EXCEPT ![c] = r]
    BY <1>7, Zenon DEF LiftFlag
  <2> HIDE DEF r
  <2>3. LockMoves(c, r) /\ FlagMoves(c, r) /\ UNCHANGED main
    BY <1>7, <2>1 DEF LiftFlag, At, LockMoves, FlagMoves, Saving, Open, machine
  <2>4. Knows(r)
    BY <1>1, <1>7, <2>1, Zenon DEF LiftFlag, At, Knows, Saving
  <2> QED
    BY <2>1, <2>2, <2>3, <2>4 DEF Moves
<1>8. CASE \/ Backup(c) \/ BackupFails(c) \/ Recheck(c) \/ LastRefused(c) \/ LiftFails(c)
           \/ Write(c) \/ WriteFails(c) \/ RestoreFlag(c) \/ Readback(c)
  <2>1. PICK pc \in Saving \cup {"refused", "failed", "changed"} :
          /\ Goto(c, pc)
          /\ lock' = lock \/ (lock' = Nobody /\ pc \notin Saving)
          /\ At(c, "writing") => pc \in Open
    <3>1. CASE Backup(c)
      BY <3>1, Zenon DEF Backup, At, Saving
    <3>2. CASE BackupFails(c) \/ LastRefused(c)
      BY <3>2, Zenon DEF BackupFails, LastRefused, Answer, At, Saving
    <3>3. CASE Recheck(c)
      BY <3>3, Zenon DEF Recheck, Answer, At, Saving
    <3>4. CASE LiftFails(c)
      BY <3>4, Zenon DEF LiftFails, Answer, At, Saving
    <3>5. CASE Write(c) \/ WriteFails(c)
      BY <3>5, Zenon DEF Write, WriteFails, At, Saving, Open
    <3>6. CASE RestoreFlag(c)
      BY <3>6, Zenon DEF RestoreFlag, Answer, At, Saving
    <3>7. CASE Readback(c)
      BY <3>7, Zenon DEF Readback, Answer, At, Saving
    <3> QED
      BY <1>8, <3>1, <3>2, <3>3, <3>4, <3>5, <3>6, <3>7
  <2> DEFINE r == [save[c] EXCEPT !.pc = pc]
  <2>2. /\ r \in Saves /\ save' = [save EXCEPT ![c] = r] /\ r.pc = pc
        /\ r.password = save[c].password /\ r.before = save[c].before
        /\ r.authorized = save[c].authorized
    BY <2>1, Going DEF TypeOK
  <2> HIDE DEF r
  <2>3. save[c].pc \in Saving
    BY <1>8 DEF Backup, BackupFails, Recheck, LastRefused, LiftFails, Write,
                WriteFails, RestoreFlag, Readback, At, Saving
  <2>4. UNCHANGED main
    BY <1>8 DEF Backup, BackupFails, Recheck, LastRefused, LiftFails, Write,
                WriteFails, RestoreFlag, Readback, machine
  <2>5. LockMoves(c, r)
    BY <2>1, <2>2, <2>3 DEF LockMoves
  <2>6. FlagMoves(c, r)
    <3>1. CASE Backup(c) \/ BackupFails(c) \/ Recheck(c) \/ LastRefused(c) \/ LiftFails(c) \/ Readback(c)
      BY <3>1 DEF Backup, BackupFails, Recheck, LastRefused, LiftFails, Readback, At, Open,
                  FlagMoves, file
    <3>2. CASE Write(c) \/ WriteFails(c)
      BY <2>1, <2>2, <3>2 DEF Write, WriteFails, FlagMoves
    <3>3. CASE RestoreFlag(c)
      BY <3>3 DEF RestoreFlag, FlagMoves
    <3> QED
      BY <1>8, <3>1, <3>2, <3>3
  <2>7. Knows(r)
    BY <1>1, <2>2, <2>3, Zenon DEF Knows, Saving
  <2> QED
    BY <2>2, <2>4, <2>5, <2>6, <2>7 DEF Moves
<1> QED
  BY <1>2, <1>3, <1>4, <1>5, <1>6, <1>7, <1>8, Zenon DEF CallerStep

-----------------------------------------------------------------------------
(* The lock and what a step does to it.                                    *)

LEMMA Owners ==
  /\ Stopper \notin Callers
  /\ Nobody \notin Callers
  /\ Stopper # Nobody
BY NatAssumption, SMT DEF Stopper, Callers, Nobody

\* Moves of callers keep the shape of the lock, the passwords and the flag.
LEMMA MovesKeep ==
  ASSUME IInv, NEW c \in Callers, NEW r \in Saves, Moves(c, r)
  PROVE  /\ save' \in [Callers -> Saves]
         /\ lock' \in Callers \cup {Nobody, Stopper}
         /\ LockShape' /\ PasswordShape' /\ FlagIsRestored'
<1>1. save \in [Callers -> Saves] /\ save' = [save EXCEPT ![c] = r]
  BY DEF IInv, TypeOK, Moves
<1>2. save' \in [Callers -> Saves]
  BY <1>1, Zenon
<1>3. save'[c] = r /\ \A d \in Callers : d # c => save'[d] = save[d]
  BY <1>1, Zenon
<1>4. lock' \in Callers \cup {Nobody, Stopper}
  BY DEF IInv, TypeOK, Moves, LockMoves
<1>5. LockShape'
  <2>1. ASSUME NEW d \in Callers, save'[d].pc \in Saving
        PROVE  lock' = d
    <3>1. CASE d = c
      BY <1>3, <2>1, <3>1, Owners DEF IInv, LockShape, Moves, LockMoves
    <3>2. CASE d # c
      BY <1>3, <2>1, <3>2, Owners DEF IInv, LockShape, Moves, LockMoves
    <3> QED
      BY <3>1, <3>2
  <2>2. main' = "blocked" => lock' = Stopper
    BY Owners DEF IInv, LockShape, Moves, LockMoves
  <2> QED
    BY <2>1, <2>2 DEF LockShape
<1>6. PasswordShape'
  <2>1. ASSUME NEW d \in Callers PROVE Knows(save'[d])
    <3>1. CASE d = c
      BY <1>3, <3>1, Zenon DEF Moves
    <3>2. CASE d # c
      BY <1>3, <3>2, Zenon DEF IInv, PasswordShape
    <3> QED
      BY <3>1, <3>2
  <2>2. (\A d \in Callers : Knows(save[d]))' <=> \A d \in Callers : Knows(save'[d])
    BY DEF Knows
  <2> QED
    BY <2>1, <2>2 DEF PasswordShape
<1>7. FlagIsRestored'
  <2>1. CASE immutable' \/ flagLost'
    BY <2>1 DEF FlagIsRestored
  <2>2. CASE r.pc \in Open
    BY <1>3, <2>2 DEF FlagIsRestored, Open
  <2>3. CASE UNCHANGED <<immutable, flagLost>> /\ save[c].pc \notin Open
    <3>1. CASE immutable \/ flagLost
      BY <2>3, <3>1 DEF FlagIsRestored
    <3>2. CASE \E d \in Callers : save[d].pc \in Open
      <4>1. PICK d \in Callers : save[d].pc \in Open
        BY <3>2
      <4>2. save'[d].pc \in Open
        BY <1>3, <2>3, <4>1
      <4> QED
        BY <4>2 DEF FlagIsRestored, Open
    <3> QED
      BY <3>1, <3>2 DEF IInv, FlagIsRestored, Open
  <2> QED
    BY <2>1, <2>2, <2>3 DEF Moves, FlagMoves
<1> QED
  BY <1>2, <1>4, <1>5, <1>6, <1>7

\* The rest of the state that a caller moves.
LEMMA CallerKeepsTypes ==
  ASSUME IInv, NEW c \in Callers,
         \/ \E mode \in Modes : Request(c, mode)
         \/ PasswordGiven(c) \/ PasswordRefused(c) \/ CallerStep(c)
  PROVE  /\ nvram' \in Firmware
         /\ immutable' \in BOOLEAN /\ flagLost' \in BOOLEAN
         /\ backups' \in Seq([boot : 1 .. MaxLives, mode : Modes])
         /\ UNCHANGED machine
<1>1. TypeOK /\ save[c] \in Saves /\ Knows(save[c])
  BY DEF IInv, TypeOK, PasswordShape
<1>2. CASE Write(c) \/ WriteFails(c)
  <2>1. save[c].before \in [mode : Modes, rest : Rests] /\ save[c].mode \in Modes
    BY <1>1, <1>2 DEF Knows, Write, WriteFails, At, Saving, Saves
  <2>2. Payload(c) \in Firmware
    BY <2>1, Zenon DEF Payload, Firmware
  <2> QED
    BY <1>1, <1>2, <2>2 DEF Write, WriteFails, TypeOK
<1>3. CASE Backup(c)
  <2>1. save[c].before \in [mode : Modes, rest : Rests]
    BY <1>1, <1>3 DEF Knows, Backup, At, Saving
  <2>2. [boot |-> boot, mode |-> save[c].before.mode] \in [boot : 1 .. MaxLives, mode : Modes]
    BY <1>1, <2>1, Zenon DEF TypeOK
  <2>3. backups' \in Seq([boot : 1 .. MaxLives, mode : Modes])
    <3> DEFINE b == [boot |-> boot, mode |-> save[c].before.mode]
               S == [boot : 1 .. MaxLives, mode : Modes]
    <3>1. b \in S /\ backups \in Seq(S) /\ backups' = Append(backups, b)
      BY <1>1, <1>3, <2>2 DEF Backup, TypeOK
    <3> HIDE DEF b, S
    <3>2. backups' \in Seq(S)
      BY <3>1
    <3> QED
      BY <3>2 DEF S
  <2> QED
    BY <1>1, <1>3, <2>3 DEF Backup, TypeOK, file
<1>4. CASE LiftFlag(c) \/ RestoreFlag(c)
  BY <1>1, <1>4 DEF LiftFlag, RestoreFlag, TypeOK
<1>5. CASE \/ \E mode \in Modes : Request(c, mode)
           \/ PasswordGiven(c) \/ PasswordRefused(c)
           \/ FirstLook(c) \/ SecondLookRefuses(c) \/ SecondLook(c)
           \/ BackupFails(c) \/ Recheck(c) \/ LastRefused(c)
           \/ LiftFails(c) \/ Readback(c)
  <2>1. UNCHANGED <<nvram, immutable, flagLost, backups>> /\ UNCHANGED machine
    BY <1>5 DEF Request, PasswordGiven, PasswordRefused, FirstLook, SecondLookRefuses,
         SecondLook, BackupFails, Recheck, LastRefused, LiftFails, Readback, file
  <2> QED
    BY <1>1, <2>1 DEF TypeOK
<1> QED
  BY <1>2, <1>3, <1>4, <1>5, Zenon DEF CallerStep

LEMMA CallerKeeps ==
  ASSUME IInv, NEW c \in Callers,
         \/ \E mode \in Modes : Request(c, mode)
         \/ PasswordGiven(c) \/ PasswordRefused(c) \/ CallerStep(c)
  PROVE  IInv'
<1>1. PICK r \in Saves : Moves(c, r)
  BY CallerMoves, Zenon DEF IInv
<1>2. /\ save' \in [Callers -> Saves]
      /\ lock' \in Callers \cup {Nobody, Stopper}
      /\ LockShape' /\ PasswordShape' /\ FlagIsRestored'
  BY <1>1, MovesKeep
<1>3. /\ nvram' \in Firmware
      /\ immutable' \in BOOLEAN /\ flagLost' \in BOOLEAN
      /\ backups' \in Seq([boot : 1 .. MaxLives, mode : Modes])
      /\ UNCHANGED machine
  BY CallerKeepsTypes
<1>4. TypeOK'
  BY <1>2, <1>3 DEF IInv, TypeOK, machine
<1>5. BootCounted'
  BY <1>3 DEF IInv, BootCounted, machine
<1> QED
  BY <1>2, <1>4, <1>5 DEF IInv

-----------------------------------------------------------------------------
(* Other tools, the service process and the machine.                       *)

\* The process ends: nobody saves any more and the lock is nobody's.
LEMMA EndsKeeps ==
  ASSUME IInv, Ends
  PROVE  IInv'
<1>1. Idle \in Saves /\ Idle.pc = "idle"
  BY Zenon DEF Idle, Saves, Modes
<1>2. save' \in [Callers -> Saves] /\ \A c \in Callers : save'[c] = Idle
  BY <1>1, Zenon DEF Ends
<1>3. \A c \in Callers : save'[c].pc = "idle"
  BY <1>1, <1>2, Zenon
<1>4. TypeOK'
  BY <1>2 DEF Ends, IInv, TypeOK
<1>5. LockShape'
  BY <1>3 DEF Ends, LockShape, Saving
<1>6. PasswordShape'
  BY <1>3 DEF PasswordShape, Knows, Saving
<1>7. FlagIsRestored' /\ BootCounted'
  BY DEF Ends, FlagIsRestored, IInv, BootCounted
<1> QED
  BY <1>4, <1>5, <1>6, <1>7 DEF IInv

LEMMA EnvironmentKeeps ==
  ASSUME IInv,
         \/ ConflictStarts \/ ConflictEnds \/ ForeignWrite
         \/ BeginStop \/ BlockWrites \/ Restart \/ Reboot
  PROVE  IInv'
<1>1. save' = save
  BY DEF ConflictStarts, ConflictEnds, ForeignWrite, BeginStop, BlockWrites, Restart, Reboot
<1>2. PasswordShape'
  BY <1>1 DEF IInv, PasswordShape, Knows
<1>3. CASE ConflictStarts \/ ConflictEnds \/ ForeignWrite
  <2>1. UNCHANGED <<immutable, flagLost, boot, active, lives, main, backups, lock>>
    BY <1>3 DEF ConflictStarts, ConflictEnds, ForeignWrite, file
  <2>2. nvram' \in Firmware /\ conflict' \in BOOLEAN /\ foreignNow' \in BOOLEAN
    BY <1>3 DEF ConflictStarts, ConflictEnds, ForeignWrite, file, IInv, TypeOK
  <2>3. foreign' \in 0 .. MaxForeign
    BY <1>3, NatAssumption DEF ConflictStarts, ConflictEnds, ForeignWrite, IInv, TypeOK
  <2>4. TypeOK'
    BY <1>1, <2>1, <2>2, <2>3 DEF IInv, TypeOK
  <2>5. LockShape' /\ FlagIsRestored' /\ BootCounted'
    BY <1>1, <2>1 DEF IInv, LockShape, FlagIsRestored, BootCounted
  <2> QED
    BY <1>2, <2>4, <2>5 DEF IInv
<1>4. CASE BeginStop \/ BlockWrites
  <2>1. TypeOK'
    BY <1>4 DEF BeginStop, BlockWrites, file, IInv, TypeOK
  <2>2. LockShape'
    BY <1>1, <1>4, Owners DEF BeginStop, BlockWrites, IInv, LockShape
  <2>3. FlagIsRestored' /\ BootCounted'
    BY <1>1, <1>4 DEF BeginStop, BlockWrites, file, IInv, FlagIsRestored, BootCounted
  <2> QED
    BY <1>2, <2>1, <2>2, <2>3 DEF IInv
<1>5. CASE Restart
  <2>1. TypeOK'
    BY <1>5, NatAssumption DEF Restart, file, IInv, TypeOK
  <2>2. LockShape' /\ FlagIsRestored'
    BY <1>1, <1>5 DEF Restart, file, IInv, LockShape, FlagIsRestored
  <2>3. BootCounted'
    BY <1>5 DEF Restart, IInv, BootCounted, TypeOK
  <2> QED
    BY <1>2, <2>1, <2>2, <2>3 DEF IInv
<1>6. CASE Reboot
  <2>1. boot' \in 1 .. MaxLives /\ lives' \in 1 .. MaxLives /\ BootCounted'
    BY <1>6, NatAssumption DEF Reboot, IInv, TypeOK, BootCounted
  <2>2. TypeOK'
    BY <1>6, <2>1 DEF Reboot, IInv, TypeOK
  <2>3. LockShape' /\ FlagIsRestored'
    BY <1>1, <1>6 DEF Reboot, IInv, LockShape, FlagIsRestored
  <2> QED
    BY <1>2, <2>1, <2>2, <2>3 DEF IInv
<1> QED
  BY <1>3, <1>4, <1>5, <1>6

LEMMA Initial == Init => IInv
<1> SUFFICES ASSUME Init PROVE IInv
  OBVIOUS
<1>1. Idle \in Saves /\ Idle.pc = "idle"
  BY Zenon DEF Idle, Saves, Modes
<1>2. save \in [Callers -> Saves] /\ \A c \in Callers : save[c].pc = "idle"
  BY <1>1, Zenon DEF Init
<1>3. nvram \in Firmware /\ active \in Modes
  BY DEF Init, Firmware
<1>4. boot \in 1 .. MaxLives /\ lives \in 1 .. MaxLives /\ foreign \in 0 .. MaxForeign
  BY NatAssumption DEF Init
<1>5. backups \in Seq([boot : 1 .. MaxLives, mode : Modes])
  BY DEF Init
<1>6. TypeOK
  BY <1>2, <1>3, <1>4, <1>5 DEF Init, TypeOK
<1>7. LockShape /\ PasswordShape /\ FlagIsRestored /\ BootCounted
  BY <1>2 DEF Init, LockShape, PasswordShape, Knows, Saving, FlagIsRestored, BootCounted
<1> QED
  BY <1>6, <1>7 DEF IInv

\* Every step of set_mode, of other tools, of a stop, a kill, a restart and a
\* reboot keeps the strengthening.
THEOREM Inductive == Spec => []IInv
<1>1. IInv /\ [Next]_vars => IInv'
  <2> SUFFICES ASSUME IInv, [Next]_vars PROVE IInv'
    OBVIOUS
  <2>1. ASSUME NEW c \in Callers,
               \/ \E mode \in Modes : Request(c, mode)
               \/ PasswordGiven(c) \/ PasswordRefused(c) \/ CallerStep(c)
        PROVE  IInv'
    BY <2>1, CallerKeeps, Zenon
  <2>2. CASE \/ ConflictStarts \/ ConflictEnds \/ ForeignWrite
             \/ BeginStop \/ BlockWrites \/ Restart \/ Reboot
    BY <2>2, EnvironmentKeeps, Zenon
  <2>3. CASE Exit \/ ExitInSave \/ Killed
    BY <2>3, EndsKeeps, Zenon DEF Exit, ExitInSave, Killed
  <2>4. CASE UNCHANGED vars
    BY <2>4 DEF vars, IInv, TypeOK, LockShape, PasswordShape, Knows, FlagIsRestored, BootCounted
  <2> QED
    BY <2>1, <2>2, <2>3, <2>4, Zenon DEF Next
<1> QED
  BY <1>1, Initial, PTL DEF Spec

\* The variables of the mux keep their types.
THEOREM TypeCorrect == Spec => []TypeOK
<1>1. IInv => TypeOK
  BY DEF IInv
<1> QED
  BY <1>1, Inductive, PTL

\* No two saves are in progress at once, and none once a stop has the lock
\* (gpu_mux.py:265-269).
THEOREM Whole == Spec => []SaveIsWhole
<1>1. IInv => SaveIsWhole
  BY Owners DEF IInv, LockShape, SaveIsWhole
<1> QED
  BY <1>1, Inductive, PTL

\* The immutable flag of the variable is put back, or its loss is known
\* (gpu_mux.py:90-111).
THEOREM FlagRestored == Spec => []FlagIsRestored
<1>1. IInv => FlagIsRestored
  BY DEF IInv
<1> QED
  BY <1>1, Inductive, PTL

\* What the service writes is what the password was asked for
\* (gpu_mux.py:364-368).
THEOREM PasswordCovers == Spec => PasswordCoversWrite
<1> DEFINE Covered == \A c \in Callers :
      At(c, "writing") /\ save'[c].pc \in {"restore_ok", "restore_error"} /\ nvram' # nvram
      => /\ save[c].password
         /\ nvram' = [save[c].authorized EXCEPT !.mode = save[c].mode]
<1>1. IInv /\ [Next]_vars => [Covered]_vars
  <2> SUFFICES ASSUME IInv, Next, NEW c \in Callers,
                      At(c, "writing"),
                      save'[c].pc \in {"restore_ok", "restore_error"}, nvram' # nvram
               PROVE  /\ save[c].password
                      /\ nvram' = [save[c].authorized EXCEPT !.mode = save[c].mode]
    BY Zenon
  <2>1. PICK d \in Callers : Write(d) \/ WriteFails(d)
    <3>1. ~ForeignWrite
      BY DEF ForeignWrite, At
    <3> QED
      BY <3>1 DEF Next, CallerStep, Request, FirstLook, PasswordGiven, PasswordRefused,
         SecondLookRefuses, SecondLook, Backup, BackupFails, Recheck, LastRefused, LiftFlag,
         LiftFails, RestoreFlag, Readback, ConflictStarts, ConflictEnds, BeginStop,
         BlockWrites, Exit, ExitInSave, Killed, Ends, Restart, Reboot, file
  <2>2. d = c
    BY <2>1 DEF Write, WriteFails, Goto, At, IInv, TypeOK
  <2>3. nvram' = Payload(c)
    BY <2>1, <2>2 DEF Write, WriteFails
  <2>4. save[c].password /\ save[c].before = save[c].authorized
    BY DEF IInv, PasswordShape, Knows, At, Saving
  <2> QED
    BY <2>3, <2>4 DEF Payload
<1> QED
  BY <1>1, Inductive, PTL DEF Spec, PasswordCoversWrite

-----------------------------------------------------------------------------
(* The reboot hint.                                                        *)

\* Unless another tool wrote: before the first backup of a boot the variable
\* has the mode of the boot, the first backup took it from there, and nothing
\* is written without one.
Older == \A i \in DOMAIN backups : backups[i].boot \leq boot

BootModeKept ==
    /\ BackupsOfBoot = {} /\ nvram.mode \in Modes => nvram.mode = active
    /\ BackupsOfBoot # {} =>
          \E i \in BackupsOfBoot :
             backups[i].mode = active /\ \A j \in BackupsOfBoot : i \leq j

BackupCovers ==
    /\ \A c \in Callers : save[c].pc = "backup" => save[c].before = nvram
    /\ \A c \in Callers : save[c].pc \in Saving \ {"backup"} => BackupsOfBoot # {}

\* A process that ended has no calls.
NoCalls == main = "down" => \A c \in Callers : save[c].pc = "idle"

HintShape == Older /\ NoCalls /\ (~foreignNow => BootModeKept /\ BackupCovers)

\* A call that changes neither variable nor backups
LEMMA HintUntouched ==
  ASSUME IInv, HintShape, NoCalls', UNCHANGED <<nvram, boot, active, backups>>,
         foreignNow' = foreignNow,
         \A c \in Callers :
            \/ save'[c].pc \notin Saving
            \/ save'[c].pc = save[c].pc /\ save'[c].before = save[c].before
            \/ save'[c].pc # "backup" /\ save[c].pc \in Saving \ {"backup"}
            \/ save'[c].pc = "backup" /\ save'[c].before = nvram
  PROVE  HintShape'
<1>1. BackupsOfBoot' = BackupsOfBoot /\ Older' /\ (BootModeKept' <=> BootModeKept)
  BY DEF HintShape, BackupsOfBoot, Older, BootModeKept
<1>2. ASSUME ~foreignNow PROVE BackupCovers'
  <2>1. BackupCovers
    BY <1>2 DEF HintShape
  <2>2. ASSUME NEW c \in Callers, save'[c].pc = "backup" PROVE save'[c].before = nvram
    BY <2>1, <2>2 DEF BackupCovers, Saving
  <2>3. ASSUME NEW c \in Callers, save'[c].pc \in Saving \ {"backup"} PROVE BackupsOfBoot # {}
    BY <2>1, <2>3 DEF BackupCovers, Saving
  <2> QED
    BY <1>1, <2>2, <2>3 DEF BackupCovers
<1> QED
  BY <1>1, <1>2 DEF HintShape

LEMMA HintBackup ==
  ASSUME IInv, HintShape, NoCalls', NEW c \in Callers, Backup(c)
  PROVE  HintShape'
<1> DEFINE b == [boot |-> boot, mode |-> save[c].before.mode]
           n == Len(backups)
<1>1. /\ backups \in Seq([boot : 1 .. MaxLives, mode : Modes]) /\ boot \in Nat /\ boot' = boot
      /\ active' = active /\ nvram' = nvram /\ foreignNow' = foreignNow
      /\ save[c].pc = "backup" /\ save \in [Callers -> Saves]
      /\ backups' = Append(backups, b) /\ save' = [save EXCEPT ![c].pc = "check"]
  BY NatAssumption DEF Backup, IInv, TypeOK, file, machine, At, Goto
<1>2. /\ n \in Nat /\ DOMAIN backups = 1 .. n /\ DOMAIN backups' = 1 .. n + 1
      /\ \A i \in 1 .. n : backups'[i] = backups[i]
      /\ backups'[n + 1] = b
  <2> DEFINE S == [boot : 1 .. MaxLives, mode : Modes]
  <2>1. b \in S
    BY DEF IInv, TypeOK, PasswordShape, Knows, Backup, At, Saving
  <2>2. backups \in Seq(S) /\ backups' = Append(backups, b)
    BY <1>1
  <2> HIDE DEF b, S
  <2> QED
    BY <2>1, <2>2
<1>3. b.boot = boot /\ b.mode = save[c].before.mode /\ save[c].before \in [mode : Modes, rest : Rests]
  BY <1>1 DEF IInv, PasswordShape, Knows, Saving
<1> HIDE DEF b, n
<1>4. BackupsOfBoot' = BackupsOfBoot \cup {n + 1}
  BY <1>1, <1>2, <1>3 DEF BackupsOfBoot
<1>5. Older'
  BY <1>1, <1>2, <1>3 DEF HintShape, Older
<1>6. ASSUME ~foreignNow PROVE BootModeKept'
  <2>1. CASE BackupsOfBoot = {}
    <3>1. save[c].before = nvram /\ nvram.mode \in Modes /\ nvram.mode = active
      BY <1>1, <1>3, <1>6, <2>1 DEF HintShape, BootModeKept, BackupCovers
    <3>2. BackupsOfBoot' = {n + 1} /\ backups'[n + 1].mode = active
      BY <1>2, <1>3, <1>4, <2>1, <3>1
    <3> QED
      BY <1>1, <1>2, <3>2 DEF BootModeKept
  <2>2. CASE BackupsOfBoot # {}
    <3>1. PICK i \in BackupsOfBoot : backups[i].mode = active /\ \A j \in BackupsOfBoot : i \leq j
      BY <1>6, <2>2 DEF HintShape, BootModeKept
    <3>2. i \in 1 .. n /\ backups'[i].mode = active
      BY <1>2, <3>1 DEF BackupsOfBoot
    <3>3. \A j \in BackupsOfBoot' : i \leq j
      BY <1>2, <1>4, <3>1, <3>2
    <3> QED
      BY <1>1, <1>4, <3>1, <3>2, <3>3 DEF BootModeKept
  <2> QED
    BY <2>1, <2>2
<1>7. ASSUME ~foreignNow PROVE BackupCovers'
  <2>1. \A d \in Callers : save[d].pc \in Saving => d = c
    BY <1>1 DEF IInv, LockShape, Saving
  <2>2. \A d \in Callers : save'[d].pc # "backup"
    BY <1>1, <2>1 DEF Saving
  <2> QED
    BY <1>4, <2>2 DEF BackupCovers
<1> QED
  BY <1>1, <1>5, <1>6, <1>7 DEF HintShape

\* What a step of the call c leaves of its record
LEMMA CallGoes ==
  ASSUME NEW c \in Callers, save \in [Callers -> Saves], NEW P,
         NEW pc \in Saving \cup {"refused", "unchanged", "failed", "changed"}, Goto(c, pc), pc \in P
  PROVE  save'[c].pc \in P
<1> DEFINE r == [save[c] EXCEPT !.pc = pc]
<1>1. save' = [save EXCEPT ![c] = r] /\ r.pc = pc
  BY Going
<1> HIDE DEF r
<1> QED
  BY <1>1

LEMMA HintCaller ==
  ASSUME IInv, HintShape, NEW c \in Callers,
         \/ \E mode \in Modes : Request(c, mode)
         \/ PasswordGiven(c) \/ PasswordRefused(c) \/ CallerStep(c)
  PROVE  HintShape'
<1>1. save \in [Callers -> Saves] /\ UNCHANGED machine /\ save[c] \in Saves
  BY CallerKeepsTypes DEF IInv, TypeOK
<1>2. \A d \in Callers : d # c => save'[d] = save[d]
  <2>1. PICK r \in Saves : Moves(c, r)
    BY CallerMoves, Zenon DEF IInv
  <2> QED
    BY <1>1, <2>1 DEF Moves
<1>3. main # "down"
  BY DEF HintShape, NoCalls, Up, At, Request, PasswordGiven, PasswordRefused, CallerStep, FirstLook,
     SecondLookRefuses, SecondLook, Backup, BackupFails, Recheck, LastRefused, LiftFlag, LiftFails,
     Write, WriteFails, RestoreFlag, Readback
<1>4. NoCalls'
  BY <1>1, <1>3 DEF NoCalls, machine
<1>5. CASE Backup(c)
  BY <1>4, <1>5, HintBackup
<1>6. CASE Write(c) \/ WriteFails(c)
  <2>1. save[c].pc = "writing" /\ backups' = backups
    BY <1>6 DEF Write, WriteFails, At
  <2>2. PICK pc \in {"restore_ok", "restore_error"} : Goto(c, pc)
    BY <1>6 DEF Write, WriteFails
  <2>3. save'[c].pc \in {"restore_ok", "restore_error"}
    BY <1>1, <2>2, CallGoes DEF Saving
  <2>4. \A d \in Callers : save'[d].pc \in Saving => d = c
    <3>1. lock = c
      BY <2>1 DEF IInv, LockShape, Saving
    <3> QED
      BY <1>2, <3>1 DEF IInv, LockShape
  <2>5. BackupsOfBoot' = BackupsOfBoot /\ (~foreignNow => BackupsOfBoot # {})
    BY <1>1, <2>1 DEF BackupsOfBoot, machine, HintShape, BackupCovers, Saving
  <2>6. \A d \in Callers : save'[d].pc # "backup"
    BY <2>3, <2>4 DEF Saving
  <2> QED
    BY <1>1, <1>4, <2>1, <2>5, <2>6 DEF HintShape, BootModeKept, BackupCovers, Older, machine
<1>7. CASE \/ \E mode \in Modes : Request(c, mode)
           \/ PasswordGiven(c) \/ PasswordRefused(c) \/ FirstLook(c) \/ SecondLookRefuses(c)
  <2>1. UNCHANGED <<nvram, backups>>
    BY <1>7 DEF Request, PasswordGiven, PasswordRefused, FirstLook, SecondLookRefuses, file
  <2>2. save'[c].pc \notin Saving
    <3>1. CASE \E mode \in Modes : Request(c, mode)
      <4>1. PICK mode \in Modes : save' = [save EXCEPT ![c].pc = "first", ![c].mode = mode]
        BY <3>1 DEF Request
      <4> QED
        BY <1>1, <4>1 DEF Saves, Saving
    <3>2. CASE PasswordGiven(c)
      BY <1>1, <3>2 DEF PasswordGiven, Saves, Saving
    <3>3. CASE FirstLook(c)
      <4> DEFINE known == IF Refused THEN save[c].authorized ELSE nvram
                 pc == IF Refused THEN "refused"
                       ELSE IF nvram.mode # save[c].mode THEN "asking" ELSE "second"
                 r == [save[c] EXCEPT !.authorized = known, !.pc = pc]
      <4>1. save' = [save EXCEPT ![c] = r] /\ pc \in {"refused", "asking", "second"}
        BY <3>3, Zenon DEF FirstLook
      <4>2. r.pc = pc
        BY <1>1, Zenon DEF Saves
      <4> HIDE DEF known, pc, r
      <4> QED
        BY <1>1, <4>1, <4>2 DEF Saving
    <3>4. CASE PasswordRefused(c) \/ SecondLookRefuses(c)
      <4>1. PICK pc \in {"refused", "unchanged"} : Goto(c, pc)
        BY <3>4 DEF PasswordRefused, SecondLookRefuses
      <4>2. save'[c].pc \in {"refused", "unchanged"}
        BY <1>1, <4>1, CallGoes
      <4> QED
        BY <4>2 DEF Saving
    <3> QED
      BY <1>7, <3>1, <3>2, <3>3, <3>4
  <2> QED
    BY <1>1, <1>2, <1>4, <2>1, <2>2, HintUntouched DEF machine
<1>8. CASE SecondLook(c)
  <2>1. /\ UNCHANGED <<nvram, backups>>
        /\ save' = [save EXCEPT ![c].pc = "backup", ![c].before = nvram]
    BY <1>8 DEF SecondLook, file
  <2>2. save'[c].pc = "backup" /\ save'[c].before = nvram
    BY <1>1, <2>1 DEF Saves
  <2> QED
    BY <1>1, <1>2, <1>4, <2>1, <2>2, HintUntouched DEF machine
<1>9. CASE LiftFlag(c)
  <2>1. /\ UNCHANGED <<nvram, backups>> /\ save[c].pc = "last"
        /\ save' = [save EXCEPT ![c].pc = "writing", ![c].lifted = immutable]
    BY <1>9 DEF LiftFlag, At
  <2>2. save'[c].pc # "backup" /\ save[c].pc \in Saving \ {"backup"}
    BY <1>1, <2>1 DEF Saves, Saving
  <2> QED
    BY <1>1, <1>2, <1>4, <2>1, <2>2, HintUntouched DEF machine
<1>10. CASE \/ BackupFails(c) \/ Recheck(c) \/ LastRefused(c) \/ LiftFails(c)
            \/ RestoreFlag(c) \/ Readback(c)
  <2>1. UNCHANGED <<nvram, backups>>
    BY <1>10 DEF BackupFails, Recheck, LastRefused, LiftFails, RestoreFlag, Readback, file
  <2>2. PICK pc \in {"refused", "failed", "changed", "last", "readback"} :
           /\ Goto(c, pc)
           /\ pc \in {"last", "readback"} => save[c].pc \in {"check", "restore_ok"}
    BY <1>10 DEF BackupFails, Recheck, LastRefused, LiftFails, RestoreFlag, Readback, Answer, At
  <2>3. save'[c].pc \in {pc}
    BY <1>1, <2>2, CallGoes DEF Saving
  <2>4. \/ save'[c].pc \notin Saving
        \/ save'[c].pc # "backup" /\ save[c].pc \in Saving \ {"backup"}
    BY <2>2, <2>3 DEF Saving
  <2> QED
    BY <1>1, <1>2, <1>4, <2>1, <2>4, HintUntouched DEF machine
<1> QED
  BY <1>5, <1>6, <1>7, <1>8, <1>9, <1>10 DEF CallerStep

LEMMA HintEnvironment ==
  ASSUME IInv, HintShape,
         \/ ConflictStarts \/ ConflictEnds \/ ForeignWrite \/ BeginStop \/ BlockWrites
         \/ Ends \/ Restart \/ Reboot
  PROVE  HintShape'
<1>1. CASE ForeignWrite
  BY <1>1 DEF ForeignWrite, HintShape, Older, NoCalls
<1>2. CASE ConflictStarts \/ ConflictEnds \/ BeginStop \/ BlockWrites \/ Restart
  <2>1. UNCHANGED <<nvram, boot, active, backups, save>> /\ foreignNow' = foreignNow
    BY <1>2 DEF ConflictStarts, ConflictEnds, BeginStop, BlockWrites, Restart, file
  <2>2. NoCalls'
    BY <1>2 DEF ConflictStarts, ConflictEnds, BeginStop, BlockWrites, Restart, HintShape, NoCalls
  <2> QED
    BY <2>1, <2>2, HintUntouched
<1>3. CASE Ends
  <2>1. UNCHANGED <<nvram, boot, active, backups>> /\ foreignNow' = foreignNow
    BY <1>3 DEF Ends
  <2>2. NoCalls' /\ \A c \in Callers : save'[c].pc \notin Saving
    BY <1>3 DEF Ends, Idle, Saving, NoCalls
  <2> QED
    BY <2>1, <2>2, HintUntouched
<1>4. CASE Reboot
  <2>1. /\ boot' = boot + 1 /\ boot \in Nat /\ UNCHANGED <<nvram, backups, save>> /\ main = "down"
        /\ active' = (IF nvram.mode \in Modes THEN nvram.mode ELSE active) /\ main' = "up"
    BY <1>4, NatAssumption DEF Reboot, IInv, TypeOK
  <2>2. \A i \in DOMAIN backups : backups[i].boot \in Nat
    <3> DEFINE S == [boot : 1 .. MaxLives, mode : Modes]
    <3>1. backups \in Seq(S) /\ \A b \in S : b.boot \in Nat
      BY NatAssumption DEF IInv, TypeOK
    <3> HIDE DEF S
    <3> QED
      BY <3>1
  <2>3. BackupsOfBoot' = {} /\ Older'
    BY <2>1, <2>2 DEF BackupsOfBoot, HintShape, Older
  <2>4. BackupCovers' /\ NoCalls'
    BY <2>1 DEF HintShape, NoCalls, BackupCovers, Saving
  <2> QED
    BY <2>1, <2>3, <2>4 DEF HintShape, BootModeKept
<1> QED
  BY <1>1, <1>2, <1>3, <1>4

\* The mode that a boot started with is the one of its first backup, or of the
\* variable, as long as no other tool writes: so the hint is true, however many
\* saves succeed, fail or are cut off (gpu_mux.py:298-303).
THEOREM HintTrue == Spec => []RebootHintIsTrue
<1>1. Init => HintShape
  BY DEF Init, HintShape, Older, NoCalls, BootModeKept, BackupCovers, BackupsOfBoot, Idle, Saving
<1>2. IInv /\ HintShape /\ [Next]_vars => HintShape'
  <2> SUFFICES ASSUME IInv, HintShape, [Next]_vars PROVE HintShape'
    OBVIOUS
  <2>1. ASSUME NEW c \in Callers,
               \/ \E mode \in Modes : Request(c, mode)
               \/ PasswordGiven(c) \/ PasswordRefused(c) \/ CallerStep(c)
        PROVE  HintShape'
    BY <2>1, HintCaller, Zenon
  <2>2. CASE \/ ConflictStarts \/ ConflictEnds \/ ForeignWrite \/ BeginStop \/ BlockWrites
             \/ Exit \/ ExitInSave \/ Killed \/ Restart \/ Reboot
    BY <2>2, HintEnvironment, Zenon DEF Exit, ExitInSave, Killed
  <2>3. CASE UNCHANGED vars
    BY <2>3 DEF vars, HintShape, Older, NoCalls, BootModeKept, BackupCovers, BackupsOfBoot
  <2> QED
    BY <2>1, <2>2, <2>3, Zenon DEF Next
<1>3. IInv /\ HintShape => RebootHintIsTrue
  <2> SUFFICES ASSUME IInv, HintShape, ~foreignNow, nvram.mode \in Modes
               PROVE  RebootRequired <=> nvram.mode # active
    BY DEF RebootHintIsTrue
  <2>1. CASE BackupsOfBoot = {}
    BY <2>1 DEF HintShape, BootModeKept, RebootRequired, ModeAtBoot
  <2>2. CASE BackupsOfBoot # {}
    <3>1. PICK i \in BackupsOfBoot : backups[i].mode = active /\ \A j \in BackupsOfBoot : i \leq j
      BY <2>2 DEF HintShape, BootModeKept
    <3>2. First(BackupsOfBoot) = i
      <4>1. \A j \in BackupsOfBoot : j \in Nat
        BY DEF IInv, TypeOK, BackupsOfBoot
      <4> QED
        BY <3>1, <4>1 DEF First
    <3> QED
      BY <2>2, <3>1, <3>2 DEF RebootRequired, ModeAtBoot
  <2> QED
    BY <2>1, <2>2
<1> QED
  BY <1>1, <1>2, <1>3, Inductive, PTL DEF Spec
=============================================================================
