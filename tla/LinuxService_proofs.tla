------------------------- MODULE LinuxService_proofs -------------------------
(***************************************************************************)
(* The safety properties of LinuxService for any number of peers, slots,   *)
(* settings and values: answered choices survive a kill, request slots     *)
(* come back, a resync is not forgotten.                                   *)
(***************************************************************************)
EXTENDS LinuxService, FiniteSetTheorems, TLAPS

Idle    == {"free", "full", "refused"}
InLane  == {"driver", "remember"}
Saving  == {"snapshot", "open", "write", "replace"}
Pcs     == Idle \cup {"read", "call", "captured", "reply"} \cup InLane \cup Saving
Late    == [setting : EcSettings, value : Values]

Fds     == {"none", "tmp", "file", "gone"}
Conns   == [pc : Pcs, setting : Settings \cup {None}, value : Values \cup {Unset},
            snapshot : Choices \cup {None}, fd : Fds]

OthersTyped ==
    /\ up \in {"no", "starting", "entering", "serving", "stopping"} /\ slots \in Nat
    /\ memory \in Choices /\ last \in Choices
    /\ desired \in [EcSettings -> Values \cup {Unset}]
    /\ lane \in Threads \cup {None} \cup Late
    /\ file \in Choices \cup {Empty, Torn} /\ tmp \in Choices \cup {Empty, Torn, None}
    /\ upkeep \in {"none", "wait", "clear", "look", "maintain"}
    /\ wakeup \in BOOLEAN /\ resync \in BOOLEAN /\ excused \in BOOLEAN
    /\ handler \in {"none", "set"}

TypeInv == conn \in [Threads -> Conns] /\ OthersTyped

\* What a thread is about, once it has read its request.
Asks(c) ==
    /\ conn[c].pc \in {"call", "captured"} \cup InLane \cup Saving =>
          conn[c].setting \in Settings /\ conn[c].value \in Values \cup {Unset}
    /\ conn[c].pc \in {"call"} \cup InLane => conn[c].value \in Values
    /\ conn[c].pc \in InLane => conn[c].setting \in EcSettings
    /\ c = Main => conn[c].pc \notin {"read", "call"} \cup InLane
    /\ conn[c].pc \in {"open", "write"} => conn[c].snapshot \in Choices

\* Nothing is left of a process that is down; the maintenance thread starts when
\* the server already serves, and before the main thread enters Automatic mode.
Down ==
    /\ up = "no" => lane = None /\ \A c \in Threads : conn[c] = NoConn
    /\ up \in {"no", "starting"} => upkeep = "none" /\ conn[Main].pc = "free"

\* Every slot is free or belongs to one thread.
SlotsCount ==
    /\ IsFiniteSet(Served)
    /\ slots + Cardinality(Served) = MAX_CONCURRENT_REQUESTS

\* A resync is on its way, unless maintenance has yet to look.
ResyncIsComing ==
    upkeep \notin {"clear", "look"} /\ resync => wakeup \/ handler = "set"

\* A choice with the setting of c changed as c asks.
Changed(c, choice) == [choice EXCEPT ![conn[c].setting] = conn[c].value]

Asserts(choice) == desired = Asserted(choice)

\* How far a change got, while it is the only one: in the lane nothing is
\* remembered; then memory has it; then settings.tmp has all of memory.  What
\* the main thread captured and saves is what there is.
Progress(c) ==
    /\ c = Main => Changed(c, last) = last
    /\ conn[c].pc \in {"captured"} \cup InLane => memory = last
    /\ conn[c].pc \in {"captured", "driver"} => Asserts(last)
    /\ conn[c].pc = "driver" => lane = c
    /\ conn[c].pc = "remember" => Asserts(Changed(c, last))
    /\ conn[c].pc \in Saving => memory = Changed(c, last) /\ Asserts(memory)
    /\ conn[c].pc \in {"open", "write"} => conn[c].snapshot = memory
    /\ conn[c].pc = "write" => conn[c].fd = "tmp" /\ tmp = Empty
    /\ conn[c].pc = "replace" => tmp = memory

OneChange ==
    up # "no" /\ ~excused =>
        /\ load_settings = last
        /\ lane \notin Late
        /\ \A c, d \in Working : c = d
        /\ \A c \in Working : Progress(c)
        /\ Working = {} => memory = last /\ Asserts(last)

Typed == TypeInv /\ \A c \in Threads : Asks(c)

IInv == Typed /\ Down /\ SlotsCount /\ ResyncIsComing /\ OneChange

-----------------------------------------------------------------------------
(* Types.                                                                  *)

LEMMA PcsHold ==
    /\ Idle \subseteq Pcs /\ InLane \subseteq Pcs /\ Saving \subseteq Pcs
    /\ \A pc \in {"free", "full", "refused", "read", "call", "captured", "reply", "driver", "remember",
                  "snapshot", "open", "write", "replace"} : pc \in Pcs
BY DEF Pcs, Idle, InLane, Saving

LEMMA NoConnIsTyped == NoConn \in Conns /\ [NoConn EXCEPT !.pc = "reply"] \in Conns
BY PcsHold DEF NoConn, Conns, Fds

LEMMA PeersAreThreads == Peers \subseteq Threads /\ Main \in Threads /\ Main \notin Peers
BY ThreadAssumption DEF Threads

LEMMA RepliesTyped ==
    ASSUME NEW c \in Threads, conn \in [Threads -> Conns], Replies(c)
    PROVE  conn' \in [Threads -> Conns]
BY NoConnIsTyped DEF Replies

\* What a thread asked is forgotten as it replies.
LEMMA RepliesAsk ==
    ASSUME NEW c \in Threads, conn \in [Threads -> Conns], Replies(c),
           \A d \in Threads : Asks(d)
    PROVE  \A d \in Threads : Asks(d)'
BY DEF Replies, Asks, NoConn, InLane, Saving

LEMMA ConnsHold == IInv /\ [Next]_vars => conn' \in [Threads -> Conns]
<1> SUFFICES ASSUME conn \in [Threads -> Conns], memory \in Choices, [Next]_vars
             PROVE  conn' \in [Threads -> Conns]
  BY DEF IInv, Typed, TypeInv, OthersTyped
<1> USE PcsHold, PeersAreThreads DEF Conns
<1>1. ASSUME NEW c \in Peers, Accept(c) PROVE conn' \in [Threads -> Conns]
  BY <1>1 DEF Accept, Moves
<1>2. ASSUME NEW c \in Peers, Read(c) PROVE conn' \in [Threads -> Conns]
  <2>1. CASE Replies(c)
    BY <2>1, RepliesTyped
  <2>2. ASSUME NEW s \in Settings, NEW v \in Values,
               conn' = [conn EXCEPT ![c] = [@ EXCEPT !.pc = "call", !.setting = s, !.value = v]]
        PROVE  conn' \in [Threads -> Conns]
    BY <2>2
  <2> QED  BY <1>2, <2>1, <2>2 DEF Read
<1>3. ASSUME NEW c \in Peers, Finish(c) PROVE conn' \in [Threads -> Conns]
  BY <1>3, NoConnIsTyped DEF Finish
<1>4. ASSUME NEW c \in Peers, Leave(c) PROVE conn' \in [Threads -> Conns]
  BY <1>4 DEF Leave, Moves
<1>5. ASSUME NEW c \in Threads, ConfigureAuto(c) PROVE conn' \in [Threads -> Conns]
  BY <1>5 DEF ConfigureAuto, Moves
<1>6. ASSUME NEW c \in Threads, Call(c) PROVE conn' \in [Threads -> Conns]
  <2>1. CASE Replies(c)
    BY <2>1, RepliesTyped
  <2>2. CASE Moves(c, "driver")
    BY <2>2 DEF Moves
  <2> QED  BY <1>6, <2>1, <2>2 DEF Call
<1>7. ASSUME NEW c \in Threads, Return(c) PROVE conn' \in [Threads -> Conns]
  <2>1. CASE Replies(c)
    BY <2>1, RepliesTyped
  <2>2. CASE Moves(c, "remember")
    BY <2>2 DEF Moves
  <2> QED  BY <1>7, <2>1, <2>2 DEF Return
<1>8. ASSUME NEW c \in Threads, TimeOut(c) PROVE conn' \in [Threads -> Conns]
  BY <1>8, RepliesTyped DEF TimeOut
<1>9. ASSUME NEW c \in Threads, Remember(c) PROVE conn' \in [Threads -> Conns]
  BY <1>9 DEF Remember, Moves
<1>10. ASSUME NEW c \in Threads, Snapshot(c) PROVE conn' \in [Threads -> Conns]
  BY <1>10 DEF Snapshot
<1>11. ASSUME NEW c \in Threads, OpenFile(c) PROVE conn' \in [Threads -> Conns]
  <2>1. [conn[c] EXCEPT !.pc = "write", !.fd = "tmp"] \in Conns
    BY DEF Fds
  <2> QED  BY <1>11, <2>1 DEF OpenFile
<1>12. ASSUME NEW c \in Threads, WriteText(c) PROVE conn' \in [Threads -> Conns]
  <2>1. [conn[c] EXCEPT !.pc = "replace", !.snapshot = None, !.fd = "none"] \in Conns
    BY DEF Fds
  <2> QED  BY <1>12, <2>1 DEF WriteText
<1>13. ASSUME NEW c \in Threads, Replace(c) PROVE conn' \in [Threads -> Conns]
  <2> DEFINE New(d) ==
        IF d = c THEN [NoConn EXCEPT !.pc = "reply"]
        ELSE IF tmp = None \/ conn[d].fd = "none" THEN conn[d]
        ELSE [conn[d] EXCEPT !.fd = IF @ = "tmp" THEN "file" ELSE "gone"]
  <2>1. conn' = [d \in Threads |-> New(d)]
    BY <1>13 DEF Replace
  <2>2. ASSUME NEW d \in Threads PROVE New(d) \in Conns
    <3>1. [conn[d] EXCEPT !.fd = IF @ = "tmp" THEN "file" ELSE "gone"] \in Conns
      BY DEF Fds
    <3>2. conn[d] \in Conns
      OBVIOUS
    <3> HIDE DEF Conns
    <3> QED  BY <3>1, <3>2, NoConnIsTyped
  <2> HIDE DEF Conns, New
  <2> QED  BY <2>1, <2>2
<1>14. ASSUME NEW c \in Threads, SaveFails(c) PROVE conn' \in [Threads -> Conns]
  BY <1>14, RepliesTyped DEF SaveFails
<1>15. ASSUME End PROVE conn' \in [Threads -> Conns]
  BY <1>15, NoConnIsTyped DEF End
<1>16. ASSUME StartThreads PROVE conn' \in [Threads -> Conns]
  <2>1. memory["auto"] \in Values \cup {Unset} /\ "auto" \in Settings
    BY DEF Choices, Settings
  <2>2. [conn[Main] EXCEPT !.pc = "captured", !.setting = "auto", !.value = memory["auto"]]
          \in Conns
    BY <2>1
  <2> QED  BY <1>16, <2>2 DEF StartThreads
<1>17. ASSUME Started PROVE conn' \in [Threads -> Conns]
  BY <1>17, NoConnIsTyped DEF Started
<1>18. CASE Upkeep \/ LateReturn \/ Start \/ Stop \/ UNCHANGED vars
  BY <1>18 DEF Upkeep, SignalArrives, SignalWakes, Wake, Clear, Look, Maintain,
     LateReturn, Start, Stop, vars, chosen, server
<1> QED
  BY <1>1, <1>2, <1>3, <1>4, <1>5, <1>6, <1>7, <1>8, <1>9, <1>10, <1>11,
     <1>12, <1>13, <1>14, <1>15, <1>16,
     <1>17, <1>18
     DEF Next, Request, Process

LEMMA AsksHold == IInv /\ [Next]_vars => \A d \in Threads : Asks(d)'
<1> SUFFICES ASSUME conn \in [Threads -> Conns], \A d \in Threads : Asks(d), memory \in Choices,
                    [Next]_vars
             PROVE  \A d \in Threads : Asks(d)'
  BY DEF IInv, Typed, TypeInv, OthersTyped
<1> USE SettingAssumption, PeersAreThreads DEF Conns, Asks, InLane, Saving
<1>1. ASSUME NEW c \in Peers, Accept(c) PROVE \A d \in Threads : Asks(d)'
  BY <1>1 DEF Accept, Moves
<1>2. ASSUME NEW c \in Peers, Read(c) PROVE \A d \in Threads : Asks(d)'
  <2>1. CASE Replies(c)
    BY <2>1, RepliesAsk
  <2>2. ASSUME NEW s \in Settings, NEW v \in Values,
               conn' = [conn EXCEPT ![c] = [@ EXCEPT !.pc = "call", !.setting = s, !.value = v]]
        PROVE  \A d \in Threads : Asks(d)'
    BY <2>2
  <2> QED  BY <1>2, <2>1, <2>2 DEF Read
<1>3. ASSUME NEW c \in Peers, Finish(c) PROVE \A d \in Threads : Asks(d)'
  BY <1>3 DEF Finish, NoConn
<1>4. ASSUME NEW c \in Peers, Leave(c) PROVE \A d \in Threads : Asks(d)'
  BY <1>4 DEF Leave, Moves
<1>5. ASSUME NEW c \in Threads, ConfigureAuto(c) PROVE \A d \in Threads : Asks(d)'
  BY <1>5 DEF ConfigureAuto, Moves
<1>6. ASSUME NEW c \in Threads, Call(c) PROVE \A d \in Threads : Asks(d)'
  <2>1. CASE Replies(c)
    BY <2>1, RepliesAsk
  <2>2. CASE conn[c].pc = "call" /\ conn[c].setting \in EcSettings /\ Moves(c, "driver")
    BY <2>2 DEF Moves
  <2> QED  BY <1>6, <2>1, <2>2 DEF Call
<1>7. ASSUME NEW c \in Threads, Return(c) PROVE \A d \in Threads : Asks(d)'
  <2>1. CASE Replies(c)
    BY <2>1, RepliesAsk
  <2>2. CASE conn[c].pc = "driver" /\ Moves(c, "remember")
    BY <2>2 DEF Moves
  <2> QED  BY <1>7, <2>1, <2>2 DEF Return
<1>8. ASSUME NEW c \in Threads, TimeOut(c) PROVE \A d \in Threads : Asks(d)'
  BY <1>8, RepliesAsk DEF TimeOut
<1>9. ASSUME NEW c \in Threads, Remember(c) PROVE \A d \in Threads : Asks(d)'
  BY <1>9 DEF Remember, Moves
<1>10. ASSUME NEW c \in Threads, Snapshot(c) PROVE \A d \in Threads : Asks(d)'
  BY <1>10 DEF Snapshot, Moves
<1>11. ASSUME NEW c \in Threads, OpenFile(c) PROVE \A d \in Threads : Asks(d)'
  BY <1>11 DEF OpenFile, Moves
<1>12. ASSUME NEW c \in Threads, WriteText(c) PROVE \A d \in Threads : Asks(d)'
  BY <1>12 DEF WriteText, Moves
<1>13. ASSUME NEW c \in Threads, Replace(c) PROVE \A d \in Threads : Asks(d)'
  BY <1>13 DEF Replace, NoConn
<1>14. ASSUME NEW c \in Threads, SaveFails(c) PROVE \A d \in Threads : Asks(d)'
  BY <1>14, RepliesAsk DEF SaveFails
<1>15. ASSUME End PROVE \A d \in Threads : Asks(d)'
  BY <1>15 DEF End, NoConn
<1>16. ASSUME StartThreads PROVE \A d \in Threads : Asks(d)'
  <2>1. memory["auto"] \in Values \cup {Unset} /\ "auto" \in Settings
    BY DEF Choices, Settings
  <2> QED  BY <1>16, <2>1 DEF StartThreads
<1>17. ASSUME Started PROVE \A d \in Threads : Asks(d)'
  BY <1>17 DEF Started, NoConn
<1>18. CASE Upkeep \/ LateReturn \/ Start \/ Stop \/ UNCHANGED vars
  BY <1>18 DEF Upkeep, SignalArrives, SignalWakes, Wake, Clear, Look, Maintain,
     LateReturn, Start, Stop, vars, chosen, server
<1> QED
  BY <1>1, <1>2, <1>3, <1>4, <1>5, <1>6, <1>7, <1>8, <1>9, <1>10, <1>11,
     <1>12, <1>13, <1>14, <1>15, <1>16,
     <1>17, <1>18
     DEF Next, Request, Process

LEMMA BeginsTyped ==
    ASSUME NEW c \in Threads, excused \in BOOLEAN, Begins(c)
    PROVE  excused' \in BOOLEAN
BY DEF Begins

LEMMA AssertedTyped ==
    ASSUME NEW choice \in Choices
    PROVE  Asserted(choice) \in [EcSettings -> Values \cup {Unset}]
BY DEF Asserted, Choices, Settings

LEMMA OthersHold == IInv /\ [Next]_vars => OthersTyped'
<1> SUFFICES ASSUME TypeInv, \A d \in Threads : Asks(d), [Next]_vars PROVE OthersTyped'
  BY DEF IInv, Typed
<1>0. OthersTyped /\ conn \in [Threads -> Conns]
  BY DEF TypeInv, OthersTyped
<1> USE <1>0, SlotAssumption, PeersAreThreads DEF OthersTyped, server, chosen, disk, signals
<1>1. ASSUME NEW c \in Peers, Accept(c) PROVE OthersTyped'
  BY <1>1 DEF Accept
<1>2. ASSUME NEW c \in Peers, Read(c) PROVE OthersTyped'
  <2>1. UNCHANGED <<up, slots, memory, desired, lane, file, tmp, upkeep, wakeup, resync,
                    handler, last, excused>>
    BY <1>2 DEF Read
  <2> QED  BY <2>1
<1>3. ASSUME NEW c \in Peers, Finish(c) PROVE OthersTyped'
  BY <1>3 DEF Finish
<1>4. ASSUME NEW c \in Peers, Leave(c) PROVE OthersTyped'
  BY <1>4 DEF Leave
<1>5. ASSUME NEW c \in Threads, ConfigureAuto(c) PROVE OthersTyped'
  <2>1. excused' \in BOOLEAN
    BY <1>5, BeginsTyped DEF ConfigureAuto
  <2>2. memory' \in Choices
    BY <1>5 DEF ConfigureAuto, Asks, Choices
  <2>3. UNCHANGED <<up, slots, desired, lane, file, tmp, upkeep, wakeup, resync, handler, last>>
    BY <1>5 DEF ConfigureAuto
  <2> QED  BY <2>1, <2>2, <2>3
<1>6. ASSUME NEW c \in Threads, Call(c) PROVE OthersTyped'
  <2>1. lane' \in {c, lane} /\ excused' \in BOOLEAN
    BY <1>6, BeginsTyped DEF Call
  <2>2. UNCHANGED <<up, slots, memory, desired, file, tmp, upkeep, wakeup, resync, handler, last>>
    BY <1>6 DEF Call
  <2> QED  BY <2>1, <2>2
<1>7. ASSUME NEW c \in Threads, Return(c) PROVE OthersTyped'
  BY <1>7 DEF Return, Applied, Asks, InLane, Choices, Settings
<1>8. ASSUME NEW c \in Threads, TimeOut(c) PROVE OthersTyped'
  BY <1>8 DEF TimeOut, Asks, InLane, Late
<1>9. ASSUME LateReturn PROVE OthersTyped'
  <2>1. lane.setting \in EcSettings /\ lane.value \in Values
    BY <1>9 DEF LateReturn
  <2>2. desired' \in [EcSettings -> Values \cup {Unset}] /\ lane' = None
    BY <1>9, <2>1 DEF LateReturn, Applied
  <2>3. UNCHANGED <<up, slots, memory, file, tmp, upkeep, wakeup, resync, handler, last, excused>>
    BY <1>9 DEF LateReturn
  <2> QED  BY <2>2, <2>3
<1>10. ASSUME NEW c \in Threads, Remember(c) PROVE OthersTyped'
  BY <1>10 DEF Remember, Asks, InLane, Choices
<1>11. ASSUME NEW c \in Threads, Snapshot(c) PROVE OthersTyped'
  BY <1>11 DEF Snapshot
<1>12. ASSUME NEW c \in Threads, OpenFile(c) PROVE OthersTyped'
  BY <1>12 DEF OpenFile
<1>13. ASSUME NEW c \in Threads, WriteText(c) PROVE OthersTyped'
  BY <1>13 DEF WriteText, Written, Asks
<1>14. ASSUME NEW c \in Threads, Replace(c) PROVE OthersTyped'
  BY <1>14 DEF Replace, Answer, Asks, Saving, Choices
<1>15. ASSUME NEW c \in Threads, SaveFails(c) PROVE OthersTyped'
  BY <1>15 DEF SaveFails, Answer, Asks, Saving, Choices
<1>16. ASSUME SignalArrives PROVE OthersTyped'
  BY <1>16 DEF SignalArrives
<1>17. ASSUME SignalWakes PROVE OthersTyped'
  BY <1>17 DEF SignalWakes
<1>18. ASSUME Wake PROVE OthersTyped'
  BY <1>18 DEF Wake
<1>19. ASSUME Clear PROVE OthersTyped'
  BY <1>19 DEF Clear
<1>20. ASSUME Look PROVE OthersTyped'
  BY <1>20 DEF Look
<1>21. ASSUME Maintain PROVE OthersTyped'
  BY <1>21 DEF Maintain
<1>22. ASSUME Start PROVE OthersTyped'
  <2>1. load_settings \in Choices
    BY DEF load_settings, Defaults, Choices
  <2>2. desired' \in [EcSettings -> Values \cup {Unset}]
    BY <1>22, <2>1, AssertedTyped DEF Start
  <2> QED  BY <1>22, <2>1, <2>2 DEF Start
<1>23. ASSUME StartThreads PROVE OthersTyped'
  <2>1. excused' \in BOOLEAN
    BY <1>23, BeginsTyped DEF StartThreads
  <2>2. UNCHANGED <<slots, memory, desired, lane, file, tmp, wakeup, resync, handler, last>>
        /\ up' = "entering" /\ upkeep' \in {"wait", "none"}
    BY <1>23 DEF StartThreads
  <2> QED  BY <2>1, <2>2
<1>24. ASSUME Stop PROVE OthersTyped'
  BY <1>24 DEF Stop
<1>25. ASSUME End PROVE OthersTyped'
  <2>1. Defaults \in Choices
    BY DEF Defaults, Choices
  <2>2. desired' \in [EcSettings -> Values \cup {Unset}]
    BY <1>25, <2>1, AssertedTyped DEF End
  <2> QED  BY <1>25, <2>1, <2>2 DEF End
<1>26. ASSUME UNCHANGED vars PROVE OthersTyped'
  BY <1>26 DEF vars
<1>27. ASSUME Started PROVE OthersTyped'
  BY <1>27 DEF Started
<1> QED
  BY <1>1, <1>2, <1>3, <1>4, <1>5, <1>6, <1>7, <1>8, <1>9, <1>10, <1>11,
     <1>12, <1>13, <1>14, <1>15, <1>16, <1>17, <1>18, <1>19, <1>20, <1>21,
     <1>22, <1>23, <1>24, <1>25, <1>26, <1>27
     DEF Next, Request, Upkeep, Process

LEMMA TypesHold == IInv /\ [Next]_vars => Typed'
BY ConnsHold, AsksHold, OthersHold DEF Typed, TypeInv, OthersTyped
-----------------------------------------------------------------------------
(* Threads and slots.                                                      *)

\* What a peer asks is read by its own thread.
LEMMA ReadMoves ==
    ASSUME TypeInv, NEW c \in Peers, Read(c)
    PROVE  /\ conn[c].pc = "read" /\ conn'[c].pc \in {"call", "reply"}
           /\ \A d \in Threads \ {c} : conn'[d] = conn[d]
<1>1. conn[c].pc = "read"
  BY Zenon DEF Read
<1>2. CASE Replies(c)
  BY <1>1, <1>2, PeersAreThreads DEF Replies, NoConn, TypeInv
<1>3. ASSUME NEW s \in Settings, NEW v \in Values,
             conn' = [conn EXCEPT ![c] = [@ EXCEPT !.pc = "call", !.setting = s, !.value = v]]
      PROVE  conn'[c].pc = "call" /\ \A d \in Threads \ {c} : conn'[d] = conn[d]
  BY <1>3, PeersAreThreads DEF TypeInv, Conns
<1> QED  BY <1>1, <1>2, <1>3 DEF Read

\* A process that is down has nothing under way.
LEMMA DownHolds == IInv /\ [Next]_vars => Down'
<1> SUFFICES ASSUME TypeInv, Down, [Next]_vars PROVE Down'
  BY DEF IInv, Typed
<1> USE PeersAreThreads, ThreadAssumption
    DEF Down, TypeInv, Conns, NoConn, Moves, Replies, server, chosen, disk, signals
<1>1. ASSUME NEW c \in Peers, Accept(c) PROVE Down'
  BY <1>1 DEF Accept
<1>2. ASSUME NEW c \in Peers, Read(c) PROVE Down'
  <2>1. conn[c].pc = "read" /\ UNCHANGED <<up, lane, upkeep>>
    BY <1>2, Zenon DEF Read
  <2>2. up # "no" /\ conn'[Main] = conn[Main]
    BY <1>2, <2>1, ReadMoves
  <2> QED  BY <2>1, <2>2
<1>3. ASSUME NEW c \in Peers, Finish(c) PROVE Down'
  BY <1>3 DEF Finish
<1>4. ASSUME NEW c \in Peers, Leave(c) PROVE Down'
  BY <1>4 DEF Leave
<1>5. ASSUME NEW c \in Threads, ConfigureAuto(c) PROVE Down'
  BY <1>5 DEF ConfigureAuto
<1>6. ASSUME NEW c \in Threads, Call(c) PROVE Down'
  BY <1>6 DEF Call
<1>7. ASSUME NEW c \in Threads, Return(c) PROVE Down'
  BY <1>7 DEF Return, Applied
<1>8. ASSUME NEW c \in Threads, TimeOut(c) PROVE Down'
  BY <1>8 DEF TimeOut
<1>9. ASSUME LateReturn PROVE Down'
  BY <1>9 DEF LateReturn, Late
<1>10. ASSUME NEW c \in Threads, Remember(c) PROVE Down'
  BY <1>10 DEF Remember
<1>11. ASSUME NEW c \in Threads, Snapshot(c) PROVE Down'
  BY <1>11 DEF Snapshot
<1>12. ASSUME NEW c \in Threads, OpenFile(c) PROVE Down'
  BY <1>12 DEF OpenFile
<1>13. ASSUME NEW c \in Threads, WriteText(c) PROVE Down'
  BY <1>13 DEF WriteText
<1>14. ASSUME NEW c \in Threads, Replace(c) PROVE Down'
  BY <1>14 DEF Replace
<1>15. ASSUME NEW c \in Threads, SaveFails(c) PROVE Down'
  BY <1>15 DEF SaveFails
<1>16. ASSUME SignalArrives PROVE Down'
  BY <1>16 DEF SignalArrives
<1>17. ASSUME SignalWakes PROVE Down'
  BY <1>17 DEF SignalWakes
<1>18. ASSUME Wake PROVE Down'
  BY <1>18 DEF Wake
<1>19. ASSUME Clear PROVE Down'
  BY <1>19 DEF Clear
<1>20. ASSUME Look PROVE Down'
  BY <1>20 DEF Look
<1>21. ASSUME Maintain PROVE Down'
  BY <1>21 DEF Maintain
<1>22. ASSUME Start PROVE Down'
  BY <1>22 DEF Start
<1>23. ASSUME StartThreads PROVE Down'
  BY <1>23 DEF StartThreads
<1>24. ASSUME Stop PROVE Down'
  BY <1>24 DEF Stop
<1>25. ASSUME End PROVE Down'
  BY <1>25 DEF End
<1>26. ASSUME UNCHANGED vars PROVE Down'
  BY <1>26 DEF vars
<1>27. ASSUME Started PROVE Down'
  BY <1>27 DEF Started
<1> QED
  BY <1>1, <1>2, <1>3, <1>4, <1>5, <1>6, <1>7, <1>8, <1>9, <1>10, <1>11,
     <1>12, <1>13, <1>14, <1>15, <1>16, <1>17, <1>18, <1>19, <1>20, <1>21,
     <1>22, <1>23, <1>24, <1>25, <1>26, <1>27
     DEF Next, Request, Upkeep, Process

LEMMA NoneServed == ASSUME conn = [c \in Threads |-> NoConn] PROVE Served = {}
BY PeersAreThreads DEF Served, NoConn

\* Accept takes a slot for the thread that it starts, and a thread that ends
\* gives its slot back.
LEMMA SlotsHold == IInv /\ [Next]_vars => SlotsCount'
<1> SUFFICES ASSUME TypeInv, SlotsCount, [Next]_vars PROVE SlotsCount'
  BY DEF IInv, Typed
<1> USE PeersAreThreads DEF TypeInv, OthersTyped, Conns, Moves, Replies, NoConn, server, chosen, disk, signals
<1>0. ASSUME Served' = Served, slots' = slots PROVE SlotsCount'
  BY <1>0 DEF SlotsCount
<1>1. ASSUME NEW c \in Peers, Accept(c) PROVE SlotsCount'
  <2>1. CASE slots > 0 /\ slots' = slots - 1 /\ Moves(c, "read")
    <3>1. c \notin Served /\ Served' = Served \cup {c}
      BY <1>1, <2>1 DEF Accept, Served
    <3>2. IsFiniteSet(Served') /\ Cardinality(Served') = Cardinality(Served) + 1
      BY <3>1, FS_AddElement DEF SlotsCount
    <3>3. Cardinality(Served) \in Nat
      BY FS_CardinalityType DEF SlotsCount
    <3> QED  BY <2>1, <3>2, <3>3, SlotAssumption DEF SlotsCount
  <2>2. CASE slots' = slots /\ (Moves(c, "refused") \/ Moves(c, "full"))
    <3>1. Served' = Served
      BY <1>1, <2>2 DEF Accept, Served
    <3> QED  BY <1>0, <2>2, <3>1
  <2> QED  BY <1>1, <2>1, <2>2 DEF Accept
<1>2. ASSUME NEW c \in Peers, Read(c) PROVE SlotsCount'
  <2>1. Served' = Served /\ slots' = slots
    <3>1. slots' = slots
      BY <1>2, Zenon DEF Read
    <3> QED  BY <1>2, <3>1, ReadMoves DEF Served
  <2> QED  BY <1>0, <2>1
<1>3. ASSUME NEW c \in Peers, Finish(c) PROVE SlotsCount'
  <2>1. c \in Served /\ Served' = Served \ {c} /\ slots' = slots + 1
    BY <1>3 DEF Finish, Served, NoConn
  <2>2. IsFiniteSet(Served') /\ Cardinality(Served') = Cardinality(Served) - 1
    BY <2>1, FS_RemoveElement DEF SlotsCount
  <2>3. Cardinality(Served) \in Nat
    BY FS_CardinalityType DEF SlotsCount
  <2> QED  BY <2>1, <2>2, <2>3, SlotAssumption DEF SlotsCount
<1>4. ASSUME NEW c \in Peers, Leave(c) PROVE SlotsCount'
  <2>1. Served' = Served /\ slots' = slots
    BY <1>4 DEF Leave, Served
  <2> QED  BY <1>0, <2>1
<1>5. ASSUME NEW c \in Threads, ConfigureAuto(c) PROVE SlotsCount'
  <2>1. Served' = Served /\ slots' = slots
    BY <1>5 DEF ConfigureAuto, Served
  <2> QED  BY <1>0, <2>1
<1>6. ASSUME NEW c \in Threads, Call(c) PROVE SlotsCount'
  <2>1. Served' = Served /\ slots' = slots
    BY <1>6 DEF Call, Served
  <2> QED  BY <1>0, <2>1
<1>7. ASSUME NEW c \in Threads, Return(c) PROVE SlotsCount'
  <2>1. Served' = Served /\ slots' = slots
    BY <1>7 DEF Return, Served
  <2> QED  BY <1>0, <2>1
<1>8. ASSUME NEW c \in Threads, TimeOut(c) PROVE SlotsCount'
  <2>1. Served' = Served /\ slots' = slots
    BY <1>8 DEF TimeOut, Served
  <2> QED  BY <1>0, <2>1
<1>9. ASSUME LateReturn PROVE SlotsCount'
  <2>1. Served' = Served /\ slots' = slots
    BY <1>9 DEF LateReturn, Served
  <2> QED  BY <1>0, <2>1
<1>10. ASSUME NEW c \in Threads, Remember(c) PROVE SlotsCount'
  <2>1. Served' = Served /\ slots' = slots
    BY <1>10 DEF Remember, Served
  <2> QED  BY <1>0, <2>1
<1>11. ASSUME NEW c \in Threads, Snapshot(c) PROVE SlotsCount'
  <2>1. Served' = Served /\ slots' = slots
    BY <1>11 DEF Snapshot, Served
  <2> QED  BY <1>0, <2>1
<1>12. ASSUME NEW c \in Threads, OpenFile(c) PROVE SlotsCount'
  <2>1. Served' = Served /\ slots' = slots
    BY <1>12 DEF OpenFile, Served
  <2> QED  BY <1>0, <2>1
<1>13. ASSUME NEW c \in Threads, WriteText(c) PROVE SlotsCount'
  <2>1. Served' = Served /\ slots' = slots
    BY <1>13 DEF WriteText, Served
  <2> QED  BY <1>0, <2>1
<1>14. ASSUME NEW c \in Threads, Replace(c) PROVE SlotsCount'
  <2>1. Served' = Served /\ slots' = slots
    BY <1>14 DEF Replace, Served
  <2> QED  BY <1>0, <2>1
<1>15. ASSUME NEW c \in Threads, SaveFails(c) PROVE SlotsCount'
  <2>1. Served' = Served /\ slots' = slots
    BY <1>15 DEF SaveFails, Served
  <2> QED  BY <1>0, <2>1
<1>16. ASSUME SignalArrives PROVE SlotsCount'
  <2>1. Served' = Served /\ slots' = slots
    BY <1>16 DEF SignalArrives, Served
  <2> QED  BY <1>0, <2>1
<1>17. ASSUME SignalWakes PROVE SlotsCount'
  <2>1. Served' = Served /\ slots' = slots
    BY <1>17 DEF SignalWakes, Served
  <2> QED  BY <1>0, <2>1
<1>18. ASSUME Wake PROVE SlotsCount'
  <2>1. Served' = Served /\ slots' = slots
    BY <1>18 DEF Wake, Served
  <2> QED  BY <1>0, <2>1
<1>19. ASSUME Clear PROVE SlotsCount'
  <2>1. Served' = Served /\ slots' = slots
    BY <1>19 DEF Clear, Served
  <2> QED  BY <1>0, <2>1
<1>20. ASSUME Look PROVE SlotsCount'
  <2>1. Served' = Served /\ slots' = slots
    BY <1>20 DEF Look, Served
  <2> QED  BY <1>0, <2>1
<1>21. ASSUME Maintain PROVE SlotsCount'
  <2>1. Served' = Served /\ slots' = slots
    BY <1>21 DEF Maintain, Served
  <2> QED  BY <1>0, <2>1
<1>22. ASSUME Start PROVE SlotsCount'
  <2>1. Served' = Served /\ slots' = slots
    BY <1>22 DEF Start, Served
  <2> QED  BY <1>0, <2>1
<1>23. ASSUME StartThreads PROVE SlotsCount'
  <2>1. Served' = Served /\ slots' = slots
    BY <1>23 DEF StartThreads, Served
  <2> QED  BY <1>0, <2>1
<1>24. ASSUME Stop PROVE SlotsCount'
  <2>1. Served' = Served /\ slots' = slots
    BY <1>24 DEF Stop, Served
  <2> QED  BY <1>0, <2>1
<1>25. ASSUME End PROVE SlotsCount'
  <2>1. Served' = {}
    BY <1>25 DEF End, Served, NoConn
  <2> QED  BY <1>25, <2>1, FS_EmptySet, SlotAssumption DEF End, SlotsCount
<1>26. ASSUME UNCHANGED vars PROVE SlotsCount'
  <2>1. Served' = Served /\ slots' = slots
    BY <1>26 DEF vars, Served
  <2> QED  BY <1>0, <2>1
<1>27. ASSUME Started PROVE SlotsCount'
  <2>1. Served' = Served /\ slots' = slots
    BY <1>27, PeersAreThreads DEF Started, Served
  <2> QED  BY <1>0, <2>1
<1> QED
  BY <1>1, <1>2, <1>3, <1>4, <1>5, <1>6, <1>7, <1>8, <1>9, <1>10, <1>11,
     <1>12, <1>13, <1>14, <1>15, <1>16, <1>17, <1>18, <1>19, <1>20, <1>21,
     <1>22, <1>23, <1>24, <1>25, <1>26, <1>27
     DEF Next, Request, Upkeep, Process

LEMMA ResyncHolds == IInv /\ [Next]_vars => ResyncIsComing'
<1> SUFFICES ASSUME ResyncIsComing, Down, [Next]_vars PROVE ResyncIsComing'
  BY DEF IInv
<1> USE DEF ResyncIsComing, server, chosen, disk, signals
<1>1. ASSUME NEW c \in Peers, Accept(c) PROVE ResyncIsComing'
  BY <1>1 DEF Accept
<1>2. ASSUME NEW c \in Peers, Read(c) PROVE ResyncIsComing'
  BY <1>2 DEF Read
<1>3. ASSUME NEW c \in Peers, Finish(c) PROVE ResyncIsComing'
  BY <1>3 DEF Finish
<1>4. ASSUME NEW c \in Peers, Leave(c) PROVE ResyncIsComing'
  BY <1>4 DEF Leave
<1>5. ASSUME NEW c \in Threads, ConfigureAuto(c) PROVE ResyncIsComing'
  BY <1>5 DEF ConfigureAuto
<1>6. ASSUME NEW c \in Threads, Call(c) PROVE ResyncIsComing'
  BY <1>6 DEF Call
<1>7. ASSUME NEW c \in Threads, Return(c) PROVE ResyncIsComing'
  BY <1>7 DEF Return
<1>8. ASSUME NEW c \in Threads, TimeOut(c) PROVE ResyncIsComing'
  BY <1>8 DEF TimeOut
<1>9. ASSUME LateReturn PROVE ResyncIsComing'
  BY <1>9 DEF LateReturn
<1>10. ASSUME NEW c \in Threads, Remember(c) PROVE ResyncIsComing'
  BY <1>10 DEF Remember
<1>11. ASSUME NEW c \in Threads, Snapshot(c) PROVE ResyncIsComing'
  BY <1>11 DEF Snapshot
<1>12. ASSUME NEW c \in Threads, OpenFile(c) PROVE ResyncIsComing'
  BY <1>12 DEF OpenFile
<1>13. ASSUME NEW c \in Threads, WriteText(c) PROVE ResyncIsComing'
  BY <1>13 DEF WriteText
<1>14. ASSUME NEW c \in Threads, Replace(c) PROVE ResyncIsComing'
  BY <1>14 DEF Replace
<1>15. ASSUME NEW c \in Threads, SaveFails(c) PROVE ResyncIsComing'
  BY <1>15 DEF SaveFails
<1>16. ASSUME SignalArrives PROVE ResyncIsComing'
  BY <1>16 DEF SignalArrives
<1>17. ASSUME SignalWakes PROVE ResyncIsComing'
  BY <1>17 DEF SignalWakes
<1>18. ASSUME Wake PROVE ResyncIsComing'
  BY <1>18 DEF Wake
<1>19. ASSUME Clear PROVE ResyncIsComing'
  BY <1>19 DEF Clear
<1>20. ASSUME Look PROVE ResyncIsComing'
  BY <1>20 DEF Look
<1>21. ASSUME Maintain PROVE ResyncIsComing'
  BY <1>21 DEF Maintain
<1>22. ASSUME Start PROVE ResyncIsComing'
  BY <1>22 DEF Start
<1>23. ASSUME StartThreads PROVE ResyncIsComing'
  BY <1>23 DEF StartThreads, Down
<1>24. ASSUME Stop PROVE ResyncIsComing'
  BY <1>24 DEF Stop
<1>25. ASSUME End PROVE ResyncIsComing'
  BY <1>25 DEF End
<1>26. ASSUME UNCHANGED vars PROVE ResyncIsComing'
  BY <1>26 DEF vars
<1>27. ASSUME Started PROVE ResyncIsComing'
  BY <1>27 DEF Started
<1> QED
  BY <1>1, <1>2, <1>3, <1>4, <1>5, <1>6, <1>7, <1>8, <1>9, <1>10, <1>11,
     <1>12, <1>13, <1>14, <1>15, <1>16, <1>17, <1>18, <1>19, <1>20, <1>21,
     <1>22, <1>23, <1>24, <1>25, <1>26, <1>27
     DEF Next, Request, Upkeep, Process
-----------------------------------------------------------------------------
(* One change at a time.                                                   *)

LEMMA Alone ==
    ASSUME OneChange, up # "no", ~excused, NEW c \in Working
    PROVE  /\ Working = {c} /\ Progress(c)
           /\ load_settings = last /\ lane \notin Late
BY DEF OneChange

\* A change that begins without an excuse finds what was answered everywhere.
LEMMA Fresh ==
    ASSUME OneChange, up # "no", NEW c \in Threads, c \notin Working, Begins(c), ~excused'
    PROVE  /\ Working = {} /\ memory = last /\ Asserts(last)
           /\ load_settings = last /\ lane \notin Late
<1>1. Working = {} /\ (~excused \/ Settled)
  BY DEF Begins
<1>2. CASE ~excused
  BY <1>1, <1>2 DEF OneChange
<1>3. CASE Settled
  <2>1. lane \notin Late
    BY <1>3, ThreadAssumption DEF Settled, Late
  <2> QED  BY <1>3, <2>1 DEF Settled, Asserts
<1> QED  BY <1>1, <1>2, <1>3

\* A step that touches neither a choice nor a thread that changes one.
LEMMA Untouched ==
    ASSUME OneChange, UNCHANGED <<memory, desired, lane, file, tmp, last>>,
           Working' = Working, \A d \in Working : conn'[d] = conn[d],
           up' # "no" /\ ~excused' => up # "no" /\ ~excused
    PROVE  OneChange'
<1>1. \A d \in Working : Progress(d) => Progress(d)'
  BY DEF Progress, Asserts, Asserted, Changed
<1>2. load_settings' = load_settings /\ (Asserts(last) => Asserts(last)')
  BY DEF load_settings, Asserts, Asserted
<1> QED  BY <1>1, <1>2 DEF OneChange

LEMMA AnswersHold == IInv /\ [Next]_vars => OneChange'
<1> SUFFICES ASSUME IInv, [Next]_vars PROVE OneChange'
  OBVIOUS
<1>0. TypeInv /\ Down /\ OneChange /\ \A d \in Threads : Asks(d)
  BY DEF IInv, Typed
<1> USE <1>0, SettingAssumption, ThreadAssumption, PeersAreThreads
    DEF TypeInv, OthersTyped, Conns, Moves, server, chosen, disk, signals
<1>1. ASSUME NEW c \in Peers, Accept(c) PROVE OneChange'
  <2>1. Working' = Working /\ \A d \in Working : conn'[d] = conn[d]
    BY <1>1 DEF Accept, Working
  <2>2. /\ UNCHANGED <<memory, desired, lane, file, tmp, last>>
        /\ up' # "no" /\ ~excused' => up # "no" /\ ~excused
    BY <1>1 DEF Accept
  <2> QED  BY <2>1, <2>2, Untouched
<1>2. ASSUME NEW c \in Peers, Read(c) PROVE OneChange'
  <2>1. conn[c].pc = "read"
    BY <1>2, ReadMoves
  <2>2. /\ conn'[c].pc \in {"call", "reply"}
        /\ \A d \in Threads \ {c} : conn'[d] = conn[d]
    BY <1>2, ReadMoves
  <2>3. Working' = Working /\ \A d \in Working : conn'[d] = conn[d]
    BY <2>1, <2>2 DEF Working
  <2>4. UNCHANGED <<up, memory, desired, lane, file, tmp, last, excused>>
    BY <1>2, Zenon DEF Read
  <2> QED  BY <2>3, <2>4, Untouched
<1>3. ASSUME NEW c \in Peers, Finish(c) PROVE OneChange'
  <2>1. Working' = Working /\ \A d \in Working : conn'[d] = conn[d]
    BY <1>3 DEF Finish, Working, NoConn
  <2>2. /\ UNCHANGED <<memory, desired, lane, file, tmp, last>>
        /\ up' # "no" /\ ~excused' => up # "no" /\ ~excused
    BY <1>3 DEF Finish
  <2> QED  BY <2>1, <2>2, Untouched
<1>4. ASSUME NEW c \in Peers, Leave(c) PROVE OneChange'
  <2>1. Working' = Working /\ \A d \in Working : conn'[d] = conn[d]
    BY <1>4 DEF Leave, Working
  <2>2. /\ UNCHANGED <<memory, desired, lane, file, tmp, last>>
        /\ up' # "no" /\ ~excused' => up # "no" /\ ~excused
    BY <1>4 DEF Leave
  <2> QED  BY <2>1, <2>2, Untouched
<1>5. ASSUME NEW c \in Threads, ConfigureAuto(c) PROVE OneChange'
  <2> SUFFICES ASSUME up # "no", ~excused' PROVE OneChange'
    BY <1>5 DEF ConfigureAuto, OneChange
  <2>1. /\ Working \ {c} = {} /\ memory = last /\ Asserts(last)
        /\ load_settings = last /\ lane \notin Late
        /\ c = Main => Changed(c, last) = last
    <3>1. CASE conn[c].pc = "call"
      <4>1. c \notin Working /\ c # Main
        BY <3>1 DEF Working, Asks
      <4> QED  BY <1>5, <4>1, Fresh DEF ConfigureAuto
    <3>2. CASE conn[c].pc = "captured"
      <4>1. c \in Working /\ ~Settled
        BY <3>2 DEF Working, Settled
      <4>2. ~excused
        BY <1>5, <4>1 DEF ConfigureAuto, Begins
      <4> QED  BY <3>2, <4>1, <4>2, Alone DEF Progress
    <3> QED  BY <1>5, <3>1, <3>2 DEF ConfigureAuto
  <2>2. /\ conn'[c] = [conn[c] EXCEPT !.pc = "snapshot"]
        /\ \A d \in Threads \ {c} : conn'[d] = conn[d]
        /\ conn[c].setting = "auto" /\ memory' = Changed(c, last)
        /\ UNCHANGED <<desired, lane, file, last, up>>
    BY <1>5, <2>1 DEF ConfigureAuto, Changed
  <2>3. Working' = {c}
    BY <2>1, <2>2 DEF Working
  <2>4. /\ Changed(c, last)' = memory' /\ Asserts(memory)'
        /\ c = Main => Changed(c, last)' = last'
    <3>0. conn'[c].setting = conn[c].setting /\ conn'[c].value = conn[c].value
      BY <2>2
    <3>1. Changed(c, last)' = memory' /\ Changed(c, last)' = Changed(c, last)
      BY <2>2, <3>0, Zenon DEF Changed
    <3>2. \A s \in EcSettings : memory'[s] = last[s]
      BY <2>2 DEF Changed, Choices, Settings
    <3>3. Asserts(memory)'
      BY <2>1, <2>2, <3>2 DEF Asserts, Asserted
    <3> QED  BY <2>1, <2>2, <3>1, <3>3
  <2>5. Progress(c)'
    BY <2>2, <2>4 DEF Progress, InLane, Saving
  <2> QED  BY <2>1, <2>2, <2>3, <2>5 DEF OneChange, load_settings
<1>6. ASSUME NEW c \in Threads, Call(c) PROVE OneChange'
  <2>1. CASE lane # None
    <3>1. Working' = Working /\ \A d \in Working : conn'[d] = conn[d]
      BY <1>6, <2>1 DEF Call, Working, Replies, NoConn
    <3>2. UNCHANGED <<up, memory, desired, lane, file, tmp, last, excused>>
      BY <1>6, <2>1 DEF Call
    <3> QED  BY <3>1, <3>2, Untouched
  <2>2. CASE lane = None
    <3> SUFFICES ASSUME up # "no", ~excused' PROVE OneChange'
      BY <1>6 DEF Call, OneChange
    <3>1. c \notin Working /\ c # Main
      BY <1>6 DEF Call, Working, Asks
    <3>2. Working = {} /\ memory = last /\ Asserts(last) /\ load_settings = last
      BY <1>6, <2>2, <3>1, Fresh DEF Call
    <3>3. /\ conn'[c] = [conn[c] EXCEPT !.pc = "driver"]
          /\ \A d \in Threads \ {c} : conn'[d] = conn[d]
          /\ lane' = c
          /\ UNCHANGED <<memory, desired, file, last, up>>
      BY <1>6, <2>2 DEF Call
    <3>4. Working' = {c} /\ lane' \notin Late
      BY <3>2, <3>3 DEF Working, Late
    <3>5. Progress(c)'
      BY <3>1, <3>2, <3>3 DEF Progress, InLane, Saving, Asserts, Asserted
    <3> QED  BY <3>2, <3>3, <3>4, <3>5 DEF OneChange, load_settings
  <2> QED  BY <2>1, <2>2
<1>7. ASSUME NEW c \in Threads, Return(c) PROVE OneChange'
  <2> SUFFICES ASSUME up # "no", ~excused PROVE OneChange'
    BY <1>7 DEF Return, OneChange
  <2>1. /\ Working = {c} /\ Progress(c)
        /\ load_settings = last /\ lane \notin Late
    BY <1>7, Alone DEF Return, Working
  <2>2. /\ memory = last /\ Asserts(last)
        /\ UNCHANGED <<memory, file, last, up>> /\ lane' = None
        /\ \A d \in Threads \ {c} : conn'[d] = conn[d]
        /\ c # Main /\ conn[c].setting \in EcSettings
    BY <1>7, <2>1 DEF Return, Progress, InLane, Asks, Replies
  <2>3. load_settings' = last' /\ lane' \notin Late
    BY <2>1, <2>2 DEF load_settings, Late
  <2>4. CASE Applied(conn[c].setting, conn[c].value) /\ Moves(c, "remember")
    <3>1. conn'[c] = [conn[c] EXCEPT !.pc = "remember"]
      BY <2>4
    <3>2. Working' = {c}
      BY <2>1, <2>2, <3>1 DEF Working
    <3>3. Asserts(Changed(c, last))'
      BY <2>2, <2>4, <3>1 DEF Applied, Asserts, Asserted, Changed, Choices, Settings
    <3>4. Progress(c)'
      BY <2>2, <3>1, <3>3 DEF Progress, InLane, Saving
    <3> QED  BY <2>3, <3>2, <3>4 DEF OneChange
  <2>5. CASE UNCHANGED desired /\ Replies(c)
    <3>1. Working' = {}
      BY <2>1, <2>2, <2>5 DEF Working, Replies, NoConn
    <3>2. memory' = last' /\ Asserts(last)'
      BY <2>2, <2>5 DEF Asserts, Asserted
    <3> QED  BY <2>3, <3>1, <3>2 DEF OneChange
  <2> QED  BY <1>7, <2>4, <2>5 DEF Return
<1>8. ASSUME NEW c \in Threads, TimeOut(c) PROVE OneChange'
  BY <1>8 DEF TimeOut, OneChange
<1>9. ASSUME LateReturn PROVE OneChange'
  BY <1>9 DEF LateReturn, OneChange, Late
<1>10. ASSUME NEW c \in Threads, Remember(c) PROVE OneChange'
  <2> SUFFICES ASSUME up # "no", ~excused PROVE OneChange'
    BY <1>10 DEF Remember, OneChange
  <2>1. /\ Working = {c} /\ Progress(c)
        /\ load_settings = last /\ lane \notin Late
    BY <1>10, Alone DEF Remember, Working
  <2>2. /\ conn'[c] = [conn[c] EXCEPT !.pc = "snapshot"]
        /\ \A d \in Threads \ {c} : conn'[d] = conn[d]
        /\ UNCHANGED <<desired, lane, file, last, up>>
    BY <1>10 DEF Remember
  <2>3. Working' = {c} /\ load_settings' = last' /\ lane' \notin Late
    <3>1. conn'[c].pc = "snapshot" /\ \A d \in Threads \ {c} : conn'[d].pc = conn[d].pc
      BY <2>2
    <3>2. Working' = {c}
      BY <2>1, <3>1 DEF Working
    <3> QED  BY <2>1, <2>2, <3>2 DEF load_settings
  <2>4. /\ memory' = Changed(c, last)' /\ Asserts(memory)'
        /\ c # Main
    BY <1>10, <2>1, <2>2 DEF Remember, Progress, InLane, Changed, Asserts, Asserted, Asks
  <2>5. Progress(c)'
    BY <2>2, <2>4 DEF Progress, InLane, Saving
  <2> QED  BY <2>3, <2>5 DEF OneChange
<1>11. ASSUME NEW c \in Threads, Snapshot(c) PROVE OneChange'
  <2> SUFFICES ASSUME up # "no", ~excused PROVE OneChange'
    BY <1>11 DEF Snapshot, OneChange
  <2>1. /\ Working = {c} /\ Progress(c)
        /\ load_settings = last /\ lane \notin Late
    BY <1>11, Alone DEF Snapshot, Working
  <2>2. /\ conn'[c] = [conn[c] EXCEPT !.pc = "open", !.snapshot = memory]
        /\ \A d \in Threads \ {c} : conn'[d] = conn[d]
        /\ UNCHANGED <<memory, desired, lane, file, last, up>>
    BY <1>11 DEF Snapshot
  <2>3. Working' = {c} /\ load_settings' = last' /\ lane' \notin Late
    <3>1. conn'[c].pc = "open" /\ \A d \in Threads \ {c} : conn'[d].pc = conn[d].pc
      BY <2>2
    <3>2. Working' = {c}
      BY <2>1, <3>1 DEF Working
    <3> QED  BY <2>1, <2>2, <3>2 DEF load_settings
  <2>4. /\ memory' = Changed(c, last)' /\ Asserts(memory)'
        /\ conn'[c].snapshot = memory'
        /\ c = Main => Changed(c, last)' = last'
    BY <1>11, <2>1, <2>2 DEF Snapshot, Progress, Saving, Changed, Asserts, Asserted
  <2>5. Progress(c)'
    BY <2>2, <2>4 DEF Progress, InLane, Saving
  <2> QED  BY <2>3, <2>5 DEF OneChange
<1>12. ASSUME NEW c \in Threads, OpenFile(c) PROVE OneChange'
  <2> SUFFICES ASSUME up # "no", ~excused PROVE OneChange'
    BY <1>12 DEF OpenFile, OneChange
  <2>1. /\ Working = {c} /\ Progress(c)
        /\ load_settings = last /\ lane \notin Late
    BY <1>12, Alone DEF OpenFile, Working
  <2>2. /\ conn'[c] = [conn[c] EXCEPT !.pc = "write", !.fd = "tmp"]
        /\ \A d \in Threads \ {c} : conn'[d] = conn[d]
        /\ UNCHANGED <<memory, desired, lane, file, last, up>>
    BY <1>12 DEF OpenFile
  <2>3. Working' = {c} /\ load_settings' = last' /\ lane' \notin Late
    <3>1. conn'[c].pc = "write" /\ \A d \in Threads \ {c} : conn'[d].pc = conn[d].pc
      BY <2>2
    <3>2. Working' = {c}
      BY <2>1, <3>1 DEF Working
    <3> QED  BY <2>1, <2>2, <3>2 DEF load_settings
  <2>4. /\ memory' = Changed(c, last)' /\ Asserts(memory)'
        /\ conn'[c].snapshot = memory' /\ conn'[c].fd = "tmp" /\ tmp' = Empty
        /\ c = Main => Changed(c, last)' = last'
    BY <1>12, <2>1, <2>2 DEF OpenFile, Progress, Saving, Changed, Asserts, Asserted
  <2>5. Progress(c)'
    BY <2>2, <2>4 DEF Progress, InLane, Saving
  <2> QED  BY <2>3, <2>5 DEF OneChange
<1>13. ASSUME NEW c \in Threads, WriteText(c) PROVE OneChange'
  <2> SUFFICES ASSUME up # "no", ~excused PROVE OneChange'
    BY <1>13 DEF WriteText, OneChange
  <2>1. /\ Working = {c} /\ Progress(c)
        /\ load_settings = last /\ lane \notin Late
    BY <1>13, Alone DEF WriteText, Working
  <2>2. /\ conn[c].fd = "tmp" /\ tmp = Empty /\ conn[c].snapshot = memory
        /\ memory = Changed(c, last) /\ Asserts(memory)
        /\ c = Main => Changed(c, last) = last
    BY <1>13, <2>1 DEF WriteText, Progress, Saving
  <2>3. /\ conn'[c] = [conn[c] EXCEPT !.pc = "replace", !.snapshot = None, !.fd = "none"]
        /\ \A d \in Threads \ {c} : conn'[d] = conn[d]
        /\ tmp' = memory /\ UNCHANGED <<memory, desired, lane, file, last, up>>
    BY <1>13, <2>2 DEF WriteText, Written
  <2>4. Working' = {c} /\ load_settings' = last' /\ lane' \notin Late
    <3>1. conn'[c].pc = "replace" /\ \A d \in Threads \ {c} : conn'[d].pc = conn[d].pc
      BY <2>3
    <3>2. Working' = {c}
      BY <2>1, <3>1 DEF Working
    <3> QED  BY <2>1, <2>3, <3>2 DEF load_settings
  <2>5. /\ memory' = Changed(c, last)' /\ Asserts(memory)'
        /\ c = Main => Changed(c, last)' = last'
    BY <2>2, <2>3 DEF Changed, Asserts, Asserted
  <2>6. Progress(c)'
    BY <2>3, <2>5 DEF Progress, InLane, Saving
  <2> QED  BY <2>4, <2>6 DEF OneChange
<1>14. ASSUME NEW c \in Threads, Replace(c) PROVE OneChange'
  <2> SUFFICES ASSUME up # "no", ~excused PROVE OneChange'
    BY <1>14 DEF Replace, OneChange
  <2>1. /\ Working = {c} /\ Progress(c)
        /\ load_settings = last /\ lane \notin Late
    BY <1>14, Alone DEF Replace, Working
  <2>2. /\ tmp = memory /\ memory = Changed(c, last) /\ Asserts(memory)
        /\ c = Main => Changed(c, last) = last
    BY <1>14, <2>1 DEF Replace, Progress, Saving
  <2>3. tmp # None
    BY <2>2, FileAssumption
  <2>4. \A d \in Threads : conn'[d].pc = IF d = c THEN "reply" ELSE conn[d].pc
    BY <1>14 DEF Replace, NoConn
  <2>5. Working' = {}
    BY <2>1, <2>4 DEF Working
  <2>6. file' = memory /\ last' = memory /\ UNCHANGED <<memory, desired, lane>>
    BY <1>14, <2>2, <2>3 DEF Replace, Answer, Changed
  <2>7. load_settings' = last' /\ Asserts(last)'
    BY <2>2, <2>6 DEF load_settings, Asserts, Asserted
  <2> QED  BY <2>1, <2>5, <2>6, <2>7 DEF OneChange
<1>15. ASSUME NEW c \in Threads, SaveFails(c) PROVE OneChange'
  <2> SUFFICES ASSUME up # "no", ~excused, c = Main PROVE OneChange'
    BY <1>15 DEF SaveFails, OneChange
  <2>1. /\ Working = {c} /\ Progress(c)
        /\ load_settings = last /\ lane \notin Late
    BY <1>15, Alone DEF SaveFails, Working
  <2>2. memory = last /\ Asserts(last)
    BY <1>15, <2>1 DEF SaveFails, Progress, Saving
  <2>3. UNCHANGED <<memory, desired, lane, file, last>>
    BY <1>15 DEF SaveFails, Answer
  <2>4. Working' = {}
    BY <1>15, <2>1 DEF SaveFails, Replies, NoConn, Working
  <2>5. load_settings' = last' /\ memory' = last' /\ Asserts(last)'
    BY <2>1, <2>2, <2>3 DEF load_settings, Asserts, Asserted
  <2> QED  BY <2>1, <2>3, <2>4, <2>5 DEF OneChange
<1>16. ASSUME SignalArrives PROVE OneChange'
  <2>1. Working' = Working /\ \A d \in Working : conn'[d] = conn[d]
    BY <1>16 DEF SignalArrives, Working
  <2>2. /\ UNCHANGED <<memory, desired, lane, file, tmp, last>>
        /\ up' # "no" /\ ~excused' => up # "no" /\ ~excused
    BY <1>16 DEF SignalArrives
  <2> QED  BY <2>1, <2>2, Untouched
<1>17. ASSUME SignalWakes PROVE OneChange'
  <2>1. Working' = Working /\ \A d \in Working : conn'[d] = conn[d]
    BY <1>17 DEF SignalWakes, Working
  <2>2. /\ UNCHANGED <<memory, desired, lane, file, tmp, last>>
        /\ up' # "no" /\ ~excused' => up # "no" /\ ~excused
    BY <1>17 DEF SignalWakes
  <2> QED  BY <2>1, <2>2, Untouched
<1>18. ASSUME Wake PROVE OneChange'
  <2>1. Working' = Working /\ \A d \in Working : conn'[d] = conn[d]
    BY <1>18 DEF Wake, Working
  <2>2. /\ UNCHANGED <<memory, desired, lane, file, tmp, last>>
        /\ up' # "no" /\ ~excused' => up # "no" /\ ~excused
    BY <1>18 DEF Wake
  <2> QED  BY <2>1, <2>2, Untouched
<1>19. ASSUME Clear PROVE OneChange'
  <2>1. Working' = Working /\ \A d \in Working : conn'[d] = conn[d]
    BY <1>19 DEF Clear, Working
  <2>2. /\ UNCHANGED <<memory, desired, lane, file, tmp, last>>
        /\ up' # "no" /\ ~excused' => up # "no" /\ ~excused
    BY <1>19 DEF Clear
  <2> QED  BY <2>1, <2>2, Untouched
<1>20. ASSUME Look PROVE OneChange'
  <2>1. Working' = Working /\ \A d \in Working : conn'[d] = conn[d]
    BY <1>20 DEF Look, Working
  <2>2. /\ UNCHANGED <<memory, desired, lane, file, tmp, last>>
        /\ up' # "no" /\ ~excused' => up # "no" /\ ~excused
    BY <1>20 DEF Look
  <2> QED  BY <2>1, <2>2, Untouched
<1>21. ASSUME Maintain PROVE OneChange'
  <2>1. Working' = Working /\ \A d \in Working : conn'[d] = conn[d]
    BY <1>21 DEF Maintain, Working
  <2>2. /\ UNCHANGED <<memory, desired, lane, file, tmp, last>>
        /\ up' # "no" /\ ~excused' => up # "no" /\ ~excused
    BY <1>21 DEF Maintain
  <2> QED  BY <2>1, <2>2, Untouched
<1>22. ASSUME Start PROVE OneChange'
  <2>1. Working' = {} /\ lane' \notin Late
    BY <1>22 DEF Start, Down, Working, NoConn, Late
  <2>2. load_settings' = last' /\ memory' = last' /\ Asserts(last)'
    BY <1>22 DEF Start, load_settings, Asserts
  <2> QED  BY <2>1, <2>2 DEF OneChange
<1>23. ASSUME StartThreads PROVE OneChange'
  <2> SUFFICES ASSUME ~excused' PROVE OneChange'
    BY DEF OneChange
  <2>1. Main \notin Working
    BY <1>23 DEF StartThreads, Down, Working
  <2>2. /\ Working = {} /\ memory = last /\ Asserts(last)
        /\ load_settings = last /\ lane \notin Late
    BY <1>23, <2>1, Fresh DEF StartThreads
  <2>3. /\ conn'[Main].pc = "captured"
        /\ conn'[Main].setting = "auto" /\ conn'[Main].value = memory["auto"]
        /\ \A d \in Threads \ {Main} : conn'[d] = conn[d]
        /\ UNCHANGED <<memory, desired, lane, file, last>>
    BY <1>23 DEF StartThreads
  <2>4. Working' = {Main}
    BY <2>2, <2>3 DEF Working
  <2>5. Changed(Main, last)' = last'
    BY <2>2, <2>3 DEF Changed, Choices, Settings
  <2>6. load_settings' = last' /\ memory' = last' /\ Asserts(last)'
    BY <2>2, <2>3 DEF load_settings, Asserts, Asserted
  <2>7. Progress(Main)'
    BY <2>3, <2>5, <2>6 DEF Progress, InLane, Saving
  <2> QED  BY <2>2, <2>3, <2>4, <2>6, <2>7 DEF OneChange
<1>24. ASSUME Stop PROVE OneChange'
  <2>1. Working' = Working /\ \A d \in Working : conn'[d] = conn[d]
    BY <1>24 DEF Stop, Working
  <2>2. /\ UNCHANGED <<memory, desired, lane, file, tmp, last>>
        /\ up' # "no" /\ ~excused' => up # "no" /\ ~excused
    BY <1>24 DEF Stop
  <2> QED  BY <2>1, <2>2, Untouched
<1>25. ASSUME End PROVE OneChange'
  BY <1>25 DEF End, OneChange
<1>26. ASSUME UNCHANGED vars PROVE OneChange'
  <2>1. Working' = Working /\ \A d \in Working : conn'[d] = conn[d]
    BY <1>26 DEF vars, Working
  <2>2. /\ UNCHANGED <<memory, desired, lane, file, tmp, last>>
        /\ up' # "no" /\ ~excused' => up # "no" /\ ~excused
    BY <1>26 DEF vars
  <2> QED  BY <2>1, <2>2, Untouched
<1>27. ASSUME Started PROVE OneChange'
  <2>1. Working' = Working /\ \A d \in Working : conn'[d] = conn[d]
    BY <1>27 DEF Started, Working, NoConn
  <2>2. /\ UNCHANGED <<memory, desired, lane, file, tmp, last>>
        /\ up' # "no" /\ ~excused' => up # "no" /\ ~excused
    BY <1>27 DEF Started
  <2> QED  BY <2>1, <2>2, Untouched
<1> QED
  BY <1>1, <1>2, <1>3, <1>4, <1>5, <1>6, <1>7, <1>8, <1>9, <1>10, <1>11,
     <1>12, <1>13, <1>14, <1>15, <1>16, <1>17, <1>18, <1>19, <1>20, <1>21,
     <1>22, <1>23, <1>24, <1>25, <1>26, <1>27
     DEF Next, Request, Upkeep, Process
-----------------------------------------------------------------------------
(* The properties.                                                         *)

LEMMA InitHolds == Init => IInv
<1> SUFFICES ASSUME Init PROVE IInv
  OBVIOUS
<1>1. conn \in [Threads -> Conns]
  BY NoConnIsTyped DEF Init
<1>2. Defaults \in Choices
  BY DEF Defaults, Choices
<1>3. OthersTyped
  <2>1. desired \in [EcSettings -> Values \cup {Unset}]
    BY <1>2, AssertedTyped DEF Init
  <2> QED  BY <1>2, <2>1, SlotAssumption DEF Init, OthersTyped
<1>4. (\A c \in Threads : Asks(c)) /\ Down /\ ResyncIsComing
  BY PeersAreThreads DEF Init, Asks, InLane, Saving, Down, NoConn, ResyncIsComing
<1>5. SlotsCount
  BY NoneServed, FS_EmptySet, SlotAssumption DEF Init, SlotsCount
<1>6. OneChange
  BY DEF Init, OneChange
<1> QED  BY <1>1, <1>3, <1>4, <1>5, <1>6 DEF IInv, Typed, TypeInv

\* The parts of the invariant hold in every reachable state.  (run_linux_backend)
THEOREM Invariant == Spec => []IInv
<1>1. IInv /\ [Next]_vars => IInv'
  BY TypesHold, DownHolds, SlotsHold, ResyncHolds, AnswersHold DEF IInv
<1> QED  BY InitHolds, <1>1, PTL DEF Spec

\* Killed at any moment, the service finds every answered choice in its file
\* again, and between requests it remembers and asserts what it answered, for
\* any number of peers, settings and values.  (_save_settings, set_gpu_power)
THEOREM SavedChosen == Spec => []SavedIsChosen
<1>1. OneChange => SavedIsChosen
  BY DEF OneChange, SavedIsChosen, Asserts
<1> QED  BY Invariant, <1>1, PTL DEF IInv

\* However requests end, their slots come back: a peer is turned away as one
\* too many only while MAX_CONCURRENT_REQUESTS others are served.
\* (process_request, shutdown_request)
THEOREM RefusedWhenFull == Spec => RefusedOnlyWhenFull
<1>1. ASSUME IInv, [Next]_vars, NEW c \in Peers, conn[c].pc = "free", conn'[c].pc = "full"
      PROVE  slots = 0
  <2> USE PeersAreThreads DEF IInv, Typed, TypeInv, Conns, Replies, NoConn
  <2>1. CASE \E b \in Peers : Accept(b)
    BY <1>1, <2>1 DEF Accept, Moves
  <2>2. CASE \E b \in Peers : Read(b)
    <3>1. PICK b \in Peers : Read(b)
      BY <2>2
    <3> QED  BY <1>1, <3>1, ReadMoves
  <2>3. CASE \E b \in Peers : Finish(b) \/ Leave(b)
    BY <1>1, <2>3 DEF Finish, Leave, Moves, NoConn
  <2>4. CASE \E b \in Threads : ConfigureAuto(b) \/ Call(b) \/ Return(b)
    BY <1>1, <2>4 DEF ConfigureAuto, Call, Return, Moves
  <2>5. CASE \E b \in Threads : TimeOut(b) \/ Remember(b) \/ Snapshot(b) \/ OpenFile(b)
    BY <1>1, <2>5 DEF TimeOut, Remember, Snapshot, OpenFile, Moves
  <2>6. CASE \E b \in Threads : WriteText(b) \/ Replace(b) \/ SaveFails(b)
    BY <1>1, <2>6 DEF WriteText, Replace, SaveFails, Moves
  <2>7. CASE End \/ StartThreads \/ Started
    BY <1>1, <2>7 DEF End, StartThreads, Started
  <2>8. CASE Upkeep \/ LateReturn \/ Start \/ Stop \/ UNCHANGED vars
    BY <1>1, <2>8 DEF Upkeep, SignalArrives, SignalWakes, Wake, Clear, Look, Maintain,
       LateReturn, Start, Stop, vars
  <2> QED
    BY <1>1, <2>1, <2>2, <2>3, <2>4, <2>5, <2>6, <2>7, <2>8 DEF Next, Request, Process
<1>2. ASSUME IInv, slots = 0 PROVE Cardinality(Served) = MAX_CONCURRENT_REQUESTS
  BY <1>2, FS_CardinalityType DEF IInv, SlotsCount
<1>3. IInv /\ [Next]_vars => [\A c \in Peers : conn[c].pc = "free" /\ conn'[c].pc = "full"
                                 => Cardinality(Served) = MAX_CONCURRENT_REQUESTS]_vars
  BY <1>1, <1>2
<1> QED  BY Invariant, <1>3, PTL DEF Spec, RefusedOnlyWhenFull

\* While maintenance sleeps, a resync that was asked for is about to wake it.
\* (request_resync, _maintenance_loop)
THEOREM ResyncPrompt == Spec => []ResyncIsPrompt
<1>1. ResyncIsComing => ResyncIsPrompt
  BY DEF ResyncIsComing, ResyncIsPrompt
<1> QED  BY Invariant, <1>1, PTL DEF IInv
=============================================================================
