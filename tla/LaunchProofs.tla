---------------------------- MODULE LaunchProofs ----------------------------
(***************************************************************************)
(* Proofs about Launch: an injected game runs only as a whole, a record is *)
(* true, an export publishes all of one run and replaces nothing else.     *)
(***************************************************************************)
EXTENDS Launch, FiniteSetTheorems, TLAPS

-----------------------------------------------------------------------------
(* A step of one launcher or game.                                         *)

\* What the invariant says of one launcher.
OwnInv(l) == NotBegun(l) /\ HeldBack(l) /\ InStep(l) /\ ThreadsEnded(l) /\ KnowsTheOutcome(l)

RunIsWhole(l) == launcher[l].inject /\ game[l].ran => game[l].whole
EndIsRecorded(l) ==
    launcher[l].at = "done" /\ ~launcher[l].warned => record[l] # None /\ record[l].status = launcher[l].status

OwnTypes(l) ==
    /\ DOMAIN launcher = Runs /\ DOMAIN game = Runs /\ DOMAIN record = Runs
    /\ launcher[l] \in Launchers /\ game[l] \in Games /\ record[l] \in RunRecords \cup {None}

\* Only the launcher's and the game's own state is changed.
Alone(l) ==
    /\ launcher' = launcher \/ launcher' = [launcher EXCEPT ![l] = launcher'[l]]
    /\ game' = game \/ game' = [game EXCEPT ![l] = game'[l]]
    /\ record' = record \/ record' = [record EXCEPT ![l] = record'[l]]

LEMMA StepsAreAlone ==
  ASSUME NEW l \in Runs, OwnTypes(l), LauncherStep(l) \/ GameStep(l)
  PROVE  Alone(l)
  <1>1. DOMAIN launcher = Runs /\ DOMAIN game = Runs /\ DOMAIN record = Runs
    BY DEF OwnTypes
  <1> USE <1>1
  <1> USE DEF LauncherStep, GameStep, launchVars, Goto, Failed, Record, Fault, At, ThreadDone,
      Begin, CreateProcess, CreateFails, CreateRemoteThread, InjectFails, RemoteThreadEnded,
      ProcessGone, WaitForRemoteThread, ResumeThread, ResumeFails, TerminateProcess, TerminateFails,
      WriteTemporary, MoveRecord, SaveFails, ProcessExited, WaitFails, KillLauncher, LoadLibrary,
      LoadTelemetry, LoadOthers, Play, Exit
  <1>2. launcher' = launcher \/ launcher' = [launcher EXCEPT ![l] = launcher'[l]]
    OBVIOUS
  <1>3. game' = game \/ game' = [game EXCEPT ![l] = game'[l]]
    OBVIOUS
  <1>4. record' = record \/ record' = [record EXCEPT ![l] = record'[l]]
    OBVIOUS
  <1> QED BY <1>2, <1>3, <1>4 DEF Alone

LEMMA LauncherKept ==
  ASSUME NEW l \in Runs, OwnTypes(l), LauncherStep(l) \/ GameStep(l)
  PROVE  launcher'[l] \in Launchers
  <1> USE DEF OwnTypes, Launchers, Outcomes, launchVars, Goto, Failed, Record, Fault, At, ThreadDone, NextOf
  <1>1. CASE Begin(l)
    <2>1. PICK p \in Profile(l), sound \in BOOLEAN :
            launcher' = [launcher EXCEPT ![l] =
                [@ EXCEPT !.inject = p.inject, !.path = p.path, !.overwrite = p.overwrite, !.modules = p.modules,
                          !.at = IF sound THEN "create" ELSE "write",
                          !.status = IF sound THEN "none" ELSE "preflight_failed"]]
      <3>1. PICK p \in Profile(l) : Begin(l)!2!(p)
        BY <1>1 DEF Begin
      <3> DEFINE sound == p.sound /\ (p.inject => dir[p.path] = 0 \/ p.overwrite)
      <3>2. sound \in BOOLEAN
        OBVIOUS
      <3> QED BY <3>1, <3>2
    <2>2. p \in [inject : BOOLEAN, path : Paths, overwrite : BOOLEAN, modules : Nat, sound : BOOLEAN]
      BY ProfileAssumption
    <2>3. CASE sound
      BY <2>1, <2>2, <2>3
    <2>4. CASE ~sound
      BY <2>1, <2>2, <2>4
    <2> QED BY <2>3, <2>4
  <1>2. CASE CreateProcess(l)
    BY <1>2 DEF CreateProcess
  <1>3. CASE CreateFails(l)
    BY <1>3 DEF CreateFails
  <1>4. CASE CreateRemoteThread(l)
    BY <1>4 DEF CreateRemoteThread
  <1>5. CASE InjectFails(l)
    BY <1>5 DEF InjectFails
  <1>6. CASE RemoteThreadEnded(l)
    BY <1>6 DEF RemoteThreadEnded
  <1>7. CASE ProcessGone(l)
    BY <1>7 DEF ProcessGone
  <1>8. CASE WaitForRemoteThread(l)
    BY <1>8 DEF WaitForRemoteThread
  <1>9. CASE ResumeThread(l)
    BY <1>9 DEF ResumeThread
  <1>10. CASE ResumeFails(l)
    BY <1>10 DEF ResumeFails
  <1>11. CASE TerminateProcess(l)
    BY <1>11 DEF TerminateProcess
  <1>12. CASE TerminateFails(l)
    BY <1>12 DEF TerminateFails
  <1>13. CASE WriteTemporary(l)
    BY <1>13 DEF WriteTemporary
  <1>14. CASE MoveRecord(l)
    BY <1>14 DEF MoveRecord
  <1>15. CASE SaveFails(l)
    BY <1>15 DEF SaveFails
  <1>16. CASE ProcessExited(l)
    BY <1>16 DEF ProcessExited, Games
  <1>17. CASE WaitFails(l)
    BY <1>17 DEF WaitFails
  <1>18. CASE KillLauncher(l)
    BY <1>18 DEF KillLauncher
  <1>19. CASE GameStep(l)
    BY <1>19 DEF GameStep, LoadLibrary, LoadTelemetry, LoadOthers, Play, Exit
  <1> QED
    BY <1>1, <1>2, <1>3, <1>4, <1>5, <1>6, <1>7, <1>8, <1>9, <1>10, <1>11, <1>12, <1>13, <1>14,
       <1>15, <1>16, <1>17, <1>18, <1>19 DEF LauncherStep

LEMMA GameKept ==
  ASSUME NEW l \in Runs, OwnTypes(l), LauncherStep(l) \/ GameStep(l)
  PROVE  game'[l] \in Games
  <1> USE DEF OwnTypes, Games
  <1>1. CASE CreateProcess(l)
    BY <1>1 DEF CreateProcess
  <1>2. CASE CreateRemoteThread(l)
    BY <1>2 DEF CreateRemoteThread
  <1>3. CASE RemoteThreadEnded(l)
    BY <1>3 DEF RemoteThreadEnded
  <1>4. CASE ResumeThread(l)
    BY <1>4 DEF ResumeThread
  <1>5. CASE TerminateProcess(l)
    BY <1>5 DEF TerminateProcess
  <1>6. CASE LoadLibrary(l)
    <2>1. PICK ok \in BOOLEAN :
            game' = [game EXCEPT ![l].thread = IF ok THEN "succeeded" ELSE "failed",
                                 ![l].loaded = IF ok THEN @ + 1 ELSE @]
      BY <1>6 DEF LoadLibrary
    <2>2. CASE ok
      BY <2>1, <2>2
    <2>3. CASE ~ok
      BY <2>1, <2>3
    <2> QED BY <2>2, <2>3
  <1>7. CASE LoadTelemetry(l)
    BY <1>7 DEF LoadTelemetry
  <1>8. CASE LoadOthers(l)
    BY <1>8 DEF LoadOthers
  <1>9. CASE Exit(l)
    <2>1. PICK code \in {0, 1} :
            game' = [game EXCEPT ![l].main = "dead", ![l].thread = "none", ![l].code = code]
      BY <1>9 DEF Exit
    <2> QED BY <2>1
  <1>10. CASE game' = game
    BY <1>10
  <1> QED
    BY <1>1, <1>2, <1>3, <1>4, <1>5, <1>6, <1>7, <1>8, <1>9, <1>10 DEF LauncherStep, GameStep, launchVars,
       Begin, CreateFails, InjectFails, ProcessGone, WaitForRemoteThread, ResumeFails, TerminateFails,
       WriteTemporary, MoveRecord, SaveFails, ProcessExited, WaitFails, KillLauncher, Play

LEMMA WhatIsMoved ==
  ASSUME NEW l \in Runs, OwnTypes(l), OwnInv(l), MoveRecord(l)
  PROVE  record'[l] \in RunRecords /\ record'[l] # None /\ record'[l].status = launcher[l].status
  <1>1. record'[l] = [status |-> launcher[l].status, code |-> launcher[l].code]
    BY DEF MoveRecord, OwnTypes
  <1>2. launcher[l].status \in Outcomes /\ launcher[l].code \in {0, 1}
    BY DEF MoveRecord, At, OwnTypes, Launchers, OwnInv, KnowsTheOutcome, IsSo, Outcomes
  <1> QED BY <1>1, <1>2, NoneAssumption DEF RunRecords

LEMMA RecordKept ==
  ASSUME NEW l \in Runs, OwnTypes(l), OwnInv(l), LauncherStep(l) \/ GameStep(l)
  PROVE  record'[l] \in RunRecords \cup {None}
  <1>1. CASE MoveRecord(l)
    BY <1>1, WhatIsMoved
  <1>2. CASE record' = record
    BY <1>2 DEF OwnTypes
  <1> QED
    BY <1>1, <1>2 DEF LauncherStep, GameStep, launchVars,
       Begin, CreateProcess, CreateFails, CreateRemoteThread, InjectFails, RemoteThreadEnded,
       ProcessGone, WaitForRemoteThread, ResumeThread, ResumeFails, TerminateProcess, TerminateFails,
       WriteTemporary, SaveFails, ProcessExited, WaitFails, KillLauncher, LoadLibrary, LoadTelemetry,
       LoadOthers, Play, Exit

LEMMA OwnInvKept ==
  ASSUME NEW l \in Runs, OwnTypes(l), OwnInv(l), LauncherStep(l) \/ GameStep(l)
  PROVE  OwnInv(l)'
  <1> USE DEF OwnInv, NotBegun, HeldBack, InStep, ThreadsEnded, KnowsTheOutcome, IsSo, NoProcess,
      OwnTypes, Launchers, Games, launchVars, Goto, Failed, Record, Fault, At, ThreadDone, NextOf
  <1>1. CASE Begin(l)
    BY <1>1, ProfileAssumption DEF Begin
  <1>2. CASE CreateProcess(l)
    BY <1>2 DEF CreateProcess
  <1>3. CASE CreateFails(l)
    BY <1>3 DEF CreateFails
  <1>4. CASE CreateRemoteThread(l)
    BY <1>4 DEF CreateRemoteThread
  <1>5. CASE InjectFails(l)
    BY <1>5 DEF InjectFails
  <1>6. CASE RemoteThreadEnded(l)
    BY <1>6 DEF RemoteThreadEnded
  <1>7. CASE ProcessGone(l)
    BY <1>7 DEF ProcessGone
  <1>8. CASE WaitForRemoteThread(l)
    BY <1>8 DEF WaitForRemoteThread
  <1>9. CASE ResumeThread(l)
    BY <1>9 DEF ResumeThread
  <1>10. CASE ResumeFails(l)
    BY <1>10 DEF ResumeFails
  <1>11. CASE TerminateProcess(l)
    BY <1>11 DEF TerminateProcess
  <1>12. CASE TerminateFails(l)
    BY <1>12 DEF TerminateFails
  <1>13. CASE WriteTemporary(l)
    BY <1>13 DEF WriteTemporary
  <1>14. CASE MoveRecord(l)
    BY <1>14 DEF MoveRecord
  <1>15. CASE SaveFails(l)
    BY <1>15 DEF SaveFails
  <1>16. CASE ProcessExited(l)
    BY <1>16 DEF ProcessExited
  <1>17. CASE WaitFails(l)
    BY <1>17 DEF WaitFails
  <1>18. CASE KillLauncher(l)
    BY <1>18 DEF KillLauncher
  <1>19. CASE LoadLibrary(l)
    BY <1>19 DEF LoadLibrary
  <1>20. CASE LoadTelemetry(l)
    BY <1>20 DEF LoadTelemetry
  <1>21. CASE LoadOthers(l)
    BY <1>21 DEF LoadOthers
  <1>22. CASE Play(l)
    BY <1>22 DEF Play
  <1>23. CASE Exit(l)
    BY <1>23 DEF Exit
  <1> QED
    BY <1>1, <1>2, <1>3, <1>4, <1>5, <1>6, <1>7, <1>8, <1>9, <1>10, <1>11, <1>12, <1>13, <1>14,
       <1>15, <1>16, <1>17, <1>18, <1>19, <1>20, <1>21, <1>22, <1>23 DEF LauncherStep, GameStep

LEMMA OwnWholeKept ==
  ASSUME NEW l \in Runs, OwnTypes(l), OwnInv(l), RunIsWhole(l), LauncherStep(l) \/ GameStep(l)
  PROVE  RunIsWhole(l)'
  <1> USE DEF RunIsWhole, OwnInv, NotBegun, HeldBack, InStep, ThreadsEnded, NoProcess, OwnTypes,
      Launchers, Games, launchVars, Goto, Failed, Record, Fault, At, ThreadDone, NextOf
  <1>1. CASE Begin(l)
    BY <1>1, ProfileAssumption DEF Begin
  <1>2. CASE CreateProcess(l)
    BY <1>2 DEF CreateProcess
  <1>3. CASE CreateFails(l)
    BY <1>3 DEF CreateFails
  <1>4. CASE CreateRemoteThread(l)
    BY <1>4 DEF CreateRemoteThread
  <1>5. CASE InjectFails(l)
    BY <1>5 DEF InjectFails
  <1>6. CASE RemoteThreadEnded(l)
    BY <1>6 DEF RemoteThreadEnded
  <1>7. CASE ProcessGone(l)
    BY <1>7 DEF ProcessGone
  <1>8. CASE WaitForRemoteThread(l)
    BY <1>8 DEF WaitForRemoteThread
  <1>9. CASE ResumeThread(l)
    BY <1>9 DEF ResumeThread
  <1>10. CASE ResumeFails(l)
    BY <1>10 DEF ResumeFails
  <1>11. CASE TerminateProcess(l)
    BY <1>11 DEF TerminateProcess
  <1>12. CASE TerminateFails(l)
    BY <1>12 DEF TerminateFails
  <1>13. CASE WriteTemporary(l)
    BY <1>13 DEF WriteTemporary
  <1>14. CASE MoveRecord(l)
    BY <1>14 DEF MoveRecord
  <1>15. CASE SaveFails(l)
    BY <1>15 DEF SaveFails
  <1>16. CASE ProcessExited(l)
    BY <1>16 DEF ProcessExited
  <1>17. CASE WaitFails(l)
    BY <1>17 DEF WaitFails
  <1>18. CASE KillLauncher(l)
    BY <1>18 DEF KillLauncher
  <1>19. CASE LoadLibrary(l)
    BY <1>19 DEF LoadLibrary
  <1>20. CASE LoadTelemetry(l)
    BY <1>20 DEF LoadTelemetry
  <1>21. CASE LoadOthers(l)
    BY <1>21 DEF LoadOthers
  <1>22. CASE Play(l)
    BY <1>22 DEF Play
  <1>23. CASE Exit(l)
    BY <1>23 DEF Exit
  <1> QED
    BY <1>1, <1>2, <1>3, <1>4, <1>5, <1>6, <1>7, <1>8, <1>9, <1>10, <1>11, <1>12, <1>13, <1>14,
       <1>15, <1>16, <1>17, <1>18, <1>19, <1>20, <1>21, <1>22, <1>23 DEF LauncherStep, GameStep

LEMMA OwnEndKept ==
  ASSUME NEW l \in Runs, OwnTypes(l), OwnInv(l), EndIsRecorded(l), LauncherStep(l) \/ GameStep(l)
  PROVE  EndIsRecorded(l)'
  <1> USE DEF EndIsRecorded, OwnTypes, Launchers, launchVars, Goto, Failed, Record, Fault, At, ThreadDone, NextOf
  <1>1. CASE Begin(l)
    BY <1>1, ProfileAssumption DEF Begin
  <1>2. CASE CreateProcess(l)
    <2>1. CASE launcher[l].inject
      BY <1>2, <2>1 DEF CreateProcess
    <2>2. CASE ~launcher[l].inject
      BY <1>2, <2>2 DEF CreateProcess
    <2> QED BY <2>1, <2>2
  <1>3. CASE CreateFails(l)
    BY <1>3 DEF CreateFails
  <1>4. CASE CreateRemoteThread(l)
    BY <1>4 DEF CreateRemoteThread
  <1>5. CASE InjectFails(l)
    BY <1>5 DEF InjectFails
  <1>6. CASE RemoteThreadEnded(l)
    <2>1. CASE game[l].thread = "failed"
      BY <1>6, <2>1 DEF RemoteThreadEnded
    <2>2. CASE game[l].thread # "failed"
      BY <1>6, <2>2 DEF RemoteThreadEnded
    <2> QED BY <2>1, <2>2
  <1>7. CASE ProcessGone(l)
    <2>1. launcher'[l].at \in {"inject", "resume", "terminate"}
      BY <1>7 DEF ProcessGone
    <2> QED BY <2>1
  <1>8. CASE WaitForRemoteThread(l)
    BY <1>8 DEF WaitForRemoteThread
  <1>9. CASE ResumeThread(l)
    BY <1>9 DEF ResumeThread
  <1>10. CASE ResumeFails(l)
    BY <1>10 DEF ResumeFails
  <1>11. CASE TerminateProcess(l)
    BY <1>11 DEF TerminateProcess
  <1>12. CASE TerminateFails(l)
    BY <1>12 DEF TerminateFails
  <1>13. CASE WriteTemporary(l)
    BY <1>13 DEF WriteTemporary
  <1>14. CASE MoveRecord(l)
    <2>1. record'[l].status = launcher[l].status /\ record'[l] # None
      BY <1>14, WhatIsMoved
    <2>2. launcher'[l].status = launcher[l].status
      BY <1>14 DEF MoveRecord
    <2> QED BY <2>1, <2>2
  <1>15. CASE SaveFails(l)
    BY <1>15 DEF SaveFails
  <1>16. CASE ProcessExited(l)
    BY <1>16 DEF ProcessExited
  <1>17. CASE WaitFails(l)
    BY <1>17 DEF WaitFails
  <1>18. CASE KillLauncher(l)
    BY <1>18 DEF KillLauncher
  <1>19. CASE LoadLibrary(l)
    BY <1>19 DEF LoadLibrary
  <1>20. CASE LoadTelemetry(l)
    BY <1>20 DEF LoadTelemetry
  <1>21. CASE LoadOthers(l)
    BY <1>21 DEF LoadOthers
  <1>22. CASE Play(l)
    BY <1>22 DEF Play
  <1>23. CASE Exit(l)
    BY <1>23 DEF Exit
  <1> QED
    BY <1>1, <1>2, <1>3, <1>4, <1>5, <1>6, <1>7, <1>8, <1>9, <1>10, <1>11, <1>12, <1>13, <1>14,
       <1>15, <1>16, <1>17, <1>18, <1>19, <1>20, <1>21, <1>22, <1>23 DEF LauncherStep, GameStep

-----------------------------------------------------------------------------
(* All of them.                                                            *)

LEMMA LaunchInvInit == Init => LaunchInv
  <1> SUFFICES ASSUME Init PROVE LaunchInv
    OBVIOUS
  <1>1. NotLaunched \in Launchers /\ NoProcess \in Games
    BY DEF NotLaunched, NoProcess, Launchers, Games, Outcomes
  <1>2. LaunchTypeOK
    BY <1>1 DEF Init, LaunchTypeOK
  <1>3. ASSUME NEW l \in Runs
        PROVE  OwnInv(l)
    <2>1. launcher[l] = NotLaunched /\ game[l] = NoProcess /\ record[l] = None
      BY DEF Init
    <2> QED
      BY <2>1 DEF NotLaunched, NoProcess, OwnInv, NotBegun, HeldBack, InStep, ThreadsEnded, KnowsTheOutcome
  <1>4. ASSUME NEW l \in Runs PROVE RunIsWhole(l) /\ EndIsRecorded(l)
    BY DEF Init, NoProcess, NotLaunched, RunIsWhole, EndIsRecorded
  <1> QED BY <1>2, <1>3, <1>4 DEF LaunchInv, OwnInv, RunsOnlyWhole, RecordIsTrue, RunIsWhole, EndIsRecorded,
             KnowsTheOutcome, At

LEMMA LaunchInvNext ==
  ASSUME LaunchInv, [Next]_vars
  PROVE  LaunchInv'
  <1>1. CASE UNCHANGED launchVars
    BY <1>1 DEF RunsOnlyWhole, RecordIsTrue, LaunchInv, LaunchTypeOK, launchVars, NotBegun, HeldBack, InStep, ThreadsEnded,
       KnowsTheOutcome, IsSo, RunIsWhole, EndIsRecorded, At
  <1>2. ASSUME NEW l \in Runs, LauncherStep(l) \/ GameStep(l)
        PROVE  LaunchInv'
    <2>1. OwnTypes(l) /\ OwnInv(l) /\ RunIsWhole(l) /\ EndIsRecorded(l)
      BY DEF LaunchInv, LaunchTypeOK, OwnTypes, OwnInv, RunsOnlyWhole, RecordIsTrue, RunIsWhole, EndIsRecorded, At
    <2>2. Alone(l)
      BY <1>2, <2>1, StepsAreAlone
    <2>3. launcher'[l] \in Launchers /\ game'[l] \in Games /\ record'[l] \in RunRecords \cup {None}
      BY <1>2, <2>1, LauncherKept, GameKept, RecordKept
    <2>4. LaunchTypeOK'
      BY <2>2, <2>3 DEF Alone, LaunchInv, LaunchTypeOK
    <2>5. OwnInv(l)'
      BY <1>2, <2>1, OwnInvKept
    <2>6. RunIsWhole(l)' /\ EndIsRecorded(l)'
      BY <1>2, <2>1, OwnWholeKept, OwnEndKept
    <2>7. ASSUME NEW k \in Runs, k # l
          PROVE  OwnInv(k)' /\ RunIsWhole(k)' /\ EndIsRecorded(k)'
      <3>1. launcher'[k] = launcher[k] /\ game'[k] = game[k] /\ record'[k] = record[k]
        BY <2>2, <2>7 DEF Alone, LaunchInv, LaunchTypeOK
      <3> QED
        BY <3>1 DEF LaunchInv, RunsOnlyWhole, RecordIsTrue, OwnInv, NotBegun, HeldBack, InStep, ThreadsEnded, KnowsTheOutcome, IsSo,
           RunIsWhole, EndIsRecorded, At
    <2> QED BY <2>4, <2>5, <2>6, <2>7 DEF LaunchInv, OwnInv, RunsOnlyWhole, RecordIsTrue, RunIsWhole, EndIsRecorded,
           KnowsTheOutcome, At
  <1> QED BY <1>1, <1>2 DEF Next, vars, launchVars

-----------------------------------------------------------------------------
(* The files.                                                              *)

LEMMA ImageIsSmall ==
  \A S, f : IsFiniteSet(S) =>
      IsFiniteSet({f[x] : x \in S}) /\ Cardinality({f[x] : x \in S}) <= Cardinality(S)
  <1> TAKE S, f
  <1> HAVE IsFiniteSet(S)
  <1> DEFINE T == {f[x] : x \in S}
             g == [x \in S |-> f[x]]
  <1>1. g \in Surjection(S, T)
    BY DEF Surjection
  <1>2. IsFiniteSet(T) /\ Cardinality(T) <= Cardinality(S)
    BY <1>1, FS_Surjection
  <1> QED BY <1>2

LEMMA UnionIsSmall ==
  \A S, T, x, y : IsFiniteSet(S) /\ IsFiniteSet(T) =>
      /\ IsFiniteSet(S \cup T \cup {x, y})
      /\ Cardinality(S \cup T \cup {x, y}) <= Cardinality(S) + Cardinality(T) + 2
  <1> TAKE S, T, x, y
  <1> HAVE IsFiniteSet(S) /\ IsFiniteSet(T)
  <1>1. /\ IsFiniteSet(S \cup T) /\ Cardinality(S \cup T) = Cardinality(S) + Cardinality(T) - Cardinality(S \cap T)
        /\ Cardinality(S \cup T) \in Nat
    BY FS_Union, FS_CardinalityType
  <1>2. Cardinality(S) \in Nat /\ Cardinality(T) \in Nat /\ Cardinality(S \cap T) \in Nat
    BY FS_CardinalityType, FS_Intersection
  <1> DEFINE Plus(A, z) == A \cup {z}
  <1>0. \A A, z : IsFiniteSet(A) =>
            /\ IsFiniteSet(Plus(A, z)) /\ Cardinality(A) \in Nat /\ Cardinality(Plus(A, z)) \in Nat
            /\ Cardinality(Plus(A, z)) <= Cardinality(A) + 1
    <2> TAKE A, z
    <2> HAVE IsFiniteSet(A)
    <2>1. Cardinality(A) \in Nat
      BY FS_CardinalityType
    <2>2. IsFiniteSet(A \cup {z}) /\ Cardinality(A \cup {z}) = IF z \in A THEN Cardinality(A) ELSE Cardinality(A) + 1
      BY FS_AddElement
    <2> QED BY <2>1, <2>2
  <1> HIDE DEF Plus
  <1>3. /\ IsFiniteSet(Plus(S \cup T, x)) /\ Cardinality(Plus(S \cup T, x)) <= Cardinality(S \cup T) + 1
        /\ Cardinality(Plus(S \cup T, x)) \in Nat
    BY <1>0, <1>1
  <1>4. /\ IsFiniteSet(Plus(Plus(S \cup T, x), y))
        /\ Cardinality(Plus(Plus(S \cup T, x), y)) <= Cardinality(Plus(S \cup T, x)) + 1
        /\ Cardinality(Plus(Plus(S \cup T, x), y)) \in Nat
    BY <1>0, <1>3
  <1>5. Plus(Plus(S \cup T, x), y) = S \cup T \cup {x, y}
    BY DEF Plus
  <1>6. Cardinality(Plus(Plus(S \cup T, x), y)) <= Cardinality(S) + Cardinality(T) + 2
    BY <1>1, <1>2, <1>3, <1>4
  <1> QED BY <1>4, <1>5, <1>6, Zenon

\* There is a file that is not in use.
LEMMA NewFileIsNew == NewFile \in Files /\ NewFile \notin InUse
  <1> DEFINE Named == {dir[p] : p \in Paths}
             Written == {writer[g] : g \in Runs}
  <1>1. /\ IsFiniteSet(Named) /\ Cardinality(Named) <= Cardinality(Paths)
        /\ IsFiniteSet(Written) /\ Cardinality(Written) <= Cardinality(Runs)
    BY FilesAssumption, ImageIsSmall
  <1>2. /\ Cardinality(Paths) \in Nat /\ Cardinality(Runs) \in Nat /\ Cardinality(Files) \in Nat
    BY FilesAssumption, FS_CardinalityType
  <1>3. Cardinality(Named) \in Nat /\ Cardinality(Written) \in Nat
    <2>1. \A S : IsFiniteSet(S) => Cardinality(S) \in Nat
      BY FS_CardinalityType
    <2> QED BY <1>1, <2>1
  <1>4. IsFiniteSet(InUse) /\ Cardinality(InUse) <= Cardinality(Named) + Cardinality(Written) + 2
    BY <1>1, UnionIsSmall DEF InUse
  <1>5. \A S : IsFiniteSet(S) => Cardinality(S) \in Nat /\ (Files \subseteq S => Cardinality(Files) <= Cardinality(S))
    BY FS_CardinalityType, FS_Subset
  <1> HIDE DEF Named, Written
  <1>6. Cardinality(InUse) \in Nat /\ Cardinality(InUse) < Cardinality(Files)
    BY <1>1, <1>2, <1>3, <1>4, <1>5, FilesAssumption
  <1>7. ~(Files \subseteq InUse)
    BY <1>2, <1>4, <1>5, <1>6
  <1>8. \E f \in Files : f \notin InUse
    BY <1>7
  <1> QED BY <1>8 DEF NewFile

LEMMA DiskInvInit == DiskInit => DiskInv
  <1> SUFFICES ASSUME DiskInit PROVE DiskInv
    OBVIOUS
  <1>1. NoExport = [at |-> "idle", input |-> 0, output |-> 0, overwrite |-> FALSE,
                    source |-> 0, snapshot |-> 0, read |-> 0, run |-> Old, temporary |-> 0]
    BY DEF NoExport
  <1>2. exporter = NoExport /\ writer = [g \in Runs |-> 0] /\ rows = [f \in Files |-> IF f = 1 THEN OldRows ELSE <<>>]
    BY DEF DiskInit
  <1>3. OldRows \in Seq(Records) /\ <<>> \in Seq(Records)
    BY DEF OldRows, Records
  <1>4. DiskTypeOK
    <2>1. dir \in [Paths -> Files \cup {0}]
      BY FilesAssumption DEF DiskInit
    <2>2. rows \in [Files -> Seq(Records)]
      BY <1>2, <1>3
    <2> QED BY <1>1, <1>2, <2>1, <2>2 DEF DiskTypeOK
  <1>5. OneRunAFile
    BY <1>2 DEF OneRunAFile, OldRows
  <1> QED BY <1>1, <1>2, <1>4, <1>5 DEF DiskInv, WritersOwnTheirFiles, TemporaryIsOwn, ExportInPlace, Exporting

\* A game that starts to write.
LEMMA StartKeeps ==
  ASSUME DiskInv, NEW g \in Runs, NEW path \in Paths, NEW overwrite \in BOOLEAN, Start(g, path, overwrite)
  PROVE  DiskInv' /\ (dir' # dir => writer' # writer)
  <1> DEFINE f == IF dir[path] = 0 THEN NewFile ELSE dir[path]
             first == <<[run |-> g, seq |-> 1]>>
  <1>1. /\ dir' = [dir EXCEPT ![path] = f] /\ rows' = [rows EXCEPT ![f] = first]
        /\ writer' = [writer EXCEPT ![g] = f] /\ exporter' = exporter /\ exports' = exports
    BY DEF Start
  <1>2. NewFile \in Files /\ NewFile # 0 /\ \A p \in Paths : dir[p] # NewFile
    BY NewFileIsNew, FilesAssumption DEF InUse
  <1>3. (\A h \in Runs : writer[h] # NewFile) /\ exporter.temporary # NewFile /\ exporter.source # NewFile
    BY NewFileIsNew DEF InUse
  <1>4. f \in Files /\ f # 0
    BY <1>2, FilesAssumption DEF DiskInv, DiskTypeOK
  <1>5. \A h \in Runs : writer[h] # f
    BY <1>3 DEF Start, CanStart
  <1>6. Exporting => exporter.temporary # f
    BY <1>3 DEF DiskInv, TemporaryIsOwn
  <1>7. dir[path] = 0 => \A p \in Paths : dir[p] # f
    BY <1>2
  <1>8. dir[path] # 0 => dir' = dir
    BY <1>1 DEF DiskInv, DiskTypeOK
  <1>9. dir' \in [Paths -> Files \cup {0}] /\ writer' \in [Runs -> Files \cup {0}]
    BY <1>1, <1>4 DEF DiskInv, DiskTypeOK
  <1>10. rows' \in [Files -> Seq(Records)]
    <2>1. first \in Seq(Records)
      BY DEF Records
    <2> QED BY <1>1, <1>4, <2>1 DEF DiskInv, DiskTypeOK
  <1>11. dir'[path] = f /\ \A p \in Paths : p # path => dir'[p] = dir[p]
    BY <1>1 DEF DiskInv, DiskTypeOK
  <1>12. rows'[f] = first /\ \A e \in Files : e # f => rows'[e] = rows[e]
    BY <1>1, <1>4 DEF DiskInv, DiskTypeOK
  <1>13. writer'[g] = f /\ \A h \in Runs : h # g => writer'[h] = writer[h]
    BY <1>1 DEF DiskInv, DiskTypeOK
  <1>14. first # <<>> /\ Len(first) = 1 /\ first[1] = [run |-> g, seq |-> 1]
    OBVIOUS
  <1> HIDE DEF f, first
  <1>15. DiskTypeOK'
    BY <1>1, <1>9, <1>10 DEF DiskInv, DiskTypeOK
  <1>16. OneRunAFile'
    BY <1>4, <1>12, <1>14 DEF DiskInv, OneRunAFile, first
  <1>17. WritersOwnTheirFiles'
    BY <1>4, <1>5, <1>12, <1>13, <1>14 DEF DiskInv, DiskTypeOK, WritersOwnTheirFiles
  <1>18. TemporaryIsOwn'
    BY <1>1, <1>4, <1>6, <1>11, <1>12, <1>13 DEF DiskInv, DiskTypeOK, TemporaryIsOwn, Exporting
  <1>19. ExportInPlace'
    BY <1>1, <1>4, <1>7, <1>8, <1>11 DEF DiskInv, ExportInPlace, Exporting
  <1>20. dir' # dir => writer' # writer
    BY <1>5, <1>13
  <1> QED BY <1>15, <1>16, <1>17, <1>18, <1>19, <1>20 DEF DiskInv

LEMMA WriteLineKeeps ==
  ASSUME DiskInv, NEW g \in Runs, WriteLine(g)
  PROVE  DiskInv' /\ dir' = dir
  <1> DEFINE f == writer[g]
             line == [run |-> g, seq |-> Len(rows[f]) + 1]
  <1>1. /\ rows' = [rows EXCEPT ![f] = Append(rows[f], line)]
        /\ dir' = dir /\ writer' = writer /\ exporter' = exporter
    BY DEF WriteLine
  <1>2. f \in Files /\ f # 0 /\ rows[f] \in Seq(Records) /\ rows[f] # <<>> /\ rows[f][1].run = g
    BY DEF WriteLine, DiskInv, DiskTypeOK, WritersOwnTheirFiles
  <1>3. Exporting => exporter.temporary # f
    BY DEF DiskInv, TemporaryIsOwn
  <1>4. rows'[f] = Append(rows[f], line) /\ \A e \in Files : e # f => rows'[e] = rows[e]
    BY <1>1, <1>2 DEF DiskInv, DiskTypeOK
  <1>5. line \in Records
    BY <1>2 DEF Records
  <1>6. Append(rows[f], line) \in Seq(Records) /\ Append(rows[f], line) # <<>> /\ Append(rows[f], line)[1] = rows[f][1]
    BY <1>2, <1>5
  <1>7. DiskTypeOK'
    BY <1>1, <1>2, <1>6 DEF DiskInv, DiskTypeOK
  <1>8. \A i \in DOMAIN Append(rows[f], line) : Append(rows[f], line)[i] = [run |-> g, seq |-> i]
    BY <1>2 DEF DiskInv, OneRunAFile
  <1> HIDE DEF f, line
  <1>9. OneRunAFile'
    BY <1>2, <1>4, <1>6, <1>8 DEF DiskInv, OneRunAFile
  <1>10. WritersOwnTheirFiles'
    <2> SUFFICES ASSUME NEW h \in Runs, writer[h] # 0
                 PROVE  /\ rows'[writer[h]] # <<>> /\ rows'[writer[h]][1].run = h
                        /\ \A k \in Runs : writer[k] = writer[h] => k = h
      BY <1>1 DEF WritersOwnTheirFiles
    <2>1. writer[h] \in Files
      BY DEF DiskInv, DiskTypeOK
    <2>2. CASE writer[h] = f
      BY <1>2, <1>4, <1>6, <2>2 DEF DiskInv, WritersOwnTheirFiles
    <2>3. CASE writer[h] # f
      BY <1>4, <2>1, <2>3 DEF DiskInv, WritersOwnTheirFiles
    <2> QED BY <2>2, <2>3
  <1>11. TemporaryIsOwn' /\ ExportInPlace'
    BY <1>1, <1>3, <1>4 DEF DiskInv, DiskTypeOK, TemporaryIsOwn, ExportInPlace, Exporting
  <1> QED BY <1>1, <1>7, <1>9, <1>10, <1>11 DEF DiskInv

LEMMA ClosedKeeps ==
  ASSUME DiskInv, NEW g \in Runs, Closed(g), UNCHANGED <<dir, rows, exporter, exports>>
  PROVE  DiskInv'
  <1>1. writer' \in [Runs -> Files \cup {0}] /\ \A h \in Runs : writer'[h] \in {writer[h], 0}
    BY DEF Closed, DiskInv, DiskTypeOK
  <1>2. DiskTypeOK' /\ OneRunAFile'
    BY <1>1 DEF DiskInv, DiskTypeOK, OneRunAFile
  <1>3. WritersOwnTheirFiles'
    BY <1>1 DEF DiskInv, WritersOwnTheirFiles
  <1>4. TemporaryIsOwn' /\ ExportInPlace'
    BY <1>1 DEF DiskInv, TemporaryIsOwn, ExportInPlace, Exporting
  <1> QED BY <1>2, <1>3, <1>4 DEF DiskInv

\* The exporter goes away, or has not come: what is left of it does not matter.
LEMMA IdleKeeps ==
  ASSUME DiskInv, exporter' \in [at : {"idle", "killed"}, input : {0}, output : {0}, overwrite : {FALSE},
                                 source : {0}, snapshot : {0}, read : {0}, run : {Old}, temporary : Files \cup {0}],
         writer' = writer, DiskTypeOK', OneRunAFile',
         \A g \in Runs : writer[g] # 0 => rows'[writer[g]] = rows[writer[g]]
  PROVE  DiskInv'
  <1>1. WritersOwnTheirFiles'
    BY DEF DiskInv, WritersOwnTheirFiles
  <1>2. ~Exporting'
    BY DEF Exporting
  <1> QED BY <1>1, <1>2 DEF DiskInv, TemporaryIsOwn, ExportInPlace, Exporting

LEMMA ExportKeeps ==
  ASSUME DiskInv, Export
  PROVE  DiskInv'
  <1>1. /\ dir \in [Paths -> Files \cup {0}] /\ rows \in [Files -> Seq(Records)]
        /\ writer \in [Runs -> Files \cup {0}]
    BY DEF DiskInv, DiskTypeOK
  <1> DEFINE Exporters == [at : {"idle", "open", "read", "publish", "killed"},
                           input : Paths \cup {0}, output : Paths \cup {0}, overwrite : BOOLEAN,
                           source : Files \cup {0}, snapshot : Nat, read : Nat,
                           run : Runs \cup {Old}, temporary : Files \cup {0}]
  <1>2. exporter \in Exporters
    BY DEF DiskInv, DiskTypeOK
  <1>3. <<>> \in Seq(Records)
    OBVIOUS
  <1>4. Exporting => exporter.temporary \in Files /\ exporter.temporary # 0
    BY <1>2 DEF DiskInv, TemporaryIsOwn
  <1>5. CASE StartOutput
    <2>1. PICK input \in Paths, output \in Paths, overwrite \in BOOLEAN :
            /\ dir[input] # 0 /\ (dir[output] # 0 => dir[output] # dir[input])
            /\ exporter' = [NoExport EXCEPT !.at = "open", !.input = input, !.output = output,
                              !.overwrite = overwrite, !.temporary = NewFile]
      BY <1>5 DEF StartOutput
    <2>2. rows' = [rows EXCEPT ![NewFile] = <<>>] /\ dir' = dir /\ writer' = writer
      BY <1>5 DEF StartOutput
    <2>3. /\ NewFile \in Files /\ NewFile # 0 /\ (\A p \in Paths : dir[p] # NewFile)
          /\ \A g \in Runs : writer[g] # NewFile
      BY NewFileIsNew, FilesAssumption DEF InUse
    <2>4. /\ exporter' \in Exporters /\ exporter'.at = "open" /\ exporter'.input = input /\ exporter'.output = output
          /\ exporter'.temporary = NewFile /\ exporter'.read = 0
      BY <2>1, <2>3 DEF NoExport
    <2>5. rows' \in [Files -> Seq(Records)]
      BY <1>1, <1>3, <2>2
    <2>6. rows'[NewFile] = <<>> /\ \A f \in Files : f # NewFile => rows'[f] = rows[f]
      BY <1>1, <2>2, <2>3
    <2>7. DiskTypeOK'
      BY <1>1, <2>2, <2>4, <2>5 DEF DiskTypeOK
    <2>8. OneRunAFile'
      BY <2>6 DEF DiskInv, OneRunAFile
    <2>9. WritersOwnTheirFiles'
      BY <1>1, <2>2, <2>3, <2>6 DEF DiskInv, WritersOwnTheirFiles
    <2>10. TemporaryIsOwn'
      BY <2>2, <2>3, <2>4, <2>6 DEF TemporaryIsOwn
    <2>11. ExportInPlace'
      BY <2>1, <2>2, <2>4 DEF ExportInPlace
    <2> QED BY <2>7, <2>8, <2>9, <2>10, <2>11 DEF DiskInv
  <1>6. CASE OpenSource
    <2>1. /\ exporter' = [exporter EXCEPT !.at = "read", !.source = dir[exporter.input],
                                          !.snapshot = Len(rows[dir[exporter.input]])]
          /\ dir' = dir /\ rows' = rows /\ writer' = writer /\ exporter.at = "open" /\ Exporting
      BY <1>6 DEF OpenSource, Exporting
    <2>2. /\ exporter.input \in Paths /\ dir[exporter.input] \in Files /\ dir[exporter.input] # 0
          /\ dir[exporter.input] # exporter.temporary
      BY <1>1, <2>1 DEF DiskInv, ExportInPlace, TemporaryIsOwn
    <2>3. Len(rows[dir[exporter.input]]) \in Nat
      BY <1>1, <2>2
    <2>4. /\ exporter' \in Exporters /\ exporter'.at = "read" /\ exporter'.source = dir[exporter.input]
          /\ exporter'.input = exporter.input /\ exporter'.output = exporter.output
          /\ exporter'.temporary = exporter.temporary /\ exporter'.read = exporter.read /\ exporter'.run = exporter.run
      BY <1>2, <2>1, <2>2, <2>3
    <2>5. DiskTypeOK' /\ OneRunAFile' /\ WritersOwnTheirFiles'
      BY <1>1, <2>1, <2>4 DEF DiskInv, DiskTypeOK, OneRunAFile, WritersOwnTheirFiles
    <2>6. TemporaryIsOwn'
      BY <2>1, <2>4 DEF DiskInv, TemporaryIsOwn
    <2>7. ExportInPlace'
      BY <2>1, <2>2, <2>4 DEF DiskInv, ExportInPlace
    <2> QED BY <2>5, <2>6, <2>7 DEF DiskInv
  <1>7. CASE ReadRecord
    <2> DEFINE n == exporter.read
               temporary == exporter.temporary
               r == rows[exporter.source][n + 1]
    <2>1. /\ exporter.at = "read" /\ Exporting /\ n \in Nat /\ n < exporter.snapshot
          /\ exporter.source \in Files /\ exporter.source # temporary /\ temporary \in Files /\ temporary # 0
      BY <1>2, <1>4, <1>7 DEF ReadRecord, Exporting, DiskInv, ExportInPlace
    <2>2. /\ n < Len(rows[exporter.source]) /\ (n > 0 => r.run = exporter.run)
          /\ exporter' = [exporter EXCEPT !.read = n + 1, !.run = r.run]
          /\ rows' = [rows EXCEPT ![temporary] = Append(rows[temporary], r)]
          /\ dir' = dir /\ writer' = writer
      BY <1>7 DEF ReadRecord
    <2>3. r \in Records /\ r = [run |-> r.run, seq |-> n + 1]
      <3>1. n + 1 \in DOMAIN rows[exporter.source]
        BY <1>1, <2>1, <2>2
      <3> QED BY <1>1, <2>1, <3>1 DEF DiskInv, OneRunAFile
    <2>4. r.run \in Runs \cup {Old}
      BY <2>3 DEF Records
    <2>5. /\ exporter' \in Exporters /\ exporter'.at = "read" /\ exporter'.input = exporter.input
          /\ exporter'.output = exporter.output /\ exporter'.source = exporter.source
          /\ exporter'.temporary = temporary /\ exporter'.read = n + 1 /\ exporter'.run = r.run
      <3>1. n + 1 \in Nat
        BY <2>1
      <3>2. \A k \in Nat, g \in Runs \cup {Old} :
                LET e == [exporter EXCEPT !.read = k, !.run = g]
                IN  /\ e \in Exporters /\ e.at = exporter.at /\ e.input = exporter.input
                    /\ e.output = exporter.output /\ e.source = exporter.source
                    /\ e.temporary = exporter.temporary /\ e.read = k /\ e.run = g
        BY <1>2
      <3> QED BY <2>1, <2>2, <2>4, <3>1, <3>2
    <2>6. /\ rows[temporary] \in Seq(Records) /\ Len(rows[temporary]) = n
          /\ n > 0 => rows[temporary][1].run = exporter.run
      BY <1>1, <2>1 DEF DiskInv, TemporaryIsOwn
    <2>7. \A i \in 1 .. n : rows[temporary][i] = [run |-> rows[temporary][1].run, seq |-> i]
      BY <2>1, <2>6 DEF DiskInv, OneRunAFile
    <2>8. rows'[temporary] = Append(rows[temporary], r) /\ \A f \in Files : f # temporary => rows'[f] = rows[f]
      BY <1>1, <2>1, <2>2
    <2> HIDE DEF r, n, temporary
    <2>9. /\ Append(rows[temporary], r) \in Seq(Records) /\ Len(Append(rows[temporary], r)) = n + 1
          /\ \A i \in 1 .. n : Append(rows[temporary], r)[i] = rows[temporary][i]
          /\ Append(rows[temporary], r)[n + 1] = r
      BY <2>1, <2>3, <2>6
    <2>10. Append(rows[temporary], r)[1].run = r.run
      BY <2>1, <2>2, <2>6, <2>9
    <2>11. \A i \in 1 .. n + 1 : Append(rows[temporary], r)[i] = [run |-> r.run, seq |-> i]
      <3> TAKE i \in 1 .. n + 1
      <3>1. CASE i = n + 1
        BY <2>3, <2>9, <3>1
      <3>2. CASE i # n + 1
        <4>1. i \in 1 .. n /\ n > 0
          BY <2>1, <3>2
        <4> QED BY <2>2, <2>6, <2>7, <2>9, <4>1
      <3> QED BY <3>1, <3>2
    <2>12. DiskTypeOK'
      BY <1>1, <2>1, <2>2, <2>5, <2>9 DEF DiskTypeOK
    <2>13. OneRunAFile'
      <3> SUFFICES ASSUME NEW f \in Files, NEW i \in DOMAIN rows'[f]
                   PROVE  rows'[f][i] = [run |-> rows'[f][1].run, seq |-> i]
        BY DEF OneRunAFile
      <3>1. CASE f = temporary
        <4>1. i \in 1 .. n + 1
          BY <2>8, <2>9, <3>1
        <4> QED BY <2>8, <2>10, <2>11, <3>1, <4>1
      <3>2. CASE f # temporary
        BY <2>8, <3>2 DEF DiskInv, OneRunAFile
      <3> QED BY <3>1, <3>2
    <2>14. WritersOwnTheirFiles'
      BY <1>1, <2>1, <2>2, <2>8 DEF DiskInv, WritersOwnTheirFiles, TemporaryIsOwn, temporary
    <2>15. TemporaryIsOwn'
      BY <2>1, <2>2, <2>5, <2>8, <2>9, <2>10 DEF DiskInv, TemporaryIsOwn, temporary
    <2>16. ExportInPlace'
      BY <2>1, <2>2, <2>5 DEF DiskInv, ExportInPlace
    <2> QED BY <2>12, <2>13, <2>14, <2>15, <2>16 DEF DiskInv
  <1>8. CASE EndOfSource
    <2>1. /\ exporter' = [exporter EXCEPT !.at = "publish", !.source = 0]
          /\ dir' = dir /\ rows' = rows /\ writer' = writer /\ exporter.at = "read" /\ Exporting
          /\ exporter.read = exporter.snapshot /\ exporter.read > 0
      BY <1>8 DEF EndOfSource, Exporting
    <2>2. /\ exporter' \in Exporters /\ exporter'.at = "publish"
          /\ exporter'.input = exporter.input /\ exporter'.output = exporter.output
          /\ exporter'.snapshot = exporter.snapshot
          /\ exporter'.temporary = exporter.temporary /\ exporter'.read = exporter.read /\ exporter'.run = exporter.run
      BY <1>2, <2>1
    <2>3. DiskTypeOK' /\ OneRunAFile' /\ WritersOwnTheirFiles'
      BY <1>1, <2>1, <2>2 DEF DiskInv, DiskTypeOK, OneRunAFile, WritersOwnTheirFiles
    <2>4. TemporaryIsOwn'
      BY <2>1, <2>2 DEF DiskInv, TemporaryIsOwn
    <2>5. ExportInPlace'
      BY <2>1, <2>2 DEF DiskInv, ExportInPlace
    <2> QED BY <2>3, <2>4, <2>5 DEF DiskInv
  <1>9. CASE Publish
    <2>1. /\ exporter' = NoExport /\ dir' = [dir EXCEPT ![exporter.output] = exporter.temporary]
          /\ rows' = rows /\ writer' = writer /\ Exporting
      BY <1>9 DEF Publish, Exporting
    <2>2. dir' \in [Paths -> Files \cup {0}]
      BY <1>1, <1>4, <2>1
    <2>3. DiskTypeOK' /\ OneRunAFile'
      BY <1>1, <2>1, <2>2 DEF DiskInv, DiskTypeOK, OneRunAFile, NoExport
    <2> QED BY <2>1, <2>3, IdleKeeps DEF NoExport
  <1>10. CASE GiveUp
    <2>1. /\ exporter' = NoExport /\ rows' = [rows EXCEPT ![exporter.temporary] = <<>>]
          /\ dir' = dir /\ writer' = writer /\ Exporting
      BY <1>10 DEF GiveUp, Exporting
    <2>2. /\ rows' \in [Files -> Seq(Records)] /\ rows'[exporter.temporary] = <<>>
          /\ \A f \in Files : f # exporter.temporary => rows'[f] = rows[f]
      BY <1>1, <1>3, <1>4, <2>1
    <2>3. DiskTypeOK' /\ OneRunAFile'
      BY <1>1, <2>1, <2>2 DEF DiskInv, DiskTypeOK, OneRunAFile, NoExport
    <2>4. \A g \in Runs : writer[g] # 0 => rows'[writer[g]] = rows[writer[g]]
      BY <1>1, <2>1, <2>2 DEF DiskInv, TemporaryIsOwn
    <2> QED BY <2>1, <2>3, <2>4, IdleKeeps DEF NoExport
  <1>11. CASE Kill
    <2>1. /\ exporter' = [NoExport EXCEPT !.at = "killed", !.temporary = exporter.temporary]
          /\ dir' = dir /\ rows' = rows /\ writer' = writer /\ Exporting
      BY <1>11 DEF Kill, Exporting
    <2>2. exporter' \in Exporters
      BY <1>4, <2>1 DEF NoExport
    <2>3. DiskTypeOK' /\ OneRunAFile'
      BY <1>1, <2>1, <2>2 DEF DiskInv, DiskTypeOK, OneRunAFile
    <2>4. exporter' \in [at : {"idle", "killed"}, input : {0}, output : {0}, overwrite : {FALSE},
                         source : {0}, snapshot : {0}, read : {0}, run : {Old}, temporary : Files \cup {0}]
      BY <1>4, <2>1 DEF NoExport
    <2> QED BY <2>1, <2>3, <2>4, IdleKeeps
  <1> QED BY <1>5, <1>6, <1>7, <1>8, <1>9, <1>10, <1>11 DEF Export

\* What a step does on the disk.
LEMMA DiskSteps ==
  ASSUME LaunchInv, [Next]_vars
  PROVE  \/ UNCHANGED diskVars \/ Export
         \/ \E l \in Runs :
                \/ Closed(l) /\ UNCHANGED <<dir, rows, exporter, exports>>
                \/ WriteLine(l)
                \/ \E path \in Paths, overwrite \in BOOLEAN : Start(l, path, overwrite)
  <1>1. CASE \E l \in Runs : LauncherStep(l)
    BY <1>1 DEF LauncherStep,
       Begin, CreateProcess, CreateFails, CreateRemoteThread, InjectFails, RemoteThreadEnded,
       ProcessGone, WaitForRemoteThread, ResumeThread, ResumeFails, TerminateProcess, TerminateFails,
       WriteTemporary, MoveRecord, SaveFails, ProcessExited, WaitFails, KillLauncher
  <1>2. ASSUME NEW l \in Runs, LoadTelemetry(l)
        PROVE  UNCHANGED diskVars \/ \E path \in Paths, overwrite \in BOOLEAN : Start(l, path, overwrite)
    <2>1. launcher[l].at # "idle"
      BY <1>2 DEF LoadTelemetry, LaunchInv, LaunchTypeOK, NotBegun, NoProcess
    <2>2. launcher[l].path \in Paths /\ launcher[l].overwrite \in BOOLEAN
      BY <2>1 DEF LaunchInv, LaunchTypeOK, NotBegun, Launchers
    <2> QED BY <1>2, <2>2 DEF LoadTelemetry
  <1>3. CASE \E l \in Runs : GameStep(l)
    BY <1>2, <1>3 DEF GameStep, LoadLibrary, LoadOthers, Play, Exit
  <1>4. CASE UNCHANGED vars
    BY <1>4 DEF vars
  <1> QED BY <1>1, <1>3, <1>4 DEF Next

LEMMA DiskInvNext ==
  ASSUME LaunchInv, DiskInv, [Next]_vars
  PROVE  DiskInv'
  <1>1. CASE UNCHANGED diskVars
    BY <1>1 DEF diskVars, DiskInv, DiskTypeOK, OneRunAFile, WritersOwnTheirFiles, TemporaryIsOwn, ExportInPlace,
       Exporting
  <1> QED BY <1>1, DiskSteps, ExportKeeps, ClosedKeeps, WriteLineKeeps, StartKeeps

\* What changes a name, when no game starts to write, is a finished export.
LEMMA OnlyPublishNames ==
  ASSUME LaunchInv, DiskInv, [Next]_vars, dir' # dir, writer' = writer
  PROVE  Publish
  <1>1. CASE Export
    BY <1>1 DEF Export, StartOutput, OpenSource, ReadRecord, EndOfSource, GiveUp, Kill
  <1> QED BY <1>1, DiskSteps, WriteLineKeeps, StartKeeps DEF diskVars

-----------------------------------------------------------------------------
(* The theorems.                                                           *)

\* The inductive invariant of the launchers, their games and the files.
THEOREM SpecIInv == Spec => []IInv
  <1>1. Init => IInv
    BY LaunchInvInit, DiskInvInit DEF Init, IInv
  <1>2. IInv /\ [Next]_vars => IInv'
    BY LaunchInvNext, DiskInvNext DEF IInv
  <1> QED BY <1>1, <1>2, PTL DEF Spec

\* The main thread of an injected game runs only in a process with the kernel,
\* every selected module and every plugin (Launch, InjectLibrary, CallLoadPlugins).
THEOREM SpecRunsOnlyWhole == Spec => []RunsOnlyWhole
  <1>1. IInv => RunsOnlyWhole
    BY DEF IInv, LaunchInv
  <1> QED BY <1>1, SpecIInv, PTL

\* A run record says at every moment what became of the game, and a launcher
\* that ends without a warning has left it (persist, SaveRunRecord).
THEOREM SpecRecordIsTrue == Spec => []RecordIsTrue
  <1>1. IInv => RecordIsTrue
    BY DEF IInv, LaunchInv
  <1> QED BY <1>1, SpecIInv, PTL

\* A finished export gives its destination, and only that, every record
\* its reading of the source met, the first ones of one run in order, and
\* replaces neither the source nor what a game writes (ExportTrace).
THEOREM SpecExportIsWhole == Spec => ExportIsWhole
  <1> DEFINE p == exporter.output
             new == rows'[dir'[p]]
             Whole == /\ dir' = [dir EXCEPT ![p] = dir'[p]]
                      /\ Len(new) = exporter.snapshot /\ new # <<>>
                      /\ \A i \in DOMAIN new : new[i] = [run |-> new[1].run, seq |-> i]
                      /\ dir[p] # 0 => exporter.overwrite
                      /\ dir[p] # 0 => \A g \in Runs : writer[g] # dir[p]
                      /\ dir[p] # 0 => dir[p] # dir[exporter.input]
  <1>1. ASSUME IInv, [Next]_vars, dir' # dir, writer' = writer
        PROVE  Whole
    <2>1. Publish /\ DiskInv
      BY <1>1, OnlyPublishNames DEF IInv
    <2>2. /\ exporter.at = "publish" /\ Exporting /\ rows' = rows
          /\ dir' = [dir EXCEPT ![p] = exporter.temporary]
          /\ dir[p] # 0 => exporter.overwrite
          /\ \A g \in Runs : writer[g] # dir[p] \/ writer[g] = 0
      BY <2>1 DEF Publish, Exporting
    <2>3. p \in Paths /\ exporter.read = exporter.snapshot /\ exporter.read > 0 /\ dir[p] # dir[exporter.input]
      BY <2>1, <2>2 DEF DiskInv, ExportInPlace
    <2>4. exporter.temporary \in Files /\ Len(rows[exporter.temporary]) = exporter.read /\ exporter.read \in Nat
      BY <2>1, <2>2 DEF DiskInv, DiskTypeOK, TemporaryIsOwn
    <2>5. dir'[p] = exporter.temporary /\ dir' = [dir EXCEPT ![p] = dir'[p]]
      BY <2>1, <2>2, <2>3 DEF DiskInv, DiskTypeOK
    <2>6. new = rows[exporter.temporary]
      BY <2>2, <2>5
    <2>7. Len(new) = exporter.snapshot /\ new # <<>>
      BY <2>1, <2>3, <2>4, <2>6 DEF DiskInv, DiskTypeOK
    <2>8. \A i \in DOMAIN new : new[i] = [run |-> new[1].run, seq |-> i]
      BY <2>1, <2>4, <2>6 DEF DiskInv, OneRunAFile
    <2> QED BY <2>2, <2>3, <2>5, <2>7, <2>8
  <1>2. IInv /\ [Next]_vars => [dir' # dir /\ writer' = writer => Whole]_diskVars
    BY <1>1
  <1> QED BY <1>2, SpecIInv, PTL DEF Spec, ExportIsWhole
=============================================================================
