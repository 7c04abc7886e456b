-------------------------- MODULE AnalyzeAllProofs --------------------------
(***************************************************************************)
(* Proofs about AnalyzeAll, for any modules of the two waves, inputs,      *)
(* workers and commands, with a kill after any step: what the second wave  *)
(* reads is final, exit code 0 means a complete and indexed directory, and *)
(* a delta names exactly the reports written since the manifest before.    *)
(***************************************************************************)
EXTENDS AnalyzeAll, TLAPS

First == RangeOf(WaveA)
Second == RangeOf(WaveB)

Phases == {"idle", "waveA", "waveB", "single", "webui", "index", "manifest", "delta", "end"}
States == {"idle", "skipped", "queued", "running", "writing", "written", "ok", "failed"}

CommandType ==
  /\ command \in Nat /\ commandPhase \in Phases /\ partial \in BOOLEAN
  /\ exit \in {"none", "usage", "config", "partial", "ok"}
  /\ mod \in [Modules -> States] /\ seen \in [Modules -> Seq(Int)]
  /\ json \in [Modules -> Int] /\ manifest \in [Modules -> Int] /\ prev \in [Modules -> Int]
  /\ html \subseteq Modules /\ rewritten \subseteq Modules

(***************************************************************************)
(* The phases keep the modules apart: nobody works on a report outside the *)
(* waves and the single commands, and when the second wave begins the      *)
(* first is over.                                                          *)
(***************************************************************************)
Working == {"waveA", "waveB", "single"}
Later == {"waveB", "webui", "index", "manifest", "delta", "end"}
Waits(m) == mod[m] \in {"queued", "skipped"} /\ seen[m] = <<>>

Course ==
  /\ commandPhase \notin Working => \A m \in Modules : Over(m)
  /\ commandPhase = "idle" => \A m \in Modules : seen[m] = <<>>
  /\ commandPhase = "waveA" => \A m \in Second : Waits(m)
  /\ commandPhase \in Later => \A m \in First : Over(m)

WaveInv == CommandType /\ Course /\ SecondWaveReadsFinal

(***************************************************************************)
(* The number of a report is that of a command given, and a manifest saved *)
(* before this command holds older ones only.                              *)
(***************************************************************************)
Within(v, c) == -c <= v /\ v <= c
Older(v, c) == -c < v /\ v < c

Numbered ==
  /\ commandPhase # "idle" => command # 0
  /\ \A m \in Modules : Within(json[m], command) /\ Within(manifest[m], command)
  /\ commandPhase \in Working => \A m \in Modules : Older(manifest[m], command)

\* What a module has to show for itself, in its command.
Shows(m) ==
  /\ mod[m] = "writing" => json[m] = Torn(command)
  /\ mod[m] \in {"written", "ok"} => json[m] = command
  /\ mod[m] = "ok" => m \in html
  /\ mod[m] = "failed" => partial
Shown == commandPhase # "idle" => \A m \in Modules : Shows(m)

\* analyze-all gives every module a part, run-delta and the others do not.
AskedForAll == \A m \in Modules : mod[m] # "idle"
Indexed == AskedForAll /\ ~partial => index = html

Ended ==
  /\ commandPhase \in {"waveA", "waveB"} => AskedForAll
  /\ commandPhase = "single" => ~AskedForAll
  /\ commandPhase \in {"manifest", "delta", "end"} => Indexed
  /\ commandPhase = "delta" => manifest = json
  /\ commandPhase = "end" /\ ~partial => manifest = json /\ delta = <<prev, manifest>>

\* The reports somebody wrote are those that differ from the manifest.
Differ(a, b) == {m \in Modules : a[m] # b[m]}
Accounted ==
  /\ rewritten = Differ(json, manifest)
  /\ commandPhase = "delta" \/ (commandPhase = "end" /\ ~partial) => covered = Differ(prev, manifest)

AnswerInv ==
  /\ CommandType /\ Course /\ Numbered /\ Shown /\ Ended /\ Accounted /\ ExitZeroIsComplete
----------------------------------------------------------------------------
LEMMA Waves ==
  /\ First \subseteq Modules /\ Second \subseteq Modules /\ Modules = First \cup Second
  /\ First \cap Second = {} /\ First # {} /\ Second # {}
  /\ \A m \in Modules : Inputs[m] \in Seq(Modules)
  BY AnalyzeAllAssumption DEF First, Second, Modules

LEMMA NothingLoaded == [m \in Modules |-> <<>>] \in [Modules -> Seq(Int)]
  <1>1. <<>> \in Seq(Int)
    OBVIOUS
  <1> QED
    BY <1>1

(***************************************************************************)
(* Each part of the invariants, one action after the other.                *)
(***************************************************************************)
LEMMA TypeStep ==
  ASSUME CommandType, [CommandNext]_commandVars
  PROVE  CommandType'
  <1> USE Waves DEF CommandType, commandVars, Disk, Forget, Phases, States, Torn, Absent, Busy
  <1>1. ASSUME NEW skip, NEW include, NEW f, NEW card, AnalyzeAll(skip, include, f, card)
        PROVE CommandType'
    <2>1. partial' \in BOOLEAN
      BY <1>1, ZenonT(30) DEF AnalyzeAll
    <2>2. CASE FlagRejected(f) \/ ~card
      BY <1>1, <2>1, <2>2 DEF AnalyzeAll
    <2>3. CASE ~(FlagRejected(f) \/ ~card)
      <3>1. mod' \in [Modules -> States]
        BY <1>1, <2>3 DEF AnalyzeAll
      <3>2. seen' \in [Modules -> Seq(Int)]
        BY <1>1, <2>3, NothingLoaded DEF AnalyzeAll
      <3>3. command' \in Nat /\ commandPhase' \in Phases /\ exit' = "none"
        BY <1>1, <2>3 DEF AnalyzeAll
      <3> QED
        BY <1>1, <2>1, <3>1, <3>2, <3>3 DEF AnalyzeAll
    <2> QED
      BY <2>2, <2>3
  <1>2. ASSUME NEW m \in Modules, AnalyzeOne(m) PROVE CommandType'
    <2>1. partial' \in BOOLEAN
      BY <1>2, ZenonT(30) DEF AnalyzeOne
    <2>2. seen' \in [Modules -> Seq(Int)]
      BY <1>2, NothingLoaded DEF AnalyzeOne
    <2>3. mod' \in [Modules -> States]
      BY <1>2 DEF AnalyzeOne
    <2> QED
      BY <1>2, <2>1, <2>2, <2>3 DEF AnalyzeOne
  <1>3. ASSUME NEW m \in Modules, StartModule(m) PROVE CommandType'
    BY <1>3 DEF StartModule
  <1>4. ASSUME NEW m \in Modules, LoadInput(m) PROVE CommandType'
    <2> DEFINE loaded == json[Inputs[m][Len(seen[m]) + 1]]
    <2>1. Len(seen[m]) \in Nat /\ Len(Inputs[m]) \in Nat /\ seen[m] \in Seq(Int)
      OBVIOUS
    <2>2. loaded \in Int
      BY <1>4, <2>1 DEF LoadInput
    <2>3. Append(seen[m], loaded) \in Seq(Int)
      BY <2>1, <2>2
    <2> QED
      BY <1>4, <2>3 DEF LoadInput
  <1>5. ASSUME NEW m \in Modules, BeginWrite(m) PROVE CommandType'
    BY <1>5 DEF BeginWrite
  <1>6. ASSUME NEW m \in Modules, EndWrite(m) PROVE CommandType'
    BY <1>6 DEF EndWrite
  <1>7. ASSUME NEW m \in Modules, FinishModule(m) PROVE CommandType'
    BY <1>7 DEF FinishModule
  <1>8. ASSUME NEW m \in Modules, FailModule(m) PROVE CommandType'
    BY <1>8 DEF FailModule
  <1>9. ASSUME RunDelta PROVE CommandType'
    <2>1. partial' \in BOOLEAN
      BY <1>9, ZenonT(30) DEF RunDelta
    <2> QED
      BY <1>9, <2>1, NothingLoaded DEF RunDelta
  <1>10. ASSUME BuildIndex PROVE CommandType'
    BY <1>10 DEF BuildIndex
  <1>11. ASSUME NextWave PROVE CommandType'
    BY <1>11 DEF NextWave
  <1>12. ASSUME NEW asked \in BOOLEAN, NEW fails \in BOOLEAN, CopyWebui(asked, fails)
        PROVE CommandType'
    BY <1>12 DEF CopyWebui
  <1>13. ASSUME NEW fails \in BOOLEAN, WriteIndex(fails) PROVE CommandType'
    BY <1>13 DEF WriteIndex
  <1>14. ASSUME NEW fails \in BOOLEAN, SaveManifestFails(fails) PROVE CommandType'
    BY <1>14 DEF SaveManifestFails
  <1>15. ASSUME NEW fails \in BOOLEAN, WriteDelta(fails) PROVE CommandType'
    BY <1>15 DEF WriteDelta
  <1>16. ASSUME SaveManifest PROVE CommandType'
    BY <1>16 DEF SaveManifest
  <1>17. ASSUME EndCommand PROVE CommandType'
    <2>1. partial' \in BOOLEAN
      BY <1>17, ZenonT(30) DEF EndCommand
    <2> QED
      BY <1>17, <2>1, NothingLoaded DEF EndCommand
  <1>18. ASSUME NEW errors \in BOOLEAN, EndSingle(errors) PROVE CommandType'
    <2>1. partial' \in BOOLEAN
      BY <1>18, ZenonT(30) DEF EndSingle
    <2> QED
      BY <1>18, <2>1, NothingLoaded DEF EndSingle
  <1>19. ASSUME Kill PROVE CommandType'
    <2>1. partial' \in BOOLEAN
      BY <1>19, ZenonT(30) DEF Kill
    <2> QED
      BY <1>19, <2>1, NothingLoaded DEF Kill
  <1>20. ASSUME UNCHANGED commandVars PROVE CommandType'
    BY <1>20 DEF commandVars
  <1> QED
    BY <1>1, <1>2, <1>3, <1>4, <1>5, <1>6, <1>7, <1>8, <1>9, <1>10, <1>11, <1>12, <1>13,
        <1>14, <1>15, <1>16, <1>17, <1>18, <1>19, <1>20
    DEF CommandNext, ModuleStep, TailStep

LEMMA CourseStep ==
  ASSUME CommandType, Course, [CommandNext]_commandVars
  PROVE  Course'
  <1> USE Waves DEF CommandType, Course, Later, commandVars, Disk, Forget, Phases, Working, Waits,
      Over, Busy, Queued, Wave, First, Second
  <1>1. ASSUME NEW skip, NEW include, NEW f, NEW card, AnalyzeAll(skip, include, f, card)
        PROVE Course'
    BY <1>1 DEF AnalyzeAll
  <1>2. ASSUME NEW m \in Modules, AnalyzeOne(m) PROVE Course'
    BY <1>2 DEF AnalyzeOne
  <1>3. ASSUME NEW m \in Modules, StartModule(m) PROVE Course'
    BY <1>3 DEF StartModule
  <1>4. ASSUME NEW m \in Modules, LoadInput(m) PROVE Course'
    BY <1>4 DEF LoadInput
  <1>5. ASSUME NEW m \in Modules, BeginWrite(m) PROVE Course'
    BY <1>5 DEF BeginWrite
  <1>6. ASSUME NEW m \in Modules, EndWrite(m) PROVE Course'
    BY <1>6 DEF EndWrite
  <1>7. ASSUME NEW m \in Modules, FinishModule(m) PROVE Course'
    BY <1>7 DEF FinishModule
  <1>8. ASSUME NEW m \in Modules, FailModule(m) PROVE Course'
    BY <1>8 DEF FailModule
  <1>9. ASSUME RunDelta PROVE Course'
    BY <1>9 DEF RunDelta
  <1>10. ASSUME BuildIndex PROVE Course'
    BY <1>10 DEF BuildIndex
  <1>11. ASSUME NextWave PROVE Course'
    BY <1>11 DEF NextWave
  <1>12. ASSUME NEW asked \in BOOLEAN, NEW fails \in BOOLEAN, CopyWebui(asked, fails)
        PROVE Course'
    BY <1>12 DEF CopyWebui
  <1>13. ASSUME NEW fails \in BOOLEAN, WriteIndex(fails) PROVE Course'
    BY <1>13 DEF WriteIndex
  <1>14. ASSUME NEW fails \in BOOLEAN, SaveManifestFails(fails) PROVE Course'
    BY <1>14 DEF SaveManifestFails
  <1>15. ASSUME NEW fails \in BOOLEAN, WriteDelta(fails) PROVE Course'
    BY <1>15 DEF WriteDelta
  <1>16. ASSUME SaveManifest PROVE Course'
    BY <1>16 DEF SaveManifest
  <1>17. ASSUME EndCommand PROVE Course'
    BY <1>17 DEF EndCommand
  <1>18. ASSUME NEW errors \in BOOLEAN, EndSingle(errors) PROVE Course'
    BY <1>18 DEF EndSingle
  <1>19. ASSUME Kill PROVE Course'
    BY <1>19 DEF Kill
  <1>20. ASSUME UNCHANGED commandVars PROVE Course'
    BY <1>20 DEF commandVars
  <1> QED
    BY <1>1, <1>2, <1>3, <1>4, <1>5, <1>6, <1>7, <1>8, <1>9, <1>10, <1>11, <1>12, <1>13,
        <1>14, <1>15, <1>16, <1>17, <1>18, <1>19, <1>20
    DEF CommandNext, ModuleStep, TailStep

\* What a module of the second wave has loaded so far of the first.
FinalOf(m) ==
  \A i \in 1..Len(seen[m]) : Inputs[m][i] \in First => seen[m][i] = json[Inputs[m][i]]
LEMMA FinalParts ==
  /\ SecondWaveReadsFinal <=> (commandPhase \in Later => \A m \in Second : FinalOf(m))
  /\ SecondWaveReadsFinal' <=> (commandPhase' \in Later => \A m \in Second : FinalOf(m)')
  BY DEF SecondWaveReadsFinal, FinalOf, Later, First, Second

\* A step that loads no report and writes none of the first wave.
LEMMA FinalKept ==
  ASSUME CommandType, Course, SecondWaveReadsFinal, [CommandNext]_commandVars,
         commandPhase \in Later \cup {"waveA"}, UNCHANGED seen,
         \A m \in First : commandPhase \in Later => json'[m] = json[m]
  PROVE  SecondWaveReadsFinal'
  <1>1. CASE commandPhase \in Later
    BY <1>1, FinalParts DEF FinalOf
  <1>2. CASE commandPhase = "waveA"
    BY <1>2, FinalParts DEF FinalOf, Course, Waits
  <1> QED
    BY <1>1, <1>2

LEMMA FinalStep ==
  ASSUME CommandType, Course, SecondWaveReadsFinal, [CommandNext]_commandVars
  PROVE  SecondWaveReadsFinal'
  <1> USE Waves
  <1>1. CASE commandPhase' \notin Later
    BY <1>1, FinalParts
  <1>2. CASE commandPhase' \in Later /\ commandPhase \notin Later \cup {"waveA"}
    <2>1. \A m \in Second : seen'[m] = <<>>
      BY <1>2 DEF Course, CommandType, Phases, Later, Working, Over, Busy, Disk, Forget,
          commandVars,
        CommandNext, ModuleStep, TailStep, AnalyzeAll, AnalyzeOne, RunDelta, BuildIndex, Kill,
        NextWave, CopyWebui, WriteIndex, SaveManifest, SaveManifestFails, WriteDelta, EndCommand,
        EndSingle, StartModule, LoadInput, BeginWrite, EndWrite, FinishModule, FailModule
    <2> QED
      BY <2>1, FinalParts DEF FinalOf
  <1>3. CASE commandPhase' \in Later /\ commandPhase \in Later \cup {"waveA"}
    <2>1. ASSUME NEW m \in Modules, LoadInput(m) PROVE SecondWaveReadsFinal'
      <3>1. commandPhase \in Later /\ m \notin First /\ UNCHANGED <<commandPhase, json>>
        BY <1>3, <2>1 DEF Course, CommandType, Later, Over, Waits, Disk, LoadInput
      <3>2. seen[m] \in Seq(Int) /\ seen' = [seen EXCEPT ![m] = Append(@, json[Inputs[m][Len(@) + 1]])]
        BY <2>1 DEF CommandType, LoadInput
      <3>3. ASSUME NEW x \in Second, FinalOf(x) PROVE FinalOf(x)'
        <4>1. CASE x = m
          <5>1. /\ Len(seen'[m]) = Len(seen[m]) + 1 /\ Len(seen[m]) \in Nat
                /\ \A i \in 1..Len(seen[m]) : seen'[m][i] = seen[m][i]
                /\ seen'[m][Len(seen[m]) + 1] = json[Inputs[m][Len(seen[m]) + 1]]
            <6> DEFINE v == json[Inputs[m][Len(seen[m]) + 1]]
            <6>1. seen'[m] = Append(seen[m], v)
              BY <3>2 DEF CommandType
            <6>2. v \in Int
              <7>1. Len(seen[m]) \in Nat /\ Inputs[m] \in Seq(Modules) /\ Len(Inputs[m]) \in Nat
                BY <3>2
              <7>2. Len(seen[m]) < Len(Inputs[m])
                BY <2>1 DEF LoadInput
              <7>3. Inputs[m][Len(seen[m]) + 1] \in Modules
                BY <7>1, <7>2
              <7> QED
                BY <7>3 DEF CommandType
            <6> HIDE DEF v
            <6>3. /\ Len(seen'[m]) = Len(seen[m]) + 1 /\ Len(seen[m]) \in Nat
                  /\ \A i \in 1..Len(seen[m]) : seen'[m][i] = seen[m][i]
                  /\ seen'[m][Len(seen[m]) + 1] = v
              BY <3>2, <6>1, <6>2
            <6> QED
              BY <6>3 DEF v
          <5> QED
            BY <3>1, <3>3, <4>1, <5>1 DEF FinalOf
        <4>2. CASE x # m
          BY <3>1, <3>2, <3>3, <4>2 DEF FinalOf, CommandType
        <4> QED
          BY <4>1, <4>2
      <3> QED
        BY <3>1, <3>3, FinalParts
    <2>2. CASE \A m \in Modules : ~LoadInput(m)
      <3>1. UNCHANGED seen
        BY <1>3, <2>2 DEF Later, CommandType, Phases, Disk, Forget, commandVars,
          CommandNext, ModuleStep, TailStep, AnalyzeAll, AnalyzeOne, RunDelta, BuildIndex, Kill,
          NextWave, CopyWebui, WriteIndex, SaveManifest, SaveManifestFails, WriteDelta, EndCommand,
          EndSingle, StartModule, BeginWrite, EndWrite, FinishModule, FailModule
      <3>2. \A m \in First : commandPhase \in Later => json'[m] = json[m]
        BY <1>3, <2>2 DEF Course, Over, Later, CommandType, Phases, Disk, Forget, commandVars,
          CommandNext, ModuleStep, TailStep, AnalyzeAll, AnalyzeOne, RunDelta, BuildIndex, Kill,
          NextWave, CopyWebui, WriteIndex, SaveManifest, SaveManifestFails, WriteDelta, EndCommand,
          EndSingle, StartModule, BeginWrite, EndWrite, FinishModule, FailModule
      <3> QED
        BY <1>3, <3>1, <3>2, FinalKept
    <2> QED
      BY <2>1, <2>2
  <1> QED
    BY <1>1, <1>2, <1>3

LEMMA NumberedStep ==
  ASSUME CommandType, Course, Numbered, [CommandNext]_commandVars
  PROVE  Numbered'
  <1> USE DEF CommandType, Course, Numbered, Within, Older, commandVars, Disk, Forget,
      Phases, Working, Later, Over, Busy, Torn, Absent
  <1>1. ASSUME NEW skip, NEW include, NEW f, NEW card, AnalyzeAll(skip, include, f, card)
        PROVE Numbered'
    BY <1>1 DEF AnalyzeAll
  <1>2. ASSUME NEW m \in Modules, AnalyzeOne(m) PROVE Numbered'
    BY <1>2 DEF AnalyzeOne
  <1>3. ASSUME NEW m \in Modules, StartModule(m) PROVE Numbered'
    BY <1>3 DEF StartModule
  <1>4. ASSUME NEW m \in Modules, LoadInput(m) PROVE Numbered'
    BY <1>4 DEF LoadInput
  <1>5. ASSUME NEW m \in Modules, BeginWrite(m) PROVE Numbered'
    BY <1>5 DEF BeginWrite
  <1>6. ASSUME NEW m \in Modules, EndWrite(m) PROVE Numbered'
    BY <1>6 DEF EndWrite
  <1>7. ASSUME NEW m \in Modules, FinishModule(m) PROVE Numbered'
    BY <1>7 DEF FinishModule
  <1>8. ASSUME NEW m \in Modules, FailModule(m) PROVE Numbered'
    BY <1>8 DEF FailModule
  <1>9. ASSUME RunDelta PROVE Numbered'
    BY <1>9 DEF RunDelta
  <1>10. ASSUME BuildIndex PROVE Numbered'
    BY <1>10 DEF BuildIndex
  <1>11. ASSUME NextWave PROVE Numbered'
    BY <1>11 DEF NextWave
  <1>12. ASSUME NEW asked \in BOOLEAN, NEW fails \in BOOLEAN, CopyWebui(asked, fails)
        PROVE Numbered'
    BY <1>12 DEF CopyWebui
  <1>13. ASSUME NEW fails \in BOOLEAN, WriteIndex(fails) PROVE Numbered'
    BY <1>13 DEF WriteIndex
  <1>14. ASSUME NEW fails \in BOOLEAN, SaveManifestFails(fails) PROVE Numbered'
    BY <1>14 DEF SaveManifestFails
  <1>15. ASSUME NEW fails \in BOOLEAN, WriteDelta(fails) PROVE Numbered'
    BY <1>15 DEF WriteDelta
  <1>16. ASSUME SaveManifest PROVE Numbered'
    BY <1>16 DEF SaveManifest
  <1>17. ASSUME EndCommand PROVE Numbered'
    BY <1>17 DEF EndCommand
  <1>18. ASSUME NEW errors \in BOOLEAN, EndSingle(errors) PROVE Numbered'
    BY <1>18 DEF EndSingle
  <1>19. ASSUME Kill PROVE Numbered'
    BY <1>19 DEF Kill
  <1>20. ASSUME UNCHANGED commandVars PROVE Numbered'
    BY <1>20 DEF commandVars
  <1> QED
    BY <1>1, <1>2, <1>3, <1>4, <1>5, <1>6, <1>7, <1>8, <1>9, <1>10, <1>11, <1>12, <1>13,
        <1>14, <1>15, <1>16, <1>17, <1>18, <1>19, <1>20
    DEF CommandNext, ModuleStep, TailStep

LEMMA ShownStep ==
  ASSUME CommandType, Course, Shown, [CommandNext]_commandVars
  PROVE  Shown'
  <1> USE DEF CommandType, Course, Shown, Shows, commandVars, Disk, Forget, Phases, Working, Later,
      Over, Busy, Torn
  <1>1. ASSUME NEW skip, NEW include, NEW f, NEW card, AnalyzeAll(skip, include, f, card)
        PROVE Shown'
    BY <1>1 DEF AnalyzeAll
  <1>2. ASSUME NEW m \in Modules, AnalyzeOne(m) PROVE Shown'
    BY <1>2 DEF AnalyzeOne
  <1>3. ASSUME NEW m \in Modules, StartModule(m) PROVE Shown'
    BY <1>3 DEF StartModule
  <1>4. ASSUME NEW m \in Modules, LoadInput(m) PROVE Shown'
    BY <1>4 DEF LoadInput
  <1>5. ASSUME NEW m \in Modules, BeginWrite(m) PROVE Shown'
    BY <1>5 DEF BeginWrite
  <1>6. ASSUME NEW m \in Modules, EndWrite(m) PROVE Shown'
    BY <1>6 DEF EndWrite
  <1>7. ASSUME NEW m \in Modules, FinishModule(m) PROVE Shown'
    BY <1>7 DEF FinishModule
  <1>8. ASSUME NEW m \in Modules, FailModule(m) PROVE Shown'
    BY <1>8 DEF FailModule
  <1>9. ASSUME RunDelta PROVE Shown'
    BY <1>9 DEF RunDelta
  <1>10. ASSUME BuildIndex PROVE Shown'
    BY <1>10 DEF BuildIndex
  <1>11. ASSUME NextWave PROVE Shown'
    BY <1>11 DEF NextWave
  <1>12. ASSUME NEW asked \in BOOLEAN, NEW fails \in BOOLEAN, CopyWebui(asked, fails)
        PROVE Shown'
    BY <1>12 DEF CopyWebui
  <1>13. ASSUME NEW fails \in BOOLEAN, WriteIndex(fails) PROVE Shown'
    BY <1>13 DEF WriteIndex
  <1>14. ASSUME NEW fails \in BOOLEAN, SaveManifestFails(fails) PROVE Shown'
    BY <1>14 DEF SaveManifestFails
  <1>15. ASSUME NEW fails \in BOOLEAN, WriteDelta(fails) PROVE Shown'
    BY <1>15 DEF WriteDelta
  <1>16. ASSUME SaveManifest PROVE Shown'
    BY <1>16 DEF SaveManifest
  <1>17. ASSUME EndCommand PROVE Shown'
    BY <1>17 DEF EndCommand
  <1>18. ASSUME NEW errors \in BOOLEAN, EndSingle(errors) PROVE Shown'
    BY <1>18 DEF EndSingle
  <1>19. ASSUME Kill PROVE Shown'
    BY <1>19 DEF Kill
  <1>20. ASSUME UNCHANGED commandVars PROVE Shown'
    BY <1>20 DEF commandVars
  <1> QED
    BY <1>1, <1>2, <1>3, <1>4, <1>5, <1>6, <1>7, <1>8, <1>9, <1>10, <1>11, <1>12, <1>13,
        <1>14, <1>15, <1>16, <1>17, <1>18, <1>19, <1>20
    DEF CommandNext, ModuleStep, TailStep

LEMMA EndedStep ==
  ASSUME CommandType, Course, Ended, [CommandNext]_commandVars
  PROVE  Ended'
  <1> USE Waves DEF CommandType, Course, Ended, Indexed, AskedForAll, commandVars, Disk,
      Forget, Phases, Working, Later, Over, Busy
  <1>1. ASSUME NEW skip, NEW include, NEW f, NEW card, AnalyzeAll(skip, include, f, card)
        PROVE Ended'
    BY <1>1 DEF AnalyzeAll
  <1>2. ASSUME NEW m \in Modules, AnalyzeOne(m) PROVE Ended'
    BY <1>2 DEF AnalyzeOne
  <1>3. ASSUME NEW m \in Modules, StartModule(m) PROVE Ended'
    BY <1>3 DEF StartModule
  <1>4. ASSUME NEW m \in Modules, LoadInput(m) PROVE Ended'
    BY <1>4 DEF LoadInput
  <1>5. ASSUME NEW m \in Modules, BeginWrite(m) PROVE Ended'
    BY <1>5 DEF BeginWrite
  <1>6. ASSUME NEW m \in Modules, EndWrite(m) PROVE Ended'
    BY <1>6 DEF EndWrite
  <1>7. ASSUME NEW m \in Modules, FinishModule(m) PROVE Ended'
    BY <1>7 DEF FinishModule
  <1>8. ASSUME NEW m \in Modules, FailModule(m) PROVE Ended'
    BY <1>8 DEF FailModule
  <1>9. ASSUME RunDelta PROVE Ended'
    BY <1>9 DEF RunDelta
  <1>10. ASSUME BuildIndex PROVE Ended'
    BY <1>10 DEF BuildIndex
  <1>11. ASSUME NextWave PROVE Ended'
    BY <1>11 DEF NextWave
  <1>12. ASSUME NEW asked \in BOOLEAN, NEW fails \in BOOLEAN, CopyWebui(asked, fails)
        PROVE Ended'
    BY <1>12 DEF CopyWebui
  <1>13. ASSUME NEW fails \in BOOLEAN, WriteIndex(fails) PROVE Ended'
    BY <1>13 DEF WriteIndex
  <1>14. ASSUME NEW fails \in BOOLEAN, SaveManifestFails(fails) PROVE Ended'
    BY <1>14 DEF SaveManifestFails
  <1>15. ASSUME NEW fails \in BOOLEAN, WriteDelta(fails) PROVE Ended'
    BY <1>15 DEF WriteDelta
  <1>16. ASSUME SaveManifest PROVE Ended'
    BY <1>16 DEF SaveManifest
  <1>17. ASSUME EndCommand PROVE Ended'
    BY <1>17 DEF EndCommand
  <1>18. ASSUME NEW errors \in BOOLEAN, EndSingle(errors) PROVE Ended'
    BY <1>18 DEF EndSingle
  <1>19. ASSUME Kill PROVE Ended'
    BY <1>19 DEF Kill
  <1>20. ASSUME UNCHANGED commandVars PROVE Ended'
    BY <1>20 DEF commandVars
  <1> QED
    BY <1>1, <1>2, <1>3, <1>4, <1>5, <1>6, <1>7, <1>8, <1>9, <1>10, <1>11, <1>12, <1>13,
        <1>14, <1>15, <1>16, <1>17, <1>18, <1>19, <1>20
    DEF CommandNext, ModuleStep, TailStep

LEMMA AccountedStep ==
  ASSUME CommandType, Course, Numbered, Shown, Ended, Accounted, [CommandNext]_commandVars
  PROVE  Accounted'
  <1> USE DEF CommandType, Course, Numbered, Older, Within, Shown, Shows, Ended, Accounted,
      Differ, commandVars, Disk, Forget, Phases, Working, Later, Over, Busy, Torn, Absent
  <1>1. ASSUME NEW skip, NEW include, NEW f, NEW card, AnalyzeAll(skip, include, f, card)
        PROVE Accounted'
    BY <1>1 DEF AnalyzeAll
  <1>2. ASSUME NEW m \in Modules, AnalyzeOne(m) PROVE Accounted'
    BY <1>2 DEF AnalyzeOne
  <1>3. ASSUME NEW m \in Modules, StartModule(m) PROVE Accounted'
    BY <1>3 DEF StartModule
  <1>4. ASSUME NEW m \in Modules, LoadInput(m) PROVE Accounted'
    BY <1>4 DEF LoadInput
  <1>5. ASSUME NEW m \in Modules, BeginWrite(m) PROVE Accounted'
    <2>1. commandPhase \in Working /\ Older(manifest[m], command)
      BY <1>5 DEF BeginWrite
    <2>2. json'[m] # manifest'[m] /\ \A x \in Modules \ {m} : json'[x] = json[x]
      BY <1>5, <2>1 DEF BeginWrite
    <2>3. rewritten' = rewritten \cup {m} /\ UNCHANGED <<commandPhase, manifest>>
      BY <1>5 DEF BeginWrite
    <2> QED
      BY <2>1, <2>2, <2>3
  <1>6. ASSUME NEW m \in Modules, EndWrite(m) PROVE Accounted'
    <2>1. commandPhase \in Working /\ Older(manifest[m], command)
      BY <1>6 DEF EndWrite
    <2>2. json'[m] # manifest'[m] /\ \A x \in Modules \ {m} : json'[x] = json[x]
      BY <1>6, <2>1 DEF EndWrite
    <2>3. m \in rewritten
      BY <1>6, <2>1 DEF EndWrite
    <2>4. UNCHANGED <<rewritten, commandPhase, manifest>>
      BY <1>6 DEF EndWrite
    <2> QED
      BY <2>1, <2>2, <2>3, <2>4
  <1>7. ASSUME NEW m \in Modules, FinishModule(m) PROVE Accounted'
    BY <1>7 DEF FinishModule
  <1>8. ASSUME NEW m \in Modules, FailModule(m) PROVE Accounted'
    BY <1>8 DEF FailModule
  <1>9. ASSUME RunDelta PROVE Accounted'
    BY <1>9 DEF RunDelta
  <1>10. ASSUME BuildIndex PROVE Accounted'
    BY <1>10 DEF BuildIndex
  <1>11. ASSUME NextWave PROVE Accounted'
    BY <1>11 DEF NextWave
  <1>12. ASSUME NEW asked \in BOOLEAN, NEW fails \in BOOLEAN, CopyWebui(asked, fails)
        PROVE Accounted'
    BY <1>12 DEF CopyWebui
  <1>13. ASSUME NEW fails \in BOOLEAN, WriteIndex(fails) PROVE Accounted'
    BY <1>13 DEF WriteIndex
  <1>14. ASSUME NEW fails \in BOOLEAN, SaveManifestFails(fails) PROVE Accounted'
    BY <1>14 DEF SaveManifestFails
  <1>15. ASSUME NEW fails \in BOOLEAN, WriteDelta(fails) PROVE Accounted'
    BY <1>15 DEF WriteDelta
  <1>16. ASSUME SaveManifest PROVE Accounted'
    BY <1>16 DEF SaveManifest
  <1>17. ASSUME EndCommand PROVE Accounted'
    BY <1>17 DEF EndCommand
  <1>18. ASSUME NEW errors \in BOOLEAN, EndSingle(errors) PROVE Accounted'
    BY <1>18 DEF EndSingle
  <1>19. ASSUME Kill PROVE Accounted'
    BY <1>19 DEF Kill
  <1>20. ASSUME UNCHANGED commandVars PROVE Accounted'
    BY <1>20 DEF commandVars
  <1> QED
    BY <1>1, <1>2, <1>3, <1>4, <1>5, <1>6, <1>7, <1>8, <1>9, <1>10, <1>11, <1>12, <1>13,
        <1>14, <1>15, <1>16, <1>17, <1>18, <1>19, <1>20
    DEF CommandNext, ModuleStep, TailStep

LEMMA ExitStep ==
  ASSUME CommandType, Course, Shown, Ended, ExitZeroIsComplete, [CommandNext]_commandVars
  PROVE  ExitZeroIsComplete'
  <1> USE Waves DEF CommandType, Course, Shown, Shows, Ended, Indexed, AskedForAll,
      ExitZeroIsComplete, commandVars, Disk, Forget, Phases, Working, Later, Over, Busy
  <1>1. ASSUME NEW skip, NEW include, NEW f, NEW card, AnalyzeAll(skip, include, f, card)
        PROVE ExitZeroIsComplete'
    BY <1>1 DEF AnalyzeAll
  <1>2. ASSUME NEW m \in Modules, AnalyzeOne(m) PROVE ExitZeroIsComplete'
    BY <1>2 DEF AnalyzeOne
  <1>3. ASSUME NEW m \in Modules, StartModule(m) PROVE ExitZeroIsComplete'
    BY <1>3 DEF StartModule
  <1>4. ASSUME NEW m \in Modules, LoadInput(m) PROVE ExitZeroIsComplete'
    BY <1>4 DEF LoadInput
  <1>5. ASSUME NEW m \in Modules, BeginWrite(m) PROVE ExitZeroIsComplete'
    BY <1>5 DEF BeginWrite
  <1>6. ASSUME NEW m \in Modules, EndWrite(m) PROVE ExitZeroIsComplete'
    BY <1>6 DEF EndWrite
  <1>7. ASSUME NEW m \in Modules, FinishModule(m) PROVE ExitZeroIsComplete'
    BY <1>7 DEF FinishModule
  <1>8. ASSUME NEW m \in Modules, FailModule(m) PROVE ExitZeroIsComplete'
    BY <1>8 DEF FailModule
  <1>9. ASSUME RunDelta PROVE ExitZeroIsComplete'
    BY <1>9 DEF RunDelta
  <1>10. ASSUME BuildIndex PROVE ExitZeroIsComplete'
    BY <1>10 DEF BuildIndex
  <1>11. ASSUME NextWave PROVE ExitZeroIsComplete'
    BY <1>11 DEF NextWave
  <1>12. ASSUME NEW asked \in BOOLEAN, NEW fails \in BOOLEAN, CopyWebui(asked, fails)
        PROVE ExitZeroIsComplete'
    BY <1>12 DEF CopyWebui
  <1>13. ASSUME NEW fails \in BOOLEAN, WriteIndex(fails) PROVE ExitZeroIsComplete'
    BY <1>13 DEF WriteIndex
  <1>14. ASSUME NEW fails \in BOOLEAN, SaveManifestFails(fails) PROVE ExitZeroIsComplete'
    BY <1>14 DEF SaveManifestFails
  <1>15. ASSUME NEW fails \in BOOLEAN, WriteDelta(fails) PROVE ExitZeroIsComplete'
    BY <1>15 DEF WriteDelta
  <1>16. ASSUME SaveManifest PROVE ExitZeroIsComplete'
    BY <1>16 DEF SaveManifest
  <1>17. ASSUME EndCommand PROVE ExitZeroIsComplete'
    BY <1>17 DEF EndCommand
  <1>18. ASSUME NEW errors \in BOOLEAN, EndSingle(errors) PROVE ExitZeroIsComplete'
    BY <1>18 DEF EndSingle
  <1>19. ASSUME Kill PROVE ExitZeroIsComplete'
    BY <1>19 DEF Kill
  <1>20. ASSUME UNCHANGED commandVars PROVE ExitZeroIsComplete'
    BY <1>20 DEF commandVars
  <1> QED
    BY <1>1, <1>2, <1>3, <1>4, <1>5, <1>6, <1>7, <1>8, <1>9, <1>10, <1>11, <1>12, <1>13,
        <1>14, <1>15, <1>16, <1>17, <1>18, <1>19, <1>20
    DEF CommandNext, ModuleStep, TailStep

(***************************************************************************)
(* The theorems.                                                           *)
(***************************************************************************)
LEMMA CommandStarts == CommandInit => WaveInv /\ AnswerInv
  <1> SUFFICES ASSUME CommandInit PROVE WaveInv /\ AnswerInv
    OBVIOUS
  <1>1. CommandType
    <2>1. partial \in BOOLEAN
      BY Zenon DEF CommandInit
    <2>2. seen \in [Modules -> Seq(Int)]
      BY NothingLoaded DEF CommandInit
    <2> QED
      BY <2>1, <2>2 DEF CommandInit, CommandType, Phases, States, Absent
  <1>2. Course /\ SecondWaveReadsFinal
    BY Waves DEF CommandInit, Course, Working, Waits, Over, First, Second, SecondWaveReadsFinal
  <1>3. Numbered /\ Shown /\ Ended /\ Accounted /\ ExitZeroIsComplete
    BY DEF CommandInit, Numbered, Within, Working, Shown, Ended, Accounted, Differ, Absent,
      ExitZeroIsComplete
  <1> QED
    BY <1>1, <1>2, <1>3 DEF WaveInv, AnswerInv

\* No module of the second wave has loaded a report of the first that this command
\* goes on to replace (cli.py, analyze_all: _run_wave is left before the next wave).
THEOREM SecondWaveFinal == CommandSpec => []SecondWaveReadsFinal
  <1>1. CommandInit => WaveInv
    BY CommandStarts
  <1>2. WaveInv /\ [CommandNext]_commandVars => WaveInv'
    BY TypeStep, CourseStep, FinalStep DEF WaveInv
  <1>3. WaveInv => SecondWaveReadsFinal
    BY DEF WaveInv
  <1> QED
    BY <1>1, <1>2, <1>3, PTL DEF CommandSpec

\* A command that exits with 0 left a complete and indexed directory, and its delta
\* names the reports written since the manifest before it, also when earlier
\* commands failed or were killed at any step (cli.py, analyze_all and run_delta).
THEOREM CommandAnswers == CommandSpec => []CommandAnswersTrue
  <1>1. CommandInit => AnswerInv
    BY CommandStarts
  <1>2. AnswerInv /\ [CommandNext]_commandVars => AnswerInv'
    BY TypeStep, CourseStep, NumberedStep, ShownStep, EndedStep, AccountedStep, ExitStep
    DEF AnswerInv
  <1>3. AnswerInv => CommandAnswersTrue
    BY DEF AnswerInv, Accounted, Differ, DeltaTellsRewritten, CommandAnswersTrue
  <1> QED
    BY <1>1, <1>2, <1>3, PTL DEF CommandSpec
=============================================================================
