-------------------------- MODULE EventPathProofs ---------------------------
(***************************************************************************)
(* Proofs about EventPath, for every number of hostfiles, every set of     *)
(* addresses and names, and every interval and bound.                      *)
(***************************************************************************)
EXTENDS EventPath, TLAPS

\* The polling thread is at a hostfile, unless there is none.
AtAFile == file \in Files \/ (NFiles = 0 /\ file = 1 /\ pc = "validate")

\* A file's mtime leaves room for the one it gets when it comes back, and its
\* watcher knows none that is to come.
MtimesFit ==
    \A f \in Files :
        /\ disk[f].mtime <= MaxEdits + gone + (IF disk[f].here THEN 1 ELSE 0)
        /\ watcher[f].mtime <= disk[f].mtime

\* The plugin is "loading" in its constructor, and "on" where its files are checked.
Phases ==
    /\ pc \in {"validate", "build", "load"} => status = "loading"
    /\ pc \in {"check", "reload"} => status = "on"

Inv == TypeOK /\ AtAFile /\ MtimesFit /\ Phases

DiskFile == [hosts : Hosts, mtime : Mtimes, here : BOOLEAN]
Watcher == [mtime : Mtimes, since : 0 .. MinInterval]

\* The bounds are numbers.
LEMMA Bounds ==
    /\ NFiles \in Nat /\ MinInterval \in Nat /\ Telemetry \in Nat /\ Telemetry >= 1
    /\ MaxEdits \in Nat /\ MaxGone \in Nat /\ MaxLost \in Nat /\ NoName \notin Names
BY EventPathAssumption

\* The initial state.
LEMMA InitInv == Init => Inv
<1> SUFFICES ASSUME Init PROVE Inv
  OBVIOUS
<1>1. /\ disk \in [Files -> [hosts : Hosts, mtime : {0}, here : BOOLEAN]] /\ gone = 0
      /\ watcher = [f \in Files |-> [mtime |-> 0, since |-> 0]] /\ names = [a \in Addrs |-> NoName]
      /\ status = "loading" /\ unload \in BOOLEAN /\ pc = "validate" /\ file = 1
      /\ lost = 0 /\ timer = Telemetry /\ told = 0
  BY DEF Init
<1>2. 0 \in Mtimes /\ 0 \in 0 .. MinInterval
  BY Bounds DEF Mtimes
<1>3. disk \in [Files -> DiskFile]
  BY <1>1, <1>2 DEF DiskFile
<1>4. watcher \in [Files -> Watcher]
  BY <1>1, <1>2 DEF Watcher
<1>5. names \in Hosts
  BY <1>1 DEF Hosts
<1>6. /\ gone \in 0 .. MaxGone /\ file \in 1 .. NFiles + 1
      /\ lost \in 0 .. MaxLost /\ told \in 0 .. MaxLost /\ timer \in 1 .. Telemetry
  BY <1>1, Bounds
<1>7. TypeOK
  BY <1>1, <1>3, <1>4, <1>5, <1>6 DEF TypeOK, DiskFile, Watcher
<1>8. AtAFile
  BY <1>1, Bounds DEF AtAFile, Files
<1>9. MtimesFit
  <2> SUFFICES ASSUME NEW f \in Files
               PROVE  /\ disk[f].mtime <= MaxEdits + gone + (IF disk[f].here THEN 1 ELSE 0)
                      /\ watcher[f].mtime <= disk[f].mtime
    BY DEF MtimesFit
  <2>1. disk[f].mtime = 0 /\ watcher[f].mtime = 0
    BY <1>1
  <2> QED
    BY <1>1, <2>1, Bounds
<1>10. Phases
  BY <1>1 DEF Phases
<1> QED
  BY <1>7, <1>8, <1>9, <1>10 DEF Inv

\* The loop over the hostfiles stays at one of them.
LEMMA LoopType ==
    ASSUME NEW step, NEW next, AtFile(step, next)
    PROVE  /\ pc = step /\ file \in Files /\ file' \in Files /\ (pc' = pc \/ pc' = next)
           /\ pc' = next \/ (file < NFiles /\ file' = file + 1)
           /\ (file < NFiles /\ pc' = pc) \/ (file = NFiles /\ file' = 1 /\ pc' = next)
<1>1. file \in 1 .. NFiles /\ NFiles \in Nat
  BY Bounds DEF AtFile, Files
<1>2. CASE file < NFiles
  BY <1>1, <1>2 DEF AtFile, Files
<1>3. CASE ~(file < NFiles)
  BY <1>1, <1>3 DEF AtFile, Files
<1> QED
  BY <1>2, <1>3

\* Loading a hostfile gives names to addresses.
LEMMA LoadType ==
    ASSUME TypeOK, NEW f \in Files
    PROVE  /\ Load(f) \in Hosts
           /\ \A a \in Addrs : Load(f)[a] = IF disk[f].hosts[a] = NoName THEN names[a]
                                            ELSE disk[f].hosts[a]
<1>1. disk[f].hosts \in Hosts /\ names \in Hosts
  BY DEF TypeOK
<1> QED
  BY <1>1 DEF Load, Hosts

\* A step of the plugin's loading that raises.
LEMMA RaisesInv ==
    ASSUME Inv, PluginRaises, UNCHANGED <<diskVars, lostVars, unload>>, file \in Files
    PROVE  Inv'
<1>1. TypeOK /\ MtimesFit /\ UNCHANGED <<disk, gone, watcher, names, file, lost, timer, told, unload>>
  BY DEF Inv, PluginRaises, diskVars, lostVars
<1>2. status' \in {"off", "failed"} /\ pc' \in {"poll", "end"}
  BY DEF PluginRaises
<1>3. TypeOK'
  BY <1>1, <1>2 DEF TypeOK
<1>4. AtAFile' /\ Phases'
  BY <1>1, <1>2 DEF AtAFile, Phases
<1>5. MtimesFit'
  BY <1>1 DEF MtimesFit
<1> QED
  BY <1>3, <1>4, <1>5 DEF Inv

\* Every step of the polling thread keeps the invariant.
LEMMA ThreadInv == Inv /\ Thread => Inv'
<1> SUFFICES ASSUME Inv, Thread PROVE Inv'
  OBVIOUS
<1>0. TypeOK /\ AtAFile /\ MtimesFit /\ Phases
  BY DEF Inv
<1>1. /\ disk \in [Files -> DiskFile] /\ watcher \in [Files -> Watcher] /\ names \in Hosts
      /\ lost \in 0 .. MaxLost /\ told \in 0 .. MaxLost /\ timer \in 1 .. Telemetry
      /\ file \in 1 .. NFiles + 1
  BY <1>0 DEF TypeOK, DiskFile, Watcher
<1>2. \A f \in Files : /\ disk[f].mtime \in Mtimes /\ watcher[f].mtime \in Mtimes
                       /\ disk[f].mtime \in Nat /\ watcher[f].mtime \in Nat
  <2>1. \A f \in Files : disk[f].mtime \in Mtimes /\ watcher[f].mtime \in Mtimes
    BY <1>1 DEF DiskFile, Watcher
  <2> QED
    BY <2>1, Bounds DEF Mtimes
<1>3. Files \subseteq 1 .. NFiles + 1
  BY Bounds DEF Files
<1>4. pc # "validate" => file \in Files
  BY <1>0 DEF AtAFile
<1>5. CASE Validate
  <2>1. file \in Files /\ UNCHANGED <<diskVars, lostVars, unload>> /\ pc = "validate"
    BY <1>5 DEF Validate
  <2>2. CASE PluginRaises
    BY <2>1, <2>2, RaisesInv
  <2>3. CASE AtFile("validate", "build") /\ UNCHANGED <<watcher, names, status>>
    <3>1. file' \in Files /\ pc' \in {"validate", "build"}
      BY <2>1, <2>3, LoopType
    <3>2. TypeOK'
      BY <1>0, <1>3, <2>1, <2>3, <3>1 DEF TypeOK, diskVars, lostVars
    <3>3. AtAFile' /\ Phases'
      BY <1>0, <2>1, <2>3, <3>1 DEF AtAFile, Phases, Files
    <3>4. MtimesFit'
      BY <1>0, <2>1, <2>3 DEF MtimesFit, diskVars
    <3> QED
      BY <3>2, <3>3, <3>4 DEF Inv
  <2> QED
    BY <1>5, <2>2, <2>3 DEF Validate
<1>6. CASE BuildWatcher
  <2>1. file \in Files /\ UNCHANGED <<diskVars, lostVars, unload>> /\ pc = "build"
    BY <1>6 DEF BuildWatcher
  <2>2. CASE PluginRaises
    BY <2>1, <2>2, RaisesInv
  <2>3. CASE /\ AtFile("build", "load")
             /\ watcher' = [watcher EXCEPT ![file].mtime = disk[file].mtime]
             /\ UNCHANGED <<names, status>>
    <3>1. file' \in Files /\ pc' \in {"build", "load"}
      BY <2>1, <2>3, LoopType
    <3>2. /\ watcher' \in [Files -> Watcher] /\ watcher'[file].mtime = disk[file].mtime
          /\ \A f \in Files \ {file} : watcher'[f] = watcher[f]
      <4>1. watcher' = [watcher EXCEPT ![file] = [watcher[file] EXCEPT !.mtime = disk[file].mtime]]
        BY <1>1, <2>1, <2>3
      <4>2. /\ [watcher[file] EXCEPT !.mtime = disk[file].mtime] \in Watcher
            /\ [watcher[file] EXCEPT !.mtime = disk[file].mtime].mtime = disk[file].mtime
        BY <1>1, <1>2, <2>1 DEF Watcher
      <4> QED
        BY <1>1, <2>1, <4>1, <4>2
    <3>3. TypeOK'
      BY <1>0, <1>3, <2>1, <2>3, <3>1, <3>2 DEF TypeOK, Watcher, diskVars, lostVars
    <3>4. AtAFile' /\ Phases'
      BY <1>0, <2>1, <2>3, <3>1 DEF AtAFile, Phases, Files
    <3>5. MtimesFit'
      <4>1. \A f \in Files : watcher'[f].mtime <= disk[f].mtime
        BY <1>0, <1>2, <3>2 DEF MtimesFit
      <4> QED
        BY <1>0, <2>1, <4>1 DEF MtimesFit, diskVars
    <3> QED
      BY <3>3, <3>4, <3>5 DEF Inv
  <2> QED
    BY <1>6, <2>2, <2>3 DEF BuildWatcher
<1>7. CASE FirstLoad
  <2>1. file \in Files /\ UNCHANGED <<diskVars, lostVars, unload>> /\ pc = "load"
    BY <1>7 DEF FirstLoad
  <2>2. CASE PluginRaises
    BY <2>1, <2>2, RaisesInv
  <2>3. CASE /\ AtFile("load", "poll") /\ names' = Load(file)
             /\ status' = (IF file = NFiles THEN "on" ELSE status) /\ UNCHANGED watcher
    <3>1. file' \in Files /\ (pc' = "poll" \/ (pc' = "load" /\ status' = status))
      BY <2>1, <2>3, LoopType, Bounds DEF Files
    <3>2. names' \in Hosts /\ status' \in {"loading", "on", "off", "failed"}
      BY <1>0, <2>1, <2>3, LoadType DEF TypeOK
    <3>3. TypeOK'
      BY <1>0, <1>3, <2>1, <2>3, <3>1, <3>2 DEF TypeOK, diskVars, lostVars
    <3>4. AtAFile' /\ Phases'
      BY <1>0, <2>1, <3>1 DEF AtAFile, Phases, Files
    <3>5. MtimesFit'
      BY <1>0, <2>1, <2>3 DEF MtimesFit, diskVars
    <3> QED
      BY <3>3, <3>4, <3>5 DEF Inv
  <2> QED
    BY <1>7, <2>2, <2>3 DEF FirstLoad
<1>8. CASE Poll
  <2>1. /\ pc = "poll" /\ UNCHANGED <<diskVars, pluginVars, timer, told>>
        /\ (pc' = "check" /\ status = "on") \/ pc' = "count"
    BY <1>8 DEF Poll
  <2>2. lost' \in 0 .. MaxLost
    <3>1. lost' \in {lost, lost + 1} /\ lost' <= MaxLost
      BY <1>8 DEF Poll
    <3> QED
      BY <1>1, <3>1, Bounds
  <2>3. TypeOK'
    BY <1>0, <2>1, <2>2 DEF TypeOK, diskVars, pluginVars
  <2>4. AtAFile' /\ Phases'
    BY <1>0, <1>4, <2>1 DEF AtAFile, Phases, Files, pluginVars
  <2>5. MtimesFit'
    BY <1>0, <2>1 DEF MtimesFit, diskVars, pluginVars
  <2> QED
    BY <2>3, <2>4, <2>5 DEF Inv
<1>9. CASE Check
  <2>1. /\ pc = "check" /\ file \in Files /\ status = "on"
        /\ UNCHANGED <<diskVars, lostVars, names, status, unload>>
    BY <1>0, <1>4, <1>9 DEF Check, Phases
  <2>2. file' \in Files /\ pc' \in {"check", "reload", "count"}
    <3>1. 1 \in Files
      BY <2>1, Bounds DEF Files
    <3>2. AtFile("check", "count") \/ (pc' = "reload" /\ file' = file) \/ (file' = 1 /\ pc' = "count")
      BY <1>9 DEF Check
    <3>3. AtFile("check", "count") => file' \in Files /\ pc' \in {"check", "count"}
      BY <2>1, LoopType
    <3> QED
      BY <2>1, <3>1, <3>2, <3>3
  <2>3. PICK x \in Watcher : /\ watcher' = [watcher EXCEPT ![file] = x]
                             /\ x.mtime = disk[file].mtime \/ x.mtime = watcher[file].mtime
    <3>1. CASE watcher' = watcher
      <4>1. watcher[file] \in Watcher /\ watcher = [watcher EXCEPT ![file] = watcher[file]]
        BY <1>1, <2>1
      <4> QED
        BY <3>1, <4>1
    <3>2. CASE watcher' = [watcher EXCEPT ![file] = [mtime |-> disk[file].mtime, since |-> 0]]
      <4>1. [mtime |-> disk[file].mtime, since |-> 0] \in Watcher
        BY <1>2, <2>1, Bounds DEF Watcher
      <4> QED
        BY <3>2, <4>1
    <3>3. CASE watcher' = [watcher EXCEPT ![file].since = 0]
      <4>1. watcher' = [watcher EXCEPT ![file] = [watcher[file] EXCEPT !.since = 0]]
        BY <1>1, <2>1, <3>3
      <4>2. /\ [watcher[file] EXCEPT !.since = 0] \in Watcher
            /\ [watcher[file] EXCEPT !.since = 0].mtime = watcher[file].mtime
        BY <1>1, <2>1, Bounds DEF Watcher
      <4> QED
        BY <4>1, <4>2
    <3> QED
      BY <1>9, <3>1, <3>2, <3>3 DEF Check
  <2>4. watcher' \in [Files -> Watcher] /\ watcher'[file] = x
        /\ \A f \in Files \ {file} : watcher'[f] = watcher[f]
    BY <1>1, <2>1, <2>3
  <2>5. TypeOK'
    BY <1>0, <1>3, <2>1, <2>2, <2>4 DEF TypeOK, Watcher, diskVars, lostVars
  <2>6. AtAFile' /\ Phases'
    BY <2>1, <2>2 DEF AtAFile, Phases, Files
  <2>7. MtimesFit'
    <3>1. \A f \in Files : watcher'[f].mtime <= disk[f].mtime
      BY <1>0, <1>2, <2>1, <2>3, <2>4 DEF MtimesFit
    <3> QED
      BY <1>0, <2>1, <3>1 DEF MtimesFit, diskVars
  <2> QED
    BY <2>5, <2>6, <2>7 DEF Inv
<1>10. CASE Reload
  <2>1. /\ pc = "reload" /\ file \in Files /\ status = "on"
        /\ UNCHANGED <<diskVars, lostVars, watcher, status, unload>>
    BY <1>0, <1>4, <1>10 DEF Reload, Phases
  <2>2. file' \in Files /\ pc' \in {"check", "count"}
    <3>1. (file < NFiles /\ file' = file + 1 /\ pc' = "check") \/ (file' = 1 /\ pc' = "count")
      BY <1>10 DEF Reload
    <3> QED
      BY <2>1, <3>1, Bounds DEF Files
  <2>3. names' \in Hosts
    BY <1>0, <1>1, <1>10, <2>1, LoadType DEF Reload
  <2>4. TypeOK'
    BY <1>0, <1>3, <2>1, <2>2, <2>3 DEF TypeOK, diskVars, lostVars
  <2>5. AtAFile' /\ Phases'
    BY <2>1, <2>2 DEF AtAFile, Phases, Files
  <2>6. MtimesFit'
    BY <1>0, <2>1 DEF MtimesFit, diskVars
  <2> QED
    BY <2>4, <2>5, <2>6 DEF Inv
<1>11. CASE Count
  <2>1. pc = "count" /\ pc' = "poll" /\ UNCHANGED <<diskVars, pluginVars, lost>>
    BY <1>11 DEF Count
  <2>2. timer' \in 1 .. Telemetry
    BY <1>1, <1>11, Bounds DEF Count, NextTimer
  <2>3. told' \in 0 .. MaxLost
    BY <1>1, <1>11 DEF Count
  <2>4. TypeOK'
    BY <1>0, <2>1, <2>2, <2>3 DEF TypeOK, diskVars, pluginVars
  <2>5. AtAFile' /\ Phases'
    BY <1>0, <1>4, <2>1 DEF AtAFile, Phases, Files, pluginVars
  <2>6. MtimesFit'
    BY <1>0, <2>1 DEF MtimesFit, diskVars, pluginVars
  <2> QED
    BY <2>4, <2>5, <2>6 DEF Inv
<1> QED
  BY <1>5, <1>6, <1>7, <1>8, <1>9, <1>10, <1>11 DEF Thread

\* So do the edits of the hostfiles and the clock.
LEMMA StepInv == Inv /\ [Next]_vars => Inv'
<1> SUFFICES ASSUME Inv, [Next]_vars PROVE Inv'
  OBVIOUS
<1>0. TypeOK /\ AtAFile /\ MtimesFit /\ Phases
  BY DEF Inv
<1>1. disk \in [Files -> DiskFile] /\ watcher \in [Files -> Watcher] /\ gone \in 0 .. MaxGone
  BY <1>0 DEF TypeOK, DiskFile, Watcher
<1>2. \A f \in Files :
          /\ disk[f].hosts \in Hosts /\ disk[f].mtime \in Mtimes /\ disk[f].here \in BOOLEAN
          /\ disk[f].mtime \in Nat /\ watcher[f].mtime \in Nat /\ watcher[f] \in Watcher
          /\ watcher[f].since \in 0 .. MinInterval
  <2>1. \A f \in Files :
            /\ disk[f].hosts \in Hosts /\ disk[f].mtime \in Mtimes /\ disk[f].here \in BOOLEAN
            /\ watcher[f] \in Watcher /\ watcher[f].mtime \in Mtimes
            /\ watcher[f].since \in 0 .. MinInterval
    BY <1>1 DEF DiskFile, Watcher
  <2> QED
    BY <2>1, Bounds DEF Mtimes
<1>3. CASE Thread
  BY <1>3, ThreadInv
\* What changes one hostfile.
<1>4. ASSUME NEW f \in Files, NEW x \in DiskFile, disk' = [disk EXCEPT ![f] = x],
             gone' \in 0 .. MaxGone, gone <= gone', UNCHANGED <<pluginVars, lostVars, pc>>,
             watcher[f].mtime <= x.mtime,
             x.mtime <= MaxEdits + gone' + (IF x.here THEN 1 ELSE 0)
      PROVE  Inv'
  <2>1. disk' \in [Files -> DiskFile] /\ disk'[f] = x /\ \A g \in Files \ {f} : disk'[g] = disk[g]
    BY <1>1, <1>4
  <2>2. TypeOK'
    BY <1>0, <1>4, <2>1 DEF TypeOK, DiskFile, pluginVars, lostVars
  <2>3. AtAFile' /\ Phases'
    BY <1>0, <1>4 DEF AtAFile, Phases, Files, pluginVars
  <2>4. MtimesFit'
    <3> SUFFICES ASSUME NEW g \in Files
                 PROVE  /\ disk'[g].mtime <= MaxEdits + gone' + (IF disk'[g].here THEN 1 ELSE 0)
                        /\ watcher[g].mtime <= disk'[g].mtime
      BY <1>4 DEF MtimesFit, pluginVars
    <3>1. CASE g = f
      BY <1>4, <2>1, <3>1
    <3>2. CASE g # f
      <4>1. /\ disk[g].mtime <= MaxEdits + gone + (IF disk[g].here THEN 1 ELSE 0)
            /\ watcher[g].mtime <= disk[g].mtime /\ disk'[g] = disk[g]
        BY <1>0, <2>1, <3>2 DEF MtimesFit
      <4>2. disk[g].mtime <= MaxEdits + gone' + (IF disk[g].here THEN 1 ELSE 0)
        BY <1>1, <1>2, <1>4, <4>1, Bounds
      <4> QED
        BY <4>1, <4>2
    <3> QED
      BY <3>1, <3>2
  <2> QED
    BY <2>2, <2>3, <2>4 DEF Inv
<1>5. ASSUME NEW f \in Files, NEW h \in Hosts, Edit(f, h) PROVE Inv'
  <2> DEFINE x == [disk[f] EXCEPT !.hosts = h, !.mtime = @ + 1]
  <2>1. /\ disk[f].mtime < MaxEdits /\ disk' = [disk EXCEPT ![f] = x]
        /\ UNCHANGED <<gone, pluginVars, lostVars, pc>>
    BY <1>1, <1>5 DEF Edit
  <2>2. disk[f].mtime + 1 \in Mtimes /\ disk[f].mtime + 1 <= MaxEdits
    BY <1>2, <2>1, Bounds DEF Mtimes
  <2>3. x \in DiskFile /\ x.mtime = disk[f].mtime + 1 /\ x.here = disk[f].here
    BY <1>1, <2>2 DEF DiskFile
  <2> HIDE DEF x
  <2>4. watcher[f].mtime <= x.mtime
    BY <1>0, <1>2, <2>3 DEF MtimesFit
  <2>5. x.mtime <= MaxEdits + gone + (IF x.here THEN 1 ELSE 0)
    BY <1>1, <1>2, <2>2, <2>3, Bounds
  <2>6. gone' \in 0 .. MaxGone /\ gone <= gone' /\ gone' = gone
    BY <1>1, <2>1
  <2> QED
    BY <1>4, <2>1, <2>3, <2>4, <2>5, <2>6
<1>6. ASSUME NEW f \in Files, Disappear(f) PROVE Inv'
  <2> DEFINE x == [disk[f] EXCEPT !.here = FALSE]
  <2>1. /\ disk[f].here /\ gone < MaxGone /\ gone' = gone + 1 /\ disk' = [disk EXCEPT ![f] = x]
        /\ UNCHANGED <<pluginVars, lostVars, pc>>
    BY <1>1, <1>6 DEF Disappear
  <2>2. x \in DiskFile /\ x.mtime = disk[f].mtime /\ x.here = FALSE
    BY <1>1 DEF DiskFile
  <2> HIDE DEF x
  <2>3. watcher[f].mtime <= x.mtime /\ x.mtime <= MaxEdits + gone + 1
    BY <1>0, <2>1, <2>2 DEF MtimesFit
  <2>4. gone' \in 0 .. MaxGone /\ gone <= gone'
    BY <1>1, <2>1, Bounds
  <2>5. x.mtime <= MaxEdits + gone' + (IF x.here THEN 1 ELSE 0)
    BY <1>1, <1>2, <2>1, <2>2, <2>3, Bounds
  <2> QED
    BY <1>4, <2>1, <2>2, <2>3, <2>4, <2>5
<1>7. ASSUME NEW f \in Files, Appear(f) PROVE Inv'
  <2> DEFINE x == [disk[f] EXCEPT !.here = TRUE, !.mtime = @ + 1]
  <2>1. /\ ~disk[f].here /\ disk' = [disk EXCEPT ![f] = x]
        /\ UNCHANGED <<gone, pluginVars, lostVars, pc>>
    BY <1>1, <1>7 DEF Appear
  <2>2. disk[f].mtime <= MaxEdits + gone + 0 /\ watcher[f].mtime <= disk[f].mtime
    BY <1>0, <2>1 DEF MtimesFit
  <2>3. disk[f].mtime + 1 \in Mtimes
    BY <1>1, <1>2, <2>2, Bounds DEF Mtimes
  <2>4. x \in DiskFile /\ x.mtime = disk[f].mtime + 1 /\ x.here = TRUE
    BY <1>1, <2>3 DEF DiskFile
  <2> HIDE DEF x
  <2>5. /\ watcher[f].mtime <= x.mtime
        /\ x.mtime <= MaxEdits + gone + (IF x.here THEN 1 ELSE 0)
    BY <1>1, <1>2, <2>2, <2>4, Bounds
  <2>6. gone' \in 0 .. MaxGone /\ gone <= gone' /\ gone' = gone
    BY <1>1, <2>1
  <2> QED
    BY <1>4, <2>1, <2>4, <2>5, <2>6
<1>8. CASE Tick
  <2>1. /\ watcher' = [f \in Files |-> [watcher[f] EXCEPT
                           !.since = IF @ < MinInterval THEN @ + 1 ELSE @]]
        /\ UNCHANGED <<diskVars, lostVars, pc, names, status, unload, file>>
    BY <1>8 DEF Tick
  <2>2. ASSUME NEW f \in Files
        PROVE  watcher'[f] \in Watcher /\ watcher'[f].mtime = watcher[f].mtime
    <3>1. PICK n \in 0 .. MinInterval : watcher'[f] = [watcher[f] EXCEPT !.since = n]
      <4>1. CASE watcher[f].since < MinInterval
        <5>1. watcher[f].since + 1 \in 0 .. MinInterval
          BY <1>2, <4>1, Bounds
        <5>2. watcher'[f] = [watcher[f] EXCEPT !.since = watcher[f].since + 1]
          BY <1>2, <2>1, <4>1 DEF Watcher
        <5> QED
          BY <5>1, <5>2
      <4>2. CASE ~(watcher[f].since < MinInterval)
        <5>1. watcher'[f] = [watcher[f] EXCEPT !.since = watcher[f].since]
          BY <1>2, <2>1, <4>2 DEF Watcher
        <5> QED
          BY <1>2, <5>1
      <4> QED
        BY <4>1, <4>2
    <3> QED
      BY <1>2, <3>1 DEF Watcher
  <2>3. watcher' \in [Files -> Watcher]
    BY <2>1, <2>2
  <2>4. TypeOK'
    BY <1>0, <2>1, <2>3 DEF TypeOK, Watcher, diskVars, lostVars
  <2>5. AtAFile' /\ Phases'
    BY <1>0, <2>1 DEF AtAFile, Phases, Files
  <2>6. MtimesFit'
    BY <1>0, <2>1, <2>2 DEF MtimesFit, diskVars
  <2> QED
    BY <2>4, <2>5, <2>6 DEF Inv
<1>9. CASE UNCHANGED vars
  BY <1>0, <1>9 DEF Inv, TypeOK, AtAFile, MtimesFit, Phases, vars, diskVars, pluginVars, lostVars
<1> QED
  BY <1>3, <1>5, <1>6, <1>7, <1>8, <1>9 DEF Next

\* TypeOK holds of every behaviour: among others the telemetry's timer never runs
\* out of its range, and the loop over the hostfiles never past the last of them.
THEOREM TypeCorrect == Spec => []TypeOK
<1>1. Inv => TypeOK
  BY DEF Inv
<1> QED
  BY <1>1, InitInv, StepInv, PTL DEF Spec

-----------------------------------------------------------------------------
(***************************************************************************)
(* No edit of a hostfile is missed.  Missed speaks of a plugin that is on; *)
(* the files are read one after the other while it is loaded, so that the  *)
(* same has to be said of each of them from the moment it is read.         *)
(***************************************************************************)

\* File f has been read.
Loaded(f) == status = "on" \/ (pc = "load" /\ f < file)

\* The name file f gives to a is in use, or there is reason to read the file.
UpToDate(f, a) ==
    Loaded(f) /\ disk[f].here /\ disk[f].hosts[a] # NoName =>
        \/ names[a] = disk[f].hosts[a]
        \/ watcher[f].mtime < disk[f].mtime
        \/ pc = "reload" /\ file = f

\* No other file names a.
NamesAlone(f, a) == \A g \in Files \ {f} : disk[g].hosts[a] = NoName

\* A file that has been read stays up to date: another file does not touch the
\* name, and what changes the file changes its mtime.
LEMMA UpToDateStep ==
    ASSUME NEW f \in Files, NEW a \in Addrs, Inv, NamesAlone(f, a), UpToDate(f, a), [Next]_vars
    PROVE  UpToDate(f, a)'
<1>0. TypeOK /\ AtAFile /\ MtimesFit /\ Phases
  BY DEF Inv
<1>1. /\ disk \in [Files -> DiskFile] /\ watcher \in [Files -> Watcher] /\ file \in 1 .. NFiles + 1
      /\ pc \in {"validate", "build", "load", "poll", "check", "reload", "count", "end"}
  BY <1>0 DEF TypeOK, DiskFile, Watcher
<1>2. /\ disk[f].mtime \in Nat /\ watcher[f].mtime \in Nat /\ watcher[f].mtime <= disk[f].mtime
      /\ f \in Nat /\ file \in Nat /\ f <= NFiles /\ f >= 1
  <2>1. disk[f].mtime \in Mtimes /\ watcher[f].mtime \in Mtimes
    BY <1>1 DEF DiskFile, Watcher
  <2>2. watcher[f].mtime <= disk[f].mtime
    BY <1>0 DEF MtimesFit
  <2> QED
    BY <1>1, <2>1, <2>2, Bounds DEF Mtimes, Files
<1>3. pc # "validate" => file \in Files
  BY <1>0 DEF AtAFile
<1>4. CASE Loaded(f)' => /\ Loaded(f) /\ UNCHANGED <<disk, names>>
                         /\ watcher'[f].mtime = watcher[f].mtime
                         /\ pc = "reload" /\ file = f => pc' = "reload" /\ file' = f
  BY <1>4 DEF UpToDate
<1>5. CASE Validate \/ BuildWatcher
  <2>1. status = "loading" /\ pc \in {"validate", "build"}
    BY <1>0, <1>5 DEF Phases, Validate, BuildWatcher
  <2>2. CASE PluginRaises
    BY <2>2 DEF PluginRaises, UpToDate, Loaded
  <2>3. CASE AtFile("validate", "build") /\ UNCHANGED status
    <3>1. pc' \in {"validate", "build"}
      BY <2>3, LoopType
    <3> QED
      BY <2>1, <2>3, <3>1 DEF UpToDate, Loaded
  <2>4. CASE AtFile("build", "load") /\ UNCHANGED status
    <3>1. pc' = "build" \/ (pc' = "load" /\ file' = 1)
      BY <2>4, LoopType
    <3>2. ~(f < 1)
      BY <1>2
    <3> QED
      BY <2>1, <2>4, <3>1, <3>2 DEF UpToDate, Loaded
  <2> QED
    BY <1>5, <2>2, <2>3, <2>4 DEF Validate, BuildWatcher
<1>6. CASE FirstLoad
  <2>1. /\ pc = "load" /\ file \in Files /\ status = "loading" /\ UNCHANGED diskVars
    BY <1>0, <1>6 DEF Phases, FirstLoad
  <2>2. CASE PluginRaises
    BY <2>2 DEF PluginRaises, UpToDate, Loaded
  <2>3. CASE /\ AtFile("load", "poll") /\ names' = Load(file)
             /\ status' = (IF file = NFiles THEN "on" ELSE status) /\ UNCHANGED watcher
    <3>1. names'[a] = IF disk[file].hosts[a] = NoName THEN names[a] ELSE disk[file].hosts[a]
      BY <1>0, <2>1, <2>3, LoadType
    <3>2. CASE file = f
      BY <2>1, <3>1, <3>2 DEF UpToDate, diskVars
    <3>3. CASE file # f
      <4>1. names'[a] = names[a]
        BY <2>1, <3>1, <3>3 DEF NamesAlone
      <4>2. Loaded(f)' => Loaded(f)
        <5>1. /\ pc' = "poll" \/ (file < NFiles /\ file' = file + 1)
              /\ file < NFiles \/ file = NFiles
          BY <2>3, LoopType
        <5>2. CASE file = NFiles
          <6>1. f < file
            BY <1>2, <3>3, <5>2
          <6> QED
            BY <2>1, <6>1 DEF Loaded
        <5>3. CASE file # NFiles
          <6>1. status' # "on" /\ (f < file' /\ pc' = "load" => file' = file + 1)
            BY <2>1, <2>3, <5>1, <5>3
          <6>2. f < file + 1 => f < file
            BY <1>2, <3>3
          <6> QED
            BY <2>1, <6>1, <6>2 DEF Loaded
        <5> QED
          BY <5>2, <5>3
      <4> QED
        BY <2>1, <2>3, <4>1, <4>2 DEF UpToDate, diskVars
    <3> QED
      BY <3>2, <3>3
  <2> QED
    BY <1>6, <2>2, <2>3 DEF FirstLoad
<1>7. CASE Poll \/ Count
  <2>1. pc \in {"poll", "count"} /\ pc' \in {"poll", "check", "count"} /\ UNCHANGED <<diskVars, pluginVars>>
    BY <1>7 DEF Poll, Count
  <2> QED
    BY <1>4, <2>1 DEF Loaded, diskVars, pluginVars
<1>8. CASE Check
  <2>1. /\ pc = "check" /\ file \in Files /\ status = "on" /\ UNCHANGED <<disk, names, status>>
    BY <1>0, <1>3, <1>8 DEF Check, Phases, diskVars
  <2>2. Loaded(f) /\ ~(pc = "reload" /\ file = f)
    BY <2>1 DEF Loaded
  <2>3. CASE watcher'[f].mtime = watcher[f].mtime
    BY <2>1, <2>2, <2>3 DEF UpToDate
  <2>4. CASE watcher'[f].mtime # watcher[f].mtime
    <3>1. file = f /\ disk[file].mtime # watcher[file].mtime /\ pc' = "reload" /\ file' = file
      <4>1. CASE UNCHANGED watcher
        BY <2>4, <4>1
      <4>2. CASE watcher' = [watcher EXCEPT ![file].since = 0]
        <5>1. CASE f = file
          <6>1. watcher'[f] = [watcher[f] EXCEPT !.since = 0] /\ watcher[f] \in Watcher
            BY <1>1, <4>2, <5>1
          <6> QED
            BY <2>4, <6>1 DEF Watcher
        <5>2. CASE f # file
          BY <1>1, <2>4, <4>2, <5>2
        <5> QED
          BY <5>1, <5>2
      <4>3. CASE /\ watcher' = [watcher EXCEPT ![file] = [mtime |-> disk[file].mtime, since |-> 0]]
                 /\ IF disk[file].mtime = watcher[file].mtime
                    THEN AtFile("check", "count") ELSE pc' = "reload" /\ UNCHANGED file
        <5>1. f = file
          BY <1>1, <2>4, <4>3
        <5>2. watcher'[f].mtime = disk[f].mtime
          BY <1>1, <4>3, <5>1
        <5> QED
          BY <2>4, <4>3, <5>1, <5>2
      <4> QED
        BY <1>8, <4>1, <4>2, <4>3 DEF Check
    <3> QED
      BY <3>1 DEF UpToDate
  <2> QED
    BY <2>3, <2>4
<1>9. CASE Reload
  <2>1. /\ pc = "reload" /\ file \in Files /\ status = "on" /\ UNCHANGED <<disk, watcher, status>>
    BY <1>0, <1>3, <1>9 DEF Reload, Phases, diskVars
  <2>2. CASE ~disk[file].here /\ UNCHANGED names
    <3>1. CASE file = f
      BY <2>1, <2>2, <3>1 DEF UpToDate
    <3>2. CASE file # f
      BY <1>4, <2>1, <2>2, <3>2 DEF Loaded
    <3> QED
      BY <3>1, <3>2
  <2>3. CASE names' = Load(file)
    <3>1. names'[a] = IF disk[file].hosts[a] = NoName THEN names[a] ELSE disk[file].hosts[a]
      BY <1>0, <2>1, <2>3, LoadType
    <3>2. CASE file = f
      BY <2>1, <3>1, <3>2 DEF UpToDate
    <3>3. CASE file # f
      <4>1. names'[a] = names[a] /\ Loaded(f)
        BY <2>1, <3>1, <3>3 DEF NamesAlone, Loaded
      <4> QED
        BY <2>1, <3>3, <4>1 DEF UpToDate
    <3> QED
      BY <3>2, <3>3
  <2> QED
    BY <1>9, <2>2, <2>3 DEF Reload
\* What changes a hostfile: the one in question gets a new mtime or goes.
<1>10. ASSUME NEW g \in Files, NEW x, disk' = [disk EXCEPT ![g] = x],
              UNCHANGED <<pluginVars, pc>>, ~x.here \/ x.mtime = disk[g].mtime + 1
       PROVE  UpToDate(f, a)'
  <2>1. CASE g = f
    <3>1. disk'[f] = x
      BY <1>1, <1>10, <2>1
    <3>2. x.mtime = disk[f].mtime + 1 => watcher[f].mtime < x.mtime
      BY <1>2
    <3> QED
      BY <1>10, <2>1, <3>1, <3>2 DEF UpToDate, pluginVars
  <2>2. CASE g # f
    <3>1. disk'[f] = disk[f]
      BY <1>1, <1>10, <2>2
    <3> QED
      BY <1>10, <3>1 DEF UpToDate, Loaded, pluginVars
  <2> QED
    BY <2>1, <2>2
<1>11. ASSUME NEW g \in Files, NEW h \in Hosts, Edit(g, h) PROVE UpToDate(f, a)'
  <2> DEFINE x == [disk[g] EXCEPT !.hosts = h, !.mtime = @ + 1]
  <2>1. disk' = [disk EXCEPT ![g] = x] /\ UNCHANGED <<pluginVars, pc>>
    BY <1>1, <1>11 DEF Edit
  <2>2. x.mtime = disk[g].mtime + 1
    BY <1>1 DEF DiskFile
  <2> HIDE DEF x
  <2> QED
    BY <1>10, <2>1, <2>2
<1>12. ASSUME NEW g \in Files, Disappear(g) PROVE UpToDate(f, a)'
  <2> DEFINE x == [disk[g] EXCEPT !.here = FALSE]
  <2>1. disk' = [disk EXCEPT ![g] = x] /\ UNCHANGED <<pluginVars, pc>>
    BY <1>1, <1>12 DEF Disappear
  <2>2. ~x.here
    BY <1>1 DEF DiskFile
  <2> HIDE DEF x
  <2> QED
    BY <1>10, <2>1, <2>2
<1>13. ASSUME NEW g \in Files, Appear(g) PROVE UpToDate(f, a)'
  <2> DEFINE x == [disk[g] EXCEPT !.here = TRUE, !.mtime = @ + 1]
  <2>1. disk' = [disk EXCEPT ![g] = x] /\ UNCHANGED <<pluginVars, pc>>
    BY <1>1, <1>13 DEF Appear
  <2>2. x.mtime = disk[g].mtime + 1
    BY <1>1 DEF DiskFile
  <2> HIDE DEF x
  <2> QED
    BY <1>10, <2>1, <2>2
<1>14. CASE Tick
  <2>1. UNCHANGED <<disk, names, pc, status, file>>
    BY <1>14 DEF Tick, diskVars
  <2>2. watcher'[f].mtime = watcher[f].mtime
    <3>1. \E n : watcher'[f] = [watcher[f] EXCEPT !.since = n]
      BY <1>14 DEF Tick
    <3>2. watcher[f] \in Watcher
      BY <1>1
    <3> QED
      BY <3>1, <3>2 DEF Watcher
  <2> QED
    BY <1>4, <2>1, <2>2 DEF Loaded
<1>15. CASE UNCHANGED vars
  BY <1>4, <1>15 DEF vars, diskVars, pluginVars, Loaded
<1> QED
  BY <1>5, <1>6, <1>7, <1>8, <1>9, <1>11, <1>12, <1>13, <1>14, <1>15 DEF Next, Thread

\* reload_if_changed misses no edit of a hostfile that alone names an address.
THEOREM EditsAreNoticed == Spec => NoEditMissed
<1> SUFFICES ASSUME NEW f \in Files, NEW a \in Addrs
             PROVE  Spec => ([]NamesAlone(f, a) => []~Missed(f, a))
  BY DEF NoEditMissed, NamesAlone
<1>1. Init => UpToDate(f, a)
  BY DEF Init, UpToDate, Loaded
<1>2. Inv /\ NamesAlone(f, a) /\ UpToDate(f, a) /\ [Next]_vars => UpToDate(f, a)'
  BY UpToDateStep
<1>3. Inv /\ UpToDate(f, a) => ~Missed(f, a)
  <2> SUFFICES ASSUME Inv, UpToDate(f, a), Missed(f, a) PROVE FALSE
    OBVIOUS
  <2>1. watcher[f].mtime < disk[f].mtime /\ watcher[f].mtime >= disk[f].mtime
    BY DEF UpToDate, Missed, Loaded
  <2>2. disk[f].mtime \in Mtimes /\ watcher[f].mtime \in Mtimes
    BY DEF Inv, TypeOK
  <2>3. disk[f].mtime \in Nat /\ watcher[f].mtime \in Nat
    BY <2>2, Bounds DEF Mtimes
  <2> QED
    BY <2>1, <2>3
<1> QED
  BY <1>1, <1>2, <1>3, InitInv, StepInv, PTL DEF Spec

=============================================================================
