----------------------------- MODULE EventPath -----------------------------
(***************************************************************************)
(* The way of an event through the polling thread: perf_buffer_poll, the   *)
(* sourceipmap plugin, which re-reads its hostfiles while it handles an    *)
(* event, and the telemetry of lost events; and how the plugin is loaded.  *)
(*                                                                         *)
(* A hostfile is the name it gives to each address, NoName for none.       *)
(***************************************************************************)
EXTENDS Naturals

CONSTANTS
    NFiles,      \* hostfiles, numbered in the order of the configuration
    Addrs,       \* source addresses
    Names,       \* host names
    MinInterval, \* min_interval of a watcher, in ticks
    Telemetry,   \* lost_event_telemetry, in polls
    MaxEdits,    \* bound: no hostfile is edited with this mtime or a later one
    MaxGone,     \* bound: disappearances of hostfiles
    MaxLost      \* bound: events lost

\* The name of an address that no hostfile has.
NoName == ""

ASSUME EventPathAssumption ==
    /\ NFiles \in Nat /\ MinInterval \in Nat /\ Telemetry \in Nat \ {0}
    /\ MaxEdits \in Nat /\ MaxGone \in Nat /\ MaxLost \in Nat
    /\ NoName \notin Names

Files == 1 .. NFiles
Mtimes == 0 .. MaxEdits + MaxGone + 1
Hosts == [Addrs -> Names \cup {NoName}]

VARIABLES
    disk,    \* disk[f]: contents and mtime of hostfile f, and whether it is there
    gone,    \* disappearances so far
    watcher, \* watcher[f]: mtime it knows, and ticks since it looked
    names,   \* the staticconf namespace all hostfiles are loaded into
    status,  \* of the plugin: "loading", "on", "off" or "failed"
    unload,  \* unload_on_init_exception
    pc,      \* next step of the polling thread
    file,    \* hostfile it is at
    lost,    \* lost_event_count
    timer,   \* lost_event_timer
    told     \* count in the last telemetry event (history)

diskVars == <<disk, gone>>
pluginVars == <<watcher, names, status, unload, file>>
lostVars == <<lost, timer, told>>
vars == <<diskVars, pluginVars, lostVars, pc>>

TypeOK ==
    /\ disk \in [Files -> [hosts : Hosts, mtime : Mtimes, here : BOOLEAN]]
    /\ gone \in 0 .. MaxGone
    /\ watcher \in [Files -> [mtime : Mtimes, since : 0 .. MinInterval]]
    /\ names \in Hosts
    /\ status \in {"loading", "on", "off", "failed"} /\ unload \in BOOLEAN
    /\ pc \in {"validate", "build", "load", "poll", "check", "reload", "count", "end"}
    /\ file \in 1 .. NFiles + 1
    /\ lost \in 0 .. MaxLost /\ told \in 0 .. MaxLost /\ timer \in 1 .. Telemetry

Init ==
    /\ disk \in [Files -> [hosts : Hosts, mtime : {0}, here : BOOLEAN]] /\ gone = 0
    /\ watcher = [f \in Files |-> [mtime |-> 0, since |-> 0]]
    /\ names = [a \in Addrs |-> NoName]
    /\ status = "loading" /\ unload \in BOOLEAN
    /\ pc = "validate" /\ file = 1
    /\ lost = 0 /\ timer = Telemetry /\ told = 0

-----------------------------------------------------------------------------
(* load_plugins and the constructor of Sourceipmap. *)

\* Mutants: a name that is there is kept; every watcher loads the last file, as a
\* closure over the loop variable would.
LoadKeepsOld(f) ==
    [a \in Addrs |-> IF names[a] = NoName THEN disk[f].hosts[a] ELSE names[a]]
LoadLast(f) ==
    [a \in Addrs |-> IF disk[NFiles].hosts[a] = NoName THEN names[a] ELSE disk[NFiles].hosts[a]]

\* Loading a hostfile updates the namespace: an address it no longer names keeps
\* the name it has.
Load(f) == [a \in Addrs |-> IF disk[f].hosts[a] = NoName THEN names[a] ELSE disk[f].hosts[a]]

\* An exception ends the probe, unless the plugin may be left out.
PluginRaises ==
    /\ status' = IF unload THEN "off" ELSE "failed"
    /\ pc' = IF unload THEN "poll" ELSE "end"
    /\ UNCHANGED <<watcher, names, file>>

\* A loop over the hostfiles: from one to the next, and on to the step `next`.
AtFile(step, next) ==
    /\ pc = step /\ file \in Files
    /\ IF file < NFiles THEN file' = file + 1 /\ pc' = pc ELSE file' = 1 /\ pc' = next

\* validate_args: os.path.isfile of each.
Validate ==
    /\ pc = "validate" /\ file \in Files
    /\ \/ disk[file].here /\ AtFile("validate", "build") /\ UNCHANGED <<watcher, names, status>>
       \/ ~disk[file].here /\ PluginRaises
    /\ UNCHANGED <<diskVars, lostVars, unload>>

\* The watcher of each takes down the mtime, before anything is read.
BuildWatcher ==
    /\ pc = "build" /\ file \in Files
    /\ \/ /\ disk[file].here /\ AtFile("build", "load")
          /\ watcher' = [watcher EXCEPT ![file].mtime = disk[file].mtime]
          /\ UNCHANGED <<names, status>>
       \/ ~disk[file].here /\ PluginRaises
    /\ UNCHANGED <<diskVars, lostVars, unload>>

FirstLoad ==
    /\ pc = "load" /\ file \in Files
    /\ \/ /\ disk[file].here /\ AtFile("load", "poll")
          /\ names' = Load(file)
          /\ status' = IF file = NFiles THEN "on" ELSE status
          /\ UNCHANGED watcher
       \/ ~disk[file].here /\ PluginRaises
    /\ UNCHANGED <<diskVars, lostVars, unload>>

-----------------------------------------------------------------------------
(* _poll_and_check_lost, _process_events and Sourceipmap.process. *)

\* perf_buffer_poll calls back with an event; with lost ones before it.
Poll ==
    /\ pc = "poll" /\ pc' = IF status = "on" THEN "check" ELSE "count"
    /\ lost' \in {l \in {lost, lost + 1} : l <= MaxLost}
    /\ UNCHANGED <<diskVars, pluginVars, timer, told>>

\* Not before min_interval has passed is the file looked at.
Due(f) == watcher[f].since = MinInterval

\* The watchers are asked in turn.  A file that is missing raises: the event is
\* dropped, and the files after it are not looked at.
Check ==
    /\ pc = "check"
    /\ \/ /\ ~Due(file) /\ AtFile("check", "count")
          /\ UNCHANGED watcher
       \/ /\ Due(file) /\ disk[file].here
          /\ watcher' = [watcher EXCEPT ![file] = [mtime |-> disk[file].mtime, since |-> 0]]
          /\ IF disk[file].mtime = watcher[file].mtime
             THEN AtFile("check", "count") ELSE pc' = "reload" /\ UNCHANGED file
       \/ /\ Due(file) /\ ~disk[file].here
          /\ watcher' = [watcher EXCEPT ![file].since = 0]
          /\ file' = 1 /\ pc' = "count"
    /\ UNCHANGED <<diskVars, lostVars, names, status, unload>>

Reload ==
    /\ pc = "reload"
    /\ \/ /\ disk[file].here /\ names' = Load(file)
          /\ IF file < NFiles THEN file' = file + 1 /\ pc' = "check"
                              ELSE file' = 1 /\ pc' = "count"
       \/ /\ ~disk[file].here
          /\ file' = 1 /\ pc' = "count" /\ UNCHANGED names
    /\ UNCHANGED <<diskVars, lostVars, watcher, status, unload>>

\* Mutants: lost_event_timer is not set again; it is set after every poll.
NextTimerOnce == timer - 1
NextTimerReset == Telemetry

\* lost_event_timer after a poll.
NextTimer == IF timer = 1 THEN Telemetry ELSE timer - 1

\* After the poll; the event with its name is on output_queue, or dropped.
Count ==
    /\ pc = "count" /\ pc' = "poll"
    /\ timer' = NextTimer
    /\ told' = IF timer = 1 THEN lost ELSE told
    /\ UNCHANGED <<diskVars, pluginVars, lost>>

-----------------------------------------------------------------------------
(* The hostfiles and the clock. *)

Edit(f, h) ==
    /\ disk[f].here /\ disk[f].mtime < MaxEdits
    /\ disk' = [disk EXCEPT ![f].hosts = h, ![f].mtime = @ + 1]
    /\ UNCHANGED <<gone, pluginVars, lostVars, pc>>

Disappear(f) ==
    /\ disk[f].here /\ gone < MaxGone /\ gone' = gone + 1
    /\ disk' = [disk EXCEPT ![f].here = FALSE]
    /\ UNCHANGED <<pluginVars, lostVars, pc>>

\* It is written anew, and has a new mtime.
Appear(f) ==
    /\ ~disk[f].here
    /\ disk' = [disk EXCEPT ![f].here = TRUE, ![f].mtime = @ + 1]
    /\ UNCHANGED <<gone, pluginVars, lostVars, pc>>

Tick ==
    /\ \E f \in Files : watcher[f].since < MinInterval
    /\ watcher' = [f \in Files |-> [watcher[f] EXCEPT
                       !.since = IF @ < MinInterval THEN @ + 1 ELSE @]]
    /\ UNCHANGED <<diskVars, lostVars, pc, names, status, unload, file>>

Thread == Validate \/ BuildWatcher \/ FirstLoad \/ Poll \/ Check \/ Reload \/ Count

Next ==
    \/ Thread \/ Tick
    \/ \E f \in Files : Disappear(f) \/ Appear(f) \/ \E h \in Hosts : Edit(f, h)

Spec == Init /\ [][Next]_vars

\* Events go on coming, so that perf_buffer_poll returns; time passes; and a file
\* that is missing, being replaced, comes back.
Fairness == WF_vars(Thread) /\ WF_vars(Tick) /\ \A f \in Files : WF_vars(Appear(f))

FairSpec == Spec /\ Fairness

-----------------------------------------------------------------------------
(* Properties. *)

\* Where one hostfile alone ever names an address, its events get the name that
\* file gives it in the end: an edit is noticed whenever it happens, while the
\* plugin is loaded, between the look at the mtime and the reading, or while
\* another hostfile is missing and every event is dropped.
NameFollowsFile ==
    \A f \in Files, a \in Addrs, n \in Names :
        [](\A g \in Files \ {f} : disk[g].hosts[a] = NoName) =>
            (status = "on" /\ disk[f].hosts[a] = n ~>
                 names[a] = n \/ disk[f].hosts[a] # n)

\* The name in use for a is not the one file f gives, and nothing is left to do
\* about it: the watcher knows the file's mtime, and the polling thread is not
\* between its look at the mtime and the reading.
Missed(f, a) ==
    /\ status = "on" /\ disk[f].here
    /\ disk[f].hosts[a] # NoName /\ names[a] # disk[f].hosts[a]
    /\ watcher[f].mtime >= disk[f].mtime
    /\ ~(pc = "reload" /\ file = f)

\* Where one hostfile alone ever names an address, reload_if_changed misses no
\* edit of it: not one made while the plugin is loaded, between the look at the
\* mtime and the reading, or while a hostfile is missing and reading it raised.
NoEditMissed ==
    \A f \in Files, a \in Addrs :
        [](\A g \in Files \ {f} : disk[g].hosts[a] = NoName) => []~Missed(f, a)

\* Every lost event is in a telemetry event in the end.
LossesTold == \A k \in 1 .. MaxLost : lost >= k ~> told >= k
=============================================================================
