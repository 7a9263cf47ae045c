-------------------------------- MODULE Plugin --------------------------------
(***************************************************************************)
(* The life of the plugin (plugin-main.cpp): module load, the settings       *)
(* dialog's Apply across the four parts it configures, the frontend's EXIT    *)
(* event, module unload, and a crash at any point, with the settings file     *)
(* (settings.cpp) that outlives them.  All of it runs in the user interface   *)
(* thread; the threads of the returns and of the receiver may fail meanwhile. *)
(*                                                                          *)
(* Abstracted: a configuration is a model value, which read_config reads back  *)
(* as write_config wrote it; whether a part accepts it (addresses, ports,      *)
(* adapters, the OBS video format) is a choice.  After EXIT the dialog can be  *)
(* opened again from the properties of a source.                              *)
(***************************************************************************)
EXTENDS AudioSource

CONSTANTS
    Configs,
    Default,        \* the configuration of a fresh installation: all disabled
    Absent,         \* the settings file is missing,
    Damaged,        \* or not readable as settings
    Stopped         \* a part is not running any configuration

ASSUME PluginAssumption ==
    /\ Default \in Configs
    /\ Absent \notin Configs /\ Damaged \notin Configs /\ Stopped \notin Configs

VARIABLES
    phase,          \* off, load, run or exit
    step,           \* the call the user interface thread makes next
    applying,       \* Apply's cfg; and whether the returns' worker had stopped
    desired,        \* desired_config
    startupError,   \* startup_error is set
    running,        \* the configuration each part runs
    failed,         \* ghost: the parts that could not be started at load
    stopping,       \* MonitorReturn's stopping
    receiverStopped,\* Receiver's stop_
    file,           \* settings.json
    promised,       \* ghost: what the user was last told is saved
    cut             \* ghost: what an Apply cut off by a crash may have saved

memory == <<desired, startupError, running, failed>>
workers == <<stopping, receiverStopped>>
disk == <<file, promised, cut>>
pluginVars == <<phase, step, applying, memory, workers, disk>>
vars == <<pluginVars, sourceVars>>

Parts == {"receiver", "output", "mouse", "returns"}
Idle == [cfg |-> Default, late |-> FALSE]

Loads == [output |-> "loadOutput", mouse |-> "loadMouse",
          returns |-> "loadReturns"]
Prepares == [output |-> "prepareOutput", mouse |-> "prepareMouse",
             returns |-> "prepareReturns"]
Activates == [receiver |-> "commit", output |-> "activateOutput",
              mouse |-> "activateMouse", returns |-> "activateReturns"]

\* Mutant: the output is activated as soon as it is prepared.
FollowingEarly ==
    [loadReceiver |-> "loadOutput", loadOutput |-> "loadMouse",
     loadMouse |-> "loadReturns", loadReturns |-> "start",
     prepareOutput |-> "activateOutput", activateOutput |-> "prepareMouse",
     prepareMouse |-> "prepareReturns",
     prepareReturns |-> "checkReceiver", checkReceiver |-> "save",
     save |-> "commit", commit |-> "activateMouse",
     activateMouse |-> "activateReturns", activateReturns |-> "record",
     record |-> "refresh"]

\* The order of the calls of obs_module_load and of the dialog's Apply.
Following ==
    [loadReceiver |-> "loadOutput", loadOutput |-> "loadMouse",
     loadMouse |-> "loadReturns", loadReturns |-> "start",
     prepareOutput |-> "prepareMouse", prepareMouse |-> "prepareReturns",
     prepareReturns |-> "checkReceiver", checkReceiver |-> "save",
     save |-> "commit", commit |-> "activateOutput",
     activateOutput |-> "activateMouse", activateMouse |-> "activateReturns",
     activateReturns |-> "record", record |-> "refresh"]

\* No process yet; a settings file of any kind.
Init ==
    /\ phase = "off" /\ step = "idle" /\ applying = Idle
    /\ desired = Default /\ startupError = FALSE
    /\ running = [p \in Parts |-> Stopped] /\ failed = {}
    /\ stopping = FALSE /\ receiverStopped = FALSE
    /\ file \in Configs \cup {Absent, Damaged}
    /\ promised = file /\ cut = file
    /\ SourceInit

\* The process, and all it held, is gone.
End ==
    /\ phase' = "off" /\ step' = "idle" /\ applying' = Idle
    /\ desired' = Default /\ startupError' = FALSE
    /\ running' = [p \in Parts |-> Stopped] /\ failed' = {}
    /\ stopping' = FALSE /\ receiverStopped' = FALSE
    /\ SourceEnd

------------------------------------------------------------------------------
(***************************************************************************)
(* obs_module_load.  A part that cannot be started is left out with a         *)
(* warning; nothing is tried again before the next Apply.                     *)
(***************************************************************************)
\* read_config: a missing file means the defaults, and so does one that cannot
\* be found or read, but with an error.
Read ==
    /\ phase = "off"
    /\ phase' = "load" /\ step' = "loadReceiver"
    /\ \/ /\ file \in Configs
          /\ desired' = file /\ UNCHANGED startupError
       \/ /\ file = Absent
          /\ desired' = Default /\ UNCHANGED startupError
       \/ desired' = Default /\ startupError' = TRUE
    /\ promised' = file /\ cut' = file
    /\ UNCHANGED <<applying, running, failed, workers, file, sourceVars>>

\* After an error of reading, the receiver is not configured at all.
LoadReceiver ==
    /\ step = "loadReceiver"
    /\ step' = Following[step]
    /\ \/ /\ ~startupError /\ ~receiverStopped
          /\ running' = [running EXCEPT !["receiver"] = desired]
          /\ UNCHANGED <<failed, startupError>>
       \/ /\ failed' = failed \cup {"receiver"}
          /\ startupError' = TRUE /\ UNCHANGED running
    /\ UNCHANGED <<phase, applying, desired, workers, disk, sourceVars>>

\* output, mouse and returns: prepared and activated in one go.
LoadPart(p) ==
    /\ step = Loads[p]
    /\ step' = Following[step]
    /\ \/ running' = [running EXCEPT ![p] = desired] /\ UNCHANGED failed
       \/ failed' = failed \cup {p} /\ UNCHANGED running
    /\ UNCHANGED <<phase, applying, desired, startupError, workers, disk,
                   sourceVars>>

\* The returns' worker is started, the kinds of sources and the menu registered.
Start ==
    /\ step = "start"
    /\ phase' = "run" /\ step' = "idle"
    /\ UNCHANGED <<applying, memory, workers, disk, sourceVars>>

------------------------------------------------------------------------------
(***************************************************************************)
(* The dialog's Apply: everything is prepared, the receiver checked, the file *)
(* saved, and only then anything changed.                                     *)
(***************************************************************************)
ApplyBegin(c) ==
    /\ phase \in {"run", "exit"} /\ step = "idle" /\ visiting = Nobody
    /\ applying' = [cfg |-> c, late |-> stopping]
    /\ step' = "prepareOutput"
    /\ UNCHANGED <<phase, memory, workers, disk, sourceVars>>

\* Apply returns false: the prepared sockets and sessions are destroyed.
Refuse ==
    /\ step' = "idle" /\ applying' = Idle
    /\ UNCHANGED <<phase, memory, workers, disk, sourceVars>>

\* Mutant: the returns are prepared without asking whether their worker lives.
AcceptsAlways(p) == TRUE

\* "Monitor return worker stopped. Restart OBS."
Accepts(p) == p = "returns" => ~stopping

Prepare(p) ==
    /\ step = Prepares[p]
    /\ \/ /\ Accepts(p)
          /\ step' = Following[step]
          /\ UNCHANGED <<phase, applying, memory, workers, disk, sourceVars>>
       \/ Refuse

\* Receiver::configure up to the bound socket.
CheckReceiver ==
    /\ step = "checkReceiver"
    /\ \/ /\ ~receiverStopped
          /\ step' = Following[step]
          /\ UNCHANGED <<phase, applying, memory, workers, disk, sourceVars>>
       \/ Refuse

\* Mutant: an Apply that could not be saved goes on.
SaveBlindly ==
    /\ step = "save"
    /\ step' = Following[step]
    /\ file' \in {file, applying.cfg}
    /\ UNCHANGED <<phase, applying, memory, workers, promised, cut, sourceVars>>

\* write_config replaces the file as a whole or leaves it alone.
Save ==
    /\ step = "save"
    /\ \/ /\ file' = applying.cfg
          /\ step' = Following[step]
          /\ UNCHANGED <<phase, applying, memory, workers, promised, cut,
                         sourceVars>>
       \/ Refuse

\* The rest of configure; activate of the others.  Activating the mouse return
\* first cancels program_mouse's drag.
Activate(p) ==
    /\ step = Activates[p]
    /\ running' = [running EXCEPT ![p] = applying.cfg]
    /\ step' = Following[step]
    /\ UNCHANGED <<phase, applying, desired, startupError, failed, workers, disk,
                   sourceVars>>

\* The configuration is desired_config now, the sources' properties are due.
Record ==
    /\ step = "record"
    /\ desired' = applying.cfg /\ startupError' = FALSE /\ failed' = {}
    /\ toVisit' = {s \in Sources : state[s] \in {"live", "dying", "detached"}}
    /\ step' = Following[step]
    /\ UNCHANGED <<phase, applying, running, workers, disk, state, holders, slot,
                   consumers, stale, workerVars, visiting>>

\* "Settings saved."
Report ==
    /\ step = "refresh" /\ toVisit = {} /\ visiting = Nobody
    /\ promised' = applying.cfg /\ cut' = applying.cfg
    /\ step' = "idle" /\ applying' = Idle
    /\ UNCHANGED <<phase, memory, workers, file, sourceVars>>

------------------------------------------------------------------------------
\* The returns' worker throws; a receiver's thread fails.
ReturnsFail ==
    /\ phase = "run" /\ ~stopping
    /\ stopping' = TRUE
    /\ UNCHANGED <<phase, step, applying, memory, receiverStopped, disk,
                   sourceVars>>

ReceiverFails ==
    /\ phase # "off" /\ ~receiverStopped
    /\ receiverStopped' = TRUE
    /\ UNCHANGED <<phase, step, applying, memory, stopping, disk, sourceVars>>

\* OBS_FRONTEND_EVENT_EXIT: program_mouse is deleted, output and returns shut
\* down, the dialog closed; the receiver goes on for the sources.
Exit ==
    /\ phase = "run" /\ step = "idle" /\ visiting = Nobody
    /\ phase' = "exit"
    /\ running' = [running EXCEPT !["output"] = Stopped, !["returns"] = Stopped]
    /\ stopping' = TRUE
    /\ UNCHANGED <<step, applying, desired, startupError, failed,
                   receiverStopped, disk, sourceVars>>

\* obs_module_unload, when OBS has freed all sources; shutdown joins the audio
\* thread at the end of its pass.
Unload ==
    /\ phase = "exit" /\ step = "idle" /\ worker = "pull"
    /\ \A s \in Sources : state[s] \in {"none", "gone"}
    /\ End
    /\ UNCHANGED disk

\* OBS crashes, or the load throws and everything is reset.
Crash ==
    /\ phase # "off"
    /\ cut' = IF phase # "load" /\ step # "idle" THEN applying.cfg ELSE cut
    /\ End
    /\ UNCHANGED <<file, promised>>

------------------------------------------------------------------------------
Load == Read \/ LoadReceiver \/ (\E p \in DOMAIN Loads : LoadPart(p)) \/ Start

Apply == \/ \E c \in Configs : ApplyBegin(c)
         \/ \E p \in DOMAIN Prepares : Prepare(p)
         \/ CheckReceiver \/ Save
         \/ \E p \in Parts : Activate(p)
         \/ Record \/ Report

\* OBS creates and removes sources while the plugin is loaded, and updates them
\* in the user interface thread; blocks come out of the slots.
SourceEvent ==
    \/ \E s \in Sources :
         \/ Remove(s)
         \/ /\ phase \in {"run", "exit"}
            /\ \E i \in Slots \cup {Unselected} :
                 Create(s, i) \/ (step = "idle" /\ Update(s, i))
    \/ phase # "off" /\ ~receiverStopped /\ \E i \in Slots : PullBlock(i)

SourceStep == SourceEvent \/ Worker \/ Destruction \/ Visiting

Next == \/ Load \/ Apply \/ ReturnsFail \/ ReceiverFails \/ Exit \/ Unload
        \/ Crash
        \/ SourceStep /\ UNCHANGED pluginVars

Spec == Init /\ [][Next]_vars

\* The audio thread finishes its pass, OBS' destruction thread serves its queue,
\* and the user interface thread lets go of what it visits; nobody has to
\* remove or apply anything.
FairSpec ==
    /\ Spec
    /\ WF_vars(Worker /\ UNCHANGED pluginVars)
    /\ WF_vars(Visiting /\ UNCHANGED pluginVars)
    /\ \A s \in Sources :
         WF_vars((Detach(s) \/ Erase(s)) /\ UNCHANGED pluginVars)

------------------------------------------------------------------------------
\* Between two calls of the user every part runs the configuration the dialog
\* shows, or, since the load, nothing at all; the properties say that saved
\* settings are not active exactly when the receiver is such a part.  So a
\* refused Apply leaves no part on the new configuration, whatever fails and
\* wherever ("Rejected edits retain the active configuration",
\* docs/MONITOR-RETURN-ENGINEERING.md:6; plugin-main.cpp:155-163).
AllOrNothing ==
    phase = "run" /\ step = "idle" =>
      /\ \A p \in Parts :
           running[p] = IF p \in failed THEN Stopped ELSE desired
      /\ startupError <=> "receiver" \in failed

\* The settings file is what the user was last told is saved, or what an Apply
\* saved that a crash cut off, and what is loaded from it is run: no refused
\* Apply, no failed write and no crash changes it (receiver.cpp:135,
\* settings.cpp:143).
SettingsSurvive ==
    step = "idle" =>
      /\ file \in {promised, cut}
      /\ phase = "run" /\ ~startupError =>
           desired = IF file = Absent THEN Default ELSE file

\* An Apply begun after the returns' worker has stopped is refused before it
\* changes anything; after EXIT, where program_mouse is gone and the dialog can
\* still be opened, this is what keeps Apply from using program_mouse and from
\* starting the output again (monitor-return.cpp:289, plugin-main.cpp:157).
NothingRevived ==
    /\ applying.late =>
         step \in {"prepareOutput", "prepareMouse", "prepareReturns"}
    /\ phase = "exit" =>
         /\ step # "activateMouse"
         /\ running["output"] = Stopped /\ running["returns"] = Stopped

\* A source that OBS has dropped is destroyed: neither the audio thread nor the
\* user interface keeps its reference (plugin-main.cpp:91, 119, 149).  Applies
\* must not come one after the other for ever: a refresh and the audio thread
\* could then take turns in holding the source.
SourcesGoAway ==
    <>[](step # "refresh") =>
      \A s \in Sources :
        (phase # "off" /\ holders[s] # {} /\ "obs" \notin holders[s])
          ~> (phase = "off" \/ state[s] = "gone")

==============================================================================
