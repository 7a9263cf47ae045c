------------------------------ MODULE PluginProofs ------------------------------
(***************************************************************************)
(* An Apply changes every part or none, the settings file survives refusals  *)
(* and crashes, and nothing is started again after EXIT: for any             *)
(* configurations and sources, any number of Applies, failures, crashes and   *)
(* loads.                                                                     *)
(***************************************************************************)
EXTENDS Plugin, TLAPS

------------------------------------------------------------------------------
(***************************************************************************)
(* The sources.  A source that OBS destroys is never played to, and at most   *)
(* one block of an old slot is heard after an update: for any number of        *)
(* sources and slots.  The lemmas are about the steps of AudioSource alone, as  *)
(* the plugin's own steps leave the sources as they are, or end them all.      *)
(***************************************************************************)
SourceStates == {"none", "live", "dying", "detached", "gone"}

\* A source lives as long as it is held, and who uses it holds it.
HoldersInv ==
    /\ state \in [Sources -> SourceStates]
    /\ holders \in [Sources -> SUBSET {"obs", "ui", "audio"}]
    /\ \A s \in Sources : holders[s] # {} <=> state[s] = "live"
    /\ visiting # Nobody => visiting \in Sources /\ "ui" \in holders[visiting]
    /\ worker \in {"upgrade", "output"} => called \in Sources
    /\ worker = "output" => "audio" \in holders[called]

\* Once a source has had its block of an old slot, whatever it is called with
\* until the next update is of its slot.
StaleInv ==
    /\ slot \in [Sources -> Slots \cup {Unselected}]
    /\ stale \in [Sources -> {0, 1}]
    /\ \A s \in Sources : stale[s] = 1 =>
         /\ state[s] # "none"
         /\ worker \in {"upgrade", "output"} /\ called = s => slot[s] = block

SourceInv == HoldersInv /\ StaleInv

------------------------------------------------------------------------------
\* There are no sources at first.
LEMMA SourceInitInv == SourceInit => SourceInv
  BY DEF SourceInit, SourceInv, HoldersInv, StaleInv, SourceStates

\* The same holds once the process has ended.
LEMMA SourceEndInv == SourceEnd => SourceInv'
  BY DEF SourceEnd, SourceInv, HoldersInv, StaleInv, SourceStates

\* The user interface creates, updates, visits and removes sources; whoever
\* lets go of a source that another still holds leaves it alive.
LEMMA UserInv ==
    ASSUME SourceInv, NEW s \in Sources, NEW i \in Slots \cup {Unselected},
           \/ Create(s, i) \/ Update(s, i) \/ Visit(s) \/ Visited \/ Remove(s)
    PROVE  SourceInv'
<1>1. CASE Create(s, i)
  BY <1>1 DEF SourceInv, HoldersInv, StaleInv, SourceStates, Create, Hold,
              workerVars, visitVars
<1>2. CASE Update(s, i)
  <2>1. HoldersInv'
    BY <1>2, SourceAssumption
       DEF SourceInv, HoldersInv, Update, Hold, Upgrade, workerVars
  <2>2. StaleInv'
    BY <1>2 DEF SourceInv, StaleInv, Update, workerVars
  <2> QED
    BY <2>1, <2>2 DEF SourceInv
<1>3. CASE Visit(s)
  BY <1>3, SourceAssumption
     DEF SourceInv, HoldersInv, StaleInv, Visit, Hold, Upgrade, workerVars
<1>4. CASE Visited
  <2>1. HoldersInv'
    BY <1>4 DEF SourceInv, HoldersInv, Visited, Release, SourceStates, workerVars
  <2>2. StaleInv'
    BY <1>4 DEF SourceInv, HoldersInv, StaleInv, Visited, Release, workerVars
  <2> QED
    BY <2>1, <2>2 DEF SourceInv
<1>5. CASE Remove(s)
  <2>1. HoldersInv'
    BY <1>5 DEF SourceInv, HoldersInv, Remove, Release, SourceStates, workerVars,
                visitVars
  <2>2. StaleInv'
    BY <1>5 DEF SourceInv, HoldersInv, StaleInv, Remove, Release, workerVars,
                visitVars
  <2> QED
    BY <2>1, <2>2 DEF SourceInv
<1> QED
  BY <1>1, <1>2, <1>3, <1>4, <1>5

\* The destruction thread serves only sources that nobody holds.
LEMMA DestructionInv ==
    ASSUME SourceInv, NEW s \in Sources, Detach(s) \/ Erase(s)
    PROVE  SourceInv'
<1>1. CASE Detach(s)
  BY <1>1 DEF SourceInv, HoldersInv, StaleInv, SourceStates, Detach, workerVars,
              visitVars
<1>2. CASE Erase(s)
  BY <1>2 DEF SourceInv, HoldersInv, StaleInv, SourceStates, Erase, workerVars,
              visitVars
<1> QED
  BY <1>1, <1>2

\* The audio thread compares the slot, takes its reference, and only then
\* outputs; it adds to the blocks of an old slot only what was compared before
\* the last update.
LEMMA WorkerInv ==
    ASSUME SourceInv, Worker \/ \E i \in Slots : PullBlock(i)
    PROVE  SourceInv'
<1>1. CASE CopyConsumers \/ PassOver \/ \E i \in Slots : PullBlock(i)
  BY <1>1 DEF SourceInv, HoldersInv, StaleInv, CopyConsumers, PassOver,
              PullBlock, visitVars
<1>2. ASSUME NEW s \in Sources, Call(s) PROVE SourceInv'
  BY <1>2 DEF SourceInv, HoldersInv, StaleInv, Call, Selects, visitVars
<1>3. CASE CallUpgrade
  <2>1. HoldersInv'
    BY <1>3 DEF SourceInv, HoldersInv, CallUpgrade, Hold, Upgrade, visitVars
  <2>2. StaleInv'
    BY <1>3 DEF SourceInv, StaleInv, CallUpgrade, visitVars
  <2> QED
    BY <2>1, <2>2 DEF SourceInv
<1>4. CASE Output
  <2>1. HoldersInv'
    BY <1>4 DEF SourceInv, HoldersInv, Output, Release, SourceStates, visitVars
  <2>2. StaleInv'
    BY <1>4 DEF SourceInv, HoldersInv, StaleInv, Output, Release, visitVars
  <2> QED
    BY <2>1, <2>2 DEF SourceInv
<1> QED
  BY <1>1, <1>2, <1>3, <1>4 DEF Worker

\* Nothing but the sources and the audio thread matters.
LEMMA UnchangedInv == SourceInv /\ UNCHANGED <<state, holders, slot, stale,
                                   workerVars, visiting>> => SourceInv'
  BY DEF SourceInv, HoldersInv, StaleInv, workerVars

\* What the two properties of the sources say follows.
LEMMA SourceProperties == SourceInv => NoDeadOutput /\ AtMostOneOldBlock
  BY DEF SourceInv, HoldersInv, StaleInv, NoDeadOutput, AtMostOneOldBlock

------------------------------------------------------------------------------
(***************************************************************************)
(* The plugin's phases and steps.                                             *)
(***************************************************************************)
LoadSteps == {"loadReceiver", "loadOutput", "loadMouse", "loadReturns", "start"}
PrepareSteps == {"prepareOutput", "prepareMouse", "prepareReturns"}
ChangeSteps == {"commit", "activateOutput", "activateMouse", "activateReturns",
                "record"}
ApplySteps == PrepareSteps \cup {"checkReceiver", "save", "refresh"}
                \cup ChangeSteps

\* The parts obs_module_load has still to start.
Unloaded == {p \in Parts :
    \/ step = "loadReceiver"
    \/ step = "loadOutput" /\ p # "receiver"
    \/ step = "loadMouse" /\ p \in {"mouse", "returns"}
    \/ step = "loadReturns" /\ p = "returns"}

\* The parts Apply has already changed.
Changed == {p \in Parts :
    \/ step \in {"activateOutput", "activateMouse", "activateReturns", "record"}
         /\ p = "receiver"
    \/ step \in {"activateMouse", "activateReturns", "record"} /\ p = "output"
    \/ step \in {"activateReturns", "record"} /\ p = "mouse"
    \/ step = "record" /\ p = "returns"}

\* Where the user interface thread can be in which phase.
StepInv ==
    /\ phase \in {"off", "load", "run", "exit"}
    /\ phase = "off" => step = "idle"
    /\ phase = "load" => step \in LoadSteps
    /\ phase = "run" => step \in {"idle"} \cup ApplySteps
    /\ phase = "exit" => step \in {"idle"} \cup PrepareSteps
    /\ applying \in [cfg : Configs, late : BOOLEAN]
    /\ stopping \in BOOLEAN
    /\ phase = "exit" => stopping
    /\ applying.late => stopping /\ step \in PrepareSteps

\* What every part runs, in the middle of a load or of an Apply as well.
RunningInv ==
    /\ desired \in Configs
    /\ startupError \in BOOLEAN
    /\ running \in [Parts -> Configs \cup {Stopped}]
    /\ failed \subseteq Parts
    /\ phase = "off" => failed = {} /\ \A p \in Parts : running[p] = Stopped
    /\ phase = "load" =>
         /\ failed \cap Unloaded = {}
         /\ \A p \in Parts :
              running[p] = IF p \in failed \cup Unloaded THEN Stopped
                                                         ELSE desired
    /\ phase = "run" =>
         \A p \in Parts :
           running[p] = IF p \in Changed THEN applying.cfg
                        ELSE IF p \in failed THEN Stopped ELSE desired
    /\ phase \in {"load", "run"} /\ step # "loadReceiver" =>
         (startupError <=> "receiver" \in failed)
    /\ phase = "exit" =>
         running["output"] = Stopped /\ running["returns"] = Stopped

\* What the file holds before, between and after the save and the report.
FileInv ==
    /\ file \in Configs \cup {Absent, Damaged}
    /\ phase = "off" => file \in {promised, cut}
    /\ phase # "off" /\ step \notin ChangeSteps \cup {"refresh"} =>
         file = promised
    /\ step \in ChangeSteps \cup {"refresh"} => file = applying.cfg
    /\ phase # "off" /\ step \notin ChangeSteps /\ ~startupError =>
         desired = IF file = Absent THEN Default ELSE file

IInv == StepInv /\ RunningInv /\ FileInv

------------------------------------------------------------------------------
\* The order of the calls, as it is written down in Following.
LEMMA Order ==
    /\ Following["loadReceiver"] = "loadOutput"
    /\ Following["loadOutput"] = "loadMouse"
    /\ Following["loadMouse"] = "loadReturns"
    /\ Following["loadReturns"] = "start"
    /\ Following["prepareOutput"] = "prepareMouse"
    /\ Following["prepareMouse"] = "prepareReturns"
    /\ Following["prepareReturns"] = "checkReceiver"
    /\ Following["checkReceiver"] = "save"
    /\ Following["save"] = "commit"
    /\ Following["commit"] = "activateOutput"
    /\ Following["activateOutput"] = "activateMouse"
    /\ Following["activateMouse"] = "activateReturns"
    /\ Following["activateReturns"] = "record"
    /\ Following["record"] = "refresh"
  BY DEF Following

\* The step at which each part is loaded, prepared or activated.
LEMMA PartSteps ==
    /\ DOMAIN Loads = {"output", "mouse", "returns"}
    /\ Loads["output"] = "loadOutput" /\ Loads["mouse"] = "loadMouse"
    /\ Loads["returns"] = "loadReturns"
    /\ DOMAIN Prepares = {"output", "mouse", "returns"}
    /\ Prepares["output"] = "prepareOutput" /\ Prepares["mouse"] = "prepareMouse"
    /\ Prepares["returns"] = "prepareReturns"
    /\ Activates["receiver"] = "commit"
    /\ Activates["output"] = "activateOutput"
    /\ Activates["mouse"] = "activateMouse"
    /\ Activates["returns"] = "activateReturns"
  BY DEF Loads, Prepares, Activates

\* No process: the invariant holds if the file is accounted for.
LEMMA InitInv == Init => IInv
<1> SUFFICES ASSUME Init PROVE IInv
  OBVIOUS
<1>1. StepInv
  BY PluginAssumption DEF Init, StepInv, Idle, ChangeSteps
<1>2. RunningInv
  BY PluginAssumption DEF Init, RunningInv
<1>3. FileInv
  BY DEF Init, FileInv, ChangeSteps
<1> QED
  BY <1>1, <1>2, <1>3 DEF IInv

\* A process that ends leaves nothing but a file accounted for.
LEMMA EndInv ==
    ASSUME End, file' = file, file \in Configs \cup {Absent, Damaged},
           file \in {promised', cut'}
    PROVE  IInv'
<1>1. StepInv'
  BY PluginAssumption DEF End, StepInv, Idle, ChangeSteps
<1>2. RunningInv'
  BY PluginAssumption DEF End, RunningInv
<1>3. FileInv'
  BY DEF End, FileInv, ChangeSteps
<1> QED
  BY <1>1, <1>2, <1>3 DEF IInv

\* A load begins with no part started and the desired configuration read.
LEMMA ReadInv == ASSUME IInv, Read PROVE IInv'
<1>1. StepInv'
  BY DEF IInv, StepInv, Read, LoadSteps, PrepareSteps, workers
<1>2. RunningInv'
  BY PluginAssumption
     DEF IInv, RunningInv, Read, Parts, Unloaded, workers
<1>3. FileInv'
  BY PluginAssumption DEF IInv, FileInv, Read, ChangeSteps
<1> QED
  BY <1>1, <1>2, <1>3 DEF IInv

\* The receiver is the first part to be started, or to be left out.
LEMMA LoadReceiverInv == ASSUME IInv, LoadReceiver PROVE IInv'
<1>0. phase = "load" /\ step' = "loadOutput"
  BY Order DEF IInv, StepInv, LoadReceiver, ApplySteps, PrepareSteps, ChangeSteps
<1>1. StepInv'
  BY <1>0 DEF IInv, StepInv, LoadReceiver, LoadSteps, PrepareSteps, workers
<1>2. RunningInv'
  <2>1. Unloaded = Parts /\ Unloaded' = Parts \ {"receiver"}
    BY <1>0 DEF LoadReceiver, Parts, Unloaded
  <2>2. CASE /\ ~startupError /\ UNCHANGED <<failed, startupError>>
             /\ running' = [running EXCEPT !["receiver"] = desired]
    BY <1>0, <2>1, <2>2 DEF IInv, RunningInv, LoadReceiver, Parts
  <2>3. CASE /\ failed' = failed \cup {"receiver"}
             /\ startupError' = TRUE /\ UNCHANGED running
    BY <1>0, <2>1, <2>3 DEF IInv, RunningInv, LoadReceiver, Parts
  <2> QED
    BY <2>2, <2>3 DEF LoadReceiver
<1>3. FileInv'
  BY <1>0 DEF IInv, FileInv, LoadReceiver, ChangeSteps, disk
<1> QED
  BY <1>1, <1>2, <1>3 DEF IInv

\* The other parts are started, or left out, one by one.
LEMMA LoadPartInv ==
    ASSUME IInv, NEW p \in DOMAIN Loads, LoadPart(p) PROVE IInv'
<1>0. /\ phase = "load"
      /\ \/ p = "output" /\ step = "loadOutput" /\ step' = "loadMouse"
         \/ p = "mouse" /\ step = "loadMouse" /\ step' = "loadReturns"
         \/ p = "returns" /\ step = "loadReturns" /\ step' = "start"
  BY Order, PartSteps
     DEF IInv, StepInv, LoadPart, ApplySteps, PrepareSteps, ChangeSteps
<1>1. StepInv'
  BY <1>0 DEF IInv, StepInv, LoadPart, LoadSteps, PrepareSteps, workers
<1>2. RunningInv'
  <2>1. p \in Unloaded \ {"receiver"} /\ Unloaded' = Unloaded \ {p}
    BY <1>0 DEF LoadPart, Parts, Unloaded
  <2>2. CASE running' = [running EXCEPT ![p] = desired] /\ UNCHANGED failed
    BY <1>0, <2>1, <2>2 DEF IInv, RunningInv, LoadPart, Parts
  <2>3. CASE failed' = failed \cup {p} /\ UNCHANGED running
    BY <1>0, <2>1, <2>3 DEF IInv, RunningInv, LoadPart, Parts
  <2> QED
    BY <2>2, <2>3 DEF LoadPart
<1>3. FileInv'
  BY <1>0 DEF IInv, FileInv, LoadPart, ChangeSteps, disk
<1> QED
  BY <1>1, <1>2, <1>3 DEF IInv

\* Every part has been tried when the plugin starts to run.
LEMMA StartInv == ASSUME IInv, Start PROVE IInv'
<1>0. phase = "load"
  BY DEF IInv, StepInv, Start, ApplySteps, PrepareSteps, ChangeSteps
<1>1. StepInv'
  BY <1>0 DEF IInv, StepInv, Start, PrepareSteps, workers
<1>2. RunningInv'
  BY <1>0 DEF IInv, RunningInv, Start, Parts, Unloaded, Changed, memory
<1>3. FileInv'
  BY <1>0 DEF IInv, FileInv, Start, ChangeSteps, disk, memory
<1> QED
  BY <1>1, <1>2, <1>3 DEF IInv

\* Apply begins with nothing changed.
LEMMA ApplyBeginInv == ASSUME IInv, NEW c \in Configs, ApplyBegin(c) PROVE IInv'
<1>1. StepInv'
  BY DEF IInv, StepInv, ApplyBegin, ApplySteps, PrepareSteps, workers
<1>2. RunningInv'
  BY DEF IInv, RunningInv, ApplyBegin, Parts, Changed, memory
<1>3. FileInv'
  BY DEF IInv, FileInv, ApplyBegin, ChangeSteps, disk, memory
<1> QED
  BY <1>1, <1>2, <1>3 DEF IInv

\* Before the save a refusal leaves everything as it was.
LEMMA RefuseInv ==
    ASSUME IInv, Refuse, step \in PrepareSteps \cup {"checkReceiver", "save"}
    PROVE  IInv'
<1>0. phase \in {"run", "exit"}
  BY DEF IInv, StepInv, LoadSteps, PrepareSteps
<1>1. StepInv'
  BY <1>0, PluginAssumption DEF IInv, StepInv, Refuse, Idle, workers
<1>2. RunningInv'
  BY <1>0
     DEF IInv, RunningInv, Refuse, Parts, Changed, PrepareSteps, memory
<1>3. FileInv'
  BY <1>0 DEF IInv, FileInv, Refuse, ChangeSteps, PrepareSteps, disk, memory
<1> QED
  BY <1>1, <1>2, <1>3 DEF IInv

\* A part may be prepared, or refuse; the returns refuse once their worker has
\* stopped, which keeps a late Apply, and one after EXIT, from going on.
LEMMA PrepareInv ==
    ASSUME IInv, NEW p \in DOMAIN Prepares, Prepare(p) PROVE IInv'
<1>0. /\ phase \in {"run", "exit"} /\ step \in PrepareSteps
      /\ \/ p = "output" /\ step = "prepareOutput"
         \/ p = "mouse" /\ step = "prepareMouse"
         \/ p = "returns" /\ step = "prepareReturns"
  BY PartSteps DEF IInv, StepInv, Prepare, LoadSteps, PrepareSteps
<1>1. CASE Refuse
  BY <1>0, <1>1, RefuseInv
<1>2. CASE /\ Accepts(p) /\ step' = Following[step]
           /\ UNCHANGED <<phase, applying, memory, workers, disk>>
  <2>0. \/ step' \in {"prepareMouse", "prepareReturns"}
        \/ step' = "checkReceiver" /\ ~stopping
    BY <1>0, <1>2, Order DEF Accepts
  <2>1. StepInv'
    BY <1>0, <1>2, <2>0
       DEF IInv, StepInv, ApplySteps, PrepareSteps, workers
  <2>2. RunningInv'
    BY <1>0, <1>2, <2>0
       DEF IInv, RunningInv, Changed, PrepareSteps, Parts, memory
  <2>3. FileInv'
    BY <1>0, <1>2, <2>0
       DEF IInv, FileInv, ChangeSteps, PrepareSteps, disk, memory
  <2> QED
    BY <2>1, <2>2, <2>3 DEF IInv
<1> QED
  BY <1>1, <1>2 DEF Prepare

\* The receiver is the last part to refuse.
LEMMA CheckReceiverInv == ASSUME IInv, CheckReceiver PROVE IInv'
<1>0. phase = "run" /\ step = "checkReceiver"
  BY DEF IInv, StepInv, CheckReceiver, LoadSteps, PrepareSteps
<1>1. CASE Refuse
  BY <1>0, <1>1, RefuseInv
<1>2. CASE /\ step' = "save"
           /\ UNCHANGED <<phase, applying, memory, workers, disk>>
  <2>1. StepInv'
    BY <1>0, <1>2 DEF IInv, StepInv, ApplySteps, PrepareSteps, workers
  <2>2. RunningInv'
    BY <1>0, <1>2 DEF IInv, RunningInv, Changed, Parts, memory
  <2>3. FileInv'
    BY <1>0, <1>2 DEF IInv, FileInv, ChangeSteps, disk, memory
  <2> QED
    BY <2>1, <2>2, <2>3 DEF IInv
<1> QED
  BY <1>0, <1>1, <1>2, Order DEF CheckReceiver

\* With the save the file is ahead of what runs.
LEMMA SaveInv == ASSUME IInv, Save PROVE IInv'
<1>0. phase = "run" /\ step = "save"
  BY DEF IInv, StepInv, Save, LoadSteps, PrepareSteps
<1>1. CASE Refuse
  BY <1>0, <1>1, RefuseInv
<1>2. CASE /\ file' = applying.cfg /\ step' = "commit"
           /\ UNCHANGED <<phase, applying, memory, workers, promised, cut>>
  <2>1. StepInv'
    BY <1>0, <1>2
       DEF IInv, StepInv, ApplySteps, PrepareSteps, ChangeSteps, workers
  <2>2. RunningInv'
    BY <1>0, <1>2 DEF IInv, RunningInv, Changed, Parts, memory
  <2>3. FileInv'
    BY <1>0, <1>2 DEF IInv, StepInv, FileInv, ChangeSteps
  <2> QED
    BY <2>1, <2>2, <2>3 DEF IInv
<1> QED
  BY <1>0, <1>1, <1>2, Order DEF Save

\* The parts are changed one by one, and nothing can stop that any more.
LEMMA ActivateInv == ASSUME IInv, NEW p \in Parts, Activate(p) PROVE IInv'
<1>0. /\ phase = "run"
      /\ \/ p = "receiver" /\ step = "commit" /\ step' = "activateOutput"
         \/ p = "output" /\ step = "activateOutput" /\ step' = "activateMouse"
         \/ p = "mouse" /\ step = "activateMouse" /\ step' = "activateReturns"
         \/ p = "returns" /\ step = "activateReturns" /\ step' = "record"
  BY Order, PartSteps
     DEF IInv, StepInv, Activate, Parts, LoadSteps, PrepareSteps
<1>1. StepInv'
  BY <1>0
     DEF IInv, StepInv, Activate, ApplySteps, PrepareSteps, ChangeSteps, workers
<1>2. RunningInv'
  <2>1. Changed' = Changed \cup {p}
    BY <1>0 DEF Changed, Parts
  <2>2. applying.cfg \in Configs
    BY DEF IInv, StepInv
  <2> QED
    BY <1>0, <2>1, <2>2 DEF IInv, RunningInv, Activate
<1>3. FileInv'
  BY <1>0 DEF IInv, FileInv, Activate, ChangeSteps, disk
<1> QED
  BY <1>1, <1>2, <1>3 DEF IInv

\* When the configuration is recorded every part runs it, also one that could
\* not be started before.
LEMMA RecordInv == ASSUME IInv, Record PROVE IInv'
<1>0. phase = "run" /\ step = "record" /\ step' = "refresh"
  BY Order DEF IInv, StepInv, Record, LoadSteps, PrepareSteps
<1>1. StepInv'
  BY <1>0 DEF IInv, StepInv, Record, ApplySteps, PrepareSteps, ChangeSteps,
              workers
<1>2. RunningInv'
  <2>1. Changed = Parts /\ Changed' = {}
    BY <1>0 DEF Changed, Parts
  <2>2. applying.cfg \in Configs
    BY DEF IInv, StepInv
  <2> QED
    BY <1>0, <2>1, <2>2 DEF IInv, RunningInv, Record
<1>3. FileInv'
  BY <1>0, PluginAssumption
     DEF IInv, StepInv, FileInv, Record, ChangeSteps, disk
<1> QED
  BY <1>1, <1>2, <1>3 DEF IInv

\* "Settings saved." is true.
LEMMA ReportInv == ASSUME IInv, Report PROVE IInv'
<1>0. phase = "run" /\ step = "refresh" /\ step' = "idle"
  BY DEF IInv, StepInv, Report, LoadSteps, PrepareSteps
<1>1. StepInv'
  BY <1>0, PluginAssumption DEF IInv, StepInv, Report, Idle, workers
<1>2. RunningInv'
  BY <1>0 DEF IInv, RunningInv, Report, Changed, Parts, memory
<1>3. FileInv'
  BY <1>0 DEF IInv, StepInv, FileInv, Report, ChangeSteps, memory
<1> QED
  BY <1>1, <1>2, <1>3 DEF IInv

\* A worker of the returns or of the receiver that fails changes nothing here.
LEMMA FailInv == ASSUME IInv, ReturnsFail \/ ReceiverFails PROVE IInv'
<1>1. StepInv'
  BY DEF IInv, StepInv, ReturnsFail, ReceiverFails
<1>2. RunningInv'
  BY DEF IInv, RunningInv, ReturnsFail, ReceiverFails, Unloaded, Changed, memory
<1>3. FileInv'
  BY DEF IInv, FileInv, ReturnsFail, ReceiverFails, disk, memory
<1> QED
  BY <1>1, <1>2, <1>3 DEF IInv

\* EXIT stops the output and the returns for good.
LEMMA ExitInv == ASSUME IInv, Exit PROVE IInv'
<1>1. StepInv'
  BY DEF IInv, StepInv, Exit, PrepareSteps
<1>2. RunningInv'
  BY DEF IInv, RunningInv, Exit, Parts
<1>3. FileInv'
  BY DEF IInv, FileInv, Exit, ChangeSteps, disk
<1> QED
  BY <1>1, <1>2, <1>3 DEF IInv

\* An Apply cut off has changed the file to what it was to save, or not at all.
LEMMA CrashInv == ASSUME IInv, Unload \/ Crash PROVE IInv'
<1>1. file' = file /\ file \in Configs \cup {Absent, Damaged}
  BY DEF IInv, FileInv, Unload, Crash, disk
<1>2. file \in {promised', cut'}
  <2>1. CASE Unload
    BY <2>1 DEF IInv, FileInv, Unload, ChangeSteps, disk
  <2>2. CASE Crash
    BY <2>2 DEF IInv, StepInv, FileInv, Crash, ChangeSteps, LoadSteps
  <2> QED
    BY <2>1, <2>2
<1> QED
  BY <1>1, <1>2, EndInv DEF Unload, Crash

\* The sources, the audio thread and a stutter leave the plugin alone.
LEMMA OthersInv == ASSUME IInv, UNCHANGED pluginVars PROVE IInv'
<1>1. StepInv'
  BY DEF IInv, StepInv, pluginVars, workers
<1>2. RunningInv'
  BY DEF IInv, RunningInv, pluginVars, Unloaded, Changed, memory
<1>3. FileInv'
  BY DEF IInv, FileInv, pluginVars, disk, memory
<1> QED
  BY <1>1, <1>2, <1>3 DEF IInv

------------------------------------------------------------------------------
\* Wherever the user interface thread is between two calls, each part runs what
\* it should there, and the file holds what it should.
THEOREM PluginInvariant == Spec => []IInv
<1>1. IInv /\ [Next]_vars => IInv'
  <2> SUFFICES ASSUME IInv, [Next]_vars PROVE IInv'
    OBVIOUS
  <2>1. CASE Load
    BY <2>1, ReadInv, LoadReceiverInv, LoadPartInv, StartInv DEF Load
  <2>2. CASE Apply
    BY <2>2, ApplyBeginInv, PrepareInv, CheckReceiverInv, SaveInv, ActivateInv,
       RecordInv, ReportInv DEF Apply
  <2>3. CASE ReturnsFail \/ ReceiverFails
    BY <2>3, FailInv
  <2>4. CASE Exit
    BY <2>4, ExitInv
  <2>5. CASE Unload \/ Crash
    BY <2>5, CrashInv
  <2>6. CASE UNCHANGED pluginVars
    BY <2>6, OthersInv
  <2>7. CASE UNCHANGED vars
    BY <2>7, OthersInv DEF vars
  <2> QED
    BY <2>1, <2>2, <2>3, <2>4, <2>5, <2>6, <2>7 DEF Next
<1> QED
  BY <1>1, InitInv, PTL DEF Spec

\* Apply is all or nothing: between two calls of the user every part runs the
\* configuration the dialog shows, but for those left out at load.
THEOREM AllOrNothingHolds == Spec => []AllOrNothing
<1>1. IInv => AllOrNothing
  BY DEF IInv, RunningInv, AllOrNothing, Changed, Parts
<1> QED
  BY <1>1, PluginInvariant, PTL

\* The settings file survives refused Applies, failed writes and crashes.
THEOREM SettingsSurviveHolds == Spec => []SettingsSurvive
<1>1. IInv => SettingsSurvive
  BY DEF IInv, FileInv, SettingsSurvive, ChangeSteps
<1> QED
  BY <1>1, PluginInvariant, PTL

\* An Apply that finds the returns' worker stopped changes nothing, and nothing
\* is started again after EXIT.
THEOREM NothingRevivedHolds == Spec => []NothingRevived
<1>1. IInv => NothingRevived
  BY DEF IInv, StepInv, RunningInv, NothingRevived, PrepareSteps
<1> QED
  BY <1>1, PluginInvariant, PTL

------------------------------------------------------------------------------
\* The sources, whatever the plugin does around them.
THEOREM SourceInvariant == Spec => []SourceInv
<1>1. Init => SourceInv
  BY SourceInitInv DEF Init
<1>2. SourceInv /\ [Next]_vars => SourceInv'
  <2> SUFFICES ASSUME SourceInv, [Next]_vars PROVE SourceInv'
    OBVIOUS
  <2>1. CASE SourceEvent
    <3>1. ASSUME NEW s \in Sources, Remove(s) PROVE SourceInv'
      BY <3>1, UserInv, Unselected \in Slots \cup {Unselected}
    <3>2. ASSUME NEW s \in Sources, NEW i \in Slots \cup {Unselected},
                 Create(s, i) \/ Update(s, i)
          PROVE  SourceInv'
      BY <3>2, UserInv
    <3>3. CASE \E i \in Slots : PullBlock(i)
      BY <3>3, WorkerInv
    <3> QED
      BY <2>1, <3>1, <3>2, <3>3 DEF SourceEvent
  <2>2. CASE Worker
    BY <2>2, WorkerInv
  <2>3. CASE Destruction
    BY <2>3, DestructionInv DEF Destruction
  <2>4. CASE Visiting
    <3>1. ASSUME NEW s \in Sources, Visit(s) PROVE SourceInv'
      BY <3>1, UserInv, Unselected \in Slots \cup {Unselected}
    <3>2. CASE Visited
      <4>1. visiting \in Sources
        BY <3>2 DEF SourceInv, HoldersInv, Visited
      <4> QED
        BY <3>2, <4>1, UserInv, Unselected \in Slots \cup {Unselected}
    <3> QED
      BY <2>4, <3>1, <3>2 DEF Visiting
  <2>5. CASE Unload \/ Crash
    BY <2>5, SourceEndInv DEF Unload, Crash, End
  <2>6. CASE UNCHANGED <<state, holders, slot, stale, workerVars, visiting>>
    BY <2>6, UnchangedInv
  <2>7. CASE Load
    BY <2>6, <2>7
       DEF Load, Read, LoadReceiver, LoadPart, Start, sourceVars, visitVars
  <2>8. CASE Apply
    <3>1. ASSUME NEW p \in DOMAIN Prepares, Prepare(p) PROVE UNCHANGED sourceVars
      BY <3>1 DEF Prepare, Refuse
    <3>2. ASSUME CheckReceiver \/ Save \/ Report PROVE UNCHANGED sourceVars
      BY <3>2 DEF CheckReceiver, Save, Report, Refuse
    <3>3. CASE Record
      BY <2>6, <3>3 DEF Record
    <3>4. ASSUME NEW c \in Configs, ApplyBegin(c) PROVE UNCHANGED sourceVars
      BY <3>4 DEF ApplyBegin
    <3>5. ASSUME NEW p \in Parts, Activate(p) PROVE UNCHANGED sourceVars
      BY <3>5 DEF Activate
    <3>6. CASE UNCHANGED sourceVars
      BY <2>6, <3>6 DEF sourceVars, visitVars
    <3> QED
      BY <2>8, <3>1, <3>2, <3>3, <3>4, <3>5, <3>6 DEF Apply
  <2>9. CASE ReturnsFail \/ ReceiverFails \/ Exit \/ UNCHANGED vars
    BY <2>6, <2>9
       DEF ReturnsFail, ReceiverFails, Exit, vars, sourceVars, visitVars
  <2> QED
    BY <2>1, <2>2, <2>3, <2>4, <2>5, <2>7, <2>8, <2>9 DEF Next, SourceStep
<1> QED
  BY <1>1, <1>2, PTL DEF Spec

\* Audio never goes to a source that OBS has begun to destroy.
THEOREM NoDeadOutputHolds == Spec => []NoDeadOutput
  BY SourceInvariant, SourceProperties, PTL

\* After an update at most one block of the old slot is still heard.
THEOREM AtMostOneOldBlockHolds == Spec => []AtMostOneOldBlock
  BY SourceInvariant, SourceProperties, PTL

============================================================================
