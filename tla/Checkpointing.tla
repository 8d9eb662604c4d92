--------------------------- MODULE Checkpointing ---------------------------
(***************************************************************************)
(* Checkpoints of the fully asynchronous trainer: when they are written    *)
(* (fully_async_trainer.py), in which order their parts and the tracker    *)
(* file reach the disk, which old ones are deleted on the way              *)
(* (utils/checkpoint/checkpoint_manager.py), and what a run that crashed   *)
(* at any of these points resumes from.  Weights are the number of actor   *)
(* updates in them.  The critic is saved like the actor, by a manager of   *)
(* its own, and is left out; so is the validation between steps.           *)
(* Operators introduced by "Slip:" are mistakes the properties notice.     *)
(***************************************************************************)
EXTENDS Integers, Sequences, FiniteSets

CONSTANTS
    TriggerSteps,  \* trigger_parameter_sync_step
    SaveFreq,      \* trainer.save_freq; 0 stands for "never"
    KeepMax,       \* max_actor_ckpt_to_keep; 0 stands for "all"
    MaxVersion,    \* bound: versions trained
    MaxCrashes     \* bound: crashes

TriggerAssumption == TriggerSteps \in Nat \ {0}
SavingAssumption  == SaveFreq \in Nat /\ KeepMax \in Nat
BoundsAssumption  == MaxVersion \in Nat \ {0} /\ MaxCrashes \in Nat

Versions == 1 .. MaxVersion
Torn == -1  \* a directory whose writing was begun and not finished

VARIABLES
    phase,       \* what the trainer is doing
    updates,     \* actor updates in the trainer's weights
    rolled,      \* actor updates in the rollouter's weights
    localStep,   \* local_trigger_step
    version,     \* current_param_version
    lastCkpt,    \* last_ckpt_version
    kept,        \* CheckpointManager.previous_saved_paths
    actor,       \* disk: per version 0 (nothing), Torn, or the weights
    data,        \* disk: versions whose dataloader state was written
    latest,      \* disk: version in latest_checkpointed_iteration.txt, or 0
    crashes      \* crashes so far

memory == <<updates, rolled, localStep, version, lastCkpt, kept>>
disk == <<actor, data, latest>>
vars == <<phase, memory, disk, crashes>>

Init ==
    /\ phase = "train" /\ crashes = 0
    /\ updates = 0 /\ rolled = 0 /\ localStep = 1 /\ version = 0 /\ lastCkpt = 0
    /\ kept = << >>
    /\ actor = [v \in Versions |-> 0] /\ data = {} /\ latest = 0

(* Slip: a cycle lasts one step too long. *)
NextLocalLate == IF localStep <= TriggerSteps THEN localStep + 1 ELSE 1
NextLocal == IF localStep < TriggerSteps THEN localStep + 1 ELSE 1

(* One training step; at the end of a cycle the rollouter gets the weights. *)
TrainStep ==
    LET next == NextLocal
    IN  /\ phase = "train" /\ (next = 1 => version < MaxVersion)
        /\ phase' = "stepDone"
        /\ updates' = updates + 1
        /\ localStep' = next
        /\ version' = IF next = 1 THEN version + 1 ELSE version
        /\ rolled' = IF next = 1 THEN updates + 1 ELSE rolled
        /\ UNCHANGED <<lastCkpt, kept, disk, crashes>>

(* The end of the stream.  The synchronisation that follows in fit returns  *)
(* at once inside a cycle, and repeats the last one between two.            *)
Stop ==
    /\ phase = "train" /\ phase' = "streamEnded"
    /\ UNCHANGED <<memory, disk, crashes>>

Final == phase = "streamEnded"
(* Slip: only the last step saves. *)
SaveDueAtTheEnd(esi) == version # lastCkpt /\ SaveFreq > 0 /\ Final
(* Slip: the last step is not saved by force. *)
SaveDueNotForced(esi) ==
    /\ version # lastCkpt /\ SaveFreq > 0
    /\ version % SaveFreq = 0 \/ esi
(* _fit_save_checkpoint; esi says that the instance is about to expire.     *)
SaveDue(esi) ==
    /\ version # lastCkpt /\ SaveFreq > 0
    /\ Final \/ version % SaveFreq = 0 \/ esi

After == IF phase \in {"streamEnded", "finalWrite", "finalData", "finalTracker"}
         THEN "done" ELSE "train"

SkipSave ==
    /\ phase \in {"stepDone", "streamEnded"}
    /\ \E esi \in BOOLEAN : ~SaveDue(esi)
    /\ phase' = After
    /\ UNCHANGED <<memory, disk, crashes>>

Dropped(s, n) == SubSeq(s, n + 1, Len(s))
Without(removed) == [v \in Versions |-> IF v \in removed THEN 0 ELSE actor[v]]
First(s, n) == {s[i] : i \in 1 .. n}

(* ensure_checkpoint_capacity: how many of the oldest go before the save.   *)
Room ==
    IF KeepMax > 1 /\ Len(kept) >= KeepMax THEN Len(kept) - KeepMax + 1 ELSE 0

BeginSave ==
    /\ phase \in {"stepDone", "streamEnded"}
    /\ \E esi \in BOOLEAN : SaveDue(esi)
    /\ phase' = IF Final THEN "finalWrite" ELSE "write"
    /\ kept' = Dropped(kept, Room)
    /\ actor' = [Without(First(kept, Room)) EXCEPT ![version] = Torn]
    /\ UNCHANGED <<updates, rolled, localStep, version, lastCkpt, data, latest, crashes>>

(* The actor is on disk; register_checkpoint deletes what is too much.      *)
WriteActor ==
    LET all == Append(kept, version)
        excess == IF KeepMax > 0 /\ Len(all) > KeepMax THEN Len(all) - KeepMax ELSE 0
    IN  /\ phase \in {"write", "finalWrite"}
        /\ phase' = IF phase = "write" THEN "data" ELSE "finalData"
        /\ kept' = Dropped(all, excess)
        /\ actor' = [v \in Versions |->
               IF v \in First(all, excess) THEN 0
               ELSE IF v = version THEN updates ELSE actor[v]]
        /\ UNCHANGED <<updates, rolled, localStep, version, lastCkpt, data, latest, crashes>>

(* The rollouter's dataloader state. *)
WriteData ==
    /\ phase \in {"data", "finalData"}
    /\ phase' = IF phase = "data" THEN "tracker" ELSE "finalTracker"
    /\ data' = data \cup {version}
    /\ UNCHANGED <<memory, actor, latest, crashes>>

WriteTracker ==
    /\ phase \in {"tracker", "finalTracker"} /\ phase' = After
    /\ latest' = version /\ lastCkpt' = version
    /\ UNCHANGED <<updates, rolled, localStep, version, kept, actor, data, crashes>>

(* The process dies; what it had in memory is gone.                         *)
Crash ==
    /\ phase # "down" /\ phase # "done" /\ crashes < MaxCrashes
    /\ phase' = "down" /\ crashes' = crashes + 1
    /\ UNCHANGED <<memory, disk>>

(* Slip: the resumed version does not count as saved. *)
ResumedUnsaved == 0
ResumedLastCkpt == latest
(* Slip: the rollouter keeps the weights it started with. *)
ResumedRolledNot == 0
ResumedRolled == IF latest = 0 THEN 0 ELSE actor[latest]

(* load_checkpoint with resume_mode auto, and the synchronisation before    *)
(* fit.  Loading fails if the directory the tracker names is not whole.     *)
Restart ==
    /\ phase = "down" /\ phase' = "train"
    /\ latest # 0 => actor[latest] > 0
    /\ version' = latest /\ lastCkpt' = ResumedLastCkpt /\ localStep' = 1
    /\ updates' = IF latest = 0 THEN 0 ELSE actor[latest]
    /\ rolled' = ResumedRolled
    /\ kept' = << >>
    /\ UNCHANGED <<disk, crashes>>

Next == \/ TrainStep \/ Stop \/ SkipSave \/ BeginSave \/ WriteActor \/ WriteData
        \/ WriteTracker \/ Crash \/ Restart

Spec == Init /\ [][Next]_vars

-----------------------------------------------------------------------------
(* Type correctness. *)
TypeOK ==
    /\ phase \in {"train", "stepDone", "streamEnded", "write", "data", "tracker",
                  "finalWrite", "finalData", "finalTracker", "down", "done"}
    /\ updates \in Nat /\ rolled \in 0 .. updates
    /\ localStep \in 1 .. TriggerSteps
    /\ version \in 0 .. MaxVersion /\ lastCkpt \in 0 .. version
    /\ kept \in Seq(Versions)
    /\ actor \in [Versions -> Nat \cup {Torn}]
    /\ data \subseteq Versions /\ latest \in 0 .. MaxVersion
    /\ crashes \in 0 .. MaxCrashes

(* Whatever moment a crash comes at, the checkpoint the tracker names can   *)
(* be loaded: it is whole, not deleted to make room and not being written   *)
(* a second time.                                                           *)
TrackerIsLoadable == latest # 0 => actor[latest] > 0 /\ latest \in data

(* Between two steps fewer than SaveFreq versions are at risk, also after   *)
(* any number of crashes.                                                   *)
FewVersionsAtRisk == phase = "train" /\ SaveFreq > 0 => version - latest < SaveFreq

(* The rollouter generates with the weights of the last synchronisation:    *)
(* it lags behind the trainer by the local steps of the running cycle, and  *)
(* by nothing after a restart.                                              *)
RollouterLagsByTheCycle == phase = "train" => updates - rolled = localStep - 1

(* A run that ends between two cycles leaves its last weights on disk.      *)
WholeCyclesAreSaved ==
    phase = "done" /\ localStep = 1 /\ SaveFreq > 0 /\ version > 0
        => latest = version /\ actor[latest] = updates
=============================================================================
