--------------------------- MODULE CheckpointFiles ---------------------------
(***************************************************************************)
(* The checkpoint folders of the PPO/OPD trainer (ray_trainer.py) and their*)
(* rotation by the checkpoint managers of the actor and the critic, with   *)
(* crashes between any two steps of a save and the resume that follows.    *)
(*                                                                         *)
(* On disk: global_step_N/<role> for each role, global_step_N/data.pt, and *)
(* the tracker file with the last step.  In memory, and lost in a crash:   *)
(* each manager's previous_saved_paths and the trainer's position.  What   *)
(* the ranks write between two barriers is one write of the folder, and a  *)
(* folder is removed in one step.                                          *)
(***************************************************************************)
EXTENDS Integers, Sequences, FiniteSets

CONSTANTS
  Roles,              \* the sequence of roles: <<"actor">>, or the critic too
  Keeps,              \* possible max_ckpt_to_keep of the roles, 0 for None
  steps_per_epoch,    \* len(train_dataloader)
  total_epochs,
  total_training_steps,
  save_freq,
  critic_warmup,
  MaxCrashes          \* bounds the crashes

RoleSet == {Roles[i] : i \in 1 .. Len(Roles)}
\* A job that resumes from its last step makes one more.
Steps == 1 .. total_training_steps + MaxCrashes
Torn == -1            \* a tracker file that was truncated and not written
NoStep == 0           \* no tracker file

ASSUME FilesAssumption ==
  /\ Roles \in Seq(STRING) /\ Len(Roles) > 0 /\ "data" \notin RoleSet
  /\ \A i, j \in 1 .. Len(Roles) : Roles[i] = Roles[j] => i = j
  /\ Keeps \subseteq [RoleSet -> Nat]
  /\ steps_per_epoch \in Nat \ {0} /\ total_epochs \in Nat
  /\ total_training_steps \in 1 .. steps_per_epoch * total_epochs
  /\ save_freq \in Nat \ {0} /\ critic_warmup \in 0 .. total_training_steps
  /\ MaxCrashes \in Nat

VARIABLES
  keep,           \* max_ckpt_to_keep of each role
  folders,        \* on disk: <<step, part>> whose folder or file exists
  store,          \* on disk: what a completely written part holds
  tracker,        \* on disk: latest_checkpointed_iteration.txt
  previous_saved_paths,  \* of each role's manager, as steps
  pc, role,       \* where the trainer stands, and at which role of a save
  global_steps,
  epoch, pos,     \* the epoch loop and the dataloader's position in it
  batches,        \* history: the batches the weights have been trained on
  crashes

disk == <<folders, store, tracker>>
loop == <<global_steps, epoch, pos, batches>>
vars == <<keep, disk, previous_saved_paths, pc, role, loop, crashes>>

Parts == RoleSet \union {"data"}
Complete(s) == \A p \in Parts : <<s, p>> \in DOMAIN store
Without(f, S) == [x \in DOMAIN f \ S |-> f[x]]
With(f, x, v) == [y \in DOMAIN f \union {x} |-> IF y = x THEN v ELSE f[y]]

-----------------------------------------------------------------------------
(* Start or resume, and the training loop *)

\* The dataloader's saved state is skipped at the end of an epoch, where it
\* would be exhausted, and missed if there is none.
MutRestoredPos(s) == IF <<s, "data">> \in DOMAIN store
                       THEN store[<<s, "data">>] ELSE 0
RestoredPos(s) == IF <<s, "data">> \in DOMAIN store /\ s % steps_per_epoch # 0
                    THEN store[<<s, "data">>] ELSE 0

\* find_latest_ckpt_path finds none without tracker or folder, and raises on
\* an empty tracker.
FromScratch == \/ tracker = NoStep
               \/ /\ tracker # Torn
                  /\ \A p \in Parts : <<tracker, p>> \notin folders

StartFromScratch ==
  /\ pc = "load" /\ FromScratch
  /\ global_steps' = 1 /\ epoch' = 0 /\ pos' = 0 /\ batches' = <<>>
  /\ pc' = "train"
  /\ UNCHANGED <<keep, disk, previous_saved_paths, role, crashes>>

Resume ==
  /\ pc = "load" /\ ~FromScratch
  /\ \A r \in RoleSet : <<tracker, r>> \in DOMAIN store
  /\ global_steps' = tracker + 1
  /\ epoch' = tracker \div steps_per_epoch
  /\ pos' = RestoredPos(tracker)
  /\ batches' = store[<<tracker, Roles[1]>>]
  /\ pc' = "train"
  /\ UNCHANGED <<keep, disk, previous_saved_paths, role, crashes>>

ResumeFails ==
  /\ pc = "load" /\ ~FromScratch
  /\ \E r \in RoleSet : <<tracker, r>> \notin DOMAIN store
  /\ pc' = "failed"
  /\ UNCHANGED <<keep, disk, previous_saved_paths, role, loop, crashes>>

IsLastStep == global_steps >= total_training_steps
\* Whether to save; the ESI may ask for it at any step.
MutSaveDue(esi_close_to_expiration) ==
  /\ critic_warmup <= global_steps
  /\ global_steps % save_freq = 0 \/ esi_close_to_expiration
SaveDue(esi_close_to_expiration) ==
  /\ critic_warmup <= global_steps
  /\ IsLastStep \/ global_steps % save_freq = 0 \/ esi_close_to_expiration

\* One batch.
TrainStep ==
  /\ pc = "train" /\ epoch < total_epochs /\ pos < steps_per_epoch
  /\ batches' = Append(batches, <<epoch, pos>>)
  /\ pos' = pos + 1
  /\ \E esi_close_to_expiration \in BOOLEAN :
       pc' = IF SaveDue(esi_close_to_expiration) THEN "capacity" ELSE "end"
  /\ role' = 1
  /\ UNCHANGED <<keep, disk, previous_saved_paths, global_steps, epoch, crashes>>

EndStep ==
  /\ pc = "end"
  /\ global_steps' = global_steps + 1
  /\ pc' = IF IsLastStep THEN "done" ELSE "train"
  /\ UNCHANGED <<keep, disk, previous_saved_paths, role, epoch, pos, batches,
                 crashes>>

\* The dataloader is exhausted: next epoch, from its first batch.
NextEpoch ==
  /\ pc = "train" /\ epoch < total_epochs /\ pos >= steps_per_epoch
  /\ epoch' = epoch + 1 /\ pos' = 0
  /\ UNCHANGED <<keep, disk, previous_saved_paths, pc, role, global_steps,
                 batches, crashes>>

LoopEnds ==
  /\ pc = "train" /\ epoch >= total_epochs
  /\ pc' = "done"
  /\ UNCHANGED <<keep, disk, previous_saved_paths, role, loop, crashes>>

-----------------------------------------------------------------------------
(* _save_checkpoint *)

Role == Roles[role]
Path == <<global_steps, Role>>

\* The first k of the saved paths leave the disk and the list.
Remove(saved, k) ==
  LET gone == {<<saved[i], Role>> : i \in 1 .. k}
  IN  /\ folders' = folders \ gone
      /\ store' = Without(store, gone)
      /\ previous_saved_paths' = [previous_saved_paths EXCEPT
                                    ![Role] = SubSeq(saved, k + 1, Len(saved))]

\* ensure_checkpoint_capacity makes room only from a limit of two on.
MutExcess(n) == IF keep[Role] > 1 /\ n > keep[Role]
                  THEN n - keep[Role] + 1 ELSE 0
Excess(n) == IF keep[Role] > 1 /\ n >= keep[Role]
               THEN n - keep[Role] + 1 ELSE 0
EnsureCapacity ==
  /\ pc = "capacity"
  /\ LET saved == previous_saved_paths[Role]
     IN  Remove(saved, Excess(Len(saved)))
  /\ pc' = "open"
  /\ UNCHANGED <<keep, tracker, role, loop, crashes>>

\* The ranks create and fill the folder, over what an earlier run left there.
OpenFolder ==
  /\ pc = "open"
  /\ folders' = folders \union {Path}
  /\ store' = Without(store, {Path})
  /\ pc' = "write"
  /\ UNCHANGED <<keep, tracker, previous_saved_paths, role, loop, crashes>>

WriteFolder ==
  /\ pc = "write"
  /\ store' = With(store, Path, batches)
  /\ pc' = "register"
  /\ UNCHANGED <<keep, folders, tracker, previous_saved_paths, role, loop,
                 crashes>>

\* register_checkpoint appends the path and enforces the limit.
RegisterCheckpoint ==
  /\ pc = "register"
  /\ LET saved == Append(previous_saved_paths[Role], global_steps)
         limit == keep[Role]
     IN  Remove(saved, IF limit > 0 /\ Len(saved) > limit
                         THEN Len(saved) - limit ELSE 0)
  /\ IF role < Len(Roles) THEN role' = role + 1 /\ pc' = "capacity"
                          ELSE role' = role /\ pc' = "data"
  /\ UNCHANGED <<keep, tracker, loop, crashes>>

SaveDataloader ==
  /\ pc = "data"
  /\ folders' = folders \union {<<global_steps, "data">>}
  /\ store' = With(store, <<global_steps, "data">>, pos)
  /\ pc' = "tracker"
  /\ UNCHANGED <<keep, tracker, previous_saved_paths, role, loop, crashes>>

\* Opening the tracker for writing truncates it.
MutOpenTracker ==
  /\ pc = "data"
  /\ tracker' = Torn
  /\ pc' = "close"
  /\ UNCHANGED <<keep, folders, store, previous_saved_paths, role, loop,
                 crashes>>
OpenTracker ==
  /\ pc = "tracker"
  /\ tracker' = Torn
  /\ pc' = "close"
  /\ UNCHANGED <<keep, folders, store, previous_saved_paths, role, loop,
                 crashes>>

WriteTracker ==
  /\ pc = "close"
  /\ tracker' = global_steps
  /\ pc' = "end"
  /\ UNCHANGED <<keep, folders, store, previous_saved_paths, role, loop,
                 crashes>>

-----------------------------------------------------------------------------
\* The job dies, or a save raises; it is started again.
Crash ==
  /\ crashes < MaxCrashes /\ pc \notin {"load", "done", "failed"}
  /\ crashes' = crashes + 1
  /\ previous_saved_paths' = [r \in RoleSet |-> <<>>]
  /\ pc' = "load" /\ role' = 1
  /\ global_steps' = 0 /\ epoch' = 0 /\ pos' = 0 /\ batches' = <<>>
  /\ UNCHANGED <<keep, disk>>

Init ==
  /\ keep \in Keeps
  /\ folders = {} /\ store = [x \in {} |-> 0] /\ tracker = NoStep
  /\ previous_saved_paths = [r \in RoleSet |-> <<>>]
  /\ pc = "load" /\ role = 1
  /\ global_steps = 0 /\ epoch = 0 /\ pos = 0 /\ batches = <<>>
  /\ crashes = 0

Load == StartFromScratch \/ Resume \/ ResumeFails
Fit == TrainStep \/ EndStep \/ NextEpoch \/ LoopEnds
SaveRole == EnsureCapacity \/ OpenFolder \/ WriteFolder \/ RegisterCheckpoint
SaveCheckpoint == SaveRole \/ SaveDataloader \/ OpenTracker \/ WriteTracker
Trainer == Load \/ Fit \/ SaveCheckpoint
Ended == pc \in {"done", "failed"} /\ UNCHANGED vars

Next == Trainer \/ Crash \/ Ended
Spec == Init /\ [][Next]_vars /\ WF_vars(Trainer)

-----------------------------------------------------------------------------
(* Properties *)

\* Types; the managers track folders of earlier steps, each once, and only a
\* restart after the last save makes a step more than total_training_steps.
TypeOK ==
  /\ keep \in Keeps
  /\ folders \subseteq Steps \X Parts
  /\ DOMAIN store \subseteq folders
  /\ tracker \in Steps \union {NoStep, Torn}
  /\ \A r \in RoleSet :
       LET saved == previous_saved_paths[r]
       IN  \A i \in 1 .. Len(saved) :
             /\ saved[i] \in 1 .. global_steps
             /\ \A j \in 1 .. i - 1 : saved[j] < saved[i]
  /\ pc \in {"load", "train", "end", "capacity", "open", "write", "register",
             "data", "tracker", "close", "done", "failed"}
  /\ role \in 1 .. Len(Roles)
  /\ global_steps \in 0 .. total_training_steps + crashes + 1
  /\ epoch \in 0 .. total_epochs /\ pos \in 0 .. steps_per_epoch
  /\ crashes \in 0 .. MaxCrashes

\* Whenever the job dies, the step that the tracker file names is complete on
\* disk: the rotation of one role's folders has not yet removed it, and all
\* that a resume reads was written before the tracker.
TrackerComplete == tracker \in Steps => Complete(tracker)

\* Over crashes and resumes, the weights are trained on every batch of every
\* epoch once and in order (dataloader state, its skip at the end of an epoch
\* and the epoch loop agree).
BatchesOnce ==
  /\ \A i \in 1 .. Len(batches) :
       batches[i] = <<(i - 1) \div steps_per_epoch, (i - 1) % steps_per_epoch>>
  /\ pc = "train" => Len(batches) = global_steps - 1

\* A role never occupies more folders than its limit, or two while the limit
\* is one, for each time the job was started: a restarted manager forgets the
\* folders of its predecessors.
DiskBounded ==
  \A r \in RoleSet :
    keep[r] > 0 =>
      Cardinality({x \in folders : x[2] = r})
        <= (crashes + 1) * (IF keep[r] = 1 THEN 2 ELSE keep[r])

\* The job ends with all steps saved, unless a crash hits the moment in
\* which the tracker is truncated: then it can no longer be resumed.
Termination ==
  <>(\/ pc = "done" /\ tracker >= total_training_steps
     \/ pc = "failed" /\ tracker = Torn)
=============================================================================
