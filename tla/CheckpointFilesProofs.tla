----------------------- MODULE CheckpointFilesProofs -------------------------
(* Saving and resuming, for any roles, any length of training and any       *)
(* number of crashes: the tracker file always names a complete checkpoint,  *)
(* if no manager is limited to a single one; no batch is skipped or trained *)
(* on twice by the weights that survive; and the disk fills up by no more   *)
(* than the limit of a manager with each crash.                             *)
EXTENDS CheckpointFiles, FiniteSetTheorems, SequenceTheorems, TLAPS

Saving == {"capacity", "open", "write", "register"}
AllSaved == {"data", "tracker", "close"}

\* In the save under way, the j-th role's manager has registered its folder,
\* and the j-th role's folder is written.
Registered(j) == pc \in AllSaved \/ (pc \in Saving /\ j < role)
Written(j) == Registered(j) \/ (pc = "register" /\ j = role)

Types ==
  /\ keep \in Keeps
  /\ folders \subseteq Nat \X Parts
  /\ DOMAIN store \subseteq folders
  /\ tracker \in Int /\ tracker >= Torn /\ global_steps \in Nat
  /\ previous_saved_paths \in [RoleSet -> Seq(Nat)]
  /\ role \in 1 .. Len(Roles)
  /\ pc \in {"load", "train", "end", "done", "failed"}
            \union Saving \union AllSaved

\* The step under way is ahead of the tracker until the tracker is written.
Clock ==
  /\ pc \in {"train", "data", "tracker"} \union Saving =>
       0 <= tracker /\ tracker < global_steps
  /\ pc = "end" => 0 <= tracker
  /\ pc = "end" => tracker <= global_steps
  /\ pc = "close" => tracker = Torn /\ global_steps > 0

\* A manager's folders are in the order of their steps ...
Ordered ==
  \A r \in RoleSet : \A i, k \in 1 .. Len(previous_saved_paths[r]) :
    i < k => previous_saved_paths[r][i] < previous_saved_paths[r][k]

\* ... and none but the one just registered is ahead of the tracker, which is
\* why the last but one, at least, has to be kept.
Tracked ==
  \A j \in 1 .. Len(Roles) :
    \A i \in 1 .. Len(previous_saved_paths[Roles[j]]) :
      LET step == previous_saved_paths[Roles[j]][i]
      IN  \/ step <= tracker
          \/ /\ Registered(j) /\ i = Len(previous_saved_paths[Roles[j]])
             /\ step = global_steps
          \/ pc = "close" /\ step <= global_steps

Named == tracker > 0 => Complete(tracker)

OnDisk ==
  /\ \A j \in 1 .. Len(Roles) :
       Written(j) => <<global_steps, Roles[j]>> \in DOMAIN store
  /\ pc \in {"tracker", "close"} => <<global_steps, "data">> \in DOMAIN store
  /\ pc = "write" => Path \in folders

IInv == Types /\ Clock /\ Ordered /\ Tracked /\ Named /\ OnDisk

\* No manager is limited to a single checkpoint.
NoSingle == \A k \in Keeps : \A r \in RoleSet : k[r] # 1

-----------------------------------------------------------------------------
\* The roles whose checkpoints a save writes, one after the other.
LEMMA RoleFacts ==
  /\ Len(Roles) \in Nat \ {0}
  /\ \A j \in 1 .. Len(Roles) : Roles[j] \in RoleSet /\ Roles[j] # "data"
  /\ \A r \in RoleSet : \E j \in 1 .. Len(Roles) : r = Roles[j]
  /\ \A i, j \in 1 .. Len(Roles) : Roles[i] = Roles[j] => i = j
<1>1. Len(Roles) \in Nat \ {0}
  BY FilesAssumption
<1>2. \A j \in 1 .. Len(Roles) : Roles[j] \in RoleSet
  BY DEF RoleSet
<1>3. \A r \in RoleSet : \E j \in 1 .. Len(Roles) : r = Roles[j]
  BY DEF RoleSet
<1>4. QED
  BY <1>1, <1>2, <1>3, FilesAssumption

\* What is left of a manager's list when its first k paths are removed.
LEMMA SuffixFacts ==
  ASSUME NEW s \in Seq(Nat), NEW k \in 0 .. Len(s)
  PROVE  /\ SubSeq(s, k + 1, Len(s)) \in Seq(Nat)
         /\ Len(SubSeq(s, k + 1, Len(s))) = Len(s) - k
         /\ \A i \in 1 .. Len(s) - k : SubSeq(s, k + 1, Len(s))[i] = s[k + i]
<1>1. \A i \in k + 1 .. Len(s) : s[i] \in Nat
  OBVIOUS
<1>2. /\ SubSeq(s, k + 1, Len(s)) \in Seq(Nat)
      /\ Len(SubSeq(s, k + 1, Len(s)))
           = IF k + 1 <= Len(s) THEN Len(s) - (k + 1) + 1 ELSE 0
      /\ \A i \in 1 .. Len(s) - (k + 1) + 1 :
           SubSeq(s, k + 1, Len(s))[i] = s[(k + 1) + i - 1]
  <2>1. k + 1 \in Int /\ Len(s) \in Int
    OBVIOUS
  <2>2. QED
    BY <1>1, <2>1, SubSeqProperties
<1>3. Len(SubSeq(s, k + 1, Len(s))) = Len(s) - k
  BY <1>2
<1>4. \A i \in 1 .. Len(s) - k : SubSeq(s, k + 1, Len(s))[i] = s[k + i]
  BY <1>2
<1>5. QED
  BY <1>2, <1>3, <1>4

\* The effect of removing paths: on the lists, and on the disk.
LEMMA RemoveFacts ==
  ASSUME Types, Ordered, NEW saved \in Seq(Nat), NEW k \in 0 .. Len(saved),
         \A i, l \in 1 .. Len(saved) : i < l => saved[i] < saved[l],
         Remove(saved, k)
  PROVE  /\ folders' \subseteq folders
         /\ DOMAIN store' \subseteq folders'
         /\ previous_saved_paths' \in [RoleSet -> Seq(Nat)]
         /\ Len(previous_saved_paths'[Role]) = Len(saved) - k
         /\ \A i \in 1 .. Len(saved) - k :
              previous_saved_paths'[Role][i] = saved[k + i]
         /\ \A r \in RoleSet : r # Role =>
              previous_saved_paths'[r] = previous_saved_paths[r]
         /\ \A x \in DOMAIN store :
              x \in DOMAIN store' \/ \E i \in 1 .. k : x = <<saved[i], Role>>
         /\ Ordered'
<1>1. Role \in RoleSet
  BY RoleFacts DEF Role, Types
<1>2. /\ SubSeq(saved, k + 1, Len(saved)) \in Seq(Nat)
      /\ Len(SubSeq(saved, k + 1, Len(saved))) = Len(saved) - k
      /\ \A i \in 1 .. Len(saved) - k :
           SubSeq(saved, k + 1, Len(saved))[i] = saved[k + i]
  BY SuffixFacts
<1>3. previous_saved_paths' = [previous_saved_paths EXCEPT
                                 ![Role] = SubSeq(saved, k + 1, Len(saved))]
  BY DEF Remove
<1>4. /\ previous_saved_paths' \in [RoleSet -> Seq(Nat)]
      /\ previous_saved_paths'[Role] = SubSeq(saved, k + 1, Len(saved))
      /\ \A r \in RoleSet : r # Role =>
              previous_saved_paths'[r] = previous_saved_paths[r]
  BY <1>1, <1>2, <1>3 DEF Types
<1>5. /\ folders' = folders \ {<<saved[i], Role>> : i \in 1 .. k}
      /\ DOMAIN store' = DOMAIN store \ {<<saved[i], Role>> : i \in 1 .. k}
  BY DEF Remove, Without
<1>6. Ordered'
  <2> SUFFICES ASSUME NEW r \in RoleSet,
                      NEW i \in 1 .. Len(previous_saved_paths'[r]),
                      NEW l \in 1 .. Len(previous_saved_paths'[r]), i < l
               PROVE  previous_saved_paths'[r][i] < previous_saved_paths'[r][l]
    BY DEF Ordered
  <2>1. CASE r = Role
    <3>1. /\ i \in 1 .. Len(saved) - k /\ l \in 1 .. Len(saved) - k
          /\ previous_saved_paths'[r][i] = saved[k + i]
          /\ previous_saved_paths'[r][l] = saved[k + l]
      BY <1>2, <1>4, <2>1
    <3>2. /\ k + i \in 1 .. Len(saved) /\ k + l \in 1 .. Len(saved)
          /\ k + i < k + l
      <4>1. Len(saved) \in Nat
        OBVIOUS
      <4>2. QED
        BY <3>1, <4>1
    <3>3. saved[k + i] < saved[k + l]
      BY <3>2
    <3>4. QED
      BY <3>1, <3>3
  <2>2. CASE r # Role
    BY <1>4, <2>2 DEF Ordered
  <2>3. QED
    BY <2>1, <2>2
<1>7. QED
  BY <1>2, <1>4, <1>5, <1>6 DEF Types

\* The invariant holds when the job is first started.
LEMMA InitIInv == Init => IInv
<1> SUFFICES ASSUME Init PROVE IInv
  OBVIOUS
<1>1. Len(Roles) \in Nat \ {0}
  BY RoleFacts
<1>2. \A r \in RoleSet : previous_saved_paths[r] = <<>>
  BY DEF Init
<1>3. DOMAIN store = {}
  BY DEF Init
<1>4. Types
  BY <1>1, <1>2, <1>3 DEF Init, Types, NoStep, Torn, Saving, AllSaved
<1>5. Clock /\ Named /\ OnDisk
  BY <1>1 DEF Init, Clock, Named, OnDisk, Written, Registered, NoStep, Saving, AllSaved
<1>6. Ordered
  BY <1>2 DEF Ordered
<1>7. Tracked
  BY <1>2, RoleFacts DEF Tracked
<1>8. QED
  BY <1>4, <1>5, <1>6, <1>7 DEF IInv

-----------------------------------------------------------------------------
(* Steps of the trainer that leave the disk alone *)

\* It only depends on the files and the place in the save: steps that leave
\* both alone keep it.
LEMMA QuietIInv ==
  ASSUME IInv, pc \in {"load", "train", "end"},
         keep' = keep, UNCHANGED disk, UNCHANGED previous_saved_paths,
         global_steps' \in Nat, role' \in 1 .. Len(Roles),
         \/ pc' \in {"train", "end", "done", "failed"}
         \/ pc' = "capacity" /\ role' = 1,
         Clock'
  PROVE  IInv'
<1> USE DEF IInv, disk
<1>1. Types'
  BY DEF Types, Saving, AllSaved
<1>2. Ordered'
  BY DEF Ordered
<1>3. Tracked'
  <2>1. \A j \in 1 .. Len(Roles) :
          \A i \in 1 .. Len(previous_saved_paths[Roles[j]]) :
            previous_saved_paths[Roles[j]][i] <= tracker
    BY DEF Tracked, Registered, Saving, AllSaved
  <2>2. QED
    BY <2>1 DEF Tracked
<1>4. Named'
  BY DEF Named, Complete
<1>5. OnDisk'
  <2>1. \A j \in 1 .. Len(Roles) : ~Written(j)'
    BY RoleFacts DEF Written, Registered, Saving, AllSaved
  <2>2. pc' \notin {"tracker", "close", "write"}
    OBVIOUS
  <2>3. QED
    BY <2>1, <2>2 DEF OnDisk
<1>6. QED
  BY <1>1, <1>2, <1>3, <1>4, <1>5

\* Loading a checkpoint reads the files and changes none.
LEMMA LoadIInv == IInv /\ Load => IInv'
<1> SUFFICES ASSUME IInv, Load PROVE IInv'
  OBVIOUS
<1>1. CASE StartFromScratch
  <2>1. tracker = 0
    <3>1. tracker = 0 \/ (tracker # Torn /\ <<tracker, "data">> \notin folders)
      BY <1>1 DEF StartFromScratch, FromScratch, NoStep, Parts
    <3>2. <<tracker, "data">> \notin folders => ~(tracker > 0)
      BY DEF IInv, Types, Named, Complete, Parts
    <3>3. QED
      BY <3>1, <3>2 DEF IInv, Types, Torn
  <2>2. /\ pc = "load" /\ pc' = "train" /\ global_steps' = 1
        /\ UNCHANGED <<keep, disk, previous_saved_paths, role>>
    BY <1>1 DEF StartFromScratch
  <2>3. Clock'
    BY <2>1, <2>2 DEF Clock, disk, Saving
  <2>4. QED
    BY <2>2, <2>3, QuietIInv DEF IInv, Types
<1>2. CASE Resume
  <2>1. tracker >= 0
    <3>1. PICK r \in RoleSet : <<tracker, r>> \in DOMAIN store
      BY <1>2, RoleFacts DEF Resume
    <3>2. tracker \in Nat
      BY <3>1 DEF IInv, Types
    <3>3. QED
      BY <3>2
  <2>2. /\ pc = "load" /\ pc' = "train" /\ global_steps' = tracker + 1
        /\ UNCHANGED <<keep, disk, previous_saved_paths, role>>
    BY <1>2 DEF Resume
  <2>3. tracker \in Nat
    BY <2>1 DEF IInv, Types
  <2>4. Clock'
    BY <2>2, <2>3 DEF Clock, disk, Saving
  <2>5. QED
    BY <2>2, <2>3, <2>4, QuietIInv DEF IInv, Types
<1>3. CASE ResumeFails
  <2>1. /\ pc = "load" /\ pc' = "failed"
        /\ UNCHANGED <<keep, disk, previous_saved_paths, role, global_steps>>
    BY <1>3 DEF ResumeFails, loop
  <2>2. Clock'
    BY <2>1 DEF Clock, Saving
  <2>3. QED
    BY <2>1, <2>2, QuietIInv DEF IInv, Types
<1>4. QED
  BY <1>1, <1>2, <1>3 DEF Load

\* The steps of fit between two saves change no file.
LEMMA FitIInv == IInv /\ Fit => IInv'
<1> SUFFICES ASSUME IInv, Fit PROVE IInv'
  OBVIOUS
<1> USE DEF IInv
<1>1. CASE TrainStep
  <2>1. /\ pc = "train" /\ pc' \in {"capacity", "end"} /\ role' = 1
        /\ UNCHANGED <<keep, disk, previous_saved_paths, global_steps>>
    BY <1>1 DEF TrainStep
  <2>2. Clock'
    BY <2>1 DEF Clock, disk, Saving, Types
  <2>3. QED
    BY <2>1, <2>2, QuietIInv, RoleFacts DEF Types
<1>2. CASE EndStep
  <2>1. /\ pc = "end" /\ pc' \in {"train", "done"}
        /\ global_steps' = global_steps + 1
        /\ UNCHANGED <<keep, disk, previous_saved_paths, role>>
    BY <1>2 DEF EndStep
  <2>2. Clock'
    BY <2>1 DEF Clock, disk, Saving, Types
  <2>3. QED
    BY <2>1, <2>2, QuietIInv DEF Types
<1>3. CASE NextEpoch
  <2>1. /\ pc = "train" /\ pc' = "train"
        /\ UNCHANGED <<keep, disk, previous_saved_paths, role, global_steps>>
    BY <1>3 DEF NextEpoch
  <2>2. Clock'
    BY <2>1 DEF Clock, disk, Saving
  <2>3. QED
    BY <2>1, <2>2, QuietIInv DEF Types
<1>4. CASE LoopEnds
  <2>1. /\ pc = "train" /\ pc' = "done"
        /\ UNCHANGED <<keep, disk, previous_saved_paths, role, global_steps>>
    BY <1>4 DEF LoopEnds, loop
  <2>2. Clock'
    BY <2>1 DEF Clock, Saving
  <2>3. QED
    BY <2>1, <2>2, QuietIInv DEF Types
<1>5. QED
  BY <1>1, <1>2, <1>3, <1>4 DEF Fit

-----------------------------------------------------------------------------
(* _save_checkpoint *)

\* Before it is registered, a role's folders are not ahead of the tracker.
LEMMA Unregistered ==
  ASSUME IInv, pc \in Saving
  PROVE  \A i \in 1 .. Len(previous_saved_paths[Role]) :
           previous_saved_paths[Role][i] <= tracker
BY DEF IInv, Tracked, Role, Types, Registered, Saving, AllSaved

\* The removal before a save spares the folder the tracker names, since a
\* manager keeps at least two.
LEMMA EnsureCapacityIInv == NoSingle /\ IInv /\ EnsureCapacity => IInv'
<1> SUFFICES ASSUME NoSingle, IInv, EnsureCapacity PROVE IInv'
  OBVIOUS
<1> USE DEF IInv
<1> DEFINE saved == previous_saved_paths[Role]
<1>1. PICK k : k = Excess(Len(saved))
  OBVIOUS
<1>2. /\ pc = "capacity" /\ pc' = "open" /\ Remove(saved, k)
      /\ UNCHANGED <<keep, tracker, role, global_steps>>
  BY <1>1 DEF EnsureCapacity, loop
<1>3. Role \in RoleSet /\ Role = Roles[role] /\ role \in 1 .. Len(Roles)
  BY RoleFacts DEF Role, Types
<1>4. saved \in Seq(Nat)
  BY <1>3 DEF Types
<1>5. k \in 0 .. Len(saved) /\ (k > 0 => k < Len(saved))
  <2>1. keep[Role] \in Nat /\ Len(saved) \in Nat
    BY <1>3, <1>4, FilesAssumption DEF Types
  <2>2. QED
    BY <1>1, <2>1 DEF Excess
<1>6. /\ \A i \in 1 .. Len(saved) : saved[i] <= tracker /\ saved[i] \in Nat
      /\ \A i, l \in 1 .. Len(saved) : i < l => saved[i] < saved[l]
  BY <1>2, <1>3, <1>4, Unregistered DEF Saving, Ordered
<1>7. /\ folders' \subseteq folders
      /\ DOMAIN store' \subseteq folders'
      /\ previous_saved_paths' \in [RoleSet -> Seq(Nat)]
      /\ Len(previous_saved_paths'[Role]) = Len(saved) - k
      /\ \A i \in 1 .. Len(saved) - k :
           previous_saved_paths'[Role][i] = saved[k + i]
      /\ \A r \in RoleSet : r # Role =>
           previous_saved_paths'[r] = previous_saved_paths[r]
      /\ \A x \in DOMAIN store :
           x \in DOMAIN store' \/ \E i \in 1 .. k : x = <<saved[i], Role>>
      /\ Ordered'
  BY <1>2, <1>4, <1>5, <1>6, RemoveFacts
<1> HIDE DEF saved
<1>8. Types'
  BY <1>2, <1>7 DEF Types, Saving, AllSaved
<1>9. Clock'
  BY <1>2 DEF Clock, Saving
<1>10. Tracked'
  <2> SUFFICES ASSUME NEW j \in 1 .. Len(Roles),
                      NEW i \in 1 .. Len(previous_saved_paths'[Roles[j]])
               PROVE  \/ previous_saved_paths'[Roles[j]][i] <= tracker'
                      \/ /\ Registered(j)'
                         /\ i = Len(previous_saved_paths'[Roles[j]])
                         /\ previous_saved_paths'[Roles[j]][i] = global_steps'
    BY DEF Tracked
  <2>1. CASE Roles[j] = Role
    <3>1. k + i \in 1 .. Len(saved)
          /\ previous_saved_paths'[Roles[j]][i] = saved[k + i]
      BY <1>4, <1>5, <1>7, <2>1
    <3>2. QED
      BY <1>2, <1>6, <3>1
  <2>2. CASE Roles[j] # Role
    <3>1. previous_saved_paths'[Roles[j]] = previous_saved_paths[Roles[j]]
      BY <1>7, <2>2, RoleFacts
    <3>2. QED
      BY <1>2, <3>1 DEF Tracked, Registered, Saving, AllSaved
  <2>3. QED
    BY <2>1, <2>2
<1>11. Named'
  <2>1. SUFFICES ASSUME tracker > 0, NEW q \in Parts
                 PROVE  <<tracker, q>> \in DOMAIN store'
    BY <1>2, <2>1 DEF Named, Complete
  <2>2. <<tracker, q>> \in DOMAIN store
    BY <2>1 DEF Named, Complete
  <2>3. ASSUME NEW i \in 1 .. k PROVE saved[i] # tracker
    <3>1. /\ i \in 1 .. Len(saved) /\ Len(saved) \in 1 .. Len(saved)
          /\ i < Len(saved)
      BY <1>4, <1>5
    <3>2. saved[i] < saved[Len(saved)] /\ saved[Len(saved)] <= tracker
          /\ saved[i] \in Nat /\ saved[Len(saved)] \in Nat /\ tracker \in Int
      BY <1>6, <3>1 DEF Types
    <3>3. QED
      BY <3>2
  <2>4. QED
    BY <1>7, <2>2, <2>3
<1>12. OnDisk'
  <2>1. SUFFICES ASSUME NEW j \in 1 .. Len(Roles), Written(j)'
                 PROVE  <<global_steps, Roles[j]>> \in DOMAIN store'
    BY <1>2, <2>1 DEF OnDisk
  <2>2. j < role
    BY <1>2, <2>1 DEF Written, Registered, Saving, AllSaved
  <2>3. <<global_steps, Roles[j]>> \in DOMAIN store
    BY <1>2, <2>2 DEF OnDisk, Written, Registered, Saving
  <2>4. Roles[j] # Role
    BY <1>3, <2>2, RoleFacts
  <2>5. QED
    BY <1>7, <2>3, <2>4
<1>13. QED
  BY <1>7, <1>8, <1>9, <1>10, <1>11, <1>12

\* OpenFolder and WriteFolder: only the folder of the step under way changes,
\* and the tracker names an earlier one.
LEMMA FolderIInv == IInv /\ (OpenFolder \/ WriteFolder) => IInv'
<1> SUFFICES ASSUME IInv, OpenFolder \/ WriteFolder PROVE IInv'
  OBVIOUS
<1> USE DEF IInv
<1>1. UNCHANGED <<keep, tracker, previous_saved_paths, role, global_steps>>
  BY DEF OpenFolder, WriteFolder, loop
<1>2. \/ pc = "open" /\ pc' = "write"
      \/ pc = "write" /\ pc' = "register"
  BY DEF OpenFolder, WriteFolder
<1>3. /\ Role \in RoleSet /\ Role = Roles[role] /\ role \in 1 .. Len(Roles)
      /\ Path = <<global_steps, Role>>
  BY RoleFacts DEF Role, Types, Path
<1>4. /\ pc = "open" => /\ folders' = folders \union {Path}
                        /\ DOMAIN store' = DOMAIN store \ {Path}
      /\ pc = "write" => /\ folders' = folders
                         /\ DOMAIN store' = DOMAIN store \union {Path}
  BY DEF OpenFolder, WriteFolder, With, Without
<1>5. Types'
  <2>1. Path \in Nat \X Parts
    BY <1>3 DEF Types, Parts
  <2>2. folders' \subseteq Nat \X Parts
    BY <1>2, <1>4, <2>1 DEF Types
  <2>3. DOMAIN store' \subseteq folders'
    BY <1>2, <1>4 DEF Types, OnDisk
  <2>4. QED
    BY <1>1, <1>2, <2>2, <2>3 DEF Types, Saving, AllSaved
<1>6. Clock'
  BY <1>1, <1>2 DEF Clock, Saving
<1>7. Ordered'
  BY <1>1 DEF Ordered
<1>8. Tracked'
  BY <1>1, <1>2 DEF Tracked, Registered, Saving, AllSaved
<1>9. Named'
  <2>1. SUFFICES ASSUME tracker > 0, NEW q \in Parts
                 PROVE  <<tracker, q>> \in DOMAIN store'
    BY <1>1, <2>1 DEF Named, Complete
  <2>2. <<tracker, q>> \in DOMAIN store
    BY <2>1 DEF Named, Complete
  <2>3. tracker # global_steps
    BY <1>2 DEF Clock, Types, Saving
  <2>4. <<tracker, q>> # Path
    BY <1>3, <2>3
  <2>5. QED
    BY <1>2, <1>4, <2>2, <2>4
<1>10. OnDisk'
  <2>1. ASSUME NEW j \in 1 .. Len(Roles), Written(j)'
        PROVE  <<global_steps, Roles[j]>> \in DOMAIN store'
    <3>1. j < role \/ (pc = "write" /\ j = role)
      BY <1>1, <1>2, <2>1 DEF Written, Registered, Saving, AllSaved
    <3>2. CASE j < role
      <4>1. <<global_steps, Roles[j]>> \in DOMAIN store
        BY <1>2, <3>2 DEF OnDisk, Written, Registered, Saving
      <4>2. Roles[j] # Role
        BY <1>3, <3>2, RoleFacts
      <4>3. QED
        BY <1>2, <1>3, <1>4, <4>1, <4>2
    <3>3. CASE pc = "write" /\ j = role
      BY <1>3, <1>4, <3>3
    <3>4. QED
      BY <3>1, <3>2, <3>3
  <2>2. pc' = "write" => Path' \in folders'
    <3>1. Path' = Path
      BY <1>1 DEF Path, Role
    <3>2. QED
      BY <1>2, <1>4, <3>1
  <2>3. QED
    BY <1>1, <1>2, <2>1, <2>2 DEF OnDisk
<1>11. QED
  BY <1>5, <1>6, <1>7, <1>8, <1>9, <1>10

\* So does the removal when a role is registered.
LEMMA RegisterIInv == NoSingle /\ IInv /\ RegisterCheckpoint => IInv'
<1> SUFFICES ASSUME NoSingle, IInv, RegisterCheckpoint PROVE IInv'
  OBVIOUS
<1> USE DEF IInv
<1> DEFINE old == previous_saved_paths[Role]
           saved == Append(old, global_steps)
<1>1. PICK k : k = IF keep[Role] > 0 /\ Len(saved) > keep[Role]
                     THEN Len(saved) - keep[Role] ELSE 0
  OBVIOUS
<1>2. /\ pc = "register" /\ Remove(saved, k)
      /\ UNCHANGED <<keep, tracker, global_steps>>
  BY <1>1 DEF RegisterCheckpoint, loop
<1>3. \/ role < Len(Roles) /\ role' = role + 1 /\ pc' = "capacity"
      \/ role >= Len(Roles) /\ role' = role /\ pc' = "data"
  BY RoleFacts DEF RegisterCheckpoint, Types
<1>4. /\ Role \in RoleSet /\ Role = Roles[role] /\ role \in 1 .. Len(Roles)
      /\ Role # "data"
  BY RoleFacts DEF Role, Types
<1>5. /\ old \in Seq(Nat) /\ saved \in Seq(Nat)
      /\ Len(old) \in Nat /\ Len(saved) = Len(old) + 1
      /\ \A i \in 1 .. Len(old) : saved[i] = old[i]
      /\ saved[Len(saved)] = global_steps
  BY <1>4, AppendProperties DEF Types
<1>6. tracker < global_steps /\ tracker \in Nat /\ global_steps \in Nat
  BY <1>2 DEF Clock, Types, Saving
<1>7. /\ \A i \in 1 .. Len(old) : old[i] <= tracker /\ old[i] \in Nat
      /\ \A i, l \in 1 .. Len(old) : i < l => old[i] < old[l]
  BY <1>2, <1>4, <1>5, Unregistered DEF Saving, Ordered
<1> HIDE DEF saved, old
<1>8. \A i, l \in 1 .. Len(saved) : i < l => saved[i] < saved[l]
  <2> SUFFICES ASSUME NEW i \in 1 .. Len(saved), NEW l \in 1 .. Len(saved), i < l
               PROVE  saved[i] < saved[l]
    OBVIOUS
  <2>1. i \in 1 .. Len(old) /\ saved[i] = old[i]
    BY <1>5
  <2>2. CASE l = Len(saved)
    BY <1>5, <1>6, <1>7, <2>1, <2>2
  <2>3. CASE l # Len(saved)
    <3>1. Len(old) \in Nat /\ Len(saved) = Len(old) + 1
      BY <1>5
    <3>2. l \in 1 .. Len(old)
      BY <2>3, <3>1
    <3>3. QED
      BY <1>5, <1>7, <2>1, <3>2
  <2>4. QED
    BY <2>2, <2>3
<1>9. k \in 0 .. Len(saved) /\ (k > 0 => k < Len(old))
  <2>1. keep[Role] \in Nat /\ keep[Role] # 1
    BY <1>4, FilesAssumption DEF Types, NoSingle
  <2>2. QED
    BY <1>1, <1>5, <2>1
<1>10. /\ folders' \subseteq folders
       /\ DOMAIN store' \subseteq folders'
       /\ previous_saved_paths' \in [RoleSet -> Seq(Nat)]
       /\ Len(previous_saved_paths'[Role]) = Len(saved) - k
       /\ \A i \in 1 .. Len(saved) - k :
            previous_saved_paths'[Role][i] = saved[k + i]
       /\ \A r \in RoleSet : r # Role =>
            previous_saved_paths'[r] = previous_saved_paths[r]
       /\ \A x \in DOMAIN store :
            x \in DOMAIN store' \/ \E i \in 1 .. k : x = <<saved[i], Role>>
       /\ Ordered'
  BY <1>2, <1>5, <1>8, <1>9, RemoveFacts
<1>11. Types'
  BY <1>2, <1>3, <1>4, <1>10, RoleFacts DEF Types, Saving, AllSaved
<1>12. Clock'
  BY <1>2, <1>3 DEF Clock, Saving
<1>13. Tracked'
  <2> SUFFICES ASSUME NEW j \in 1 .. Len(Roles),
                      NEW i \in 1 .. Len(previous_saved_paths'[Roles[j]])
               PROVE  \/ previous_saved_paths'[Roles[j]][i] <= tracker'
                      \/ /\ Registered(j)'
                         /\ i = Len(previous_saved_paths'[Roles[j]])
                         /\ previous_saved_paths'[Roles[j]][i] = global_steps'
    BY DEF Tracked
  <2>1. CASE Roles[j] = Role
    <3>1. j = role /\ Registered(j)'
      BY <1>3, <1>4, <2>1, RoleFacts DEF Registered, Saving, AllSaved
    <3>2. /\ i \in 1 .. Len(saved) - k
          /\ i = Len(previous_saved_paths'[Roles[j]]) <=> i = Len(saved) - k
          /\ previous_saved_paths'[Roles[j]][i] = saved[k + i]
      BY <1>10, <2>1
    <3>3. CASE i = Len(saved) - k
      <4>1. k + i = Len(saved)
        BY <1>5, <1>9, <3>3
      <4>2. QED
        BY <1>2, <1>5, <3>1, <3>2, <3>3, <4>1
    <3>4. CASE i # Len(saved) - k
      <4>1. /\ Len(old) \in Nat /\ Len(saved) = Len(old) + 1
            /\ k \in 0 .. Len(saved) /\ i \in 1 .. Len(saved) - k
        BY <1>5, <1>9, <3>2
      <4>2. k + i \in 1 .. Len(old)
        BY <3>4, <4>1
      <4>3. QED
        BY <1>2, <1>5, <1>7, <3>2, <4>2
    <3>5. QED
      BY <3>3, <3>4
  <2>2. CASE Roles[j] # Role
    <3>1. previous_saved_paths'[Roles[j]] = previous_saved_paths[Roles[j]]
      BY <1>10, <2>2, RoleFacts
    <3>2. Registered(j) => Registered(j)'
      BY <1>2, <1>3, <1>4 DEF Registered, Saving, AllSaved
    <3>3. QED
      BY <1>2, <3>1, <3>2 DEF Tracked
  <2>3. QED
    BY <2>1, <2>2
<1>14. Named'
  <2>1. SUFFICES ASSUME tracker > 0, NEW q \in Parts
                 PROVE  <<tracker, q>> \in DOMAIN store'
    BY <1>2, <2>1 DEF Named, Complete
  <2>2. <<tracker, q>> \in DOMAIN store
    BY <2>1 DEF Named, Complete
  <2>3. ASSUME NEW i \in 1 .. k PROVE saved[i] # tracker
    <3>1. /\ i \in 1 .. Len(old) /\ Len(old) \in 1 .. Len(old)
          /\ i < Len(old)
      BY <1>5, <1>9
    <3>2. old[i] < old[Len(old)] /\ old[Len(old)] <= tracker
          /\ old[i] \in Nat /\ old[Len(old)] \in Nat /\ saved[i] = old[i]
      BY <1>5, <1>7, <3>1
    <3>3. QED
      BY <1>6, <3>2
  <2>4. QED
    BY <1>10, <2>2, <2>3
<1>15. OnDisk'
  <2>1. ASSUME NEW j \in 1 .. Len(Roles), Written(j)'
        PROVE  <<global_steps, Roles[j]>> \in DOMAIN store'
    <3>1. j <= role
      BY <1>3, <1>4, <2>1 DEF Written, Registered, Saving, AllSaved
    <3>2. <<global_steps, Roles[j]>> \in DOMAIN store
      BY <1>2, <1>4, <3>1 DEF OnDisk, Written, Registered, Saving
    <3>3. ASSUME NEW i \in 1 .. k PROVE saved[i] # global_steps
      <4>1. i \in 1 .. Len(old) /\ saved[i] = old[i]
        BY <1>5, <1>9
      <4>2. QED
        BY <1>6, <1>7, <4>1
    <3>4. QED
      BY <1>10, <3>2, <3>3
  <2>2. pc' \notin {"tracker", "close", "write"}
    BY <1>3
  <2>3. QED
    BY <1>2, <2>1, <2>2 DEF OnDisk
<1>16. QED
  BY <1>10, <1>11, <1>12, <1>13, <1>14, <1>15

\* Writing data.pt completes the folder of the step that is saved.
LEMMA SaveDataloaderIInv == IInv /\ SaveDataloader => IInv'
<1> SUFFICES ASSUME IInv, SaveDataloader PROVE IInv'
  OBVIOUS
<1> USE DEF IInv
<1>1. /\ pc = "data" /\ pc' = "tracker"
      /\ UNCHANGED <<keep, tracker, previous_saved_paths, role, global_steps>>
      /\ folders' = folders \union {<<global_steps, "data">>}
      /\ DOMAIN store' = DOMAIN store \union {<<global_steps, "data">>}
  BY DEF SaveDataloader, With, loop
<1>2. Types'
  <2>1. <<global_steps, "data">> \in Nat \X Parts
    BY DEF Types, Parts
  <2>2. QED
    BY <1>1, <2>1 DEF Types, Saving, AllSaved
<1>3. Clock' /\ Ordered'
  BY <1>1 DEF Clock, Ordered, Saving
<1>4. Tracked'
  BY <1>1 DEF Tracked, Registered, Saving, AllSaved
<1>5. Named'
  BY <1>1 DEF Named, Complete
<1>6. OnDisk'
  BY <1>1 DEF OnDisk, Written, Registered, Saving, AllSaved
<1>7. QED
  BY <1>2, <1>3, <1>4, <1>5, <1>6

\* Writing the tracker: everything of the step it will name is on disk.
LEMMA TrackerIInv == IInv /\ (OpenTracker \/ WriteTracker) => IInv'
<1> SUFFICES ASSUME IInv, OpenTracker \/ WriteTracker PROVE IInv'
  OBVIOUS
<1> USE DEF IInv
<1>1. UNCHANGED <<keep, folders, store, previous_saved_paths, role,
                  global_steps>>
  BY DEF OpenTracker, WriteTracker, loop
<1>2. Ordered'
  BY <1>1 DEF Ordered
<1>3. CASE OpenTracker
  <2>1. pc = "tracker" /\ pc' = "close" /\ tracker' = -1
    BY <1>3 DEF OpenTracker, Torn
  <2>2. Types'
    BY <1>1, <2>1 DEF Types, Torn, Saving, AllSaved
  <2>3. Clock'
    BY <1>1, <2>1 DEF Clock, Types, Torn, Saving
  <2>4. Tracked'
    <3> SUFFICES ASSUME NEW j \in 1 .. Len(Roles),
                        NEW i \in 1 .. Len(previous_saved_paths[Roles[j]])
                 PROVE  previous_saved_paths[Roles[j]][i] <= global_steps
      BY <1>1, <2>1 DEF Tracked
    <3>1. previous_saved_paths[Roles[j]][i] \in Nat
      BY RoleFacts DEF Types
    <3>2. tracker < global_steps
      BY <2>1 DEF Clock
    <3>3. \/ previous_saved_paths[Roles[j]][i] <= tracker
          \/ previous_saved_paths[Roles[j]][i] = global_steps
      BY <2>1 DEF Tracked
    <3>4. QED
      BY <3>1, <3>2, <3>3 DEF Types
  <2>5. Named'
    BY <2>1 DEF Named
  <2>6. OnDisk'
    BY <1>1, <2>1 DEF OnDisk, Written, Registered, Saving, AllSaved
  <2>7. QED
    BY <1>2, <2>2, <2>3, <2>4, <2>5, <2>6
<1>4. CASE WriteTracker
  <2>1. pc = "close" /\ pc' = "end" /\ tracker' = global_steps
    BY <1>4 DEF WriteTracker
  <2>2. tracker = -1 /\ global_steps \in Nat
    BY <2>1 DEF Clock, Torn, Types
  <2>3. Types'
    BY <1>1, <2>1, <2>2 DEF Types, Torn, Saving, AllSaved
  <2>4. Clock'
    BY <1>1, <2>1, <2>2 DEF Clock, Saving
  <2>5. Tracked'
    <3> SUFFICES ASSUME NEW j \in 1 .. Len(Roles),
                        NEW i \in 1 .. Len(previous_saved_paths[Roles[j]])
                 PROVE  previous_saved_paths[Roles[j]][i] <= global_steps
      BY <1>1, <2>1 DEF Tracked
    <3>1. previous_saved_paths[Roles[j]][i] \in Nat
      BY RoleFacts DEF Types
    <3>2. \/ previous_saved_paths[Roles[j]][i] <= tracker
          \/ previous_saved_paths[Roles[j]][i] = global_steps
          \/ previous_saved_paths[Roles[j]][i] <= global_steps
      BY <2>1 DEF Tracked
    <3>3. QED
      BY <2>2, <3>1, <3>2
  <2>6. Named'
    <3> SUFFICES ASSUME NEW q \in Parts
                 PROVE  <<global_steps, q>> \in DOMAIN store
      BY <1>1, <2>1 DEF Named, Complete
    <3>1. CASE q = "data"
      BY <2>1, <3>1 DEF OnDisk
    <3>2. CASE q \in RoleSet
      <4>1. PICK j \in 1 .. Len(Roles) : q = Roles[j]
        BY <3>2, RoleFacts
      <4>2. Written(j)
        BY <2>1 DEF Written, Registered, AllSaved
      <4>3. QED
        BY <4>1, <4>2 DEF OnDisk
    <3>3. QED
      BY <3>1, <3>2 DEF Parts
  <2>7. OnDisk'
    BY <2>1 DEF OnDisk, Written, Registered, Saving, AllSaved
  <2>8. QED
    BY <1>2, <2>3, <2>4, <2>5, <2>6, <2>7
<1>5. QED
  BY <1>3, <1>4

-----------------------------------------------------------------------------
\* A crash leaves the files as they are, at whichever step of the save.
LEMMA CrashIInv == IInv /\ Crash => IInv'
<1> SUFFICES ASSUME IInv, Crash PROVE IInv'
  OBVIOUS
<1> USE DEF IInv
<1>1. /\ pc' = "load" /\ role' = 1 /\ global_steps' = 0
      /\ keep' = keep /\ folders' = folders /\ store' = store
      /\ tracker' = tracker
      /\ previous_saved_paths' = [r \in RoleSet |-> <<>>]
  BY DEF Crash, disk
<1>2. \A r \in RoleSet : previous_saved_paths'[r] = <<>>
  BY <1>1
<1>3. Types'
  BY <1>1, RoleFacts DEF Types, Saving, AllSaved
<1>4. Clock'
  BY <1>1 DEF Clock, Saving
<1>5. Ordered'
  BY <1>2 DEF Ordered
<1>6. Tracked'
  BY <1>2, RoleFacts DEF Tracked
<1>7. Named'
  BY <1>1 DEF Named, Complete
<1>8. OnDisk'
  BY <1>1 DEF OnDisk, Written, Registered, Saving, AllSaved
<1>9. QED
  BY <1>3, <1>4, <1>5, <1>6, <1>7, <1>8

\* Nothing changes.
LEMMA StutterIInv == IInv /\ UNCHANGED vars => IInv'
BY DEF IInv, vars, disk, loop, Types, Clock, Ordered, Tracked, Named, OnDisk,
       Complete, Written, Registered, Path, Role

\* Unless some manager keeps a single checkpoint only, the step that the
\* tracker file names is complete on disk at every moment, for any number of
\* roles, any limits, any saving frequency and any number of crashes: what the
\* rotation in register_checkpoint and ensure_checkpoint_capacity removes is
\* older than what a resume will read.
THEOREM TrackerCompleteHolds ==
  ASSUME NoSingle
  PROVE  Spec => []TrackerComplete
<1>1. Init => IInv
  BY InitIInv
<1>2. IInv /\ [Next]_vars => IInv'
  <2> SUFFICES ASSUME IInv, [Next]_vars PROVE IInv'
    OBVIOUS
  <2>1. CASE Load
    BY <2>1, LoadIInv
  <2>2. CASE Fit
    BY <2>2, FitIInv
  <2>3. CASE EnsureCapacity
    BY <2>3, EnsureCapacityIInv
  <2>4. CASE OpenFolder \/ WriteFolder
    BY <2>4, FolderIInv
  <2>5. CASE RegisterCheckpoint
    BY <2>5, RegisterIInv
  <2>6. CASE SaveDataloader
    BY <2>6, SaveDataloaderIInv
  <2>7. CASE OpenTracker \/ WriteTracker
    BY <2>7, TrackerIInv
  <2>8. CASE Crash
    BY <2>8, CrashIInv
  <2>9. CASE UNCHANGED vars
    BY <2>9, StutterIInv
  <2>10. QED
    BY <2>1, <2>2, <2>3, <2>4, <2>5, <2>6, <2>7, <2>8, <2>9
       DEF Next, Trainer, SaveCheckpoint, SaveRole, Ended
<1>3. IInv => TrackerComplete
  <2> SUFFICES ASSUME IInv, tracker \in Steps PROVE Complete(tracker)
    BY DEF TrackerComplete
  <2>1. tracker > 0
    BY DEF Steps, IInv, Types
  <2>2. QED
    BY <2>1 DEF IInv, Named
<1>4. QED
  BY <1>1, <1>2, <1>3, PTL DEF Spec

-----------------------------------------------------------------------------
(* The batches: dataloader position, epoch and step stay in agreement *)

InOrder(b) ==
  \A i \in 1 .. Len(b) :
    b[i] = <<(i - 1) \div steps_per_epoch, (i - 1) % steps_per_epoch>>

LoopTypes ==
  /\ tracker \in Int /\ global_steps \in Nat /\ epoch \in Nat
  /\ pos \in 0 .. steps_per_epoch
  /\ batches \in Seq(Nat \X Nat)
  /\ role \in 1 .. Len(Roles)
  /\ pc \in {"load", "train", "end", "done", "failed"}
            \union Saving \union AllSaved

\* Between the batch and the end of its step, a save included, the position is
\* behind that batch: never at the beginning of an epoch.
Trained == {"end"} \union Saving \union AllSaved
Place ==
  /\ pc = "train" => Len(batches) = global_steps - 1
  /\ pc \in Trained => Len(batches) = global_steps /\ pos > 0
  /\ pc \in {"train"} \union Trained =>
       epoch * steps_per_epoch + pos = Len(batches)

\* What a checkpoint of step N holds: weights trained on the first N batches,
\* and a dataloader that is behind one of an epoch's batches.
Saved ==
  \A x \in DOMAIN store :
    /\ x[1] \in Nat \ {0}
    /\ x[2] = "data" =>
         /\ store[x] \in 1 .. steps_per_epoch
         /\ \E e \in 0 .. x[1] : x[1] = e * steps_per_epoch + store[x]
    /\ x[2] # "data" =>
         /\ store[x] \in Seq(Nat \X Nat) /\ InOrder(store[x])
         /\ Len(store[x]) = x[1]

\* data.pt is never removed, and is there before the tracker names its step.
DataOnDisk ==
  /\ tracker > 0 => <<tracker, "data">> \in DOMAIN store
  /\ pc \in {"tracker", "close"} => <<global_steps, "data">> \in DOMAIN store

BInv == LoopTypes /\ InOrder(batches) /\ Place /\ Saved /\ DataOnDisk

\* Quotient and remainder are determined by their equation.
LEMMA DivModUnique ==
  ASSUME NEW k \in Nat \ {0}, NEW q \in Nat, NEW r \in 0 .. k - 1
  PROVE  /\ (q * k + r) \div k = q
         /\ (q * k + r) % k = r
<1> DEFINE n == q * k + r
           a == n \div k
           b == n % k
<1>1. n \in Nat
  OBVIOUS
<1> HIDE DEF n
<1>2. a \in Int /\ b \in 0 .. k - 1 /\ n = a * k + b
  BY <1>1
<1> HIDE DEF a, b
<1>3. (q - a) * k = b - r
  <2>1. n = q * k + r
    BY DEF n
  <2>2. (q - a) * k = q * k - a * k
    BY <1>2
  <2>3. QED
    BY <1>1, <1>2, <2>1, <2>2
<1>4. q = a
  <2>1. CASE q - a >= 1
    <3>1. (q - a) * k >= k
      BY <1>2, <2>1
    <3>2. QED
      BY <1>2, <1>3, <3>1
  <2>2. CASE q - a <= -1
    <3>1. (a - q) * k >= k
      BY <1>2, <2>2
    <3>2. (a - q) * k = -((q - a) * k)
      BY <1>2
    <3>3. QED
      BY <1>2, <1>3, <3>1, <3>2
  <2>3. QED
    BY <1>2, <2>1, <2>2
<1>5. r = b
  BY <1>2, <1>3, <1>4
<1>6. QED
  BY <1>4, <1>5 DEF a, b, n

\* At the first start nothing is trained or saved.
LEMMA InitBInv == Init => BInv
<1> SUFFICES ASSUME Init PROVE BInv
  OBVIOUS
<1> USE DEF Init
<1>1. LoopTypes
  BY FilesAssumption, RoleFacts DEF LoopTypes, NoStep
<1>2. InOrder(batches)
  BY DEF InOrder
<1>3. Place /\ Saved /\ DataOnDisk
  BY DEF Place, Trained, Saving, AllSaved, Saved, DataOnDisk, NoStep
<1>4. QED
  BY <1>1, <1>2, <1>3 DEF BInv

\* A start from scratch, a resume and its failure.  A resume finds step N in
\* epoch N div steps_per_epoch; the saved position is N mod steps_per_epoch,
\* except at the end of an epoch, where it is not loaded.
LEMMA LoadBInv == BInv /\ Load => BInv'
<1> SUFFICES ASSUME BInv, Load PROVE BInv'
  OBVIOUS
<1> USE DEF BInv
<1>1. UNCHANGED <<store, tracker, role>>
  BY DEF Load, StartFromScratch, Resume, ResumeFails, disk
<1>2. Saved'
  BY <1>1 DEF Saved, InOrder
<1>3. CASE StartFromScratch
  <2>1. /\ global_steps' = 1 /\ epoch' = 0 /\ pos' = 0 /\ batches' = <<>>
        /\ pc' = "train"
    BY <1>3 DEF StartFromScratch
  <2>2. LoopTypes' /\ DataOnDisk'
    BY <1>1, <2>1, FilesAssumption DEF LoopTypes, DataOnDisk
  <2>3. InOrder(batches)'
    BY <2>1 DEF InOrder
  <2>4. 0 * steps_per_epoch + 0 = 0
    BY FilesAssumption
  <2>5. Place'
    BY <2>1, <2>4 DEF Place, Trained, Saving, AllSaved
  <2>6. QED
    BY <1>2, <2>2, <2>3, <2>5
<1>4. CASE Resume
  <2> DEFINE w == <<tracker, Roles[1]>>
             d == <<tracker, "data">>
             k == steps_per_epoch
  <2>1. /\ global_steps' = tracker + 1 /\ epoch' = tracker \div k
        /\ pos' = RestoredPos(tracker) /\ batches' = store[w] /\ pc' = "train"
        /\ w \in DOMAIN store
    BY <1>4, RoleFacts DEF Resume
  <2>2. /\ tracker \in Nat \ {0} /\ store[w] \in Seq(Nat \X Nat)
        /\ InOrder(store[w]) /\ Len(store[w]) = tracker
    <3>1. w[1] = tracker /\ w[2] = Roles[1] /\ Roles[1] # "data"
      BY RoleFacts
    <3>2. QED
      BY <2>1, <3>1 DEF Saved
  <2>3. d \in DOMAIN store
    BY <2>2 DEF DataOnDisk, LoopTypes
  <2>4. PICK e \in 0 .. tracker :
          store[d] \in 1 .. k /\ tracker = e * k + store[d]
    <3>1. d[1] = tracker /\ d[2] = "data"
      OBVIOUS
    <3>2. QED
      BY <2>3, <3>1 DEF Saved
  <2>5. k \in Nat \ {0}
    BY FilesAssumption
  <2>6. /\ epoch' \in Nat /\ pos' \in 0 .. k
        /\ epoch' * k + pos' = tracker
    <3>1. CASE store[d] < k
      <4>1. store[d] \in 0 .. k - 1 /\ e \in Nat
        BY <2>2, <2>4, <2>5, <3>1
      <4>2. (e * k + store[d]) \div k = e /\ (e * k + store[d]) % k = store[d]
        BY <2>5, <4>1, DivModUnique
      <4>3. tracker \div k = e /\ tracker % k = store[d] /\ store[d] # 0
        BY <2>4, <4>2
      <4>4. pos' = store[d]
        BY <2>1, <2>3, <4>3 DEF RestoredPos
      <4>5. QED
        BY <2>1, <2>4, <2>5, <4>1, <4>3, <4>4
    <3>2. CASE store[d] = k
      <4>1. e \in Nat /\ e + 1 \in Nat /\ tracker = (e + 1) * k + 0
        BY <2>2, <2>4, <2>5, <3>2
      <4>2. 0 \in 0 .. k - 1
        BY <2>5
      <4>3. tracker \div k = e + 1 /\ tracker % k = 0
        BY <2>5, <4>1, <4>2, DivModUnique
      <4>4. pos' = 0
        BY <2>1, <4>3 DEF RestoredPos
      <4>5. QED
        BY <2>1, <2>5, <4>1, <4>3, <4>4
    <3>3. QED
      BY <2>4, <2>5, <3>1, <3>2
  <2>7. LoopTypes'
    BY <1>1, <2>1, <2>2, <2>6 DEF LoopTypes
  <2>8. InOrder(batches)'
    BY <2>1, <2>2 DEF InOrder
  <2>9. Place'
    <3>1. Len(batches') = tracker /\ global_steps' - 1 = tracker
      BY <2>1, <2>2
    <3>2. QED
      BY <2>1, <2>6, <3>1 DEF Place, Trained, Saving, AllSaved
  <2>10. DataOnDisk'
    BY <1>1, <2>1 DEF DataOnDisk
  <2>11. QED
    BY <1>2, <2>7, <2>8, <2>9, <2>10
<1>5. CASE ResumeFails
  <2>1. pc' = "failed" /\ UNCHANGED <<global_steps, epoch, pos, batches>>
    BY <1>5 DEF ResumeFails, loop
  <2>2. QED
    BY <1>1, <1>2, <2>1
    DEF LoopTypes, InOrder, Place, Trained, Saving, AllSaved, DataOnDisk
<1>6. QED
  BY <1>3, <1>4, <1>5 DEF Load

\* The loop of fit: a batch is the one that follows the batches before it, and
\* an exhausted dataloader is at the beginning of the next epoch.
LEMMA FitBInv == BInv /\ Fit => BInv'
<1> SUFFICES ASSUME BInv, Fit PROVE BInv'
  OBVIOUS
<1> USE DEF BInv
<1> DEFINE k == steps_per_epoch
<1>0. k \in Nat \ {0}
  BY FilesAssumption
<1>1. UNCHANGED <<store, tracker>>
  BY DEF Fit, TrainStep, EndStep, NextEpoch, LoopEnds, disk
<1>2. Saved'
  BY <1>1 DEF Saved, InOrder
<1>3. CASE TrainStep
  <2>1. /\ pc = "train" /\ pos < k /\ batches' = Append(batches, <<epoch, pos>>)
        /\ pos' = pos + 1 /\ role' = 1 /\ pc' \in {"capacity", "end"}
        /\ UNCHANGED <<global_steps, epoch>>
    BY <1>3 DEF TrainStep
  <2>2. /\ batches' \in Seq(Nat \X Nat) /\ Len(batches') = Len(batches) + 1
        /\ \A i \in 1 .. Len(batches) : batches'[i] = batches[i]
        /\ batches'[Len(batches) + 1] = <<epoch, pos>>
    BY <1>0, <2>1 DEF LoopTypes
  <2>3. Len(batches) \in Nat /\ epoch * k + pos = Len(batches)
    BY <2>1 DEF LoopTypes, Place
  <2>4. Len(batches) \div k = epoch /\ Len(batches) % k = pos
    <3>1. epoch \in Nat /\ pos \in 0 .. k - 1
      BY <1>0, <2>1 DEF LoopTypes
    <3>2. QED
      BY <1>0, <2>3, <3>1, DivModUnique
  <2>5. InOrder(batches)'
    <3> SUFFICES ASSUME NEW i \in 1 .. Len(batches')
                 PROVE  batches'[i] = <<(i - 1) \div k, (i - 1) % k>>
      BY DEF InOrder
    <3>1. CASE i \in 1 .. Len(batches)
      BY <2>2, <3>1 DEF InOrder
    <3>2. CASE i = Len(batches) + 1
      <4>1. i - 1 = Len(batches)
        BY <2>3, <3>2
      <4>2. QED
        BY <2>2, <2>4, <3>2, <4>1
    <3>3. QED
      BY <2>2, <2>3, <3>1, <3>2
  <2>6. LoopTypes'
    BY <1>0, <1>1, <2>1, <2>2, RoleFacts DEF LoopTypes, Saving
  <2>7. Place'
    <3>1. epoch * k \in Nat
      BY <1>0 DEF LoopTypes
    <3>2. Len(batches) = global_steps - 1 /\ global_steps \in Nat
      BY <2>1 DEF Place, LoopTypes
    <3>3. Len(batches') = global_steps'
      BY <2>1, <2>2, <3>2
    <3>4. pos' > 0 /\ epoch' * k + pos' = epoch * k + pos + 1
      BY <1>0, <2>1, <3>1 DEF LoopTypes
    <3>5. epoch' * k + pos' = Len(batches')
      BY <2>2, <2>3, <3>4
    <3>6. QED
      BY <2>1, <3>3, <3>4, <3>5 DEF Place
  <2>8. DataOnDisk'
    BY <1>1, <2>1 DEF DataOnDisk
  <2>9. QED
    BY <1>2, <2>5, <2>6, <2>7, <2>8
<1>4. CASE EndStep
  <2>1. /\ pc = "end" /\ global_steps' = global_steps + 1
        /\ pc' \in {"done", "train"}
        /\ UNCHANGED <<role, epoch, pos, batches>>
    BY <1>4 DEF EndStep
  <2>2. LoopTypes' /\ InOrder(batches)' /\ DataOnDisk'
    BY <1>1, <2>1 DEF LoopTypes, InOrder, DataOnDisk
  <2>3. Place'
    <3>1. Len(batches) = global_steps /\ epoch * k + pos = Len(batches)
      BY <2>1 DEF Place, Trained
    <3>2. QED
      BY <2>1, <3>1 DEF Place, Trained, Saving, AllSaved, LoopTypes
  <2>4. QED
    BY <1>2, <2>2, <2>3
<1>5. CASE NextEpoch
  <2>1. /\ pc = "train" /\ pos >= k /\ epoch' = epoch + 1 /\ pos' = 0
        /\ UNCHANGED <<pc, role, global_steps, batches>>
    BY <1>5 DEF NextEpoch
  <2>2. LoopTypes' /\ InOrder(batches)' /\ DataOnDisk'
    BY <1>0, <1>1, <2>1 DEF LoopTypes, InOrder, DataOnDisk
  <2>3. Place'
    <3>1. pos = k
      BY <1>0, <2>1 DEF LoopTypes
    <3>2. (epoch + 1) * k + 0 = epoch * k + pos
      BY <1>0, <3>1 DEF LoopTypes
    <3>3. QED
      BY <2>1, <3>2 DEF Place, Trained, Saving, AllSaved
  <2>4. QED
    BY <1>2, <2>2, <2>3
<1>6. CASE LoopEnds
  <2>1. pc' = "done" /\ UNCHANGED <<role, global_steps, epoch, pos, batches>>
    BY <1>6 DEF LoopEnds, loop
  <2>2. QED
    BY <1>1, <1>2, <2>1
    DEF LoopTypes, InOrder, Place, Trained, Saving, AllSaved, DataOnDisk
<1>7. QED
  BY <1>3, <1>4, <1>5, <1>6 DEF Fit

\* Within a save the loop stands still.
LEMMA SaveBInv ==
  ASSUME BInv, pc \in Saving \union AllSaved,
         UNCHANGED <<global_steps, epoch, pos, batches>>,
         tracker' \in Int, role' \in 1 .. Len(Roles), pc' \in Trained,
         Saved', DataOnDisk'
  PROVE  BInv'
<1>1. LoopTypes'
  BY DEF BInv, LoopTypes, Trained
<1>2. InOrder(batches)'
  BY DEF BInv, InOrder
<1>3. Place'
  BY DEF BInv, Place, Trained, Saving, AllSaved
<1>4. QED
  BY <1>1, <1>2, <1>3 DEF BInv

\* The rotation removes folders of roles, and never data.pt; opening a folder
\* makes it incomplete.
LEMMA RemovingBInv ==
  BInv /\ (EnsureCapacity \/ OpenFolder \/ RegisterCheckpoint) => BInv'
<1> SUFFICES ASSUME BInv, EnsureCapacity \/ OpenFolder \/ RegisterCheckpoint
             PROVE  BInv'
  OBVIOUS
<1> USE DEF BInv
<1>1. /\ pc \in Saving /\ pc' \in Trained /\ pc' \notin {"tracker", "close"}
      /\ UNCHANGED <<tracker, global_steps, epoch, pos, batches>>
      /\ role' \in 1 .. Len(Roles)
  <2>1. CASE EnsureCapacity \/ OpenFolder
    BY <2>1
    DEF EnsureCapacity, OpenFolder, loop, Saving, Trained, LoopTypes
  <2>2. CASE RegisterCheckpoint
    <3>1. /\ pc = "register" /\ UNCHANGED <<tracker, loop>>
          /\ IF role < Len(Roles) THEN role' = role + 1 /\ pc' = "capacity"
                                  ELSE role' = role /\ pc' = "data"
      BY <2>2 DEF RegisterCheckpoint
    <3>2. role' \in 1 .. Len(Roles)
      BY <3>1, RoleFacts DEF LoopTypes
    <3>3. QED
      BY <3>1, <3>2 DEF loop, Saving, AllSaved, Trained
  <2>3. QED
    BY <2>1, <2>2
<1>2. PICK gone : /\ store' = Without(store, gone)
                  /\ \A x \in gone : x[2] = Role
  BY DEF EnsureCapacity, OpenFolder, RegisterCheckpoint, Remove, Path
<1>3. /\ DOMAIN store' = DOMAIN store \ gone
      /\ \A x \in DOMAIN store' : store'[x] = store[x]
  BY <1>2 DEF Without
<1>4. Saved'
  BY <1>3 DEF Saved, InOrder
<1>5. \A n : <<n, "data">> \in DOMAIN store => <<n, "data">> \in DOMAIN store'
  <2>1. Role # "data"
    BY RoleFacts DEF Role, LoopTypes
  <2>2. QED
    BY <1>2, <1>3, <2>1
<1>6. DataOnDisk'
  BY <1>1, <1>5 DEF DataOnDisk
<1>7. QED
  BY <1>1, <1>4, <1>6, SaveBInv DEF LoopTypes

\* The weights of step N are those of N batches.
LEMMA WriteFolderBInv == BInv /\ WriteFolder => BInv'
<1> SUFFICES ASSUME BInv, WriteFolder PROVE BInv'
  OBVIOUS
<1> USE DEF BInv
<1>1. /\ pc = "write" /\ pc' = "register"
      /\ UNCHANGED <<tracker, role, global_steps, epoch, pos, batches>>
      /\ store' = With(store, Path, batches)
  BY DEF WriteFolder, loop
<1>2. /\ DOMAIN store' = DOMAIN store \union {Path}
      /\ store'[Path] = batches
      /\ \A x \in DOMAIN store : x # Path => store'[x] = store[x]
  BY <1>1 DEF With
<1>3. Path[1] = global_steps /\ Path[2] # "data"
  BY RoleFacts DEF Path, Role, LoopTypes
<1>4. Len(batches) = global_steps /\ global_steps \in Nat \ {0}
  <2>1. /\ Len(batches) = global_steps /\ pos > 0
        /\ epoch * steps_per_epoch + pos = Len(batches)
    BY <1>1 DEF Place, Trained, Saving
  <2>2. epoch * steps_per_epoch \in Nat
    BY FilesAssumption DEF LoopTypes
  <2>3. QED
    BY <2>1, <2>2, FilesAssumption DEF LoopTypes
<1>5. Saved'
  <2> SUFFICES ASSUME NEW x \in DOMAIN store'
               PROVE  /\ x[1] \in Nat \ {0}
                      /\ x[2] = "data" =>
                         /\ store'[x] \in 1 .. steps_per_epoch
                         /\ \E e \in 0 .. x[1] :
                              x[1] = e * steps_per_epoch + store'[x]
                      /\ x[2] # "data" =>
                         /\ store'[x] \in Seq(Nat \X Nat) /\ InOrder(store'[x])
                         /\ Len(store'[x]) = x[1]
    BY DEF Saved, InOrder
  <2>1. CASE x = Path
    BY <1>2, <1>3, <1>4, <2>1 DEF LoopTypes
  <2>2. CASE x # Path
    <3>1. x \in DOMAIN store /\ store'[x] = store[x]
      BY <1>2, <2>2
    <3>2. QED
      BY <3>1 DEF Saved
  <2>3. QED
    BY <2>1, <2>2
<1>6. DataOnDisk'
  BY <1>1, <1>2 DEF DataOnDisk
<1>7. QED
  BY <1>1, <1>5, <1>6, SaveBInv DEF LoopTypes, Saving, Trained

\* data.pt holds the position behind the batch of this step.
LEMMA SaveDataloaderBInv == BInv /\ SaveDataloader => BInv'
<1> SUFFICES ASSUME BInv, SaveDataloader PROVE BInv'
  OBVIOUS
<1> USE DEF BInv
<1> DEFINE d == <<global_steps, "data">>
<1>1. /\ pc = "data" /\ pc' = "tracker"
      /\ UNCHANGED <<tracker, role, global_steps, epoch, pos, batches>>
      /\ store' = With(store, d, pos)
  BY DEF SaveDataloader, loop
<1>2. /\ DOMAIN store' = DOMAIN store \union {d}
      /\ store'[d] = pos
      /\ \A x \in DOMAIN store : x # d => store'[x] = store[x]
  BY <1>1 DEF With
<1>3. d[1] = global_steps /\ d[2] = "data"
  OBVIOUS
<1>4. /\ global_steps \in Nat \ {0} /\ pos \in 1 .. steps_per_epoch
      /\ epoch \in 0 .. global_steps
      /\ global_steps = epoch * steps_per_epoch + pos
  <2>1. /\ Len(batches) = global_steps /\ pos > 0
        /\ epoch * steps_per_epoch + pos = Len(batches)
    BY <1>1 DEF Place, Trained, AllSaved
  <2>2. PICK m \in Nat : m = epoch * steps_per_epoch /\ epoch <= m
    BY FilesAssumption DEF LoopTypes
  <2>3. m + pos = global_steps
    BY <2>1, <2>2
  <2>4. /\ global_steps \in Nat /\ pos \in 1 .. steps_per_epoch
        /\ epoch \in Nat
    BY <2>1, FilesAssumption DEF LoopTypes
  <2>5. global_steps # 0 /\ epoch <= global_steps
    BY <2>2, <2>3, <2>4
  <2>6. QED
    BY <2>1, <2>2, <2>3, <2>4, <2>5
<1> HIDE DEF d
<1>5. Saved'
  <2> SUFFICES ASSUME NEW x \in DOMAIN store'
               PROVE  /\ x[1] \in Nat \ {0}
                      /\ x[2] = "data" =>
                         /\ store'[x] \in 1 .. steps_per_epoch
                         /\ \E e \in 0 .. x[1] :
                              x[1] = e * steps_per_epoch + store'[x]
                      /\ x[2] # "data" =>
                         /\ store'[x] \in Seq(Nat \X Nat) /\ InOrder(store'[x])
                         /\ Len(store'[x]) = x[1]
    BY DEF Saved, InOrder
  <2>1. CASE x = d
    BY <1>2, <1>3, <1>4, <2>1
  <2>2. CASE x # d
    <3>1. x \in DOMAIN store /\ store'[x] = store[x]
      BY <1>2, <2>2
    <3>2. QED
      BY <3>1 DEF Saved
  <2>3. QED
    BY <2>1, <2>2
<1>6. DataOnDisk'
  BY <1>1, <1>2 DEF DataOnDisk, d
<1>7. QED
  BY <1>1, <1>5, <1>6, SaveBInv DEF LoopTypes, AllSaved, Trained

\* The tracker file is truncated, then written.
LEMMA TrackerBInv == BInv /\ (OpenTracker \/ WriteTracker) => BInv'
<1> SUFFICES ASSUME BInv, OpenTracker \/ WriteTracker PROVE BInv'
  OBVIOUS
<1> USE DEF BInv
<1>1. /\ pc \in {"tracker", "close"} /\ pc' \in {"close", "end"}
      /\ UNCHANGED <<store, role, global_steps, epoch, pos, batches>>
      /\ tracker' = Torn \/ tracker' = global_steps
  BY DEF OpenTracker, WriteTracker, loop
<1>2. Saved'
  BY <1>1 DEF Saved, InOrder
<1>3. DataOnDisk'
  BY <1>1 DEF DataOnDisk, Torn
<1>4. tracker' \in Int
  BY <1>1 DEF Torn, LoopTypes
<1>5. QED
  BY <1>1, <1>2, <1>3, <1>4, SaveBInv DEF LoopTypes, AllSaved, Trained

\* A crash loses the position, not what is on disk.
LEMMA CrashBInv == BInv /\ Crash => BInv'
<1> SUFFICES ASSUME BInv, Crash PROVE BInv'
  OBVIOUS
<1> USE DEF BInv
<1>1. /\ pc' = "load" /\ role' = 1 /\ global_steps' = 0 /\ epoch' = 0
      /\ pos' = 0 /\ batches' = <<>> /\ UNCHANGED <<store, tracker>>
  BY DEF Crash, disk
<1>2. LoopTypes'
  BY <1>1, FilesAssumption, RoleFacts DEF LoopTypes
<1>3. InOrder(batches)'
  BY <1>1 DEF InOrder
<1>4. Place' /\ Saved' /\ DataOnDisk'
  BY <1>1
  DEF Place, Trained, Saving, AllSaved, Saved, InOrder, DataOnDisk
<1>5. QED
  BY <1>2, <1>3, <1>4

\* Every step keeps the agreement.
LEMMA NextBInv == BInv /\ [Next]_vars => BInv'
<1> SUFFICES ASSUME BInv, [Next]_vars PROVE BInv'
  OBVIOUS
<1>1. CASE Load
  BY <1>1, LoadBInv
<1>2. CASE Fit
  BY <1>2, FitBInv
<1>3. CASE EnsureCapacity \/ OpenFolder \/ RegisterCheckpoint
  BY <1>3, RemovingBInv
<1>4. CASE WriteFolder
  BY <1>4, WriteFolderBInv
<1>5. CASE SaveDataloader
  BY <1>5, SaveDataloaderBInv
<1>6. CASE OpenTracker \/ WriteTracker
  BY <1>6, TrackerBInv
<1>7. CASE Crash
  BY <1>7, CrashBInv
<1>8. CASE UNCHANGED vars
  BY <1>8
  DEF vars, disk, loop, BInv, LoopTypes, InOrder, Place, Saved, DataOnDisk
<1>9. QED
  BY <1>1, <1>2, <1>3, <1>4, <1>5, <1>6, <1>7, <1>8
  DEF Next, Trainer, SaveCheckpoint, SaveRole, Ended

\* Over any number of crashes, whatever the limits of the managers, the length
\* of an epoch and the saving frequency, _load_checkpoint continues where the
\* checkpoint was taken: the weights are trained on every batch of every epoch
\* once and in order.
THEOREM BatchesOnceHolds == Spec => []BatchesOnce
<1>1. BInv => BatchesOnce
  BY DEF BInv, BatchesOnce, InOrder, Place
<1>2. QED
  BY <1>1, InitBInv, NextBInv, PTL DEF Spec

-----------------------------------------------------------------------------
(* The disk: what the managers know of, and what they have forgotten *)

DiskTypes ==
  /\ keep \in Keeps /\ IsFiniteSet(folders) /\ crashes \in Nat
  /\ previous_saved_paths \in [RoleSet -> Seq(Nat)]
  /\ role \in 1 .. Len(Roles)

\* The folders a role may have at one time, for each start of the job.
Limit(r) == IF keep[r] = 1 THEN 2 ELSE keep[r]

Occupied(r) == {x \in folders : x[2] = r}
Listed(saved, r) == {<<saved[i], r>> : i \in 1 .. Len(saved)}
Known(r) == Listed(previous_saved_paths[r], r)
            \union (IF pc \in {"write", "register"} /\ r = Role THEN {Path}
                                                                ELSE {})

\* There is room for the folder under way from ensure_checkpoint_capacity on ...
Kept ==
  \A r \in RoleSet : keep[r] > 0 =>
    /\ Len(previous_saved_paths[r]) <= keep[r]
    /\ pc \in {"open", "write", "register"} /\ r = Role =>
         Len(previous_saved_paths[r]) < Limit(r)

\* ... and each crash makes a manager forget at most Limit of them.
Forgotten ==
  \A r \in RoleSet : keep[r] > 0 =>
    Cardinality(Occupied(r) \ Known(r)) <= crashes * Limit(r)

DInv == DiskTypes /\ Kept /\ Forgotten

\* The limits are numbers.
LEMMA LimitFacts ==
  ASSUME keep \in Keeps, NEW r \in RoleSet
  PROVE  /\ keep[r] \in Nat /\ Limit(r) \in Nat /\ keep[r] <= Limit(r)
         /\ keep[r] > 0 => Limit(r) > 1
<1>1. keep[r] \in Nat
  BY FilesAssumption
<1>2. QED
  BY <1>1 DEF Limit

\* A list has no more folders than entries.
LEMMA ListedFacts ==
  ASSUME NEW saved \in Seq(Nat), NEW r
  PROVE  /\ IsFiniteSet(Listed(saved, r))
         /\ Cardinality(Listed(saved, r)) <= Len(saved)
<1> DEFINE S == 1 .. Len(saved)
           f == [i \in S |-> <<saved[i], r>>]
<1>1. f \in Surjection(S, Listed(saved, r))
  BY DEF Surjection, Listed
<1>2. Len(saved) \in Nat
  OBVIOUS
<1>3. IsFiniteSet(S) /\ Cardinality(S) = Len(saved)
  <2>1. 1 \in Int /\ Len(saved) \in Int
    BY <1>2
  <2>2. /\ IsFiniteSet(S)
        /\ Cardinality(S) = IF 1 > Len(saved) THEN 0 ELSE Len(saved) - 1 + 1
    BY <2>1, FS_Interval
  <2>3. QED
    BY <1>2, <2>2
<1>4. QED
  BY <1>1, <1>3, FS_Surjection

\* What a role occupies: no more than its limit, and what was forgotten.
LEMMA OccupiedBound ==
  ASSUME DInv, NEW r \in RoleSet, keep[r] > 0
  PROVE  /\ IsFiniteSet(Occupied(r)) /\ Cardinality(Occupied(r)) \in Nat
         /\ Cardinality(Occupied(r)) <= (crashes + 1) * Limit(r)
<1> DEFINE saved == previous_saved_paths[r]
           F == Occupied(r)
           K == Known(r)
<1>1. IsFiniteSet(F)
  BY FS_Subset DEF DInv, DiskTypes, Occupied
<1>2. /\ saved \in Seq(Nat) /\ Len(saved) \in Nat
      /\ keep[r] \in Nat /\ Limit(r) \in Nat /\ keep[r] <= Limit(r)
  BY LimitFacts DEF DInv, DiskTypes
<1>3. /\ IsFiniteSet(Listed(saved, r))
      /\ Cardinality(Listed(saved, r)) <= Len(saved)
      /\ Cardinality(Listed(saved, r)) \in Nat
  BY <1>2, ListedFacts, FS_CardinalityType
<1>4. IsFiniteSet(K) /\ Cardinality(K) <= Limit(r) /\ Cardinality(K) \in Nat
  <2>1. CASE pc \in {"write", "register"} /\ r = Role
    <3>1. K = Listed(saved, r) \union {Path} /\ Len(saved) < Limit(r)
      BY <2>1 DEF Known, DInv, Kept
    <3>2. /\ IsFiniteSet(K)
          /\ Cardinality(K) <= Cardinality(Listed(saved, r)) + 1
      <4> HIDE DEF K, saved
      <4>1. /\ IsFiniteSet(K)
            /\ Cardinality(K) = IF Path \in Listed(saved, r)
                                  THEN Cardinality(Listed(saved, r))
                                  ELSE Cardinality(Listed(saved, r)) + 1
        BY <1>3, <3>1, FS_AddElement
      <4>2. QED
        BY <1>3, <4>1
    <3>3. Cardinality(K) \in Nat
      BY <3>2, FS_CardinalityType
    <3>4. QED
      BY <1>2, <1>3, <3>1, <3>2, <3>3
  <2>2. CASE ~(pc \in {"write", "register"} /\ r = Role)
    <3>1. K = Listed(saved, r) /\ Len(saved) <= keep[r]
      BY <2>2 DEF Known, DInv, Kept
    <3>2. QED
      BY <1>2, <1>3, <3>1
  <2>3. QED
    BY <2>1, <2>2
<1>5. IsFiniteSet(F \ K) /\ Cardinality(F \ K) \in Nat
  BY <1>1, FS_Difference, FS_CardinalityType
<1>6. Cardinality(F \ K) <= crashes * Limit(r)
  BY DEF DInv, Forgotten
<1>7. /\ IsFiniteSet((F \ K) \union K)
      /\ Cardinality((F \ K) \union K) <= Cardinality(F \ K) + Cardinality(K)
  <2>1. Cardinality((F \ K) \cap K) \in Nat
    BY <1>5, FS_Subset, FS_CardinalityType
  <2>2. /\ IsFiniteSet((F \ K) \cup K)
        /\ Cardinality((F \ K) \cup K)
             = Cardinality(F \ K) + Cardinality(K) - Cardinality((F \ K) \cap K)
    BY <1>4, <1>5, FS_Union
  <2>3. QED
    BY <1>4, <1>5, <2>1, <2>2
<1>8. F \subseteq (F \ K) \union K
  OBVIOUS
<1>9. /\ Cardinality(F) \in Nat
      /\ Cardinality(F) <= Cardinality((F \ K) \union K)
      /\ Cardinality((F \ K) \union K) \in Nat
  BY <1>1, <1>7, <1>8, FS_Subset, FS_CardinalityType
<1> HIDE DEF F, K
<1>10. Cardinality(F) <= crashes * Limit(r) + Limit(r)
  <2>1. crashes * Limit(r) \in Nat
    BY <1>2 DEF DInv, DiskTypes
  <2>2. QED
    BY <1>2, <1>4, <1>5, <1>6, <1>7, <1>9, <2>1
<1>11. crashes * Limit(r) + Limit(r) = (crashes + 1) * Limit(r)
  BY <1>2 DEF DInv, DiskTypes
<1>12. QED
  BY <1>1, <1>9, <1>10, <1>11 DEF F

\* The job starts with an empty disk.
LEMMA InitDInv == Init => DInv
<1> SUFFICES ASSUME Init PROVE DInv
  OBVIOUS
<1> USE DEF Init
<1>1. DiskTypes
  BY FS_EmptySet, RoleFacts DEF DiskTypes
<1>2. \A r \in RoleSet : Len(previous_saved_paths[r]) = 0
  OBVIOUS
<1>3. Kept
  BY <1>2, LimitFacts DEF Kept
<1>4. Forgotten
  <2> SUFFICES ASSUME NEW r \in RoleSet, keep[r] > 0
               PROVE  Cardinality(Occupied(r) \ Known(r)) <= crashes * Limit(r)
    BY DEF Forgotten
  <2>1. Occupied(r) \ Known(r) = {}
    BY DEF Occupied
  <2>2. crashes * Limit(r) = 0
    BY LimitFacts
  <2>3. QED
    BY <2>1, <2>2, FS_EmptySet
<1>5. QED
  BY <1>1, <1>3, <1>4 DEF DInv

\* What Forgotten needs of a step: no role has more folders that its manager
\* does not know.
LEMMA ForgottenStep ==
  ASSUME DInv, UNCHANGED <<keep, crashes>>,
         \A r \in RoleSet :
           Occupied(r)' \ Known(r)' \subseteq Occupied(r) \ Known(r)
  PROVE  Forgotten'
<1> SUFFICES ASSUME NEW r \in RoleSet, keep[r] > 0
             PROVE  Cardinality(Occupied(r)' \ Known(r)') <= crashes * Limit(r)
  BY DEF Forgotten, Limit
<1>1. IsFiniteSet(Occupied(r) \ Known(r))
  BY OccupiedBound, FS_Difference
<1>2. /\ Cardinality(Occupied(r)' \ Known(r)')
           <= Cardinality(Occupied(r) \ Known(r))
      /\ Cardinality(Occupied(r)' \ Known(r)') \in Nat
      /\ Cardinality(Occupied(r) \ Known(r)) \in Nat
  BY <1>1, FS_Subset, FS_CardinalityType
<1>3. Cardinality(Occupied(r) \ Known(r)) <= crashes * Limit(r)
  BY DEF DInv, Forgotten
<1>4. crashes * Limit(r) \in Nat
  BY LimitFacts DEF DInv, DiskTypes
<1>5. QED
  BY <1>2, <1>3, <1>4

\* The steps that touch neither a role's folders nor its manager.
LEMMA QuietDInv ==
  ASSUME DInv, UNCHANGED <<keep, previous_saved_paths, crashes>>,
         pc' \notin {"open", "write", "register"},
         pc \notin {"write", "register"},
         role' \in 1 .. Len(Roles), IsFiniteSet(folders'),
         \A x \in folders' : x[2] \in RoleSet => x \in folders
  PROVE  DInv'
<1> USE DEF DInv
<1>1. DiskTypes'
  BY DEF DiskTypes
<1>2. Kept'
  BY DEF Kept
<1>3. \A r \in RoleSet :
        Occupied(r)' \subseteq Occupied(r) /\ Known(r)' = Known(r)
  BY DEF Occupied, Known, Listed
<1>4. Forgotten'
  BY <1>3, ForgottenStep
<1>5. QED
  BY <1>1, <1>2, <1>4

\* Paths removed from a list leave the disk with it.
LEMMA RemoveDInv ==
  ASSUME DInv, NEW saved \in Seq(Nat), NEW k \in 0 .. Len(saved),
         Remove(saved, k), Known(Role) \subseteq Listed(saved, Role),
         pc' \notin {"write", "register"}, UNCHANGED <<keep, crashes>>,
         role' \in 1 .. Len(Roles)
  PROVE  /\ DiskTypes' /\ Forgotten'
         /\ Len(previous_saved_paths'[Role]) = Len(saved) - k
         /\ \A r \in RoleSet : r # Role =>
              previous_saved_paths'[r] = previous_saved_paths[r]
<1> DEFINE rest == SubSeq(saved, k + 1, Len(saved))
           gone == {<<saved[i], Role>> : i \in 1 .. k}
<1>1. Role \in RoleSet
  BY RoleFacts DEF Role, DInv, DiskTypes
<1>2. /\ rest \in Seq(Nat) /\ Len(rest) = Len(saved) - k
      /\ \A i \in 1 .. Len(saved) - k : rest[i] = saved[k + i]
  BY SuffixFacts
<1>3. /\ folders' = folders \ gone
      /\ previous_saved_paths' = [previous_saved_paths EXCEPT ![Role] = rest]
  BY DEF Remove
<1> HIDE DEF rest
<1>4. /\ previous_saved_paths' \in [RoleSet -> Seq(Nat)]
      /\ previous_saved_paths'[Role] = rest
      /\ \A r \in RoleSet : r # Role =>
           previous_saved_paths'[r] = previous_saved_paths[r]
  BY <1>1, <1>2, <1>3 DEF DInv, DiskTypes
<1>5. DiskTypes'
  <2>1. IsFiniteSet(folders')
    BY <1>3, FS_Difference DEF DInv, DiskTypes
  <2>2. QED
    BY <1>4, <2>1 DEF DInv, DiskTypes
<1>6. Listed(saved, Role) \subseteq gone \union Listed(rest, Role)
  <2> SUFFICES ASSUME NEW i \in 1 .. Len(saved)
               PROVE  <<saved[i], Role>> \in gone \union Listed(rest, Role)
    BY DEF Listed
  <2>1. CASE i <= k
    BY <2>1
  <2>2. CASE i > k
    <3>1. Len(saved) \in Nat
      OBVIOUS
    <3>2. i - k \in 1 .. Len(saved) - k /\ k + (i - k) = i
      BY <2>2, <3>1
    <3>3. rest[i - k] = saved[i] /\ i - k \in 1 .. Len(rest)
      BY <1>2, <3>2
    <3>4. QED
      BY <3>3 DEF Listed
  <2>3. QED
    BY <2>1, <2>2
<1>7. ASSUME NEW r \in RoleSet
      PROVE  Occupied(r)' \ Known(r)' \subseteq Occupied(r) \ Known(r)
  <2>1. Known(r)' = Listed(previous_saved_paths'[r], r)
    BY DEF Known, Listed
  <2>2. Occupied(r)' = Occupied(r) \ gone
    BY <1>3 DEF Occupied
  <2>3. CASE r = Role
    BY <1>4, <1>6, <2>1, <2>2, <2>3
  <2>4. CASE r # Role
    <3>1. Known(r)' = Known(r)
      BY <1>4, <2>1, <2>4 DEF Known
    <3>2. QED
      BY <2>2, <3>1
  <2>5. QED
    BY <2>3, <2>4
<1>8. Forgotten'
  BY <1>7, ForgottenStep
<1>9. QED
  BY <1>2, <1>4, <1>5, <1>8

\* ensure_checkpoint_capacity makes room for one folder more.
LEMMA EnsureCapacityDInv == DInv /\ EnsureCapacity => DInv'
<1> SUFFICES ASSUME DInv, EnsureCapacity PROVE DInv'
  OBVIOUS
<1> DEFINE saved == previous_saved_paths[Role]
           k == Excess(Len(saved))
<1>1. /\ pc = "capacity" /\ Remove(saved, k) /\ pc' = "open"
      /\ UNCHANGED <<keep, role, crashes>>
  BY DEF EnsureCapacity
<1>2. Role \in RoleSet
  BY RoleFacts DEF Role, DInv, DiskTypes
<1>3. saved \in Seq(Nat) /\ Len(saved) \in Nat /\ keep[Role] \in Nat
  BY <1>2, LimitFacts DEF DInv, DiskTypes
<1>4. k \in 0 .. Len(saved)
  BY <1>3 DEF Excess
<1>5. Known(Role) \subseteq Listed(saved, Role)
  BY <1>1 DEF Known
<1>6. /\ DiskTypes' /\ Forgotten'
      /\ Len(previous_saved_paths'[Role]) = Len(saved) - k
      /\ \A r \in RoleSet : r # Role =>
           previous_saved_paths'[r] = previous_saved_paths[r]
  <2> HIDE DEF saved, k
  <2>1. role' \in 1 .. Len(Roles) /\ pc' \notin {"write", "register"}
    BY <1>1 DEF DInv, DiskTypes
  <2>2. QED
    BY <1>1, <1>3, <1>4, <1>5, <2>1, RemoveDInv
<1>7. Kept'
  <2> SUFFICES ASSUME NEW r \in RoleSet, keep[r] > 0
               PROVE  /\ Len(previous_saved_paths'[r]) <= keep[r]
                      /\ r = Role => Len(previous_saved_paths'[r]) < Limit(r)
    BY <1>1 DEF Kept, Role, Limit
  <2>1. CASE r = Role
    <3>1. Len(saved) <= keep[r]
      BY <2>1 DEF DInv, Kept
    <3>2. QED
      BY <1>3, <1>6, <2>1, <3>1 DEF Excess, Limit
  <2>2. CASE r # Role
    BY <1>6, <2>2 DEF DInv, Kept
  <2>3. QED
    BY <2>1, <2>2
<1>8. QED
  BY <1>6, <1>7 DEF DInv

\* The folder under way is the one the room was made for.
LEMMA FolderDInv == DInv /\ (OpenFolder \/ WriteFolder) => DInv'
<1> SUFFICES ASSUME DInv, OpenFolder \/ WriteFolder PROVE DInv'
  OBVIOUS
<1>1. /\ pc \in {"open", "write"} /\ pc' \in {"write", "register"}
      /\ UNCHANGED <<keep, previous_saved_paths, role, global_steps, crashes>>
      /\ \/ folders' = folders \union {Path}
         \/ folders' = folders /\ pc = "write"
  BY DEF OpenFolder, WriteFolder, loop
<1>2. UNCHANGED <<Role, Path>>
  BY <1>1 DEF Role, Path
<1>3. DiskTypes'
  <2>1. IsFiniteSet(folders \union {Path})
    BY FS_AddElement DEF DInv, DiskTypes
  <2>2. QED
    BY <1>1, <2>1 DEF DInv, DiskTypes
<1>4. Kept'
  BY <1>1, <1>2 DEF DInv, Kept, Limit
<1>5. ASSUME NEW r \in RoleSet
      PROVE  Occupied(r)' \ Known(r)' \subseteq Occupied(r) \ Known(r)
  <2>1. CASE r = Role
    BY <1>1, <1>2, <2>1 DEF Occupied, Known, Listed
  <2>2. CASE r # Role
    <3>1. Path[2] = Role
      BY DEF Path
    <3>2. Known(r)' = Known(r) /\ Occupied(r)' = Occupied(r)
      BY <1>1, <1>2, <2>2, <3>1 DEF Occupied, Known, Listed
    <3>3. QED
      BY <3>2
  <2>3. QED
    BY <2>1, <2>2
<1>6. QED
  BY <1>1, <1>3, <1>4, <1>5, ForgottenStep DEF DInv

\* register_checkpoint lists the folder, and is back within the limit.
LEMMA RegisterDInv == DInv /\ global_steps \in Nat /\ RegisterCheckpoint => DInv'
<1> SUFFICES ASSUME DInv, global_steps \in Nat, RegisterCheckpoint PROVE DInv'
  OBVIOUS
<1> DEFINE old == previous_saved_paths[Role]
           saved == Append(old, global_steps)
           k == IF keep[Role] > 0 /\ Len(saved) > keep[Role]
                  THEN Len(saved) - keep[Role] ELSE 0
<1>1. /\ pc = "register" /\ Remove(saved, k)
      /\ UNCHANGED <<keep, crashes>>
      /\ IF role < Len(Roles) THEN role' = role + 1 /\ pc' = "capacity"
                              ELSE role' = role /\ pc' = "data"
  BY DEF RegisterCheckpoint
<1>2. Role \in RoleSet
  BY RoleFacts DEF Role, DInv, DiskTypes
<1>3. /\ old \in Seq(Nat) /\ Len(old) \in Nat /\ keep[Role] \in Nat
      /\ saved \in Seq(Nat) /\ Len(saved) = Len(old) + 1
      /\ \A i \in 1 .. Len(old) : saved[i] = old[i]
      /\ saved[Len(old) + 1] = global_steps
  BY <1>2, LimitFacts DEF DInv, DiskTypes
<1>4. k \in 0 .. Len(saved)
  BY <1>3
<1>5. Known(Role) \subseteq Listed(saved, Role)
  <2>1. Known(Role) = Listed(old, Role) \union {<<global_steps, Role>>}
    BY <1>1 DEF Known, Path
  <2>2. <<global_steps, Role>> \in Listed(saved, Role)
    BY <1>3 DEF Listed
  <2>3. Listed(old, Role) \subseteq Listed(saved, Role)
    <3> SUFFICES ASSUME NEW i \in 1 .. Len(old)
                 PROVE  <<old[i], Role>> \in Listed(saved, Role)
      BY DEF Listed
    <3>1. i \in 1 .. Len(saved) /\ saved[i] = old[i]
      BY <1>3
    <3>2. QED
      BY <3>1 DEF Listed
  <2>4. QED
    BY <2>1, <2>2, <2>3
<1>6. role' \in 1 .. Len(Roles) /\ pc' \notin {"open", "write", "register"}
  BY <1>1, RoleFacts DEF DInv, DiskTypes
<1>7. /\ DiskTypes' /\ Forgotten'
      /\ Len(previous_saved_paths'[Role]) = Len(saved) - k
      /\ \A r \in RoleSet : r # Role =>
           previous_saved_paths'[r] = previous_saved_paths[r]
  <2> HIDE DEF saved, k
  <2>1. QED
    BY <1>1, <1>3, <1>4, <1>5, <1>6, RemoveDInv
<1>8. Kept'
  <2> SUFFICES ASSUME NEW r \in RoleSet, keep[r] > 0
               PROVE  Len(previous_saved_paths'[r]) <= keep[r]
    BY <1>1, <1>6 DEF Kept
  <2>1. CASE r = Role
    BY <1>3, <1>7, <2>1
  <2>2. CASE r # Role
    BY <1>7, <2>2 DEF DInv, Kept
  <2>3. QED
    BY <2>1, <2>2
<1>9. QED
  BY <1>7, <1>8 DEF DInv

\* A crash makes the managers forget what they knew, within their limits.
LEMMA CrashDInv == DInv /\ Crash => DInv'
<1> SUFFICES ASSUME DInv, Crash PROVE DInv'
  OBVIOUS
<1>1. /\ pc' = "load" /\ role' = 1 /\ crashes' = crashes + 1
      /\ UNCHANGED <<keep, folders>>
      /\ previous_saved_paths' = [r \in RoleSet |-> <<>>]
  BY DEF Crash, disk
<1>2. DiskTypes'
  BY <1>1, RoleFacts DEF DInv, DiskTypes
<1>3. \A r \in RoleSet : Len(previous_saved_paths'[r]) = 0
  BY <1>1
<1>4. Kept'
  BY <1>1, <1>3, LimitFacts DEF Kept, DInv, DiskTypes
<1>5. Forgotten'
  <2> SUFFICES ASSUME NEW r \in RoleSet, keep[r] > 0
               PROVE  Cardinality(Occupied(r)' \ Known(r)')
                        <= (crashes + 1) * Limit(r)
    BY <1>1 DEF Forgotten, Limit
  <2>1. Known(r)' = {}
    BY <1>1, <1>3 DEF Known, Listed
  <2>2. Occupied(r)' \ Known(r)' = Occupied(r)
    BY <1>1, <2>1 DEF Occupied
  <2>3. QED
    BY <2>2, OccupiedBound
<1>6. QED
  BY <1>2, <1>4, <1>5 DEF DInv

\* Every step keeps the disk within its bounds.
LEMMA NextDInv == BInv /\ DInv /\ [Next]_vars => DInv'
<1> SUFFICES ASSUME BInv, DInv, [Next]_vars PROVE DInv'
  OBVIOUS
<1>1. CASE Load \/ Fit
  <2>1. /\ UNCHANGED <<keep, folders, previous_saved_paths, crashes>>
        /\ role' = role \/ role' = 1
        /\ pc \in {"load", "train", "end"}
        /\ pc' \in {"train", "failed", "capacity", "end", "done"}
    BY <1>1
    DEF Load, StartFromScratch, Resume, ResumeFails, Fit, TrainStep, EndStep,
        NextEpoch, LoopEnds, disk
  <2>2. IsFiniteSet(folders') /\ role' \in 1 .. Len(Roles)
    BY <2>1, RoleFacts DEF DInv, DiskTypes
  <2>3. QED
    BY <2>1, <2>2, QuietDInv
<1>2. CASE EnsureCapacity
  BY <1>2, EnsureCapacityDInv
<1>3. CASE OpenFolder \/ WriteFolder
  BY <1>3, FolderDInv
<1>4. CASE RegisterCheckpoint
  BY <1>4, RegisterDInv DEF BInv, LoopTypes
<1>5. CASE SaveDataloader
  <2>1. /\ folders' = folders \union {<<global_steps, "data">>}
        /\ UNCHANGED <<keep, previous_saved_paths, role, crashes>>
        /\ pc = "data" /\ pc' = "tracker"
    BY <1>5 DEF SaveDataloader
  <2>2. IsFiniteSet(folders') /\ role' \in 1 .. Len(Roles)
    BY <2>1, FS_AddElement DEF DInv, DiskTypes
  <2>3. \A x \in folders' : x[2] \in RoleSet => x \in folders
    BY <2>1, RoleFacts
  <2>4. QED
    BY <2>1, <2>2, <2>3, QuietDInv
<1>6. CASE OpenTracker \/ WriteTracker
  <2>1. /\ UNCHANGED <<keep, folders, previous_saved_paths, role, crashes>>
        /\ pc \in {"tracker", "close"} /\ pc' \in {"close", "end"}
    BY <1>6 DEF OpenTracker, WriteTracker
  <2>2. IsFiniteSet(folders') /\ role' \in 1 .. Len(Roles)
    BY <2>1 DEF DInv, DiskTypes
  <2>3. QED
    BY <2>1, <2>2, QuietDInv
<1>7. CASE Crash
  BY <1>7, CrashDInv
<1>8. CASE UNCHANGED vars
  BY <1>8
  DEF vars, disk, loop, DInv, DiskTypes, Kept, Forgotten, Limit, Occupied,
      Known, Listed, Role, Path
<1>9. QED
  BY <1>1, <1>2, <1>3, <1>4, <1>5, <1>6, <1>7, <1>8
  DEF Next, Trainer, SaveCheckpoint, SaveRole, Ended

\* However often the job crashes, and wherever in a save, a role's folders stay
\* within max_ckpt_to_keep (two, where it is one) for each start of the job.
THEOREM DiskBoundedHolds == Spec => []DiskBounded
<1>1. Init => BInv /\ DInv
  BY InitBInv, InitDInv
<1>2. BInv /\ DInv /\ [Next]_vars => (BInv /\ DInv)'
  BY NextBInv, NextDInv
<1>3. BInv /\ DInv => DiskBounded
  BY OccupiedBound DEF DiskBounded, Occupied, Limit
<1>4. QED
  BY <1>1, <1>2, <1>3, PTL DEF Spec
=============================================================================
