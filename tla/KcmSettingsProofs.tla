------------------------- MODULE KcmSettingsProofs -------------------------
(***************************************************************************)
(* What the settings page leaves for the greeter, for every set of        *)
(* pictures and files and whatever fails, whether a job fails with it or  *)
(* goes on.                                                               *)
(*                                                                        *)
(* A job is several steps of the helper, and others are queued, answered  *)
(* or forgotten by a closed page meanwhile.  IInv therefore ties the job  *)
(* at work to what is recorded of the last job and to the files (AtWork), *)
(* and the configuration in every save to the picture that goes with it   *)
(* (WellMade): the one is written two steps before the other is copied.   *)
(***************************************************************************)
EXTENDS KcmSettings, TLAPS

\* A save names the copy of the picture it brings.
WellMade(job) ==
    job.kind = "save" =>
        job.config.picture = IF job.from = NoPicture THEN NoPicture
                             ELSE [at |-> "installed", name |-> job.from.name]
AllWellMade == WellMade(helper.job) /\ \A i \in DOMAIN jobs : WellMade(jobs[i])

\* No job of the kind at work counts as done, and a configuration that was written
\* in full is still there when the picture is copied.
AtWork ==
    helper.at # "idle" =>
        /\ ~last[Slot(helper.job.kind)].ok
        /\ helper.at = "write" => helper.job.kind = "save"
        /\ helper.at # "write" /\ helper.job.kind = "save" /\ "config" \notin helper.ignored
              => disk.config = helper.job.config

\* The strengthening.
IInv == /\ TypeOK /\ AllWellMade /\ AtWork
        /\ OwnedByGreeter /\ ChosenPictureInstalled /\ LastJobHolds

-----------------------------------------------------------------------------
(***************************************************************************)
(* Types                                                                  *)
(***************************************************************************)

LEMMA JobTypes ==
    /\ Defaults \in Settings /\ NoFiles \in Own
    /\ \A k \in Kinds : Job(k) \in Jobs
<1>1. Defaults \in Settings
  BY ConstantsAssumption DEF Defaults, Settings, URLs
<1>2. NoFiles \in Own
  BY DEF NoFiles, Own
<1>3. NoPicture \in URLs
  BY DEF URLs
<1> QED BY <1>1, <1>2, <1>3 DEF Job, Jobs

\* What a save sends for the values of the page.
LEMMA AdjustedTypes ==
    ASSUME NEW values \in Settings
    PROVE  /\ Adjusted(values) \in Settings /\ values.picture \in URLs
           /\ Adjusted(values).picture =
                 IF values.picture = NoPicture THEN NoPicture
                 ELSE [at |-> "installed", name |-> values.picture.name]
<1>1. values.picture \in URLs
  BY DEF Settings
<1>2. CASE values.picture = NoPicture
  BY <1>1, <1>2 DEF Adjusted
<1>3. CASE values.picture # NoPicture
  <2> DEFINE p == [at |-> "installed", name |-> values.picture.name]
  <2>1. [values.picture EXCEPT !.at = "installed"] = p /\ p \in URLs
    BY <1>1, <1>3 DEF URLs
  <2>2. Adjusted(values) = [values EXCEPT !.picture = p]
    BY <1>3, <2>1 DEF Adjusted
  <2> HIDE DEF p
  <2>3. Adjusted(values) \in Settings /\ Adjusted(values).picture = p
    BY <2>1, <2>2 DEF Settings
  <2> QED BY <1>1, <1>3, <2>3 DEF p
<1> QED BY <1>2, <1>3

\* The job at the head of the queue, and what is left of it.
LEMMA HeadTypes ==
    ASSUME TypeOK, jobs # <<>>
    PROVE  /\ Head(jobs) \in Jobs /\ Tail(jobs) \in Seq(Jobs)
           /\ Head(jobs) = jobs[1] /\ 1 \in DOMAIN jobs
           /\ \A i \in DOMAIN Tail(jobs) : i + 1 \in DOMAIN jobs /\ Tail(jobs)[i] = jobs[i + 1]
BY DEF TypeOK

LEMMA AnsweredTypes ==
    ASSUME TypeOK, NEW job \in Jobs, NEW ok \in BOOLEAN
    PROVE  Answered(job, ok) \in Seq(Answers)
<1>1. [kind |-> job.kind, error |-> ~ok] \in Answers
  BY DEF Jobs, Answers
<1> QED BY <1>1 DEF Answered, TypeOK

LEMMA NothingTypes ==
    /\ Idle \in Helpers /\ Idle.at = "idle" /\ WellMade(Idle.job)
    /\ \A slot \in {"save", "sync"} : NotDone(slot) \in Results /\ ~NotDone(slot).ok
<1>1. \A k \in {"save", "sync"} : Job(k) \in Jobs
  BY JobTypes DEF Kinds
<1>2. Idle \in Helpers /\ \A slot \in {"save", "sync"} : NotDone(slot) \in Results
  BY <1>1 DEF Idle, Helpers, NotDone, Results
<1>3. WellMade(Job("save"))
  BY DEF Job, WellMade, Defaults
<1> QED BY <1>2, <1>3 DEF Idle, NotDone

-----------------------------------------------------------------------------
(***************************************************************************)
(* The page                                                               *)
(***************************************************************************)

\* Nothing is written, and at most a job is forgotten by its page.
Alike(j, k) ==
    /\ j.kind = k.kind /\ j.config = k.config
    /\ j.from = k.from /\ j.files = k.files

LEMMA PageStep ==
    ASSUME IInv, TypeOK', UNCHANGED <<disk, last>>,
           helper'.at = helper.at, helper'.ignored = helper.ignored,
           Alike(helper'.job, helper.job),
           \A i \in DOMAIN jobs' : WellMade(jobs'[i])
    PROVE  IInv'
<1>1. AllWellMade'
  BY DEF IInv, AllWellMade, Alike, WellMade
<1>2. AtWork'
  BY DEF IInv, AtWork, Alike, Slot
<1>3. OwnedByGreeter' /\ ChosenPictureInstalled' /\ LastJobHolds'
  BY DEF IInv, OwnedByGreeter, ChosenPictureInstalled, LastJobHolds
<1> QED BY <1>1, <1>2, <1>3 DEF IInv

LEMMA LoadStep == IInv /\ Load => IInv'
<1> SUFFICES ASSUME IInv, Load PROVE IInv'
  OBVIOUS
<1>1. page' \in Pages
  BY DEF Load, IInv, TypeOK, Pages, Disks
<1>2. TypeOK'
  BY <1>1 DEF Load, IInv, TypeOK
<1> QED BY <1>2, PageStep DEF Load, IInv, AllWellMade, Alike

LEMMA CloseStep == IInv /\ Close => IInv'
<1> SUFFICES ASSUME IInv, Close PROVE IInv'
  OBVIOUS
<1>a. /\ page \in Pages /\ jobs \in Seq(Jobs) /\ helper \in Helpers /\ helper.job \in Jobs
      /\ TypeOK
  BY DEF IInv, TypeOK, Helpers
<1>b. \A job \in Jobs : /\ [job EXCEPT !.asked = FALSE] \in Jobs
                        /\ Alike([job EXCEPT !.asked = FALSE], job)
  BY DEF Jobs, Alike
<1>1. page' \in Pages
  BY <1>a DEF Close, Pages
<1>2. /\ jobs' \in Seq(Jobs) /\ DOMAIN jobs' = DOMAIN jobs
      /\ \A i \in DOMAIN jobs : jobs[i] \in Jobs /\ Alike(jobs'[i], jobs[i])
  <2>1. jobs' = [i \in DOMAIN jobs |-> [jobs[i] EXCEPT !.asked = FALSE]]
    BY DEF Close
  <2>2. \A i \in DOMAIN jobs : jobs[i] \in Jobs
    BY <1>a
  <2>3. DOMAIN jobs = 1..Len(jobs) /\ Len(jobs) \in Nat
    BY <1>a
  <2>4. \A i \in 1..Len(jobs) : jobs'[i] \in Jobs
    BY <1>b, <2>1, <2>2, <2>3
  <2> QED BY <1>b, <2>1, <2>2, <2>3, <2>4
<1>3. /\ helper' \in Helpers /\ helper'.at = helper.at /\ Alike(helper'.job, helper.job)
      /\ helper'.ignored = helper.ignored
  <2>1. helper' = [helper EXCEPT !.job = [helper.job EXCEPT !.asked = FALSE]]
    BY DEF Close
  <2> QED BY <1>a, <1>b, <2>1 DEF Helpers
<1>4. TypeOK'
  BY <1>a, <1>1, <1>2, <1>3 DEF Close, TypeOK
<1>5. \A i \in DOMAIN jobs' : WellMade(jobs'[i])
  BY <1>2 DEF IInv, AllWellMade, Alike, WellMade
<1> QED BY <1>3, <1>4, <1>5, PageStep DEF Close

LEMMA ChooseStep ==
    ASSUME IInv, NEW values \in Settings, Choose(values)
    PROVE  IInv'
<1>1. page' \in Pages
  BY DEF Choose, Updated, IInv, TypeOK, Pages
<1>2. bound' \in Bounds
  BY ConstantsAssumption DEF Choose, IInv, TypeOK, Bounds
<1>3. TypeOK'
  BY <1>1, <1>2 DEF Choose, IInv, TypeOK
<1> QED BY <1>3, PageStep DEF Choose, IInv, AllWellMade, Alike

LEMMA FileStep ==
    ASSUME IInv, NEW f \in Files, NEW c \in Contents \cup {Absent}, UserChangesFile(f, c)
    PROVE  IInv'
<1>1. mine' \in Own
  BY DEF UserChangesFile, IInv, TypeOK, Own
<1>2. bound' \in Bounds
  BY ConstantsAssumption DEF UserChangesFile, IInv, TypeOK, Bounds
<1>3. TypeOK'
  BY <1>1, <1>2 DEF UserChangesFile, IInv, TypeOK
<1> QED BY <1>3, PageStep DEF UserChangesFile, IInv, AllWellMade, Alike

\* A job that is well made is queued.
LEMMA ExecuteStep ==
    ASSUME IInv, NEW job \in Jobs, WellMade(job), Execute(job)
    PROVE  IInv'
<1>1. jobs' \in Seq(Jobs) /\ \A i \in DOMAIN jobs' : WellMade(jobs'[i])
  BY DEF Execute, IInv, TypeOK, AllWellMade
<1>2. bound' \in Bounds
  BY ConstantsAssumption DEF Execute, IInv, TypeOK, Bounds
<1>3. TypeOK'
  BY <1>1, <1>2 DEF Execute, IInv, TypeOK
<1> QED BY <1>1, <1>3, PageStep DEF Execute, Alike

LEMMA SaveStep == IInv /\ Save => IInv'
<1> SUFFICES ASSUME IInv, Save PROVE IInv'
  OBVIOUS
<1> DEFINE v == page.values
           job(fd) == [Job("save") EXCEPT !.config = Adjusted(v), !.from = v.picture,
                                          !.fd = fd]
<1>1. v \in Settings
  BY DEF IInv, TypeOK, Pages
<1>2. PICK fd \in BOOLEAN : Execute(job(fd))
  BY DEF Save, Descriptors
<1> HIDE DEF v
<1>3. Job("save") \in Jobs /\ Job("save").kind = "save"
  BY JobTypes DEF Kinds, Job
<1>4. /\ job(fd) \in Jobs /\ job(fd).kind = "save"
      /\ job(fd).config = Adjusted(v) /\ job(fd).from = v.picture
  BY <1>1, <1>3, AdjustedTypes DEF Jobs
<1> HIDE DEF job
<1>5. WellMade(job(fd))
  BY <1>1, <1>4, AdjustedTypes DEF WellMade
<1> QED BY <1>2, <1>4, <1>5, ExecuteStep

LEMMA SyncStep == IInv /\ (SynchronizeSettings \/ ResetSynchronizedSettings) => IInv'
<1> SUFFICES ASSUME IInv, SynchronizeSettings \/ ResetSynchronizedSettings PROVE IInv'
  OBVIOUS
<1>1. Job("sync") \in Jobs /\ Job("reset") \in Jobs /\ mine \in Own
  BY JobTypes DEF Kinds, IInv, TypeOK
<1>2. CASE SynchronizeSettings
  <2> DEFINE job == [Job("sync") EXCEPT !.files = mine]
  <2>1. job \in Jobs /\ job.kind = "sync"
    BY <1>1 DEF Jobs, Job
  <2>2. Execute(job)
    BY <1>2 DEF SynchronizeSettings
  <2> HIDE DEF job
  <2> QED BY <2>1, <2>2, ExecuteStep DEF WellMade
<1>3. CASE ResetSynchronizedSettings
  BY <1>1, <1>3, ExecuteStep DEF ResetSynchronizedSettings, WellMade, Job
<1> QED BY <1>2, <1>3

LEMMA HearStep == IInv /\ HearAnswer => IInv'
<1> SUFFICES ASSUME IInv, HearAnswer PROVE IInv'
  OBVIOUS
<1>1. Head(answers) \in Answers /\ answers' \in Seq(Answers)
  BY DEF HearAnswer, IInv, TypeOK
<1>2. page' \in Pages
  BY <1>1 DEF HearAnswer, IInv, TypeOK, Pages, Answers
<1>3. TypeOK'
  BY <1>1, <1>2 DEF HearAnswer, IInv, TypeOK
<1> QED BY <1>3, PageStep DEF HearAnswer, IInv, AllWellMade, Alike

-----------------------------------------------------------------------------
(***************************************************************************)
(* The helper                                                             *)
(***************************************************************************)

LEMMA SlotTypes ==
    \A kind \in Kinds : /\ Slot(kind) \in {"save", "sync"}
                        /\ Slot(kind) = "save" <=> kind = "save"
BY DEF Kinds, Slot

LEMMA RefusedStep == IInv /\ JobRefused => IInv'
<1> SUFFICES ASSUME IInv, JobRefused PROVE IInv'
  OBVIOUS
<1>1. /\ Head(jobs) \in Jobs /\ jobs' \in Seq(Jobs)
      /\ \A i \in DOMAIN jobs' : WellMade(jobs'[i])
  BY HeadTypes DEF JobRefused, IInv, AllWellMade
<1>2. answers' \in Seq(Answers)
  BY <1>1, AnsweredTypes DEF JobRefused, IInv
<1>3. TypeOK'
  BY <1>1, <1>2 DEF JobRefused, IInv, TypeOK
<1> QED BY <1>1, <1>3, PageStep DEF JobRefused, Alike

\* The helper takes the job at the head of the queue, and none of its kind counts
\* as done any more.
LEMMA Begun ==
    ASSUME IInv, helper.at = "idle", jobs # <<>>, NEW at \in {"write", "owner"}, Begins(at)
    PROVE  /\ jobs' \in Seq(Jobs) /\ helper' \in Helpers
           /\ last' \in [{"save", "sync"} -> Results]
           /\ helper'.at = at /\ helper'.job = Head(jobs) /\ Head(jobs) \in Jobs
           /\ AllWellMade' /\ ~last'[Slot(Head(jobs).kind)].ok
           /\ \A k \in {"save", "sync"} \ {Slot(Head(jobs).kind)} : last'[k] = last[k]
<1> DEFINE job == Head(jobs)
           s == Slot(job.kind)
<1>1. /\ job \in Jobs /\ jobs' \in Seq(Jobs) /\ job = jobs[1] /\ 1 \in DOMAIN jobs
      /\ \A i \in DOMAIN jobs' : i + 1 \in DOMAIN jobs /\ jobs'[i] = jobs[i + 1]
  BY HeadTypes DEF IInv, Begins
<1>2. helper' = [at |-> at, job |-> job, ignored |-> {}]
  BY DEF Begins
<1>3. s \in {"save", "sync"} /\ last \in [{"save", "sync"} -> Results]
  BY <1>1 DEF IInv, TypeOK, Slot
<1>4. last' = [last EXCEPT ![s] = NotDone(s)]
  BY DEF Begins
<1> HIDE DEF job, s
<1>5. helper' \in Helpers /\ helper'.at = at /\ helper'.job = job
  BY <1>1, <1>2 DEF Helpers
<1>6. AllWellMade'
  BY <1>1, <1>5 DEF IInv, AllWellMade
<1>7. NotDone(s) \in Results /\ ~NotDone(s).ok
  BY <1>3, NothingTypes
<1>8. last' \in [{"save", "sync"} -> Results] /\ ~last'[s].ok
      /\ \A k \in {"save", "sync"} \ {s} : last'[k] = last[k]
  BY <1>3, <1>4, <1>7
<1> QED BY <1>1, <1>5, <1>6, <1>8 DEF job, s

LEMMA BeginSaveStep == IInv /\ BeginSave => IInv'
<1> SUFFICES ASSUME IInv, BeginSave PROVE IInv'
  OBVIOUS
<1>1. /\ jobs' \in Seq(Jobs) /\ helper' \in Helpers
      /\ last' \in [{"save", "sync"} -> Results]
      /\ helper'.at = "write" /\ helper'.job.kind = "save"
      /\ AllWellMade' /\ ~last'["save"].ok /\ last'["sync"] = last["sync"]
  BY Begun DEF BeginSave, Slot
<1>2. disk' \in Disks /\ disk'.config = Defaults /\ disk'.synced = disk.synced
  BY JobTypes DEF BeginSave, IInv, TypeOK, Disks
<1>3. TypeOK'
  BY <1>1, <1>2 DEF BeginSave, IInv, TypeOK, Defaults
<1>4. AtWork' /\ OwnedByGreeter' /\ ChosenPictureInstalled'
  BY <1>1 DEF AtWork, Slot, OwnedByGreeter, ChosenPictureInstalled
<1>5. LastJobHolds'
  BY <1>1, <1>2 DEF IInv, LastJobHolds
<1> QED BY <1>1, <1>3, <1>4, <1>5 DEF IInv

LEMMA BeginSyncStep == IInv /\ BeginSync => IInv'
<1> SUFFICES ASSUME IInv, BeginSync PROVE IInv'
  OBVIOUS
<1>1. /\ jobs' \in Seq(Jobs) /\ helper' \in Helpers
      /\ last' \in [{"save", "sync"} -> Results]
      /\ helper'.at = "owner" /\ helper'.job.kind # "save"
      /\ AllWellMade' /\ ~last'["sync"].ok /\ last'["save"] = last["save"]
  BY Begun DEF BeginSync, Slot
<1>2. TypeOK' /\ UNCHANGED disk
  BY <1>1 DEF BeginSync, IInv, TypeOK
<1>3. AtWork' /\ OwnedByGreeter' /\ LastJobHolds'
  BY <1>1 DEF AtWork, Slot, OwnedByGreeter, LastJobHolds
<1>4. ChosenPictureInstalled'
  BY <1>1, <1>2 DEF IInv, ChosenPictureInstalled
<1> QED BY <1>1, <1>2, <1>3, <1>4 DEF IInv

\* What reaches plasmalogin.conf of a configuration; all of it, unless it is cut.
LEMMA WrittenTypes ==
    ASSUME NEW config \in Settings, NEW cut
    PROVE  /\ Written(config, cut) \in Settings
           /\ Written(config, cut).picture \in {NoPicture, config.picture}
           /\ cut = {} => Written(config, cut) = config
BY ConstantsAssumption DEF Written, Settings, URLs

LEMMA WriteStep == IInv /\ WriteConfig => IInv'
<1> SUFFICES ASSUME IInv, WriteConfig PROVE IInv'
  OBVIOUS
<1>1. /\ helper.at = "write" /\ helper \in Helpers /\ helper.job \in Jobs /\ disk \in Disks
      /\ helper.job.kind = "save" /\ ~last["save"].ok /\ WellMade(helper.job)
  BY DEF WriteConfig, IInv, TypeOK, Helpers, AtWork, Slot, AllWellMade
<1>2. PICK cut : /\ disk' = [disk EXCEPT !.config = Written(helper.job.config, cut)]
                 /\ helper' = [helper EXCEPT !.at = "owner",
                                 !.ignored = IF cut = {} THEN {} ELSE {"config"}]
  BY DEF WriteConfig
<1> DEFINE c == Written(helper.job.config, cut)
<1>3. /\ c \in Settings /\ c.picture \in {NoPicture, helper.job.config.picture}
      /\ cut = {} => c = helper.job.config
  BY <1>1, WrittenTypes DEF Jobs
<1>4. disk' = [disk EXCEPT !.config = c]
  BY <1>2
<1> HIDE DEF c
<1>5. /\ helper' \in Helpers /\ helper'.at = "owner" /\ helper'.job = helper.job
      /\ "config" \notin helper'.ignored => cut = {}
  BY <1>1, <1>2 DEF Helpers, Ignorable
<1>6. disk' \in Disks /\ disk'.config = c /\ disk'.synced = disk.synced
  BY <1>1, <1>3, <1>4 DEF Disks
<1>7. disk'.config.picture = NoPicture \/ disk'.config.picture.at = "installed"
  BY <1>1, <1>3, <1>6 DEF WellMade
<1>8. TypeOK'
  BY <1>5, <1>6, <1>7 DEF WriteConfig, IInv, TypeOK
<1>9. AllWellMade' /\ UNCHANGED last
  BY <1>5 DEF WriteConfig, IInv, AllWellMade
<1>10. AtWork' /\ OwnedByGreeter' /\ ChosenPictureInstalled'
  BY <1>1, <1>3, <1>5, <1>6, <1>9 DEF AtWork, Slot, OwnedByGreeter, ChosenPictureInstalled
<1>11. LastJobHolds'
  BY <1>6, <1>9 DEF IInv, LastJobHolds
<1> QED BY <1>8, <1>9, <1>10, <1>11 DEF IInv

\* After a job that fails none of its kind counts as done; the files that only jobs
\* of the other kind write are as they were.
LEMMA Failed ==
    ASSUME IInv, helper.at # "idle", Fails, UNCHANGED <<page, mine, jobs, bound>>,
           disk' \in Disks, disk'.config = disk.config,
           helper.job.kind # "save" => disk'.wallpapers = disk.wallpapers,
           disk'.synced = disk.synced
    PROVE  IInv'
<1>1. /\ helper' \in Helpers /\ answers' \in Seq(Answers) /\ UNCHANGED last
      /\ helper'.at = "idle" /\ WellMade(helper'.job)
  <2>1. helper.job \in Jobs
    BY DEF IInv, TypeOK, Helpers
  <2> QED BY <2>1, NothingTypes, AnsweredTypes DEF Fails, IInv
<1>2. TypeOK'
  BY <1>1 DEF IInv, TypeOK
<1>3. AllWellMade' /\ AtWork' /\ OwnedByGreeter'
  BY <1>1 DEF IInv, AllWellMade, AtWork, OwnedByGreeter
<1>4. ChosenPictureInstalled'
  BY <1>1 DEF IInv, ChosenPictureInstalled, AtWork, Slot
<1>5. LastJobHolds'
  BY <1>1 DEF IInv, LastJobHolds
<1> QED BY <1>2, <1>3, <1>4, <1>5 DEF IInv

\* What becomes of the directory of wallpapers.
LEMMA InstalledTypes ==
    ASSUME TypeOK, NEW job, NEW kept, NEW short, NEW p \in Pictures
    PROVE  Installed(job, kept, short, p) \in {"absent", "partial", "whole"}
BY DEF TypeOK, Disks, Installed, Copied

LEMMA FailingStep == IInv /\ (ConfigTooLarge \/ NoHome \/ NoChild \/ CopyFails) => IInv'
<1> SUFFICES ASSUME IInv, ConfigTooLarge \/ NoHome \/ NoChild \/ CopyFails PROVE IInv'
  OBVIOUS
<1>1. CASE ConfigTooLarge \/ NoHome \/ NoChild
  BY <1>1, Failed DEF ConfigTooLarge, NoHome, NoChild, IInv, TypeOK
<1>2. CASE CopyFails
  <2> DEFINE w(kept, begun) ==
               [p \in Pictures |->
                  IF begun /\ helper.job.from # NoPicture /\ p = helper.job.from.name
                  THEN "partial" ELSE Installed(Job("save"), kept, FALSE, p)]
  <2>1. PICK kept \in Kept(Pictures), begun \in BOOLEAN : disk' = [disk EXCEPT !.wallpapers = w(kept, begun)]
    BY <1>2 DEF CopyFails
  <2>2. w(kept, begun) \in [Pictures -> {"absent", "partial", "whole"}]
    BY InstalledTypes DEF IInv
  <2> HIDE DEF w
  <2>3. disk' \in Disks /\ disk'.config = disk.config /\ disk'.synced = disk.synced
    BY <2>1, <2>2 DEF IInv, TypeOK, Disks
  <2> QED BY <1>2, <2>3, Failed DEF CopyFails
<1> QED BY <1>1, <1>2

\* When the walk over the home directory succeeds it has reached every entry that
\* is not behind a symbolic link, and handed it over.
LEMMA AllReached ==
    ASSUME NEW blocked \in SUBSET Entries, Succeeds(blocked),
           NEW e \in Entries, InDirectory(e) \cap disk.links = {}
    PROVE  e \in Reached(blocked) \ (blocked \cup disk.links)
<1>1. ".config" \notin blocked
  BY DEF Entries, InDirectory, Reached, Succeeds
<1>2. e \in InDirectory(e) /\ InDirectory(e) \ {e} \subseteq {".config"}
  BY DEF InDirectory, Entries
<1>3. e \in Reached(blocked)
  BY <1>1, <1>2 DEF Reached
<1> QED BY <1>2, <1>3 DEF Succeeds

LEMMA OwnerStep == IInv /\ AdjustOwnership => IInv'
<1> SUFFICES ASSUME IInv, AdjustOwnership PROVE IInv'
  OBVIOUS
<1>1. PICK blocked \in SUBSET Entries :
         /\ disk' = [disk EXCEPT !.root =
                        @ \ (Reached(blocked) \ (blocked \cup disk.links))]
         /\ IF Succeeds(blocked)
            THEN helper' = [helper EXCEPT !.at = "child"] /\ UNCHANGED <<answers, last>>
            ELSE Fails
  BY DEF AdjustOwnership
<1>2. /\ disk' \in Disks /\ disk'.config = disk.config
      /\ disk'.wallpapers = disk.wallpapers /\ disk'.synced = disk.synced
      /\ disk'.links = disk.links /\ disk.root \subseteq Entries
      /\ disk'.root = disk.root \ (Reached(blocked) \ (blocked \cup disk.links))
  BY <1>1 DEF IInv, TypeOK, Disks
<1>3. helper.at = "owner" /\ UNCHANGED <<page, mine, jobs, bound>>
  BY DEF AdjustOwnership
<1>4. CASE ~Succeeds(blocked)
  BY <1>1, <1>2, <1>3, <1>4, Failed
<1>5. CASE Succeeds(blocked)
  <2>1. /\ helper' \in Helpers /\ helper'.at = "child" /\ helper'.job = helper.job
        /\ helper'.ignored = helper.ignored
    BY <1>1, <1>5 DEF IInv, TypeOK, Helpers
  <2>2. TypeOK' /\ UNCHANGED last
    BY <1>1, <1>2, <1>3, <1>5, <2>1 DEF IInv, TypeOK
  <2>3. AllWellMade' /\ AtWork'
    BY <1>2, <1>3, <2>1, <2>2 DEF IInv, AllWellMade, AtWork
  <2>4. OwnedByGreeter'
    BY <1>2, <1>5, AllReached DEF OwnedByGreeter
  <2>5. ChosenPictureInstalled' /\ LastJobHolds'
    BY <1>2, <2>2 DEF IInv, ChosenPictureInstalled, LastJobHolds
  <2> QED BY <2>2, <2>3, <2>4, <2>5 DEF IInv
<1> QED BY <1>4, <1>5

\* A job that succeeds is the last of its kind.
LEMMA Succeeded ==
    ASSUME IInv, helper.at = "child", NEW ignored \in SUBSET Ignorable, EndsWell(ignored),
           UNCHANGED <<page, mine, jobs, bound>>,
           disk' \in Disks, disk'.config = disk.config
    PROVE  /\ TypeOK' /\ AllWellMade' /\ AtWork' /\ OwnedByGreeter'
           /\ LET s == Slot(helper.job.kind) IN
              /\ Alike(last'[s].job, helper.job)
              /\ last'[s].job.fd = helper.job.fd
              /\ last'[s].ignored = helper.ignored \cup ignored
              /\ \A k \in {"save", "sync"} \ {s} : last'[k] = last[k]
<1> DEFINE s == Slot(helper.job.kind)
           r == [job |-> [helper.job EXCEPT !.asked = TRUE], ok |-> TRUE,
                 ignored |-> helper.ignored \cup ignored]
<1>1. helper \in Helpers /\ helper.job \in Jobs /\ last \in [{"save", "sync"} -> Results]
  BY DEF IInv, TypeOK, Helpers
<1>2. s \in {"save", "sync"}
  BY DEF Slot
<1>3. /\ r \in Results /\ Alike(r.job, helper.job) /\ r.job.fd = helper.job.fd
      /\ r.ignored = helper.ignored \cup ignored
  BY <1>1 DEF Results, Jobs, Helpers, Alike
<1>4. last' = [last EXCEPT ![s] = r] /\ helper' = Idle
  BY DEF EndsWell
<1> HIDE DEF r, s
<1>5. /\ last' \in [{"save", "sync"} -> Results] /\ last'[s] = r
      /\ \A k \in {"save", "sync"} \ {s} : last'[k] = last[k]
  BY <1>1, <1>2, <1>3, <1>4
<1>6. answers' \in Seq(Answers)
  BY <1>1, AnsweredTypes DEF EndsWell, IInv
<1>7. helper' \in Helpers /\ helper'.at = "idle" /\ WellMade(helper'.job)
  BY <1>4, NothingTypes
<1>8. TypeOK'
  BY <1>5, <1>6, <1>7 DEF IInv, TypeOK
<1>9. AllWellMade' /\ AtWork' /\ OwnedByGreeter'
  BY <1>7 DEF IInv, AllWellMade, AtWork, OwnedByGreeter
<1> QED BY <1>3, <1>5, <1>8, <1>9 DEF s

LEMMA CopyWallpapersStep == IInv /\ CopyWallpapers => IInv'
<1> SUFFICES ASSUME IInv, CopyWallpapers PROVE IInv'
  OBVIOUS
<1> DEFINE w(kept, short) == [p \in Pictures |-> Installed(helper.job, kept, short, p)]
           lost(short) == IF short THEN {"picture"} ELSE {}
           job == last'["save"].job
<1>1. PICK kept \in Kept(Pictures), short \in IF May("short") THEN BOOLEAN ELSE {FALSE} :
         /\ disk' = [disk EXCEPT !.wallpapers = w(kept, short)]
         /\ EndsWell(lost(short))
  BY DEF CopyWallpapers
<1>2. /\ disk \in Disks /\ helper.at = "child" /\ helper.job.kind = "save"
      /\ helper.job.from \in URLs /\ WellMade(helper.job)
  BY DEF CopyWallpapers, IInv, TypeOK, AllWellMade, Helpers, Jobs
<1>3. w(kept, short) \in [Pictures -> {"absent", "partial", "whole"}]
  BY InstalledTypes DEF IInv
<1>4. lost(short) \in SUBSET Ignorable
  BY DEF Ignorable
<1> HIDE DEF w, lost, job
<1>5. /\ disk' \in Disks /\ disk'.config = disk.config /\ disk'.synced = disk.synced
      /\ disk'.wallpapers = w(kept, short)
  BY <1>1, <1>2, <1>3 DEF Disks
<1>6. /\ TypeOK' /\ AllWellMade' /\ AtWork' /\ OwnedByGreeter'
      /\ Alike(job, helper.job) /\ job.fd = helper.job.fd
      /\ last'["save"].ignored = helper.ignored \cup lost(short)
      /\ last'["sync"] = last["sync"]
  BY <1>1, <1>2, <1>4, <1>5, Succeeded DEF CopyWallpapers, Slot, job
<1>7. LastJobHolds'
  BY <1>5, <1>6 DEF IInv, LastJobHolds
<1>8. ASSUME job.from # NoPicture
      PROVE  /\ disk'.wallpapers[job.from.name] # "absent"
             /\ job.fd /\ "picture" \notin last'["save"].ignored =>
                    disk'.wallpapers[job.from.name] = "whole"
             /\ "config" \notin last'["save"].ignored =>
                    disk'.config.picture = [at |-> "installed", name |-> job.from.name]
  <2>1. job.from = helper.job.from /\ job.from.name \in Pictures
    BY <1>2, <1>6, <1>8 DEF URLs, Alike
  <2>2. w(kept, short)[job.from.name] = IF job.fd /\ ~short THEN "whole" ELSE "partial"
    BY <1>6, <1>8, <2>1 DEF w, Installed, Copied
  <2>3. "picture" \notin last'["save"].ignored => ~short
    BY <1>6 DEF lost
  <2>4. "config" \notin last'["save"].ignored => disk.config = helper.job.config
    BY <1>2, <1>6 DEF IInv, AtWork
  <2> QED BY <1>2, <1>5, <1>8, <2>1, <2>2, <2>3, <2>4 DEF WellMade
<1>9. ChosenPictureInstalled'
  BY <1>8 DEF ChosenPictureInstalled, job
<1> QED BY <1>6, <1>7, <1>9 DEF IInv

LEMMA CopyFilesStep == IInv /\ (CopyFiles \/ RemoveFiles) => IInv'
<1> SUFFICES ASSUME IInv, CopyFiles \/ RemoveFiles PROVE IInv'
  OBVIOUS
<1> DEFINE now == disk'.synced
           Copies(j, lost, s) ==
              \A f \in Files \ lost :
                 IF j.kind = "reset" THEN s[f] = Absent
                 ELSE j.files[f] # Absent => s[f] = j.files[f]
<1>1. /\ disk \in Disks /\ disk.synced \in [Files -> Contents \cup {Absent, Torn}]
      /\ helper.at = "child" /\ helper.job \in Jobs /\ helper.job.files \in Own
      /\ Slot(helper.job.kind) = "sync"
  BY DEF CopyFiles, RemoveFiles, IInv, TypeOK, Helpers, Jobs, Disks, Slot
<1>2. PICK lost \in SUBSET Files :
         /\ EndsWell(lost) /\ disk' \in Disks
         /\ disk'.config = disk.config /\ disk'.wallpapers = disk.wallpapers
         /\ Copies(helper.job, lost, now)
  <2>1. CASE CopyFiles
    <3>1. PICK went : /\ disk' = [disk EXCEPT !.synced =
                                     [f \in Files |-> Created(helper.job.files, went, f)]]
                      /\ EndsWell({f \in Files : went[f] # "well"})
      BY <2>1 DEF CopyFiles
    <3> DEFINE s == [f \in Files |-> Created(helper.job.files, went, f)]
               lost == {f \in Files : went[f] # "well"}
    <3>2. s \in [Files -> Contents \cup {Absent, Torn}]
      BY <1>1 DEF Created, Own
    <3>3. \A f \in Files \ lost : helper.job.files[f] # Absent => s[f] = helper.job.files[f]
      BY DEF Created
    <3>4. helper.job.kind = "sync" /\ lost \in SUBSET Files
      BY <2>1 DEF CopyFiles
    <3>5. disk' = [disk EXCEPT !.synced = s] /\ EndsWell(lost)
      BY <3>1
    <3> HIDE DEF s, lost
    <3>6. /\ disk' \in Disks /\ disk'.config = disk.config
          /\ disk'.wallpapers = disk.wallpapers /\ now = s
      BY <1>1, <3>2, <3>5 DEF Disks
    <3>7. Copies(helper.job, lost, now)
      BY <3>3, <3>4, <3>6
    <3> QED BY <3>4, <3>5, <3>6, <3>7
  <2>2. CASE RemoveFiles
    <3>1. PICK kept \in SUBSET Files :
             /\ disk' = [disk EXCEPT
                    !.synced = [f \in Files |-> IF f \in kept THEN disk.synced[f] ELSE Absent],
                    !.root = @ \ (Files \ kept), !.links = @ \ (Files \ kept)]
             /\ EndsWell(kept)
      BY <2>2 DEF RemoveFiles, Kept
    <3> DEFINE s == [f \in Files |-> IF f \in kept THEN disk.synced[f] ELSE Absent]
    <3>2. s \in [Files -> Contents \cup {Absent, Torn}]
      BY <1>1, ZenonT(20)
    <3>3. disk' = [disk EXCEPT !.synced = s, !.root = @ \ (Files \ kept),
                               !.links = @ \ (Files \ kept)]
      BY <3>1
    <3> HIDE DEF s
    <3>4. /\ disk' \in Disks /\ disk'.config = disk.config
          /\ disk'.wallpapers = disk.wallpapers /\ now = s
      BY <1>1, <3>2, <3>3 DEF Disks
    <3>5. helper.job.kind = "reset"
      BY <2>2 DEF RemoveFiles
    <3>6. Copies(helper.job, kept, now)
      BY <3>4, <3>5 DEF s
    <3> QED BY <3>1, <3>4, <3>6
  <2> QED BY <2>1, <2>2
<1> HIDE DEF now
<1>3. UNCHANGED <<page, mine, jobs, bound>> /\ lost \in SUBSET Ignorable
  BY DEF CopyFiles, RemoveFiles, Ignorable
<1>4. /\ TypeOK' /\ AllWellMade' /\ AtWork' /\ OwnedByGreeter'
      /\ Alike(last'["sync"].job, helper.job) /\ last'["save"] = last["save"]
      /\ last'["sync"].ignored = helper.ignored \cup lost
  BY <1>1, <1>2, <1>3, Succeeded
<1>5. ChosenPictureInstalled'
  BY <1>2, <1>4 DEF IInv, ChosenPictureInstalled
<1>6. LastJobHolds'
  BY <1>2, <1>4 DEF LastJobHolds, Alike, now
<1> QED BY <1>4, <1>5, <1>6 DEF IInv

-----------------------------------------------------------------------------
(***************************************************************************)
(* The theorems                                                           *)
(***************************************************************************)

LEMMA Initially == Init => IInv
<1> SUFFICES ASSUME Init PROVE IInv
  OBVIOUS
<1>1. /\ Job("save") \in Jobs /\ Job("sync") \in Jobs
      /\ Defaults \in Settings /\ NoFiles \in Own
  BY JobTypes DEF Kinds
<1>2. page \in Pages /\ bound \in Bounds
  BY <1>1, ConstantsAssumption DEF Init, Pages, Bounds
<1>3. helper \in Helpers /\ last \in [{"save", "sync"} -> Results]
  BY NothingTypes DEF Init
<1>4. disk \in Disks /\ disk.config.picture = NoPicture
  <2>1. PICK r \in SUBSET Entries, l \in SUBSET Entries :
           disk = [config |-> Defaults, wallpapers |-> [p \in Pictures |-> "absent"],
                   synced |-> NoFiles, root |-> r, links |-> l]
    BY DEF Init
  <2>2. NoFiles \in [Files -> Contents \cup {Absent, Torn}]
    BY DEF NoFiles
  <2> QED BY <1>1, <2>1, <2>2 DEF Disks, Defaults
<1>5. TypeOK
  BY <1>2, <1>3, <1>4 DEF Init, TypeOK
<1>6. AllWellMade
  BY NothingTypes DEF Init, AllWellMade
<1>7. AtWork /\ OwnedByGreeter /\ ChosenPictureInstalled /\ LastJobHolds
  BY NothingTypes DEF Init, AtWork, OwnedByGreeter, ChosenPictureInstalled, LastJobHolds
<1> QED BY <1>5, <1>6, <1>7 DEF IInv

LEMMA Preserved == IInv /\ [Next]_vars => IInv'
<1> SUFFICES ASSUME IInv, [Next]_vars PROVE IInv'
  OBVIOUS
<1>a. page.values \in Settings /\ Defaults \in Settings
  BY JobTypes DEF IInv, TypeOK, Pages
<1>1. ASSUME NEW p \in Pictures, ChoosePicture(p)
      PROVE  IInv'
  <2>1. [at |-> "own", name |-> p] \in URLs
    BY DEF URLs
  <2>2. [page.values EXCEPT !.picture = [at |-> "own", name |-> p]] \in Settings
    BY <1>a, <2>1 DEF Settings
  <2> QED BY <1>1, <2>2, ChooseStep DEF ChoosePicture
<1>2. ASSUME NEW v \in Others, ChooseOther(v)
      PROVE  IInv'
  <2>1. [page.values EXCEPT !.other = v] \in Settings
    BY <1>a DEF Settings
  <2> QED BY <1>2, <2>1, ChooseStep DEF ChooseOther
<1>3. CASE ToDefaults
  BY <1>3, <1>a, ChooseStep DEF ToDefaults
<1>4. CASE UNCHANGED vars
  BY <1>4 DEF vars, IInv, TypeOK, AllWellMade, WellMade, AtWork, OwnedByGreeter,
              ChosenPictureInstalled, LastJobHolds
<1> QED
  BY <1>1, <1>2, <1>3, <1>4, LoadStep, CloseStep, FileStep, SaveStep, SyncStep, HearStep,
     RefusedStep, BeginSaveStep, BeginSyncStep, WriteStep, FailingStep, OwnerStep,
     CopyWallpapersStep, CopyFilesStep
  DEF Next

\* What every step of the page and of the helper keeps: the invariant of the whole
\* chain from `save` and `synchronizeSettings` to the files they leave.
THEOREM Inductive == Spec => []IInv
BY Initially, Preserved, PTL DEF Spec

\* Every variable keeps its type, and the installed configuration never names a
\* file of the user's own.
THEOREM TypeCorrect == Spec => []TypeOK
<1>1. IInv => TypeOK
  BY DEF IInv
<1> QED BY <1>1, Inductive, PTL

\* adjustPermissionsFromPlasma6_6 lets the helper's child begin only when the
\* walk has given every entry of the home directory to the greeter that is neither a
\* symbolic link nor behind one: those are skipped and keep their owner.
THEOREM HomeIsGreeters == Spec => []OwnedByGreeter
<1>1. IInv => OwnedByGreeter
  BY DEF IInv
<1> QED BY <1>1, Inductive, PTL

\* After a save that succeeded a file of the chosen picture's name is there, whole
\* if the page could open the picture and no write failed, and the configuration
\* names it unless writing that failed: the save succeeds in those cases as well.
THEOREM PictureInstalled == Spec => []ChosenPictureInstalled
<1>1. IInv => ChosenPictureInstalled
  BY DEF IInv
<1> QED BY <1>1, Inductive, PTL

\* The copies of the files that were given are those of the last "Apply" or "Reset"
\* that succeeded, but for files that could not be opened, written or removed, at
\* which the job goes on.
THEOREM LastJobWins == Spec => []LastJobHolds
<1>1. IInv => LastJobHolds
  BY DEF IInv
<1> QED BY <1>1, Inductive, PTL

=============================================================================
