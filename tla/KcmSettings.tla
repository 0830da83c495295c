---------------------------- MODULE KcmSettings ----------------------------
(***************************************************************************)
(* The settings page (src/frontend/kcm/kcm.cpp), its privileged helper    *)
(* (src/frontend/kcm/auth/plasmaloginauthhelper.cpp) and the files they   *)
(* leave for the greeter: plasmalogin.conf, and in the home directory of  *)
(* the account plasmalogin the wallpapers and a copy of some of the       *)
(* user's own configuration files.                                        *)
(*                                                                        *)
(* KAuth hands the page's jobs to the helper one at a time.  A job takes  *)
(* several steps; the page goes on meanwhile, and may be closed and       *)
(* opened.  Settings other than the wallpaper's picture are one value.    *)
(*                                                                        *)
(* Many calls of the helper may fail without the job failing: what went   *)
(* wrong in that way is recorded with the job (ignored).                  *)
(***************************************************************************)
EXTENDS Naturals, Sequences, FiniteSets

CONSTANTS
    Pictures,   \* file names of pictures; the user has one of each
    NoPicture,  \* another wallpaper plugin, the default
    Others,     \* values of the other settings
    Default,    \* their default
    Files,      \* configuration files that are copied
    Contents,   \* what they may contain
    Absent,     \* there is no such file
    Torn,       \* there is the beginning of one
    Faults,     \* what may fail, or stand in the way
    MaxJobs,    \* bound: jobs started by the page
    MaxEdits    \* bound: changes on the page and of the user's files

ASSUME ConstantsAssumption ==
    /\ NoPicture \notin Pictures /\ Default \in Others
    /\ Absent \notin Contents /\ Torn \notin Contents /\ Torn # Absent
    /\ MaxJobs \in Nat /\ MaxEdits \in Nat
    /\ Faults \subseteq {"denied", "file", "large", "home", "link", "owner", "fork", "remove",
                        "unreadable", "picture", "short", "copy"}

May(f) == f \in Faults

VARIABLES
    page,    \* the settings page
    mine,    \* the user's own configuration files
    jobs,    \* jobs the helper has not begun
    helper,  \* the job at work and where it is
    answers, \* results on their way to the page
    disk,    \* the files
    last,    \* history: the last job of each kind, if it has succeeded
    bound    \* jobs and changes so far

vars == <<page, mine, jobs, helper, answers, disk, last, bound>>

\* A picture's URL: the user's own file or the copy in the greeter's home.
URLs == [at: {"own", "installed"}, name: Pictures] \cup {NoPicture}
Settings == [picture: URLs, other: Others]
Defaults == [picture |-> NoPicture, other |-> Default]
Own == [Files -> Contents \cup {Absent}]

\* asked: the page that started the job is still open; fd: it could open the
\* picture and hands the helper a descriptor of it
Kinds == {"save", "sync", "reset"}
Jobs == [kind: Kinds, config: Settings, from: URLs, fd: BOOLEAN, files: Own, asked: BOOLEAN]
NoFiles == [f \in Files |-> Absent]
Job(kind) == [kind |-> kind, config |-> Defaults, from |-> NoPicture, fd |-> FALSE,
              files |-> NoFiles, asked |-> TRUE]

\* Entries of the home directory.
Entries == Files \cup {".config", "wallpapers"}
InDirectory(e) == IF e \in Files THEN {e, ".config"} ELSE {e}

\* What may be left out or cut short without the job failing.
Ignorable == Files \cup {"config", "picture"}

\* root: entries that root owns; links: those that are symbolic links
Pages == [open: BOOLEAN, values: Settings, loaded: Settings, needsSave: BOOLEAN]
Helpers == [at: {"idle", "write", "owner", "child"}, job: Jobs, ignored: SUBSET Ignorable]
Answers == [kind: Kinds, error: BOOLEAN]
Disks == [config: Settings, wallpapers: [Pictures -> {"absent", "partial", "whole"}],
          synced: [Files -> Contents \cup {Absent, Torn}],
          root: SUBSET Entries, links: SUBSET Entries]
Results == [job: Jobs, ok: BOOLEAN, ignored: SUBSET Ignorable]
Bounds == [jobs: 0..MaxJobs, edits: 0..MaxEdits]

Idle == [at |-> "idle", job |-> Job("save"), ignored |-> {}]
NotDone(slot) == [job |-> Job(slot), ok |-> FALSE, ignored |-> {}]

\* The type of every variable; the installed configuration never names a
\* user's own file, which the greeter could not read.
TypeOK ==
    /\ page \in Pages /\ mine \in Own
    /\ jobs \in Seq(Jobs) /\ helper \in Helpers /\ answers \in Seq(Answers)
    /\ disk \in Disks
    /\ disk.config.picture = NoPicture \/ disk.config.picture.at = "installed"
    /\ last \in [{"save", "sync"} -> Results]
    /\ bound \in Bounds

\* An upgraded system may have entries of root, from Plasma 6.6.
Init ==
    /\ page = [open |-> FALSE, values |-> Defaults, loaded |-> Defaults, needsSave |-> FALSE]
    /\ mine \in Own /\ jobs = <<>> /\ answers = <<>>
    /\ helper = Idle
    /\ \E r \in SUBSET Entries, l \in IF May("link") THEN SUBSET Entries ELSE {{}} :
         disk = [config |-> Defaults, wallpapers |-> [p \in Pictures |-> "absent"],
                 synced |-> NoFiles, root |-> r, links |-> l]
    /\ last = [slot \in {"save", "sync"} |-> NotDone(slot)]
    /\ bound = [jobs |-> 0, edits |-> 0]

-----------------------------------------------------------------------------
(***************************************************************************)
(* The page                                                               *)
(***************************************************************************)

Load ==
    /\ page' = [open |-> TRUE, values |-> disk.config, loaded |-> disk.config,
                needsSave |-> FALSE]
    /\ UNCHANGED <<mine, jobs, helper, answers, disk, last, bound>>

Close ==
    /\ page.open
    /\ page' = [page EXCEPT !.open = FALSE] /\ answers' = <<>>
    /\ jobs' = [i \in DOMAIN jobs |-> [jobs[i] EXCEPT !.asked = FALSE]]
    /\ helper' = [helper EXCEPT !.job.asked = FALSE]
    /\ UNCHANGED <<mine, disk, last, bound>>

\* updateState: the values are compared with those loaded, which save does not
\* touch.
Updated(values) ==
    [page EXCEPT !.values = values, !.needsSave = (values # page.loaded)]

Choose(values) ==
    /\ page.open /\ values # page.values /\ bound.edits < MaxEdits
    /\ page' = Updated(values)
    /\ bound' = [bound EXCEPT !.edits = @ + 1]
    /\ UNCHANGED <<mine, jobs, helper, answers, disk, last>>

ChoosePicture(p) == Choose([page.values EXCEPT !.picture = [at |-> "own", name |-> p]])
ChooseOther(v) == Choose([page.values EXCEPT !.other = v])
ToDefaults == Choose(Defaults)

UserChangesFile(f, c) ==
    /\ bound.edits < MaxEdits /\ mine[f] # c
    /\ mine' = [mine EXCEPT ![f] = c]
    /\ bound' = [bound EXCEPT !.edits = @ + 1]
    /\ UNCHANGED <<page, jobs, helper, answers, disk, last>>

Execute(job) ==
    /\ page.open /\ bound.jobs < MaxJobs
    /\ jobs' = Append(jobs, job)
    /\ bound' = [bound EXCEPT !.jobs = @ + 1]
    /\ UNCHANGED <<page, mine, helper, answers, disk, last>>

\* The configuration that is sent names the copy.
Mutant_AsChosen(values) == values
Adjusted(values) ==
    IF values.picture = NoPicture THEN values
    ELSE [values EXCEPT !.picture.at = "installed"]

\* addFile passes a descriptor of the user's own file if it can open it, and lists
\* the name in any case.  In the greeter's home only plasmalogin may open a file.
Descriptors(from) ==
    IF from = NoPicture THEN {FALSE}
    ELSE {from.at = "own"} \cup (IF May("unreadable") THEN {FALSE} ELSE {})

Save ==
    /\ page.needsSave
    /\ \E fd \in Descriptors(page.values.picture) :
         Execute([Job("save") EXCEPT !.config = Adjusted(page.values),
                                     !.from = page.values.picture, !.fd = fd])

SynchronizeSettings == Execute([Job("sync") EXCEPT !.files = mine])
ResetSynchronizedSettings == Execute(Job("reset"))

\* The job's result: needsSave is what the job's error says, whatever was
\* changed since.
HearAnswer ==
    /\ answers # <<>>
    /\ answers' = Tail(answers)
    /\ page' = IF Head(answers).kind = "save"
               THEN [page EXCEPT !.needsSave = Head(answers).error] ELSE page
    /\ UNCHANGED <<mine, jobs, helper, disk, last, bound>>

-----------------------------------------------------------------------------
(***************************************************************************)
(* The helper                                                             *)
(***************************************************************************)

Slot(kind) == IF kind = "save" THEN "save" ELSE "sync"

Answered(job, ok) ==
    IF job.asked THEN Append(answers, [kind |-> job.kind, error |-> ~ok]) ELSE answers

Begins(at) ==
    /\ jobs' = Tail(jobs)
    /\ helper' = [at |-> at, job |-> Head(jobs), ignored |-> {}]
    /\ LET slot == Slot(Head(jobs).kind) IN last' = [last EXCEPT ![slot] = NotDone(slot)]

Fails ==
    /\ helper' = Idle /\ answers' = Answered(helper.job, FALSE)
    /\ UNCHANGED last

EndsWell(ignored) ==
    /\ helper' = Idle /\ answers' = Answered(helper.job, TRUE)
    /\ last' = [last EXCEPT ![Slot(helper.job.kind)] =
                   [job |-> [helper.job EXCEPT !.asked = TRUE], ok |-> TRUE,
                    ignored |-> helper.ignored \cup ignored]]

\* Permission is not given, or the first thing needed is not there: nothing is
\* changed.
JobRefused ==
    /\ helper.at = "idle" /\ jobs # <<>>
    /\ May("denied") \/ May(IF Head(jobs).kind = "save" THEN "file" ELSE "home")
    /\ jobs' = Tail(jobs)
    /\ answers' = Answered(Head(jobs), FALSE)
    /\ UNCHANGED <<page, mine, helper, disk, last, bound>>

\* save opens plasmalogin.conf, which empties it, before it looks at what to
\* write.
BeginSave ==
    /\ helper.at = "idle" /\ jobs # <<>> /\ Head(jobs).kind = "save"
    /\ Begins("write")
    /\ disk' = [disk EXCEPT !.config = Defaults]
    /\ UNCHANGED <<page, mine, answers, bound>>

\* Whether the text could be written is not looked at: it may end early.  What it
\* then lacks is at its default.
Written(config, cut) ==
    [picture |-> IF "picture" \in cut THEN NoPicture ELSE config.picture,
     other |-> IF "other" \in cut THEN Default ELSE config.other]
WriteConfig ==
    /\ helper.at = "write"
    /\ \E cut \in IF May("short") THEN SUBSET {"picture", "other"} ELSE {{}} :
         /\ disk' = [disk EXCEPT !.config = Written(helper.job.config, cut)]
         /\ helper' = [helper EXCEPT !.at = "owner",
                                     !.ignored = IF cut = {} THEN {} ELSE {"config"}]
    /\ UNCHANGED <<page, mine, jobs, answers, last, bound>>

ConfigTooLarge ==
    /\ May("large") /\ helper.at = "write"
    /\ Fails
    /\ UNCHANGED <<page, mine, jobs, disk, bound>>

NoHome ==
    /\ May("home") /\ helper.at = "owner"
    /\ Fails
    /\ UNCHANGED <<page, mine, jobs, disk, bound>>

BeginSync ==
    /\ helper.at = "idle" /\ jobs # <<>> /\ Head(jobs).kind # "save"
    /\ Begins("owner")
    /\ UNCHANGED <<page, mine, answers, disk, bound>>

\* adjustOwnershipRecursively: what is in a directory that cannot be opened is
\* not reached, nor what is behind a symbolic link; a link itself is skipped, and
\* all the rest is tried.
Reached(blocked) == {e \in Entries : (InDirectory(e) \ {e}) \cap (blocked \cup disk.links) = {}}
Mutant_LastOne(blocked) == ".config" \notin blocked
Succeeds(blocked) == Reached(blocked) \cap blocked = {}
AdjustOwnership ==
    /\ helper.at = "owner"
    /\ \E blocked \in IF May("owner") THEN SUBSET Entries ELSE {{}} :
         /\ disk' = [disk EXCEPT !.root = @ \ (Reached(blocked) \ (blocked \cup disk.links))]
         /\ IF Succeeds(blocked)
            THEN helper' = [helper EXCEPT !.at = "child"] /\ UNCHANGED <<answers, last>>
            ELSE Fails
    /\ UNCHANGED <<page, mine, jobs, bound>>

\* fork, setgid, setuid or the account itself fails.
NoChild ==
    /\ May("fork") /\ helper.at = "child"
    /\ Fails
    /\ UNCHANGED <<page, mine, jobs, disk, bound>>

\* The file of a picture is made in any case, and left empty without a
\* descriptor; short: a write failed, which is not looked at.
Copied(job, short) == IF job.fd /\ ~short THEN "whole" ELSE "partial"

\* kept: files of the old directory that could not be removed
Mutant_CleansLast(job, kept, short, p) == IF p \in kept THEN disk.wallpapers[p] ELSE "absent"
Installed(job, kept, short, p) ==
    IF job.from # NoPicture /\ p = job.from.name THEN Copied(job, short)
    ELSE IF p \in kept THEN disk.wallpapers[p] ELSE "absent"
Kept(all) == IF May("remove") THEN SUBSET all ELSE {{}}

CopyWallpapers ==
    /\ helper.at = "child" /\ helper.job.kind = "save"
    /\ \E kept \in Kept(Pictures), short \in IF May("short") THEN BOOLEAN ELSE {FALSE} :
         /\ disk' = [disk EXCEPT !.wallpapers =
                        [p \in Pictures |-> Installed(helper.job, kept, short, p)]]
         /\ EndsWell(IF short THEN {"picture"} ELSE {})
    /\ UNCHANGED <<page, mine, jobs, bound>>

\* The directory or the new file cannot be made, or the picture not be read.
CopyFails ==
    /\ May("picture") /\ helper.at = "child" /\ helper.job.kind = "save"
    /\ \E kept \in Kept(Pictures), begun \in BOOLEAN :
         disk' = [disk EXCEPT !.wallpapers =
                     [p \in Pictures |->
                        IF begun /\ helper.job.from # NoPicture /\ p = helper.job.from.name
                        THEN "partial" ELSE Installed(Job("save"), kept, FALSE, p)]]
    /\ Fails
    /\ UNCHANGED <<page, mine, jobs, bound>>

\* createConfigFile.  Nothing is removed for a file that was not given: remove()
\* is called on the directory.  One that cannot be opened is skipped, and one that
\* cannot be written to its end is cut.
Mutant_OnlyNew(given, went, f) ==
    IF disk.synced[f] = Absent THEN given[f] ELSE disk.synced[f]
Created(given, went, f) ==
    IF given[f] = Absent \/ went[f] = "skipped" THEN disk.synced[f]
    ELSE IF went[f] = "cut" THEN Torn ELSE given[f]
CopyFiles ==
    /\ helper.at = "child" /\ helper.job.kind = "sync"
    /\ \E went \in [Files -> IF May("copy") THEN {"well", "skipped", "cut"} ELSE {"well"}] :
         /\ disk' = [disk EXCEPT !.synced =
                        [f \in Files |-> Created(helper.job.files, went, f)]]
         /\ EndsWell({f \in Files : went[f] # "well"})
    /\ UNCHANGED <<page, mine, jobs, bound>>

\* That something could not be removed is not looked at.
RemoveFiles ==
    /\ helper.at = "child" /\ helper.job.kind = "reset"
    /\ \E kept \in Kept(Files) :
         /\ disk' = [disk EXCEPT
                        !.synced = [f \in Files |-> IF f \in kept THEN disk.synced[f] ELSE Absent],
                        !.root = @ \ (Files \ kept), !.links = @ \ (Files \ kept)]
         /\ EndsWell(kept)
    /\ UNCHANGED <<page, mine, jobs, bound>>

Next ==
    \/ Load \/ Close \/ Save \/ SynchronizeSettings \/ ResetSynchronizedSettings \/ HearAnswer
    \/ \E p \in Pictures : ChoosePicture(p)
    \/ \E v \in Others : ChooseOther(v)
    \/ ToDefaults
    \/ \E f \in Files, c \in Contents \cup {Absent} : UserChangesFile(f, c)
    \/ JobRefused \/ BeginSave \/ WriteConfig \/ ConfigTooLarge \/ NoHome
    \/ BeginSync \/ AdjustOwnership \/ NoChild
    \/ CopyWallpapers \/ CopyFails \/ CopyFiles \/ RemoveFiles

Spec == Init /\ [][Next]_vars

-----------------------------------------------------------------------------
(***************************************************************************)
(* Properties                                                             *)
(***************************************************************************)

\* What runs as plasmalogin meets no entry of root (adjustPermissionsFrom-
\* Plasma6_6), whatever failed in an earlier job, but for symbolic links and what
\* lies behind them, which keep their owner.
OwnedByGreeter ==
    helper.at = "child" => \A e \in disk.root : InDirectory(e) \cap disk.links # {}

\* Once a save has succeeded, a file of the chosen picture's name is in the
\* greeter's home and the configuration names it, whatever jobs follow that are
\* not saves.  It is whole if the page could open the picture (syncWallpaper);
\* without, or when a write failed, the save succeeds as well (save).
ChosenPictureInstalled ==
    LET job == last["save"].job
    IN last["save"].ok /\ job.from # NoPicture =>
         /\ disk.wallpapers[job.from.name] # "absent"
         /\ job.fd /\ "picture" \notin last["save"].ignored =>
                disk.wallpapers[job.from.name] = "whole"
         /\ "config" \notin last["save"].ignored =>
                disk.config.picture = [at |-> "installed", name |-> job.from.name]

\* In whatever order "Apply" and "Reset" are clicked while earlier jobs run
\* and the user's files change: when the last job has succeeded, the files it was
\* given are copied, those of no earlier job, and after a reset none is left.
\* Left out are files that could not be opened, written or removed, at which the
\* job does not stop (createConfigFile, reset), and files it was not given, of which
\* an earlier copy stays.
LastJobHolds ==
    last["sync"].ok =>
        \A f \in Files \ last["sync"].ignored :
            IF last["sync"].job.kind = "reset" THEN disk.synced[f] = Absent
            ELSE last["sync"].job.files[f] # Absent =>
                     disk.synced[f] = last["sync"].job.files[f]

\* kcm.cpp: "For image wallpapers we want to copy the user-set image".
PictureKept ==
    last["save"].ok /\ disk.config.picture # NoPicture =>
        disk.wallpapers[disk.config.picture.name] = "whole"

=============================================================================
