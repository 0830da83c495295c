---------------------------- MODULE SessionList ----------------------------
(***************************************************************************)
(* The sessions that can be started, from their files to the one the      *)
(* daemon opens: SessionModel lists the files, the greeter's windows share *)
(* an index into that list (GreeterState, SessionButton), a login sends    *)
(* the type and the file name of an entry, and the daemon looks the file   *)
(* up again (Session::create).  The files may change at any time, and the  *)
(* greeter hears of it later.                                              *)
(*                                                                        *)
(* A file's name and what it says its session is called are numbers, by   *)
(* the order in which a directory lists files and in which texts sort; a  *)
(* directory is 1 (/usr/local/share) or 2 (/usr/share).  A text is a      *)
(* sequence of words, which are numbers too: n > 0 is "(n)", -1 is        *)
(* "(Wayland)", -2 is "(X11)", and all below is other text.  The user,    *)
(* the password and what the daemon does with a login belong to           *)
(* LoginDisplay; here it succeeds, fails or is left unanswered.  Outside  *)
(* the model: a greeter that goes before it has read that a login         *)
(* succeeded, and translations of the labels.                             *)
(***************************************************************************)
EXTENDS Integers, FiniteSets, Sequences, Functions

CONSTANTS
    Candidates,   \* session files there may be: [type, dir, file, name]
    AtFirst,      \* the sets of them that may be installed at first
    Spelling,     \* the texts of their names
    PlasmaFiles,  \* the file names that start with "plasma"
    Preselected,  \* Settings.preselectedSession, or NoFile
    Windows,      \* the greeter's windows, one for each screen
    NoEntry,
    MaxChanges,   \* bound: files that are installed or removed
    MaxAsked      \* bound: logins the daemon has not read

NoFile == 0
Types == {"wayland", "x11"}

ASSUME CandidatesAssumption ==
    /\ Candidates \subseteq [type: Types, dir: Nat, file: Nat, name: Nat]
    /\ IsFiniteSet(Candidates)
    /\ NoEntry \notin Candidates /\ AtFirst \subseteq SUBSET Candidates
    /\ MaxChanges \in Nat /\ MaxAsked \in Nat
    /\ \A e, f \in Candidates :
          (e.type = f.type /\ e.dir = f.dir /\ e.file = f.file) => e = f

ASSUME SpellingAssumption ==
    Spelling \in [{e.name : e \in Candidates} -> Seq(Int)] /\ IsInjective(Spelling)

VARIABLES
    installed,   \* the files
    changes,     \* how often they have changed
    up,          \* whether a greeter runs
    rows,        \* SessionModel::m_sessions
    notice,      \* directoryChanged is due
    index,       \* GreeterState.sessionIndex
    bound,       \* whether that is still a binding
    windows,     \* the windows there are
    button,      \* what each SessionButton holds for currentIndex
    disabled,    \* windows whose footer and form are disabled
    asked,       \* logins sent, not yet read
    submitted,   \* GreeterState.lastLoggedInSession
    saved,       \* StateConfig.lastLoggedInSession
    underWay,    \* the session of the login the daemon is busy with
    current,     \* history: windows whose button was read from these rows
    remembered   \* history: the session last started, if its file was the one saved

greeterVars == <<up, rows, index, bound, windows, button, disabled, submitted, current>>
vars == <<installed, changes, greeterVars, notice, asked, saved, underWay, remembered>>

Kept == UNCHANGED <<installed, changes>>

-----------------------------------------------------------------------------
(***************************************************************************)
(* SessionModel                                                           *)
(***************************************************************************)

\* getSessionsPaths: of the files of one name, the first directory's.
Mutant_KeepAll(files) == files
Listed(files) ==
    {e \in files : \A f \in files :
        (f.type = e.type /\ f.file = e.file) => e.dir <= f.dir}

\* What populate sorts by; std::sort leaves so few entries that are alike in
\* the order they are read in.
SortKey(e) == << IF e.file \in PlasmaFiles THEN 0 ELSE 1, e.name,
                 IF e.type = "wayland" THEN 0 ELSE 1, e.dir, e.file >>
Precedes(e, f) ==
    \E i \in 1 .. 5 : /\ SortKey(e)[i] < SortKey(f)[i]
                      /\ \A j \in 1 .. i - 1 : SortKey(e)[j] = SortKey(f)[j]
\* Each entry comes after those that precede it.
Before(S, e) == {f \in S : Precedes(f, e)}
Sorted(S) ==
    [i \in 1 .. Cardinality(S) |-> CHOOSE e \in S : Cardinality(Before(S, e)) = i - 1]
Populated(files) == Sorted(Listed(files))

\* indexOfData(file, FileNameRole)
RowOf(list, file) ==
    LET found == {i \in DOMAIN list : list[i].file = file}
    IN IF found = {} THEN -1 ELSE CHOOSE i \in found : \A j \in found : i <= j

\* data(row, DisplayRole): the type and a number, where the name does not do.
Mutant_OtherFileName(e, f) == e.file # f.file /\ e.name = f.name /\ e.type # f.type
NamesakeOfType(e, f) == e # f /\ e.name = f.name /\ e.type = f.type
NamesakeOfOther(e, f) == e.name = f.name /\ e.type # f.type
TypeLabel(type) == IF type = "wayland" THEN -1 ELSE -2
Labels(list, e) ==
    LET alike == {f \in Range(list) : NamesakeOfType(e, f)}
        earlier == {f \in alike : f.dir < e.dir \/ (f.dir = e.dir /\ f.file < e.file)}
        shouldAppendType == \E f \in Range(list) : NamesakeOfOther(e, f)
        shouldAppendIndex == alike # {}
        type == TypeLabel(e.type)
        number == Cardinality(earlier) + 1
    IN CASE shouldAppendType /\ shouldAppendIndex -> <<type, number>>
         [] shouldAppendType /\ ~shouldAppendIndex -> <<type>>
         [] ~shouldAppendType /\ shouldAppendIndex -> <<number>>
         [] OTHER -> << >>
Display(list, e) == Spelling[e.name] \o Labels(list, e)

-----------------------------------------------------------------------------
(***************************************************************************)
(* The index and the buttons                                              *)
(***************************************************************************)

\* The binding of GreeterState.sessionIndex, from 0 as the code counts.
ChosenIndex(list, last) ==
    LET preselected == RowOf(list, Preselected)
        lastLoggedIn == RowOf(list, last)
    IN CASE preselected # -1 -> preselected - 1
         [] preselected = -1 /\ lastLoggedIn # -1 -> lastLoggedIn - 1
         [] OTHER -> 0

\* currentSessionType and currentSessionFileName follow currentIndex, never
\* the model; a row that does not exist leaves them as they were.
Readable(i) == i < Len(rows)
Read(ws, i) ==
    IF Readable(i)
    THEN /\ button' = [w \in Windows |-> IF w \in ws THEN rows[i + 1] ELSE button[w]]
         /\ current' = current \cup ws
    ELSE UNCHANGED <<button, current>>

\* The windows whose currentIndex follows a change made in w
\* (onCurrentIndexChanged, onSessionIndexChanged).
Mutant_OwnWindow(w) == {w}
Following(w) == windows

NoButtons == [w \in Windows |-> NoEntry]

-----------------------------------------------------------------------------
Init ==
    /\ installed \in AtFirst /\ changes = 0
    /\ up = FALSE /\ rows = << >> /\ notice = FALSE
    /\ index = 0 /\ bound = FALSE
    /\ windows = {} /\ button = NoButtons /\ disabled = {}
    /\ asked = << >> /\ submitted = NoFile /\ saved = NoFile
    /\ underWay = NoEntry /\ current = {} /\ remembered = NoEntry

\* A greeter starts and makes its SessionModel and its GreeterState.
GreeterStarts ==
    /\ ~up /\ up' = TRUE
    /\ rows' = Populated(installed) /\ notice' = FALSE
    /\ index' = ChosenIndex(rows', saved) /\ bound' = TRUE
    /\ windows' = {} /\ button' = NoButtons /\ disabled' = {}
    /\ submitted' = NoFile /\ current' = {}
    /\ Kept /\ UNCHANGED <<asked, saved, underWay, remembered>>

\* It goes.  A login under way then ends with no greeter to remember it.
GreeterStops ==
    /\ up /\ up' = FALSE
    /\ windows' = {} /\ button' = NoButtons /\ disabled' = {} /\ current' = {}
    /\ rows' = << >> /\ index' = 0 /\ bound' = FALSE /\ notice' = FALSE
    /\ submitted' = NoFile /\ asked' = << >> /\ underWay' = NoEntry
    /\ remembered' = IF underWay = NoEntry THEN remembered ELSE NoEntry
    /\ Kept /\ UNCHANGED saved

\* A window is made for a screen.  An index other than the 0 its currentIndex
\* starts from is written back to GreeterState, which ends the binding.
ScreenAdded(w) ==
    /\ up /\ w \notin windows
    /\ windows' = windows \cup {w}
    /\ bound' = (bound /\ index = 0)
    /\ Read({w}, index)
    /\ Kept /\ UNCHANGED <<up, rows, notice, index, disabled, asked, submitted, saved,
                           underWay, remembered>>

ScreenRemoved(w) ==
    /\ up /\ w \in windows
    /\ windows' = windows \ {w} /\ disabled' = disabled \ {w} /\ current' = current \ {w}
    /\ button' = [button EXCEPT ![w] = NoEntry]
    /\ Kept /\ UNCHANGED <<up, rows, notice, index, bound, asked, submitted, saved,
                           underWay, remembered>>

\* An entry of the menu is triggered.  That of the present index changes nothing.
Select(w, i) ==
    /\ up /\ w \in windows \ disabled
    /\ Readable(i) /\ i # index
    /\ index' = i /\ bound' = FALSE
    /\ Read(Following(w), i)
    /\ Kept /\ UNCHANGED <<up, rows, notice, windows, disabled, asked, submitted, saved,
                           underWay, remembered>>

-----------------------------------------------------------------------------
(***************************************************************************)
(* Files and logins                                                       *)
(***************************************************************************)

FilesChange(files) ==
    /\ changes < MaxChanges /\ changes' = changes + 1
    /\ installed' = files /\ notice' = up
    /\ UNCHANGED <<greeterVars, asked, saved, underWay, remembered>>
InstallFile(e) == e \notin installed /\ FilesChange(installed \cup {e})
RemoveFile(e) == e \in installed /\ FilesChange(installed \ {e})

\* directoryChanged: populate, which resets the model and nothing else.
DirectoryChanged ==
    /\ notice /\ notice' = FALSE
    /\ rows' = Populated(installed)
    /\ current' = IF rows' = rows THEN current ELSE {}
    /\ Kept /\ UNCHANGED <<up, index, bound, windows, button, disabled, asked, submitted,
                           saved, underWay, remembered>>

\* handleLoginRequest: startLogin has disabled the window's form and footer.
Submit(w) ==
    /\ up /\ w \in windows \ disabled /\ Len(asked) < MaxAsked
    /\ LET e == button[w]
           type == IF e = NoEntry THEN "x11" ELSE e.type
           file == IF e = NoEntry THEN NoFile ELSE e.file
           shown == IF w \in current THEN rows[index + 1] ELSE NoEntry
       IN /\ asked' = Append(asked, [type |-> type, file |-> file, shown |-> shown])
          /\ submitted' = file
    /\ disabled' = disabled \cup {w}
    /\ Kept /\ UNCHANGED <<up, rows, notice, index, bound, windows, button, saved, underWay,
                           current, remembered>>

\* Session::create: QStandardPaths::locate takes the first directory's file.
Located(type, file) ==
    LET found == {e \in installed : e.type = type /\ e.file = file}
    IN IF found = {} THEN NoEntry ELSE CHOOSE e \in found : \A f \in found : e.dir <= f.dir

\* SocketServer::readyRead looks the session up; startAuth drops the login when
\* there is none, or when another is under way, and nobody is told.
Receive ==
    /\ asked # << >> /\ asked' = Tail(asked)
    /\ underWay' = IF underWay = NoEntry THEN Located(Head(asked).type, Head(asked).file)
                                         ELSE underWay
    /\ Kept /\ UNCHANGED <<greeterVars, notice, saved, remembered>>

\* onLoginFailed enables every window again.
Fail ==
    /\ underWay # NoEntry /\ underWay' = NoEntry
    /\ disabled' = {}
    /\ Kept /\ UNCHANGED <<up, rows, notice, index, bound, windows, button, asked, submitted,
                           saved, current, remembered>>

\* onLoginSucceeded.  Saving the name evaluates an index that is still bound.
Mutant_SaveShown(list, i, file) == IF i < Len(list) THEN list[i + 1].file ELSE NoFile
FileToSave(list, i, file) == file
Succeed ==
    /\ underWay # NoEntry /\ underWay' = NoEntry
    /\ saved' = FileToSave(rows, index, submitted)
    /\ remembered' = IF submitted = underWay.file THEN underWay ELSE NoEntry
    /\ LET i == IF bound /\ saved' # saved THEN ChosenIndex(rows, saved') ELSE index
       IN /\ index' = i
          /\ bound' = (bound /\ (i = 0 \/ windows = {}))
          /\ IF i = index THEN UNCHANGED <<button, current>> ELSE Read(windows, i)
    /\ Kept /\ UNCHANGED <<up, rows, notice, windows, disabled, asked, submitted>>

Next ==
    \/ GreeterStarts \/ GreeterStops
    \/ \E w \in Windows : ScreenAdded(w) \/ ScreenRemoved(w) \/ Submit(w)
    \/ \E w \in Windows, i \in 0 .. Cardinality(Candidates) - 1 : Select(w, i)
    \/ \E e \in Candidates : InstallFile(e) \/ RemoveFile(e)
    \/ DirectoryChanged
    \/ Receive \/ Fail \/ Succeed

Spec == Init /\ [][Next]_vars

-----------------------------------------------------------------------------
\* The type of every variable.  A menu lists no two sessions that a login, which
\* names a type and a file, could not tell apart (getSessionsPaths).
TypeOK ==
    /\ installed \subseteq Candidates /\ changes \in 0 .. MaxChanges
    /\ up \in BOOLEAN /\ notice \in BOOLEAN /\ bound \in BOOLEAN
    /\ rows \in Seq(Candidates)
    /\ \A i, j \in DOMAIN rows :
          (rows[i].type = rows[j].type /\ rows[i].file = rows[j].file) => i = j
    /\ index \in 0 .. Cardinality(Candidates)
    /\ windows \subseteq Windows /\ disabled \subseteq windows /\ current \subseteq windows
    /\ button \in [Windows -> Candidates \cup {NoEntry}]
    /\ asked \in Seq([type: Types, file: Nat, shown: Candidates \cup {NoEntry}])
    /\ Len(asked) <= MaxAsked /\ submitted \in Nat /\ saved \in Nat
    /\ underWay \in Candidates \cup {NoEntry} /\ remembered \in Candidates \cup {NoEntry}

\* No two entries of the menu read alike (getDisplay), however many files share a
\* name, a type or a file name, unless one is called from its file what the code
\* makes of another: a session named "Gnome (2)" beside two named "Gnome".
EndsInLabel(text) == text # << >> /\ text[Len(text)] > -3
DistinctEntries ==
    \A i, j \in DOMAIN rows :
        Display(rows, rows[i]) = Display(rows, rows[j])
            => i = j \/ \E k \in {i, j} : EndsInLabel(Spelling[rows[k].name])

\* A login opens the very session the window showed when it was submitted, unless
\* the files have since changed: the menu and the daemon look for it separately,
\* and prefer the same directory (SessionModel, SessionButton, Session::create).
\* This is about windows whose button was read from the list as it is (current):
\* after the list has changed, a window shows one entry and sends another.
StartsTheShown ==
    [][(up' /\ asked # << >> /\ asked' = Tail(asked) /\ underWay = NoEntry)
        => LET s == Head(asked)
           IN s.shown \in Range(Populated(installed)) => underWay' = s.shown]_vars

\* A greeter that starts shows the session that was started last, when nothing
\* is preselected, no later login was sent before it started, it is listed still
\* and no session of the other type has its file name (GreeterState.sessionIndex).
RemembersSession ==
    [][(~up /\ up')
        => \A e \in Range(rows') :
              (/\ e = remembered /\ RowOf(rows', Preselected) = -1
               /\ \A f \in Range(rows') : f.file = e.file => f = e)
              => rows'[index' + 1] = e]_vars
=============================================================================
