------------------------------ MODULE Settings ------------------------------
(***************************************************************************)
(* settings<T>: a value kept in memory and in an XML file.  Every call of  *)
(* operator() writes the file before it hands out the value, and the       *)
(* destructor of the owner writes it a last time.                          *)
(*                                                                         *)
(* The value is a version: how often it was changed.  The file is the      *)
(* sequence of the blocks written to it, each with the version it was      *)
(* serialised from; std::ios::trunc empties it first.  No lock guards a    *)
(* save, so the main thread (get_worker_info_repository(), the destructor) *)
(* and the server thread (the handlers) may be in it together, each at an  *)
(* offset of its own.                                                      *)
(***************************************************************************)
EXTENDS Naturals, Sequences

CONSTANTS
    Threads,      \* the threads that use the settings object
    Owner,        \* the thread that constructs and destroys it
    Changers,     \* the threads that change what operator() returned
    Blocks,       \* blocks one save writes
    Absent,       \* there is no file
    Hole,         \* a block nobody wrote since the file was truncated
    MaxChanges,   \* bound: changes of the value
    MaxCrashes    \* bound: processes that end without a destructor

ASSUME SettingsAssumption ==
    /\ Owner \in Threads /\ Changers \subseteq Threads
    /\ Blocks \in Nat \ {0} /\ MaxChanges \in Nat /\ MaxCrashes \in Nat
    /\ Hole \notin Nat /\ Absent \notin Seq(Nat \cup {Hole})

\* Only the handlers, all in the server thread, change what operator() returned;
\* get_worker_info_repository() is called to read.
ASSUME ChangersAssumption == \A t, u \in Changers : t = u

VARIABLES
    process,    \* of the program that holds the object
    settings,   \* _settings; once the process is gone, its last value
    file,       \* the file at _settingsPath
    saving,     \* thread -> the block it writes next, 0 outside of a save
    since,      \* thread -> the version when its save began
    holds,      \* the threads operator() has returned to
    disturbed,  \* history: the last save met another save or a change
    crashes

vars == <<process, settings, file, saving, since, holds, disturbed, crashes>>

Version == 0..MaxChanges

TypeOK ==
    /\ process \in {"down", "up", "closing", "stopped", "failed"}
    /\ settings \in Version
    /\ file = Absent \/ file \in Seq(Version \cup {Hole})
    /\ saving \in [Threads -> 0..Blocks]
    /\ since \in [Threads -> Version]
    /\ holds \subseteq Threads
    /\ disturbed \in BOOLEAN
    /\ crashes \in 0..MaxCrashes

Init ==
    /\ process = "down"
    /\ settings = 0
    /\ file = Absent
    /\ saving = [t \in Threads |-> 0]
    /\ since = [t \in Threads |-> 0]
    /\ holds = {}
    /\ disturbed = FALSE
    /\ crashes = 0

-----------------------------------------------------------------------------
(***************************************************************************)
(* What _initialize_settings() can make of the file.  A file with blocks   *)
(* of several versions parses or not, depending on where they meet.        *)
(***************************************************************************)
Complete(f) == Len(f) = Blocks /\ \A n \in 1..Len(f) : f[n] # Hole

Whole(f) == Complete(f) /\ \A n \in 1..Len(f) : f[n] = f[1]

Readable(f) == IF f = Absent THEN {0}      \* initialize()
               ELSE IF Complete(f) THEN {f[n] : n \in 1..Len(f)} ELSE {}

\* The constructor.
Start ==
    /\ process \in {"down", "stopped"}
    /\ settings' \in Readable(file)
    /\ process' = "up"
    /\ UNCHANGED <<file, saving, since, holds, disturbed, crashes>>

\* The archive's exception leaves the constructor, now and at every restart.
StartFails ==
    /\ process \in {"down", "stopped"}
    /\ file # Absent /\ ~Whole(file)
    /\ process' = "failed"
    /\ UNCHANGED <<settings, file, saving, since, holds, disturbed, crashes>>

-----------------------------------------------------------------------------
Idle(t) == saving[t] = 0 /\ t \notin holds

Quiet == \A t \in Threads : saving[t] = 0

\* Mutant: the file is not written before the value is handed out.
SaveNothing(t) ==
    /\ holds' = holds \cup {t}
    /\ UNCHANGED <<file, saving, since, disturbed>>

\* _save_to_file(): the ofstream truncates the file.
SaveBegins(t) ==
    /\ file' = << >>
    /\ saving' = [saving EXCEPT ![t] = 1]
    /\ since' = [since EXCEPT ![t] = settings]
    /\ disturbed' = ~Quiet
    /\ UNCHANGED holds

WriteAt(f, k, v) ==
    [n \in 1..(IF Len(f) < k THEN k ELSE Len(f)) |->
        IF n = k THEN v ELSE IF n <= Len(f) THEN f[n] ELSE Hole]

\* Mutant: a block is serialised and does not reach the file.
WriteBlockLost(t) ==
    /\ saving[t] # 0
    /\ IF saving[t] < Blocks
       THEN saving' = [saving EXCEPT ![t] = @ + 1] /\ UNCHANGED <<holds, file>>
       ELSE /\ saving' = [saving EXCEPT ![t] = 0]
            /\ holds' = holds \cup {t}
            /\ file' = WriteAt(file, saving[t], settings)
    /\ UNCHANGED <<process, settings, since, disturbed, crashes>>

\* Mutant: the save goes on past its last block.
WriteBlockTooFar(t) ==
    /\ saving[t] # 0
    /\ file' = WriteAt(file, saving[t], settings)
    /\ IF saving[t] <= Blocks
       THEN saving' = [saving EXCEPT ![t] = @ + 1] /\ UNCHANGED holds
       ELSE /\ saving' = [saving EXCEPT ![t] = 0]
            /\ holds' = holds \cup {t}
    /\ UNCHANGED <<process, settings, since, disturbed, crashes>>

\* A block goes out, serialised at some time since the save began; with the
\* last one the stream is closed and the save returns.
WriteBlock(t) ==
    /\ saving[t] # 0
    /\ \E v \in since[t]..settings : file' = WriteAt(file, saving[t], v)
    /\ IF saving[t] < Blocks
       THEN saving' = [saving EXCEPT ![t] = @ + 1] /\ UNCHANGED holds
       ELSE /\ saving' = [saving EXCEPT ![t] = 0]
            /\ holds' = holds \cup {t}
    /\ UNCHANGED <<process, settings, since, disturbed, crashes>>

\* operator().  The server thread serves messages until it is joined.
Call(t) ==
    /\ process = "up" \/ (process = "closing" /\ t # Owner)
    /\ Idle(t)
    /\ SaveBegins(t)
    /\ UNCHANGED <<process, settings, crashes>>

\* The caller changes the value, or only reads it.
Use(t) ==
    /\ t \in holds
    /\ ~(process = "closing" /\ t = Owner)
    /\ holds' = holds \ {t}
    /\ \/ UNCHANGED <<settings, disturbed>>
       \/ /\ t \in Changers
          /\ settings < MaxChanges
          /\ settings' = settings + 1
          /\ disturbed' = (disturbed \/ ~Quiet)
    /\ UNCHANGED <<process, file, saving, since, crashes>>

\* Mutant: the destructor does not save.
CloseUnsaved ==
    /\ process = "up"
    /\ Idle(Owner)
    /\ process' = "closing"
    /\ SaveNothing(Owner)
    /\ UNCHANGED <<settings, crashes>>

\* The owner's destructor: save() first, then the server thread is stopped.
Close ==
    /\ process = "up"
    /\ Idle(Owner)
    /\ process' = "closing"
    /\ SaveBegins(Owner)
    /\ UNCHANGED <<settings, crashes>>

\* join() returns and the process ends.
Stop ==
    /\ process = "closing"
    /\ Owner \in holds
    /\ \A t \in Threads \ {Owner} : Idle(t)
    /\ process' = "stopped"
    /\ holds' = {}
    /\ UNCHANGED <<settings, file, saving, since, disturbed, crashes>>

\* The process ends at any moment; what was written stays.
Crash ==
    /\ process \in {"up", "closing"}
    /\ crashes < MaxCrashes
    /\ crashes' = crashes + 1
    /\ process' = "down"
    /\ saving' = [t \in Threads |-> 0]
    /\ holds' = {}
    /\ UNCHANGED <<settings, file, since, disturbed>>

Next ==
    \/ Start \/ StartFails \/ Close \/ Stop \/ Crash
    \/ \E t \in Threads : Call(t) \/ WriteBlock(t) \/ Use(t)

Spec == Init /\ [][Next]_vars

-----------------------------------------------------------------------------
\* What a reader of the file gets is whole and misses the last change at most.
HoldsPreviousVersion ==
    /\ file = Absent \/ Whole(file)
    /\ \A v \in Readable(file) : v + 1 >= settings

\* "at least make sure that the previous version is always saved": whenever no
\* save is under way, the file is whole and at most one change behind.
PreviousVersionSaved == process = "up" /\ Quiet => HoldsPreviousVersion

\* The same, for a save that neither another save nor a change has met.
LoneSaveKeepsPreviousVersion ==
    process = "up" /\ Quiet /\ ~disturbed => HoldsPreviousVersion

\* A destructor that ran to its end has lost nothing of what was changed before
\* it, although the server thread may have saved once more before its end.  (What
\* that thread changes after the destructor's save is only in memory.)
CleanStopSavesAll ==
    process = "stopped" /\ ~disturbed =>
        file # Absent /\ Whole(file) /\ \A v \in Readable(file) : v >= since[Owner]

\* After a last save that was met by no other save and no change, and that a crash
\* may have cut off, a process that starts again has every change but the last of
\* the process before it: old contents never come back.
RestartLosesAtMostOneChange ==
    [][process = "down" /\ process' = "up" /\ ~disturbed
         => settings' + 1 >= settings]_vars

\* Threads that save at the same time never leave a file with missing parts:
\* the one that truncated it last also writes all of it.
QuietFileIsComplete ==
    process = "up" /\ Quiet => file = Absent \/ Complete(file)
=============================================================================
