----------------------------- MODULE LdnConfig ------------------------------
(***************************************************************************)
(* LdnConfig: the settings in memory, the ini file they are kept in, and   *)
(* the overlay that changes them.  A Set call changes the memory and saves *)
(* the file in steps: the old file is deleted, the new one created, then   *)
(* written.  Each may fail, which the code ignores, and power may be cut   *)
(* between any two; the file is read when the console starts, which may    *)
(* fail as well.  The overlay makes its calls one at a time.               *)
(*                                                                         *)
(* A text is what it stands for: a host is a model value, a number what    *)
(* atoi makes of it.  CreateFile makes a file of the right size without    *)
(* contents, in which LoadConfigFromIni finds no entry (external).  Hosts  *)
(* longer than server_ip are left out: SetServerIP copies them beyond it.  *)
(***************************************************************************)
EXTENDS Integers

CONSTANTS Hosts,        \* addresses a user types in
          MaxPort,      \* largest port, 65535
          DefaultPort   \* 30456

ASSUME PortRange == MaxPort \in Nat /\ DefaultPort \in 1 .. MaxPort

EmptyHost == "empty"
AnyHost == "0.0.0.0"
ASSUME HostsAreProper == EmptyHost \notin Hosts

VARIABLES mem,       \* the settings; while the power is off, those before the cut
          logger,    \* gLogLevel
          file,      \* the ini file
          saving,    \* how far SaveConfigToIni has come
          power,     \* whether the console is on
          saved,     \* history: the settings last saved or found in the file
          unsaved,   \* history: a save has been begun and not completed since
          loaded     \* history: the last start has read the file, if there was one

vars == <<mem, logger, file, saving, power, saved, unsaved, loaded>>

Levels == 1 .. 5
Absent == [exists |-> FALSE]
Blank  == [exists |-> TRUE, blank |-> TRUE]

\* The static initializers.
Defaults == [host |-> EmptyHost, port |-> DefaultPort, logging |-> FALSE, level |-> 1]
LoggerDefault == 3

(***************************************************************************)
(* The file's contents.                                                    *)
(***************************************************************************)
\* Mutant: an empty host is written as it is.
ContentAsIs(m) == [exists |-> TRUE, blank |-> FALSE, host |-> m.host,
                   port |-> m.port, logging |-> m.logging, level |-> m.level]

\* What SaveConfigToIni writes.
Content(m) == [exists |-> TRUE, blank |-> FALSE,
               host |-> IF m.host = EmptyHost THEN AnyHost ELSE m.host,
               port |-> IF m.port > 0 THEN m.port ELSE DefaultPort,
               logging |-> m.logging, level |-> m.level]

\* The entries LoadConfigFromIni finds: an entry that is missing or out of
\* range has a default, which for the level is not that of Defaults.
Parse(f) ==
    IF f.blank
    THEN [host |-> EmptyHost, port |-> DefaultPort, logging |-> FALSE, level |-> 3]
    ELSE [host |-> f.host, logging |-> f.logging,
          port |-> IF f.port \in 1 .. MaxPort THEN f.port ELSE DefaultPort,
          level |-> IF f.level \in Levels THEN f.level ELSE 3]

\* LoadConfigFromIni: host and port are taken when there is a host.
LoadConfigFromIni(m, f) ==
    IF ~f.exists THEN m
    ELSE LET ini == Parse(f)
         IN  [host |-> IF ini.host # EmptyHost THEN ini.host ELSE m.host,
              port |-> IF ini.host # EmptyHost THEN ini.port ELSE m.port,
              logging |-> ini.logging, level |-> ini.level]

\* What the load may see of the file: nothing when OpenFile or GetFileSize fails,
\* a string of zeros when ReadFile does.
Seen(f) == {f} \cup IF f.exists THEN {Absent, Blank} ELSE {}

\* A console whose card has no file yet is started.
Init == /\ mem = Defaults /\ logger = LoggerDefault
        /\ file = Absent
        /\ saving = "no" /\ power = "on"
        /\ saved = Defaults /\ unsaved = FALSE /\ loaded = TRUE

(***************************************************************************)
(* The overlay's calls.                                                    *)
(***************************************************************************)
Ready == power = "on" /\ saving = "no"

\* The settings are changed and SaveConfigToIni begins.
ChangeTo(m) == /\ mem' = m
               /\ saving' = "delete"
               /\ unsaved' = TRUE
               /\ UNCHANGED <<file, power, saved, loaded>>

SetLogging(on) == Ready /\ ChangeTo([mem EXCEPT !.logging = on]) /\ UNCHANGED logger

SetServerIP(host) == Ready /\ ChangeTo([mem EXCEPT !.host = host]) /\ UNCHANGED logger

\* What the overlay accepts as a port.
TypedPort(port) == port > 0 /\ port <= MaxPort

SetServerPort(port) ==
    Ready /\ TypedPort(port) /\ ChangeTo([mem EXCEPT !.port = port]) /\ UNCHANGED logger

\* Mutant: the level is not checked.
SetLoggingLevelUnchecked(level) ==
    /\ Ready
    /\ logger' = level
    /\ ChangeTo([mem EXCEPT !.level = level])

SetLoggingLevel(level) ==
    /\ Ready /\ level \in Levels
    /\ logger' = level
    /\ ChangeTo([mem EXCEPT !.level = level])

(***************************************************************************)
(* SaveConfigToIni.                                                        *)
(***************************************************************************)
\* DeleteFile; its result is not looked at.
SaveDeletes ==
    /\ saving = "delete"
    /\ file' = Absent \/ file' = file
    /\ saving' = "create"
    /\ UNCHANGED <<mem, logger, power, saved, unsaved, loaded>>

SaveCreates ==
    /\ saving = "create" /\ ~file.exists
    /\ file' = Blank
    /\ saving' = "write"
    /\ UNCHANGED <<mem, logger, power, saved, unsaved, loaded>>

SaveWrites ==
    /\ saving = "write"
    /\ file' = Content(mem)
    /\ saving' = "no"
    /\ saved' = mem /\ unsaved' = FALSE
    /\ UNCHANGED <<mem, logger, power, loaded>>

\* CreateFile, OpenFile or WriteFile fails; the call returns success.
SaveFails ==
    /\ saving \in {"create", "write"}
    /\ saving' = "no"
    /\ UNCHANGED <<mem, logger, file, power, saved, unsaved, loaded>>

(***************************************************************************)
(* Power.                                                                  *)
(***************************************************************************)
PowerCut ==
    /\ power = "on"
    /\ power' = "off" /\ saving' = "no"
    /\ UNCHANGED <<mem, logger, file, saved, unsaved, loaded>>

\* Initialize: the statics are as compiled, then the file is read.
Boot ==
    /\ power = "off"
    /\ power' = "on"
    /\ \E seen \in Seen(file) :
          /\ mem' = LoadConfigFromIni(Defaults, seen)
          /\ logger' = IF seen.exists THEN Parse(seen).level ELSE LoggerDefault
          /\ loaded' = (seen = file)
    /\ IF loaded' THEN saved' = mem' /\ unsaved' = FALSE
                  ELSE UNCHANGED <<saved, unsaved>>
    /\ UNCHANGED <<file, saving>>

Next == \/ \E on \in BOOLEAN : SetLogging(on)
        \/ \E host \in Hosts \cup {EmptyHost} : SetServerIP(host)
        \/ \E port \in 0 .. MaxPort + 1 : SetServerPort(port)
        \/ \E level \in 0 .. 6 : SetLoggingLevel(level)
        \/ SaveDeletes \/ SaveCreates \/ SaveWrites \/ SaveFails
        \/ PowerCut \/ Boot

Spec == Init /\ [][Next]_vars

(***************************************************************************)
(* Properties.                                                             *)
(***************************************************************************)
Settings == [host : Hosts \cup {EmptyHost, AnyHost}, port : 1 .. MaxPort,
             logging : BOOLEAN, level : Levels]

\* The type invariant.  The range of the level is what the overlay relies on
\* when it looks up LOG_LEVEL_NAMES[level] unchecked, also after a file was read.
TypeOK == /\ mem \in Settings
          /\ logger \in Levels
          /\ file \in {Absent, Blank} \cup {Content(m) : m \in Settings}
          /\ saving \in {"no", "delete", "create", "write"}
          /\ power \in {"on", "off"} /\ saving # "no" => power = "on"
          /\ saved \in Settings /\ unsaved \in BOOLEAN /\ loaded \in BOOLEAN

\* b are the settings a, but for the empty host, which is saved as "0.0.0.0".
SameSettings(a, b) ==
    /\ b.port = a.port /\ b.logging = a.logging /\ b.level = a.level
    /\ b.host = a.host \/ (a.host = EmptyHost /\ b.host = AnyHost)

\* The settings survive restarts, whenever they come: unless a save has failed or
\* was interrupted since, a start that can read the file brings back the settings
\* last saved, loaded or built in, however many starts could not read it before.
RestartKeepsSettings ==
    [][power = "off" /\ power' = "on" /\ loaded' /\ ~unsaved => SameSettings(saved, mem')]_vars

(***************************************************************************)
(* What the code does not ensure; the README says how each fails.          *)
(***************************************************************************)
\* The server a game is connected to survives a restart: no host means
\* "ldn.ryujinx.app", which is saved as "0.0.0.0".
DefaultHost == "ldn.ryujinx.app"
GetServerAddress(m) == IF m.host = EmptyHost THEN DefaultHost ELSE m.host
DefaultServerSurvives ==
    [][power = "off" /\ power' = "on" /\ loaded' /\ ~unsaved =>
          GetServerAddress(mem') = GetServerAddress(saved)]_vars

\* The level in use is the configured one ("it will be loaded from config by
\* LdnConfig::Initialize()"); without a file it is not set.
LoggerFollowsLevel == power = "on" => logger = mem.level

\* A save never costs the settings that were saved before it: the old file is
\* there until the new one is complete.
SaveKeepsOldFile == [][file.exists /\ ~(file.blank) => file'.exists /\ ~(file'.blank)]_vars
=============================================================================
