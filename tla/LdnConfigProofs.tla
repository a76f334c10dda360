-------------------------- MODULE LdnConfigProofs ---------------------------
(***************************************************************************)
(* That the settings survive restarts, for every set of hosts and every    *)
(* range of ports.                                                         *)
(***************************************************************************)
EXTENDS LdnConfig, TLAPS

\* Why they do: when the last save was completed, the file, read over the built-in
\* settings, gives what was saved.
FileHasSettings == ~unsaved => SameSettings(saved, LoadConfigFromIni(Defaults, file))

\* No save is under way then.
SavingIsUnsaved == saving # "no" => unsaved

ConfigInv == TypeOK /\ FileHasSettings /\ SavingIsUnsaved

LEMMA DefaultsType == Defaults \in Settings
BY PortRange DEF Defaults, Settings, Levels

\* What is written is read back.
LEMMA ReadBack ==
    ASSUME NEW m \in Settings
    PROVE  /\ LoadConfigFromIni(Defaults, Content(m)) \in Settings
           /\ SameSettings(m, LoadConfigFromIni(Defaults, Content(m)))
           /\ Content(m).exists = TRUE /\ Parse(Content(m)).level \in Levels
<1> DEFINE host == IF m.host = EmptyHost THEN AnyHost ELSE m.host
<1>1. /\ m.port \in 1 .. MaxPort /\ m.logging \in BOOLEAN /\ m.level \in Levels
      /\ m.host \in Hosts \cup {EmptyHost, AnyHost}
  BY DEF Settings
<1>2. m.port > 0
  BY <1>1, PortRange
<1>3. Content(m) = [exists |-> TRUE, blank |-> FALSE, host |-> host, port |-> m.port,
                    logging |-> m.logging, level |-> m.level]
  BY <1>2 DEF Content
<1>4. host # EmptyHost /\ host \in Hosts \cup {EmptyHost, AnyHost}
  BY <1>1 DEF EmptyHost, AnyHost
<1> HIDE DEF host
<1>5. Parse(Content(m)) = [host |-> host, logging |-> m.logging, port |-> m.port,
                           level |-> m.level]
  BY <1>1, <1>3 DEF Parse
<1>6. LoadConfigFromIni(Defaults, Content(m)) = [host |-> host, port |-> m.port,
                                                 logging |-> m.logging, level |-> m.level]
  BY <1>3, <1>4, <1>5 DEF LoadConfigFromIni
<1> QED BY <1>1, <1>3, <1>4, <1>5, <1>6 DEF SameSettings, Settings, host

\* What Initialize reads from any file there can be, and what it takes for one.
LEMMA LoadType ==
    ASSUME TypeOK, NEW seen \in Seen(file)
    PROVE  /\ LoadConfigFromIni(Defaults, seen) \in Settings
           /\ seen.exists => Parse(seen).level \in Levels
<1>1. CASE seen = Absent
  BY <1>1, DefaultsType DEF LoadConfigFromIni, Absent
<1>2. CASE seen = Blank
  BY <1>2, DefaultsType DEF LoadConfigFromIni, Blank, Parse, Settings, Levels
<1>3. CASE \E m \in Settings : seen = Content(m)
  BY <1>3, ReadBack
<1> QED BY <1>1, <1>2, <1>3 DEF TypeOK, Seen

LEMMA ConfigInit == Init => ConfigInv
<1> SUFFICES ASSUME Init PROVE ConfigInv
  OBVIOUS
<1>1. saved = Defaults /\ LoadConfigFromIni(Defaults, file) = Defaults
  BY DEF Init, LoadConfigFromIni, Absent
<1>2. TypeOK
  <2>1. mem \in Settings /\ saved \in Settings /\ logger \in Levels
    BY DefaultsType DEF Init, LoggerDefault, Levels
  <2> QED BY <2>1 DEF Init, TypeOK
<1> QED BY <1>1, <1>2 DEF Init, ConfigInv, FileHasSettings, SavingIsUnsaved, SameSettings

\* A change of one setting begins a save.
LEMMA ChangeKeeps ==
    ASSUME ConfigInv, NEW m \in Settings, Ready, ChangeTo(m), logger' \in Levels
    PROVE  ConfigInv'
BY DEF ConfigInv, TypeOK, FileHasSettings, SavingIsUnsaved, Ready, ChangeTo

LEMMA ConfigNext == ASSUME ConfigInv, [Next]_vars PROVE ConfigInv'
<1>m. /\ mem \in Settings /\ logger \in Levels /\ mem.port \in 1 .. MaxPort
      /\ mem.host \in Hosts \cup {EmptyHost, AnyHost}
      /\ mem.logging \in BOOLEAN /\ mem.level \in Levels
  BY DEF ConfigInv, TypeOK, Settings
<1>1. ASSUME NEW on \in BOOLEAN, SetLogging(on) PROVE ConfigInv'
  <2>1. [mem EXCEPT !.logging = on] \in Settings
    BY <1>m DEF Settings
  <2> QED BY <1>1, <1>m, <2>1, ChangeKeeps DEF SetLogging
<1>2. ASSUME NEW host \in Hosts \cup {EmptyHost}, SetServerIP(host) PROVE ConfigInv'
  <2>1. [mem EXCEPT !.host = host] \in Settings
    BY <1>m DEF Settings
  <2> QED BY <1>2, <1>m, <2>1, ChangeKeeps DEF SetServerIP
<1>3. ASSUME NEW port \in 0 .. MaxPort + 1, SetServerPort(port) PROVE ConfigInv'
  <2>1. port \in 1 .. MaxPort
    BY <1>3, PortRange DEF SetServerPort, TypedPort
  <2>2. [mem EXCEPT !.port = port] \in Settings
    BY <1>m, <2>1 DEF Settings
  <2> QED BY <1>3, <1>m, <2>2, ChangeKeeps DEF SetServerPort
<1>4. ASSUME NEW level \in 0 .. 6, SetLoggingLevel(level) PROVE ConfigInv'
  <2>1. level \in Levels
    BY <1>4 DEF SetLoggingLevel
  <2>2. [mem EXCEPT !.level = level] \in Settings
    BY <1>m, <2>1 DEF Settings
  <2> QED BY <1>4, <1>m, <2>1, <2>2, ChangeKeeps DEF SetLoggingLevel
<1>5. CASE SaveDeletes
  BY <1>5 DEF SaveDeletes, ConfigInv, TypeOK, FileHasSettings, SavingIsUnsaved
<1>6. CASE SaveCreates
  BY <1>6 DEF SaveCreates, ConfigInv, TypeOK, FileHasSettings, SavingIsUnsaved
<1>7. CASE SaveWrites
  <2>1. SameSettings(mem, LoadConfigFromIni(Defaults, Content(mem)))
    BY <1>m, ReadBack
  <2>2. FileHasSettings' /\ SavingIsUnsaved'
    BY <1>7, <2>1 DEF SaveWrites, FileHasSettings, SavingIsUnsaved
  <2>3. TypeOK'
    BY <1>7, <1>m DEF SaveWrites, ConfigInv, TypeOK
  <2> QED BY <2>2, <2>3 DEF ConfigInv
<1>8. CASE SaveFails
  BY <1>8 DEF SaveFails, ConfigInv, TypeOK, FileHasSettings, SavingIsUnsaved
<1>9. CASE PowerCut
  BY <1>9 DEF PowerCut, ConfigInv, TypeOK, FileHasSettings, SavingIsUnsaved
<1>10. CASE Boot
  <2>1. PICK seen \in Seen(file) :
           /\ mem' = LoadConfigFromIni(Defaults, seen)
           /\ logger' = IF seen.exists THEN Parse(seen).level ELSE LoggerDefault
           /\ loaded' = (seen = file)
    BY <1>10 DEF Boot
  <2>2. mem' \in Settings /\ logger' \in Levels
    BY <2>1, LoadType DEF ConfigInv, LoggerDefault, Levels
  <2>3. loaded' \in BOOLEAN
    BY <2>1, Zenon
  <2>4. CASE seen = file
    <3>1. loaded' /\ mem' = LoadConfigFromIni(Defaults, file)
      BY <2>1, <2>4
    <3>2. /\ saved' = mem' /\ unsaved' = FALSE /\ file' = file /\ saving' = saving
          /\ power' = "on"
      BY <1>10, <3>1 DEF Boot
    <3>3. TypeOK'
      BY <2>2, <2>3, <3>2 DEF ConfigInv, TypeOK
    <3>4. FileHasSettings' /\ SavingIsUnsaved'
      BY <1>10, <3>1, <3>2 DEF Boot, ConfigInv, TypeOK, FileHasSettings, SavingIsUnsaved,
         SameSettings
    <3> QED BY <3>3, <3>4 DEF ConfigInv
  <2>5. CASE seen # file
    <3>1. ~loaded'
      BY <2>1, <2>5
    <3>2. UNCHANGED <<saved, unsaved, file, saving>> /\ power' = "on"
      BY <1>10, <3>1 DEF Boot
    <3>3. TypeOK'
      BY <2>2, <2>3, <3>2 DEF ConfigInv, TypeOK
    <3>4. FileHasSettings' /\ SavingIsUnsaved'
      BY <3>2 DEF ConfigInv, FileHasSettings, SavingIsUnsaved
    <3> QED BY <3>3, <3>4 DEF ConfigInv
  <2> QED BY <2>4, <2>5
<1>11. CASE UNCHANGED vars
  BY <1>11 DEF vars, ConfigInv, TypeOK, FileHasSettings, SavingIsUnsaved
<1> QED
  BY <1>1, <1>2, <1>3, <1>4, <1>5, <1>6, <1>7, <1>8, <1>9, <1>10, <1>11 DEF Next

\* The settings, those in the file and those read from it, stay in their ranges;
\* the overlay's table of level names is never read outside.
THEOREM SettingsInRange == Spec => []TypeOK
BY ConfigInit, ConfigNext, PTL DEF Spec, ConfigInv

\* Unless a save has failed or was interrupted since, a start that can read the file
\* brings back the settings last saved, at whatever step of whatever sequence of calls
\* the power was cut, and whatever starts could not read the file.
THEOREM SettingsSurviveRestart == Spec => RestartKeepsSettings
<1>1. ConfigInv /\ [Next]_vars =>
         [power = "off" /\ power' = "on" /\ loaded' /\ ~unsaved =>
             SameSettings(saved, mem')]_vars
  <2> SUFFICES ASSUME ConfigInv, Next, power = "off", power' = "on", loaded', ~unsaved
               PROVE  SameSettings(saved, mem')
    BY DEF vars
  <2>1. Boot
    BY DEF ConfigInv, TypeOK, Next, Ready, ChangeTo, SetLogging, SetServerIP, SetServerPort,
       SetLoggingLevel, SaveDeletes, SaveCreates, SaveWrites, SaveFails, PowerCut
  <2>2. mem' = LoadConfigFromIni(Defaults, file)
    BY <2>1 DEF Boot
  <2> QED BY <2>2 DEF ConfigInv, FileHasSettings
<1> QED BY <1>1, ConfigInit, ConfigNext, PTL DEF Spec, RestartKeepsSettings
=============================================================================
