------------------------------- MODULE Profiles -------------------------------
(***************************************************************************)
(* The profiles of the controllers of one type: settings saved by name in  *)
(* one file that these controllers share. Each keeps in its variable       *)
(* enabledProfiles what it read at the start or wrote last. A profile is   *)
(* saved by reading the file, truncating it and writing it anew; a crash   *)
(* or a full disk can leave it unreadable.                                 *)
(***************************************************************************)
EXTENDS Naturals, Sequences

CONSTANTS
  Controllers,  \* the controllers of the type
  Names,        \* profile names, "None" among them
  Bodies        \* what the variable configuration may contain

VARIABLES
  profileServer,    \* "up", "saving" or "down"
  profileFile,      \* the file: its state and the profiles in it
  toWrite,          \* the profiles that saveProfile is about to write
  configuration,    \* controller -> <<>> (null) or << body >>
  enabledProfiles,  \* controller -> <<>> (no value) or << profiles >>
  selectedProfile,  \* controller -> name
  applied,          \* controller -> <<>> or << the body its device was given >>
  savedProfiles     \* history: what has been saved since the file was lost

profileVars == <<profileServer, profileFile, toWrite, configuration, enabledProfiles,
                 selectedProfile, applied, savedProfiles>>

ASSUME ProfilesAssumption == "None" \in Names /\ Controllers # {} /\ Bodies # {}

(* Profiles give each name <<>> or << body >>.                             *)
ProfileSets == [Names -> {<<>>} \cup {<< b >> : b \in Bodies}]
NoProfiles == [n \in Names |-> <<>>]
File(state, profiles) == [state |-> state, profiles |-> profiles]

ProfilesTypeOK ==
  /\ profileServer \in {"up", "saving", "down"}
  /\ profileFile.state \in {"missing", "valid", "corrupt"}
  /\ profileFile.profiles \in ProfileSets
  /\ profileFile.state # "valid" => profileFile.profiles = NoProfiles
  /\ toWrite \in ProfileSets
  /\ configuration \in [Controllers -> {<<>>} \cup {<< b >> : b \in Bodies}]
  /\ enabledProfiles \in [Controllers -> {<<>>} \cup {<< p >> : p \in ProfileSets}]
  /\ selectedProfile \in [Controllers -> Names]
  /\ applied \in [Controllers -> {<<>>} \cup {<< b >> : b \in Bodies}]
  /\ savedProfiles \in ProfileSets

ProfilesInit ==
  /\ profileServer = "down"
  /\ profileFile = File("missing", NoProfiles)
  /\ toWrite = NoProfiles
  /\ configuration = [c \in Controllers |-> <<>>]
  /\ enabledProfiles = [c \in Controllers |-> <<>>]
  /\ selectedProfile = [c \in Controllers |-> "None"]
  /\ applied = [c \in Controllers |-> <<>>]
  /\ savedProfiles = NoProfiles

-----------------------------------------------------------------------------
(* addProfiles and updateProfiles of every controller; a file that cannot  *)
(* be read ends the start. The option profile selects one.                 *)
StartServer ==
  /\ profileServer = "down" /\ profileFile.state # "corrupt"
  /\ profileServer' = "up"
  /\ enabledProfiles' = [c \in Controllers |->
       IF profileFile.state = "valid" THEN << profileFile.profiles >> ELSE <<>>]
  /\ selectedProfile' \in [Controllers -> Names]
  /\ configuration' = [c \in Controllers |-> <<>>]
  /\ UNCHANGED <<profileFile, toWrite, applied, savedProfiles>>

(* An update of a controller's configuration, or null without a connection. *)
UpdateConfiguration(c) ==
  /\ profileServer # "down"
  /\ configuration' \in {[configuration EXCEPT ![c] = v] : v \in {<<>>} \cup {<< b >> : b \in Bodies}}
  /\ UNCHANGED <<profileServer, profileFile, toWrite, enabledProfiles, selectedProfile,
                 applied, savedProfiles>>

(* The profiles this controller knows, instead of those in the file.       *)
MutFound(c) == IF enabledProfiles[c] = <<>> THEN NoProfiles ELSE enabledProfiles[c][1]

(* A file that is missing or cannot be read is taken for an empty one.     *)
Found(c) == profileFile.profiles

(* saveProfile up to the opening of the file for writing, and with the new *)
(* value of the controller's variable, which is set before the file is     *)
(* closed. If it cannot be opened, the variable gets what was found.       *)
SaveProfile(c, name) ==
  /\ profileServer = "up"
  /\ configuration[c] # <<>> /\ name # "None"
  /\ LET profiles == [Found(c) EXCEPT ![name] = configuration[c]]
     IN  \/ /\ profileServer' = "saving"
            /\ profileFile' = File("corrupt", NoProfiles)
            /\ toWrite' = profiles
            /\ enabledProfiles' = [enabledProfiles EXCEPT ![c] = << profiles >>]
            /\ savedProfiles' = [n \in Names |->
                 IF n = name THEN configuration[c]
                 ELSE IF profileFile.state = "corrupt" THEN <<>> ELSE savedProfiles[n]]
         \/ /\ enabledProfiles' = [enabledProfiles EXCEPT ![c] = << Found(c) >>]
            /\ UNCHANGED <<profileServer, profileFile, toWrite, savedProfiles>>
  /\ UNCHANGED <<configuration, selectedProfile, applied>>

(* The file is written and closed, or, on a full disk, as far as it goes.  *)
WriteFile ==
  /\ profileServer = "saving"
  /\ profileServer' = "up"
  /\ \/ profileFile' = File("valid", toWrite)
     \/ UNCHANGED profileFile
  /\ toWrite' = NoProfiles
  /\ UNCHANGED <<configuration, enabledProfiles, selectedProfile, applied, savedProfiles>>

SetProfile(c, name) ==
  /\ profileServer = "up"
  /\ selectedProfile' = [selectedProfile EXCEPT ![c] = name]
  /\ UNCHANGED <<profileServer, profileFile, toWrite, configuration, enabledProfiles,
                 applied, savedProfiles>>

(* applyProfile runs on the device thread, also while a profile is saved.  *)
ApplyProfile(c) ==
  /\ profileServer # "down"
  /\ enabledProfiles[c] # <<>> /\ selectedProfile[c] # "None"
  /\ enabledProfiles[c][1][selectedProfile[c]] # <<>>
  /\ applied' = [applied EXCEPT ![c] = enabledProfiles[c][1][selectedProfile[c]]]
  /\ UNCHANGED <<profileServer, profileFile, toWrite, configuration, enabledProfiles,
                 selectedProfile, savedProfiles>>

(* The server stops or crashes, and what was not written is lost.          *)
StopServer ==
  /\ profileServer # "down"
  /\ profileServer' = "down"
  /\ toWrite' = NoProfiles
  /\ UNCHANGED <<profileFile, configuration, enabledProfiles, selectedProfile, applied,
                 savedProfiles>>

(* Somebody removes the file that keeps the server from starting.          *)
RemoveFile ==
  /\ profileServer = "down" /\ profileFile.state = "corrupt"
  /\ profileFile' = File("missing", NoProfiles)
  /\ savedProfiles' = NoProfiles
  /\ UNCHANGED <<profileServer, toWrite, configuration, enabledProfiles, selectedProfile,
                 applied>>

ProfilesNext ==
  \/ StartServer \/ WriteFile \/ StopServer \/ RemoveFile
  \/ \E c \in Controllers : UpdateConfiguration(c) \/ ApplyProfile(c)
  \/ \E c \in Controllers, n \in Names : SaveProfile(c, n) \/ SetProfile(c, n)

ProfilesSpec == ProfilesInit /\ [][ProfilesNext]_profileVars

-----------------------------------------------------------------------------
(* Controllers that save in turn, each with its own idea of the profiles   *)
(* there are, do not overwrite each other's: as long as no write was cut   *)
(* off, the file has every profile as it was saved last.                   *)
NoProfileLost == profileFile.state # "corrupt" => profileFile.profiles = savedProfiles
=============================================================================
