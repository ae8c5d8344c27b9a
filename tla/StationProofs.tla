---------------------------- MODULE StationProofs ----------------------------
(***************************************************************************)
(* A behaviour of the station is one of each of its parts, so that what is *)
(* proved of a part holds in the station: of the instruments in            *)
(* InstrumentProofs, of the profiles, of the client's trace lists and of   *)
(* its windows here.                                                       *)
(***************************************************************************)
EXTENDS Station, InstrumentProofs, WellFoundedInduction

-----------------------------------------------------------------------------
(* The profiles: while they are written, the file is not valid, and what   *)
(* is written is all that has been saved.                                  *)

Saving == profileServer = "saving" => profileFile.state = "corrupt" /\ toWrite = savedProfiles

ProfilesInv ==
  /\ ProfilesTypeOK
  /\ Saving
  /\ NoProfileLost

(* A file is its state and its profiles.                                   *)
LEMMA FileFields ==
  ASSUME NEW state, NEW profiles
  PROVE  File(state, profiles).state = state /\ File(state, profiles).profiles = profiles
BY DEF File

(* Profiles and one more are profiles.                                     *)
LEMMA ProfileSetsType ==
  /\ NoProfiles \in ProfileSets
  /\ \A p \in ProfileSets, n \in Names, b \in Bodies :
       /\ [p EXCEPT ![n] = << b >>] \in ProfileSets
       /\ [p EXCEPT ![n] = << b >>] = [m \in Names |-> IF m = n THEN << b >> ELSE p[m]]
BY DEF ProfileSets, NoProfiles

(* Saving adds to what the file has.                                       *)
LEMMA SaveProfileKeeps ==
  ASSUME ProfilesInv, NEW c \in Controllers, NEW name \in Names, SaveProfile(c, name)
  PROVE  ProfilesInv'
<1>1. /\ profileServer = "up" /\ configuration[c] # <<>>
      /\ UNCHANGED <<configuration, selectedProfile, applied>>
  BY DEF SaveProfile
<1>2. /\ profileFile.state \in {"missing", "valid", "corrupt"}
      /\ profileFile.profiles \in ProfileSets
      /\ profileFile.state # "valid" => profileFile.profiles = NoProfiles
      /\ configuration \in [Controllers -> {<<>>} \cup {<< b >> : b \in Bodies}]
      /\ enabledProfiles \in [Controllers -> {<<>>} \cup {<< p >> : p \in ProfileSets}]
      /\ selectedProfile \in [Controllers -> Names]
      /\ applied \in [Controllers -> {<<>>} \cup {<< b >> : b \in Bodies}]
      /\ savedProfiles \in ProfileSets /\ toWrite \in ProfileSets
  BY DEF ProfilesInv, ProfilesTypeOK
<1>3. PICK b \in Bodies : configuration[c] = << b >>
  BY <1>1, <1>2
<1> DEFINE profiles == [profileFile.profiles EXCEPT ![name] = << b >>]
<1>4. /\ profiles \in ProfileSets
      /\ profiles = [n \in Names |-> IF n = name THEN << b >> ELSE profileFile.profiles[n]]
  BY <1>2, ProfileSetsType
<1>5. CASE /\ profileServer' = "saving"
           /\ profileFile' = File("corrupt", NoProfiles)
           /\ toWrite' = profiles
           /\ enabledProfiles' = [enabledProfiles EXCEPT ![c] = << profiles >>]
           /\ savedProfiles' = [n \in Names |->
                IF n = name THEN << b >>
                ELSE IF profileFile.state = "corrupt" THEN <<>> ELSE savedProfiles[n]]
  <2>1. savedProfiles' = profiles
    <3>1. CASE profileFile.state = "corrupt"
      <4>1. \A n \in Names : profileFile.profiles[n] = <<>>
        BY <3>1, <1>2 DEF NoProfiles
      <4> QED
        BY <4>1, <3>1, <1>4, <1>5
    <3>2. CASE profileFile.state # "corrupt"
      <4>1. profileFile.profiles = savedProfiles
        BY <3>2 DEF ProfilesInv, NoProfileLost
      <4> QED
        BY <4>1, <3>2, <1>4, <1>5
    <3> QED
      BY <3>1, <3>2
  <2> HIDE DEF profiles
  <2>2. /\ profileFile'.state = "corrupt" /\ profileFile'.profiles = NoProfiles
        /\ enabledProfiles' \in [Controllers -> {<<>>} \cup {<< p >> : p \in ProfileSets}]
    BY <1>2, <1>4, <1>5, FileFields
  <2> QED
    BY <1>1, <1>2, <1>4, <1>5, <2>1, <2>2, ProfileSetsType
    DEF ProfilesInv, ProfilesTypeOK, Saving, NoProfileLost
<1>6. CASE /\ enabledProfiles' = [enabledProfiles EXCEPT ![c] = << profileFile.profiles >>]
           /\ UNCHANGED <<profileServer, profileFile, toWrite, savedProfiles>>
  <2>1. enabledProfiles' \in [Controllers -> {<<>>} \cup {<< p >> : p \in ProfileSets}]
    BY <1>2, <1>6
  <2> QED
    BY <1>1, <1>6, <2>1 DEF ProfilesInv, ProfilesTypeOK, Saving, NoProfileLost
<1> QED
  BY <1>3, <1>5, <1>6 DEF SaveProfile, Found

(* Every step keeps the invariant.                                         *)
LEMMA ProfilesInductive ==
  ASSUME ProfilesInv, [ProfilesNext]_profileVars
  PROVE  ProfilesInv'
<1> USE FileFields, ProfileSetsType
<1>0. ProfilesTypeOK /\ Saving /\ NoProfileLost
  BY DEF ProfilesInv
<1>1. CASE StartServer
  <2>1. enabledProfiles' \in [Controllers -> {<<>>} \cup {<< p >> : p \in ProfileSets}]
    BY <1>0, <1>1 DEF StartServer, ProfilesTypeOK
  <2>2. configuration' \in [Controllers -> {<<>>} \cup {<< b >> : b \in Bodies}]
    BY <1>1 DEF StartServer
  <2> QED
    BY <1>0, <1>1, <2>1, <2>2
    DEF StartServer, ProfilesInv, ProfilesTypeOK, Saving, NoProfileLost
<1>2. CASE WriteFile
  <2>1. CASE profileFile' = File("valid", toWrite)
    BY <1>0, <1>2, <2>1 DEF WriteFile, ProfilesInv, ProfilesTypeOK, Saving, NoProfileLost
  <2>2. CASE UNCHANGED profileFile
    BY <1>0, <1>2, <2>2 DEF WriteFile, ProfilesInv, ProfilesTypeOK, Saving, NoProfileLost
  <2> QED
    BY <1>2, <2>1, <2>2 DEF WriteFile
<1>3. CASE StopServer
  BY <1>0, <1>3 DEF StopServer, ProfilesInv, ProfilesTypeOK, Saving, NoProfileLost
<1>4. CASE RemoveFile
  BY <1>0, <1>4 DEF RemoveFile, ProfilesInv, ProfilesTypeOK, Saving, NoProfileLost
<1>5. ASSUME NEW c \in Controllers, UpdateConfiguration(c) PROVE ProfilesInv'
  <2>1. configuration' \in [Controllers -> {<<>>} \cup {<< b >> : b \in Bodies}]
    BY <1>0, <1>5 DEF UpdateConfiguration, ProfilesTypeOK
  <2> QED
    BY <1>0, <1>5, <2>1
    DEF UpdateConfiguration, ProfilesInv, ProfilesTypeOK, Saving, NoProfileLost
<1>6. ASSUME NEW c \in Controllers, ApplyProfile(c) PROVE ProfilesInv'
  <2>1. enabledProfiles[c][1][selectedProfile[c]] \in {<< b >> : b \in Bodies}
    BY <1>0, <1>6 DEF ApplyProfile, ProfilesTypeOK, ProfileSets
  <2>2. applied' \in [Controllers -> {<<>>} \cup {<< b >> : b \in Bodies}]
    BY <1>0, <1>6, <2>1 DEF ApplyProfile, ProfilesTypeOK
  <2> QED
    BY <1>0, <1>6, <2>2 DEF ApplyProfile, ProfilesInv, ProfilesTypeOK, Saving, NoProfileLost
<1>7. ASSUME NEW c \in Controllers, NEW n \in Names, SetProfile(c, n) PROVE ProfilesInv'
  <2>1. selectedProfile' \in [Controllers -> Names]
    BY <1>0, <1>7 DEF SetProfile, ProfilesTypeOK
  <2> QED
    BY <1>0, <1>7, <2>1 DEF SetProfile, ProfilesInv, ProfilesTypeOK, Saving, NoProfileLost
<1>8. CASE UNCHANGED profileVars
  BY <1>0, <1>8 DEF profileVars, ProfilesInv, ProfilesTypeOK, Saving, NoProfileLost
<1> QED
  BY <1>1, <1>2, <1>3, <1>4, <1>5, <1>6, <1>7, <1>8, SaveProfileKeeps DEF ProfilesNext

(* ProfilesInv is an invariant.                                            *)
LEMMA SpecProfilesInv == ProfilesSpec => []ProfilesInv
<1>1. ProfilesInit => ProfilesInv
  BY FileFields, ProfileSetsType, ProfilesAssumption
  DEF ProfilesInit, ProfilesInv, ProfilesTypeOK, Saving, NoProfileLost
<1>2. ProfilesInv /\ [ProfilesNext]_profileVars => ProfilesInv'
  BY ProfilesInductive
<1> QED
  BY <1>1, <1>2, PTL DEF ProfilesSpec

-----------------------------------------------------------------------------
(* The windows of the client: every window has controls of its kind only,  *)
(* the buttons of a TPG362 are enabled as it is connected, and a window    *)
(* that knows it is disconnected is dark.                                  *)

ControlsOf(kind) ==
  {"connect", "disconnect", "change"} \cup
    CASE kind \in HVKinds -> HVControls \cup {"all", "kill"}
      [] kind \in LVKinds -> Switches \cup LVDialogs
      [] kind = "TPG362" -> Switches
      [] kind = "MKS910" -> {}
      [] kind = "MKS946" -> Switches \cup MKS946Dialogs

DarkOf(kind, w) ==
  /\ w.led = FALSE
  /\ w.offers \subseteq {"connect", "change"} \cup (IF kind = "MKS946" THEN Switches ELSE {})

WindowOK(kind, w) ==
  /\ w \in WindowRecords
  /\ w.offers \subseteq ControlsOf(kind)
  /\ kind = "TPG362" /\ w.told = TRUE => w.enabled = w.conn
  /\ kind \notin HVKinds => w.led = FALSE
  /\ w.told = TRUE /\ w.conn = FALSE => DarkOf(kind, w)

(* Every kind is one of five sorts.                                        *)
LEMMA Sorts ==
  /\ \A kind \in HVKinds : kind \notin LVKinds /\ kind \notin {"TPG362", "MKS910", "MKS946"}
  /\ \A kind \in LVKinds : kind \notin HVKinds /\ kind \notin {"TPG362", "MKS910", "MKS946"}
  /\ "TPG362" \notin HVKinds \cup LVKinds
  /\ "MKS910" \notin HVKinds \cup LVKinds
  /\ "MKS946" \notin HVKinds \cup LVKinds
BY DEF HVKinds, LVKinds

(* One window is another but for which of some controls it offers.         *)
SameBut(u, w, S) ==
  /\ u \in WindowRecords
  /\ u.told = w.told /\ u.known = w.known /\ u.conn = w.conn /\ u.enabled = w.enabled
  /\ u.on = w.on /\ u.remote = w.remote /\ u.led = w.led
  /\ u.offers \subseteq w.offers \cup S

(* Enabling changes nothing but what is offered.                           *)
LEMMA EnableSame ==
  ASSUME NEW w \in WindowRecords, NEW S, S \subseteq Controls, NEW cond \in BOOLEAN
  PROVE  SameBut(Enable(w, S, cond), w, S)
BY DEF Enable, WindowRecords, SameBut

(* What is disabled is not offered.                                        *)
LEMMA EnableOff ==
  ASSUME NEW w \in WindowRecords, NEW S, S \subseteq Controls, NEW cond \in BOOLEAN, ~cond
  PROVE  Enable(w, S, cond).offers = w.offers \ S
BY DEF Enable, WindowRecords

(* Another window offers to disconnect only when connected.                *)
Connectable(kind, v, w, c) ==
  /\ v \in WindowRecords /\ v.told = TRUE /\ v.led = w.led
  /\ v.offers \subseteq ControlsOf(kind) /\ (~c => "disconnect" \notin v.offers)

(* The controls of a connection follow its status.                         *)
LEMMA SetStatusFields ==
  ASSUME NEW kind \in Kinds, NEW w, WindowOK(kind, w), NEW c \in BOOLEAN
  PROVE  Connectable(kind, [SetStatus(w, c) EXCEPT !.told = TRUE], w, c)
<1>0. PICK v : v = [SetStatus(w, c) EXCEPT !.told = TRUE]
  OBVIOUS
<1>1. /\ {"disconnect"} \subseteq Controls /\ {"connect", "change"} \subseteq Controls
      /\ w \in WindowRecords /\ w.offers \subseteq ControlsOf(kind)
  BY DEF Controls, Dialogs, TCPDialog, WindowOK
<1>2. PICK u : u = Enable(w, {"disconnect"}, c)
  OBVIOUS
<1>3. SameBut(u, w, {"disconnect"})
  BY <1>1, <1>2, EnableSame
<1>4. ~c => "disconnect" \notin u.offers
  BY <1>1, <1>2, EnableOff
<1>5. PICK d \in BOOLEAN : d = ~c
  BY Zenon
<1>6. PICK s : s = Enable(u, {"connect", "change"}, d)
  OBVIOUS
<1>7. SameBut(s, u, {"connect", "change"})
  <2>1. u \in WindowRecords
    BY <1>3 DEF SameBut
  <2> QED
    BY <1>1, <1>6, <2>1, EnableSame
<1>8. v = [s EXCEPT !.told = TRUE]
  <2>1. SetStatus(w, c) = s
    BY <1>2, <1>5, <1>6 DEF SetStatus
  <2> QED
    BY <1>0, <2>1
<1>9. /\ v \in WindowRecords
      /\ v.told = TRUE /\ v.conn = s.conn /\ v.enabled = s.enabled /\ v.on = s.on
      /\ v.remote = s.remote /\ v.led = s.led /\ v.known = s.known /\ v.offers = s.offers
  BY <1>7, <1>8 DEF WindowRecords, SameBut
<1>10. {"connect", "disconnect", "change"} \subseteq ControlsOf(kind)
  BY DEF ControlsOf
<1>11. v.offers \subseteq ControlsOf(kind)
  BY <1>1, <1>3, <1>7, <1>9, <1>10 DEF SameBut
<1>12. ~c => "disconnect" \notin v.offers
  BY <1>4, <1>7, <1>9 DEF SameBut
<1>13. v.led = w.led
  BY <1>3, <1>7, <1>9 DEF SameBut
<1>14. Connectable(kind, v, w, c)
  BY <1>9, <1>11, <1>12, <1>13 DEF Connectable
<1> QED
  BY <1>0, <1>14

(* Three groups of controls, one after the other.                          *)
Three(w, R, a, S, b, T, c) == Enable(Enable(Enable(w, R, a), S, b), T, c)

(* Enabling them changes nothing but what is offered.                      *)
LEMMA ThreeSame ==
  ASSUME NEW w \in WindowRecords, NEW a \in BOOLEAN, NEW b \in BOOLEAN, NEW c \in BOOLEAN,
         NEW R, R \subseteq Controls, NEW S, S \subseteq Controls, NEW T, T \subseteq Controls
  PROVE  SameBut(Three(w, R, a, S, b, T, c), w, R \cup S \cup T)
<1>1. PICK x : x = Enable(w, R, a)
  OBVIOUS
<1>2. SameBut(x, w, R)
  BY <1>1, EnableSame
<1>3. x \in WindowRecords
  BY <1>2 DEF SameBut
<1>4. PICK y : y = Enable(x, S, b)
  OBVIOUS
<1>5. SameBut(y, x, S)
  BY <1>3, <1>4, EnableSame
<1>6. y \in WindowRecords
  BY <1>5 DEF SameBut
<1>7. PICK v : v = Enable(y, T, c)
  OBVIOUS
<1>8. SameBut(v, y, T)
  BY <1>6, <1>7, EnableSame
<1>9. Three(w, R, a, S, b, T, c) = v
  BY <1>1, <1>4, <1>7 DEF Three
<1> QED
  BY <1>2, <1>5, <1>8, <1>9 DEF SameBut

(* None of them is offered when all three conditions fail.                 *)
LEMMA ThreeOff ==
  ASSUME NEW w \in WindowRecords, NEW a \in BOOLEAN, NEW b \in BOOLEAN, NEW c \in BOOLEAN,
         NEW R, R \subseteq Controls, NEW S, S \subseteq Controls, NEW T, T \subseteq Controls,
         ~a, ~b, ~c
  PROVE  Three(w, R, a, S, b, T, c).offers = w.offers \ (R \cup S \cup T)
<1>1. PICK x : x = Enable(w, R, a)
  OBVIOUS
<1>2. SameBut(x, w, R)
  BY <1>1, EnableSame
<1>3. x \in WindowRecords
  BY <1>2 DEF SameBut
<1>4. PICK y : y = Enable(x, S, b)
  OBVIOUS
<1>5. SameBut(y, x, S)
  BY <1>3, <1>4, EnableSame
<1>6. y \in WindowRecords
  BY <1>5 DEF SameBut
<1>7. Three(w, R, a, S, b, T, c) = Enable(y, T, c)
  BY <1>1, <1>4 DEF Three
<1>8. x.offers = w.offers \ R
  BY <1>1, EnableOff
<1>9. y.offers = x.offers \ S
  BY <1>3, <1>4, EnableOff
<1>10. Enable(y, T, c).offers = y.offers \ T
  BY <1>6, EnableOff
<1> QED
  BY <1>7, <1>8, <1>9, <1>10

(* A window of a high-voltage supply that is told its status.              *)
LEMMA HVStatusKeeps ==
  ASSUME NEW kind \in HVKinds, NEW w \in WindowRecords, NEW c \in BOOLEAN,
         w.told = TRUE, w.offers \subseteq ControlsOf(kind), ~c => "disconnect" \notin w.offers
  PROVE  WindowOK(kind, HVStatus(w, c))
<1>1. HVControls \subseteq Controls /\ {"all"} \subseteq Controls /\ {"kill"} \subseteq Controls
  BY DEF HVControls, Controls, Dialogs
<1>2. /\ ControlsOf(kind) = {"connect", "disconnect", "change", "all", "kill"} \cup HVControls
      /\ kind # "TPG362" /\ kind # "MKS946"
  BY Sorts DEF HVControls, HVKinds, Controls, Dialogs, ControlsOf
<1>3. w.enabled \in BOOLEAN /\ w.remote \in BOOLEAN /\ w.on \in BOOLEAN
  BY DEF WindowRecords
<1>4. PICK a \in BOOLEAN : a = (c /\ w.enabled)
  BY <1>3, Zenon
<1>5. PICK b \in BOOLEAN : b = (c /\ w.remote)
  BY <1>3, Zenon
<1>6. PICK v : v = Three(w, HVControls, a, {"all"}, b, {"kill"}, c)
  OBVIOUS
<1>7. SameBut(v, w, HVControls \cup {"all"} \cup {"kill"})
  BY <1>1, <1>6, ThreeSame
<1>8. v \in WindowRecords /\ v.told = TRUE
  BY <1>7 DEF SameBut
<1>9. ~c => v.offers = w.offers \ (HVControls \cup {"all"} \cup {"kill"})
  <2> SUFFICES ASSUME ~c
               PROVE  v.offers = w.offers \ (HVControls \cup {"all"} \cup {"kill"})
    OBVIOUS
  <2>1. ~a /\ ~b
    BY <1>4, <1>5
  <2> QED
    BY <1>1, <1>6, <2>1, ThreeOff
<1>10. PICK l \in BOOLEAN : l = (c /\ w.on)
  BY <1>3, Zenon
<1>11. PICK r \in BOOLEAN : r = IF c THEN w.on ELSE v.radio
  <2>1. v.radio \in BOOLEAN
    BY <1>8 DEF WindowRecords
  <2> QED
    BY <1>3, <2>1
<1>12. PICK n : n = [v EXCEPT !.conn = c, !.led = l, !.radio = r]
  OBVIOUS
<1>13. HVStatus(w, c) = n
  BY <1>4, <1>5, <1>6, <1>10, <1>11, <1>12 DEF HVStatus, Three
<1>14. n \in WindowRecords /\ n.told = TRUE /\ n.conn = c /\ n.led = l /\ n.offers = v.offers
  <2>1. PICK u : u = [v EXCEPT !.conn = c, !.led = l]
    OBVIOUS
  <2>2. /\ u \in WindowRecords /\ u.told = v.told /\ u.conn = c /\ u.led = l
        /\ u.offers = v.offers
    BY <1>8, <2>1 DEF WindowRecords
  <2>3. n = [u EXCEPT !.radio = r]
    BY <1>12, <2>1
  <2> QED
    BY <1>8, <2>2, <2>3 DEF WindowRecords
<1>15. n.offers \subseteq ControlsOf(kind)
  BY <1>2, <1>7, <1>14 DEF SameBut
<1>16. ~c => n.led = FALSE /\ n.offers \subseteq {"connect", "change"}
  <2>1. ~c => l = FALSE
    BY <1>10
  <2>2. ~c => n.offers \subseteq {"connect", "change"}
    BY <1>2, <1>9, <1>14
  <2> QED
    BY <1>14, <2>1, <2>2
<1> QED
  BY <1>2, <1>13, <1>14, <1>15, <1>16 DEF WindowOK, DarkOf

(* A window of a low-voltage supply that is told its status.               *)
LEMMA LVStatusKeeps ==
  ASSUME NEW kind \in LVKinds, NEW w \in WindowRecords, NEW c \in BOOLEAN, w.led = FALSE,
         w.told = TRUE, w.offers \subseteq ControlsOf(kind), ~c => "disconnect" \notin w.offers
  PROVE  WindowOK(kind, LVStatus(w, c))
<1>1. {"on"} \subseteq Controls /\ {"off"} \subseteq Controls /\ LVDialogs \subseteq Controls
  BY DEF Switches, Controls, Dialogs
<1>2. /\ ControlsOf(kind) = {"connect", "disconnect", "change", "on", "off"} \cup LVDialogs
      /\ kind # "TPG362" /\ kind # "MKS946"
  BY Sorts DEF Switches, ControlsOf
<1>3. w.on \in BOOLEAN
  BY DEF WindowRecords
<1>4. PICK a \in BOOLEAN : a = (c /\ ~w.on)
  BY <1>3, Zenon
<1>5. PICK b \in BOOLEAN : b = (c /\ w.on)
  BY <1>3, Zenon
<1>6. PICK v : v = Three(w, {"on"}, a, {"off"}, b, LVDialogs, c)
  OBVIOUS
<1>7. SameBut(v, w, {"on"} \cup {"off"} \cup LVDialogs)
  BY <1>1, <1>6, ThreeSame
<1>8. v \in WindowRecords /\ v.told = TRUE /\ v.led = FALSE
  BY <1>7 DEF SameBut
<1>9. ~c => v.offers = w.offers \ ({"on"} \cup {"off"} \cup LVDialogs)
  <2> SUFFICES ASSUME ~c
               PROVE  v.offers = w.offers \ ({"on"} \cup {"off"} \cup LVDialogs)
    OBVIOUS
  <2>1. ~a /\ ~b
    BY <1>4, <1>5
  <2> QED
    BY <1>1, <1>6, <2>1, ThreeOff
<1>10. PICK n : n = [v EXCEPT !.conn = c]
  OBVIOUS
<1>11. LVStatus(w, c) = n
  BY <1>4, <1>5, <1>6, <1>10 DEF LVStatus, Three
<1>12. n \in WindowRecords /\ n.told = TRUE /\ n.conn = c /\ n.led = FALSE /\ n.offers = v.offers
  BY <1>8, <1>10 DEF WindowRecords
<1>13. n.offers \subseteq ControlsOf(kind)
  BY <1>2, <1>7, <1>12 DEF SameBut
<1>14. ~c => n.offers \subseteq {"connect", "change"}
  BY <1>2, <1>9, <1>12
<1> QED
  BY <1>2, <1>11, <1>12, <1>13, <1>14 DEF WindowOK, DarkOf

(* The window of an MKS946 that is told its status.                        *)
LEMMA MKS946StatusKeeps ==
  ASSUME NEW w \in WindowRecords, NEW c \in BOOLEAN, w.led = FALSE,
         w.told = TRUE, w.offers \subseteq ControlsOf("MKS946"), ~c => "disconnect" \notin w.offers
  PROVE  WindowOK("MKS946", MKS946Status(w, c))
<1>1. {"on"} \subseteq Controls /\ {"off"} \subseteq Controls /\ MKS946Dialogs \subseteq Controls
  BY DEF Switches, Controls, Dialogs
<1>2. ControlsOf("MKS946") = {"connect", "disconnect", "change"} \cup Switches \cup MKS946Dialogs
  BY Sorts DEF ControlsOf
<1>3. w.on \in BOOLEAN /\ w.known \in BOOLEAN
  BY DEF WindowRecords
<1>4. PICK a \in BOOLEAN : a = (c /\ w.known /\ w.on)
  BY <1>3, Zenon
<1>5. PICK b \in BOOLEAN : b = (c /\ w.known /\ ~w.on)
  BY <1>3, Zenon
<1>6. PICK v : v = Three(w, MKS946Dialogs, c, {"off"}, a, {"on"}, b)
  OBVIOUS
<1>7. SameBut(v, w, MKS946Dialogs \cup {"off"} \cup {"on"})
  BY <1>1, <1>6, ThreeSame
<1>8. v \in WindowRecords /\ v.told = TRUE /\ v.led = FALSE
  BY <1>7 DEF SameBut
<1>9. ~c => v.offers = w.offers \ (MKS946Dialogs \cup {"off"} \cup {"on"})
  <2> SUFFICES ASSUME ~c
               PROVE  v.offers = w.offers \ (MKS946Dialogs \cup {"off"} \cup {"on"})
    OBVIOUS
  <2>1. ~a /\ ~b
    BY <1>4, <1>5
  <2> QED
    BY <1>1, <1>6, <2>1, ThreeOff
<1>10. PICK n : n = [v EXCEPT !.conn = c]
  OBVIOUS
<1>11. MKS946Status(w, c) = n
  BY <1>4, <1>5, <1>6, <1>10 DEF MKS946Status, Three
<1>12. n \in WindowRecords /\ n.told = TRUE /\ n.conn = c /\ n.led = FALSE /\ n.offers = v.offers
  BY <1>8, <1>10 DEF WindowRecords
<1>13. n.offers \subseteq ControlsOf("MKS946")
  BY <1>2, <1>7, <1>12 DEF SameBut, Switches
<1>14. ~c => n.offers \subseteq {"connect", "change"}
  BY <1>2, <1>9, <1>12 DEF Switches
<1> QED
  BY <1>11, <1>12, <1>13, <1>14, Sorts DEF WindowOK, DarkOf

(* Two groups of controls, one after the other.                            *)
Two(w, R, a, S, b) == Enable(Enable(w, R, a), S, b)

(* Enabling them changes nothing but what is offered.                      *)
LEMMA TwoSame ==
  ASSUME NEW w \in WindowRecords, NEW a \in BOOLEAN, NEW b \in BOOLEAN,
         NEW R, R \subseteq Controls, NEW S, S \subseteq Controls
  PROVE  SameBut(Two(w, R, a, S, b), w, R \cup S)
<1>1. PICK x : x = Enable(w, R, a)
  OBVIOUS
<1>2. SameBut(x, w, R)
  BY <1>1, EnableSame
<1>3. x \in WindowRecords
  BY <1>2 DEF SameBut
<1>4. SameBut(Enable(x, S, b), x, S)
  BY <1>3, EnableSame
<1>5. Two(w, R, a, S, b) = Enable(x, S, b)
  BY <1>1 DEF Two
<1> QED
  BY <1>2, <1>4, <1>5 DEF SameBut

(* None of them is offered when both conditions fail.                      *)
LEMMA TwoOff ==
  ASSUME NEW w \in WindowRecords, NEW a \in BOOLEAN, NEW b \in BOOLEAN,
         NEW R, R \subseteq Controls, NEW S, S \subseteq Controls, ~a, ~b
  PROVE  Two(w, R, a, S, b).offers = w.offers \ (R \cup S)
<1>1. PICK x : x = Enable(w, R, a)
  OBVIOUS
<1>2. SameBut(x, w, R)
  BY <1>1, EnableSame
<1>3. x \in WindowRecords
  BY <1>2 DEF SameBut
<1>4. Two(w, R, a, S, b) = Enable(x, S, b)
  BY <1>1 DEF Two
<1>5. x.offers = w.offers \ R
  BY <1>1, EnableOff
<1>6. Enable(x, S, b).offers = x.offers \ S
  BY <1>3, EnableOff
<1> QED
  BY <1>4, <1>5, <1>6

(* The buttons of a TPG362, of whose window only the connection may have   *)
(* changed.                                                                *)
LEMMA TwoStateKeeps ==
  ASSUME NEW w \in WindowRecords, NEW e \in BOOLEAN, NEW on \in BOOLEAN, w.led = FALSE,
         w.offers \subseteq ControlsOf("TPG362"), w.told = TRUE => w.conn = e,
         w.told = TRUE /\ ~e => "disconnect" \notin w.offers
  PROVE  WindowOK("TPG362", TwoState(w, e, on))
<1>1. {"on"} \subseteq Controls /\ {"off"} \subseteq Controls
  BY DEF Switches, Controls
<1>2. ControlsOf("TPG362") = {"connect", "disconnect", "change", "on", "off"}
  BY Sorts DEF ControlsOf, Switches
<1>3. PICK a \in BOOLEAN : a = (e /\ ~on)
  BY Zenon
<1>4. PICK b \in BOOLEAN : b = (e /\ on)
  BY Zenon
<1>5. PICK v : v = Two(w, {"on"}, a, {"off"}, b)
  OBVIOUS
<1>6. SameBut(v, w, {"on"} \cup {"off"})
  BY <1>1, <1>5, TwoSame
<1>7. v \in WindowRecords /\ v.told = w.told /\ v.led = FALSE /\ v.conn = w.conn
  BY <1>6 DEF SameBut
<1>8. ~e => v.offers = w.offers \ ({"on"} \cup {"off"})
  <2> SUFFICES ASSUME ~e
               PROVE  v.offers = w.offers \ ({"on"} \cup {"off"})
    OBVIOUS
  <2>1. ~a /\ ~b
    BY <1>3, <1>4
  <2> QED
    BY <1>1, <1>5, <2>1, TwoOff
<1>9. PICK n : n = [v EXCEPT !.enabled = e, !.on = on]
  OBVIOUS
<1>10. TwoState(w, e, on) = n
  BY <1>3, <1>4, <1>5, <1>9 DEF TwoState, Two
<1>11. /\ n \in WindowRecords /\ n.told = w.told /\ n.conn = w.conn /\ n.led = FALSE
       /\ n.enabled = e /\ n.offers = v.offers
  BY <1>7, <1>9 DEF WindowRecords
<1>12. n.offers \subseteq ControlsOf("TPG362")
  BY <1>2, <1>6, <1>11 DEF SameBut
<1>13. n.told = TRUE => n.enabled = n.conn
  BY <1>11
<1>14. n.told = TRUE /\ n.conn = FALSE => n.offers \subseteq {"connect", "change"}
  BY <1>2, <1>8, <1>11
<1> QED
  BY <1>10, <1>11, <1>12, <1>13, <1>14, Sorts DEF WindowOK, DarkOf

(* The window of a TPG362 that is told its status.                         *)
LEMMA TPG362StatusKeeps ==
  ASSUME NEW w \in WindowRecords, NEW c \in BOOLEAN, w.led = FALSE,
         w.told = TRUE, w.offers \subseteq ControlsOf("TPG362"), ~c => "disconnect" \notin w.offers
  PROVE  WindowOK("TPG362", TPG362Status(w, c))
<1>1. PICK v : v = [w EXCEPT !.conn = c]
  OBVIOUS
<1>2. /\ v \in WindowRecords /\ v.led = FALSE /\ v.told = TRUE /\ v.offers = w.offers
      /\ v.conn = c /\ w.on \in BOOLEAN
  BY <1>1 DEF WindowRecords
<1>3. WindowOK("TPG362", TwoState(v, c, w.on))
  BY <1>2, TwoStateKeeps
<1> QED
  BY <1>1, <1>3 DEF TPG362Status

(* The window of an MKS910 that is told its status.                        *)
LEMMA MKS910StatusKeeps ==
  ASSUME NEW w \in WindowRecords, NEW c \in BOOLEAN, w.led = FALSE,
         w.told = TRUE, w.offers \subseteq ControlsOf("MKS910"), ~c => "disconnect" \notin w.offers
  PROVE  WindowOK("MKS910", MKS910Status(w, c))
<1>1. ControlsOf("MKS910") = {"connect", "disconnect", "change"}
  BY Sorts DEF ControlsOf
<1>2. PICK n : n = [w EXCEPT !.conn = c]
  OBVIOUS
<1>3. n \in WindowRecords /\ n.told = TRUE /\ n.conn = c /\ n.led = FALSE /\ n.offers = w.offers
  BY <1>2 DEF WindowRecords
<1>4. n.offers \subseteq ControlsOf("MKS910") /\ (~c => n.offers \subseteq {"connect", "change"})
  BY <1>1, <1>3
<1>5. MKS910Status(w, c) = n
  BY <1>2 DEF MKS910Status
<1> QED
  BY <1>3, <1>4, <1>5, Sorts DEF WindowOK, DarkOf

(* Any window that is told its status.                                     *)
LEMMA StatusKeeps ==
  ASSUME NEW kind \in Kinds, NEW w, WindowOK(kind, w), NEW c \in BOOLEAN
  PROVE  WindowOK(kind, UpdateStatus(kind, w, c))
<1>1. PICK v : v = [SetStatus(w, c) EXCEPT !.told = TRUE]
  OBVIOUS
<1>2. /\ v \in WindowRecords /\ v.told = TRUE /\ v.led = w.led
      /\ v.offers \subseteq ControlsOf(kind) /\ (~c => "disconnect" \notin v.offers)
  <2>1. Connectable(kind, v, w, c)
    BY <1>1, SetStatusFields
  <2> QED
    BY <2>1 DEF Connectable
<1>3. kind \notin HVKinds => v.led = FALSE
  BY <1>2 DEF WindowOK
<1>4. CASE kind \in HVKinds
  <2>1. WindowOK(kind, HVStatus(v, c))
    BY <1>2, <1>4, HVStatusKeeps
  <2> QED
    BY <1>1, <1>4, <2>1, Sorts DEF UpdateStatus, LVKinds
<1>5. CASE kind \in LVKinds
  <2>1. WindowOK(kind, LVStatus(v, c))
    BY <1>2, <1>3, <1>5, Sorts, LVStatusKeeps
  <2>2. UpdateStatus(kind, w, c) = LVStatus(v, c)
    BY <1>1, <1>5, Sorts DEF UpdateStatus, LVKinds, LV4Status
  <2> QED
    BY <2>1, <2>2
<1>6. CASE kind = "TPG362"
  <2>1. WindowOK(kind, TPG362Status(v, c))
    BY <1>2, <1>3, <1>6, Sorts, TPG362StatusKeeps
  <2> QED
    BY <1>1, <1>6, <2>1, Sorts DEF UpdateStatus, LVKinds
<1>7. CASE kind = "MKS910"
  <2>1. WindowOK(kind, MKS910Status(v, c))
    BY <1>2, <1>3, <1>7, Sorts, MKS910StatusKeeps
  <2> QED
    BY <1>1, <1>7, <2>1, Sorts DEF UpdateStatus, LVKinds
<1>8. CASE kind = "MKS946"
  <2>1. WindowOK(kind, MKS946Status(v, c))
    BY <1>2, <1>3, <1>8, Sorts, MKS946StatusKeeps
  <2> QED
    BY <1>1, <1>8, <2>1, Sorts DEF UpdateStatus, LVKinds
<1> QED
  BY <1>4, <1>5, <1>6, <1>7, <1>8 DEF Kinds

(* A window of a high-voltage supply that is told its configuration.       *)
LEMMA HVConfigurationKeeps ==
  ASSUME NEW kind \in HVKinds, NEW w, WindowOK(kind, w), NEW value,
         value.remote \in BOOLEAN, value.disabled \in BOOLEAN, value.on \in BOOLEAN
  PROVE  WindowOK(kind, DT1415ETConfiguration(w, value))
<1>1. /\ HVControls \subseteq Controls /\ {"all"} \subseteq Controls
      /\ w \in WindowRecords /\ w.conn \in BOOLEAN /\ w.offers \subseteq ControlsOf(kind)
  BY DEF HVControls, Controls, Dialogs, WindowOK, WindowRecords
<1>2. /\ ControlsOf(kind) = {"connect", "disconnect", "change", "all", "kill"} \cup HVControls
      /\ kind # "TPG362" /\ kind # "MKS946"
  BY Sorts DEF HVControls, HVKinds, Controls, Dialogs, ControlsOf
<1>3. PICK e \in BOOLEAN : e = (value.remote /\ ~value.disabled)
  BY Zenon
<1>4. PICK a \in BOOLEAN : a = (w.conn /\ e)
  BY <1>1, Zenon
<1>5. PICK b \in BOOLEAN : b = (w.conn /\ value.remote)
  BY <1>1, Zenon
<1>6. PICK v : v = Two(w, HVControls, a, {"all"}, b)
  OBVIOUS
<1>7. SameBut(v, w, HVControls \cup {"all"})
  BY <1>1, <1>6, TwoSame
<1>8. v \in WindowRecords /\ v.told = w.told /\ v.conn = w.conn
  BY <1>7 DEF SameBut
<1>9. PICK l \in BOOLEAN : l = (w.conn /\ value.on)
  BY <1>1, Zenon
<1>10. PICK r \in BOOLEAN : r = IF w.conn THEN value.on ELSE v.radio
  <2>1. v.radio \in BOOLEAN
    BY <1>8 DEF WindowRecords
  <2> QED
    BY <1>1, <2>1
<1>11. PICK n : n = [v EXCEPT !.enabled = e, !.on = value.on, !.remote = value.remote,
                             !.led = l, !.radio = r]
  OBVIOUS
<1>12. DT1415ETConfiguration(w, value) = n
  BY <1>3, <1>4, <1>5, <1>6, <1>9, <1>10, <1>11 DEF DT1415ETConfiguration, Two
<1>13. /\ n \in WindowRecords /\ n.told = w.told /\ n.conn = w.conn /\ n.led = l
       /\ n.offers = v.offers
  <2>1. PICK u : u = [v EXCEPT !.enabled = e, !.on = value.on, !.remote = value.remote]
    OBVIOUS
  <2>2. /\ u \in WindowRecords /\ u.told = v.told /\ u.conn = v.conn /\ u.offers = v.offers
    BY <1>8, <2>1 DEF WindowRecords
  <2>3. n = [u EXCEPT !.led = l, !.radio = r]
    BY <1>11, <2>1
  <2> QED
    BY <1>8, <2>2, <2>3 DEF WindowRecords
<1>14. n.offers \subseteq ControlsOf(kind)
  BY <1>1, <1>2, <1>7, <1>13 DEF SameBut
<1>15. w.told = TRUE /\ w.conn = FALSE => n.led = FALSE /\ n.offers \subseteq {"connect", "change"}
  <2> SUFFICES ASSUME w.told = TRUE, w.conn = FALSE
               PROVE  n.led = FALSE /\ n.offers \subseteq {"connect", "change"}
    OBVIOUS
  <2>1. w.offers \subseteq {"connect", "change"}
    BY <1>2 DEF WindowOK, DarkOf
  <2>2. ~a /\ ~b /\ l = FALSE
    BY <1>4, <1>5, <1>9
  <2>3. v.offers = w.offers \ (HVControls \cup {"all"})
    BY <1>1, <1>6, <2>2, TwoOff
  <2> QED
    BY <1>13, <2>1, <2>2, <2>3
<1>16. WindowOK(kind, n)
  BY <1>2, <1>13, <1>14, <1>15 DEF WindowOK, DarkOf
<1> QED
  BY <1>12, <1>16

(* A window of a low-voltage supply that is told its measurements.         *)
LEMMA LVMeasurementsKeeps ==
  ASSUME NEW kind \in LVKinds, NEW w, WindowOK(kind, w), NEW value, value.on \in BOOLEAN
  PROVE  WindowOK(kind, LVMeasurements(w, value))
<1>1. /\ {"on"} \subseteq Controls /\ {"off"} \subseteq Controls /\ w.led = FALSE
      /\ w \in WindowRecords /\ w.conn \in BOOLEAN /\ w.offers \subseteq ControlsOf(kind)
  BY Sorts DEF Switches, Controls, WindowOK, WindowRecords
<1>2. /\ ControlsOf(kind) = {"connect", "disconnect", "change", "on", "off"} \cup LVDialogs
      /\ kind # "TPG362" /\ kind # "MKS946" /\ kind \notin HVKinds
  BY Sorts DEF Switches, ControlsOf
<1>3. PICK a \in BOOLEAN : a = (w.conn /\ ~value.on)
  BY <1>1, Zenon
<1>4. PICK b \in BOOLEAN : b = (w.conn /\ value.on)
  BY <1>1, Zenon
<1>5. PICK v : v = Two(w, {"on"}, a, {"off"}, b)
  OBVIOUS
<1>6. SameBut(v, w, {"on"} \cup {"off"})
  BY <1>1, <1>5, TwoSame
<1>7. v \in WindowRecords /\ v.told = w.told /\ v.conn = w.conn /\ v.led = FALSE
  BY <1>1, <1>6 DEF SameBut
<1>8. PICK n : n = [v EXCEPT !.on = value.on]
  OBVIOUS
<1>9. LVMeasurements(w, value) = n
  BY <1>3, <1>4, <1>5, <1>8 DEF LVMeasurements, Two
<1>10. /\ n \in WindowRecords /\ n.told = w.told /\ n.conn = w.conn /\ n.led = FALSE
       /\ n.offers = v.offers
  BY <1>7, <1>8 DEF WindowRecords
<1>11. n.offers \subseteq ControlsOf(kind)
  BY <1>1, <1>2, <1>6, <1>10 DEF SameBut
<1>12. w.told = TRUE /\ w.conn = FALSE => n.offers \subseteq {"connect", "change"}
  <2> SUFFICES ASSUME w.told = TRUE, w.conn = FALSE
               PROVE  n.offers \subseteq {"connect", "change"}
    OBVIOUS
  <2>1. w.offers \subseteq {"connect", "change"}
    BY <1>2 DEF WindowOK, DarkOf
  <2>2. ~a /\ ~b
    BY <1>3, <1>4
  <2>3. v.offers = w.offers \ ({"on"} \cup {"off"})
    BY <1>1, <1>5, <2>2, TwoOff
  <2> QED
    BY <1>10, <2>1, <2>3
<1>13. WindowOK(kind, n)
  BY <1>2, <1>10, <1>11, <1>12 DEF WindowOK, DarkOf
<1> QED
  BY <1>9, <1>13

(* The window of an MKS946 that is told the state of the PID control.      *)
LEMMA PIDStateKeeps ==
  ASSUME NEW w, WindowOK("MKS946", w), NEW value, value.on \in BOOLEAN
  PROVE  WindowOK("MKS946", PIDState(w, value))
<1>1. /\ {"on"} \subseteq Controls /\ {"off"} \subseteq Controls /\ w.led = FALSE
      /\ w \in WindowRecords /\ w.offers \subseteq ControlsOf("MKS946")
  BY Sorts DEF Switches, Controls, WindowOK, WindowRecords
<1>2. Switches \subseteq ControlsOf("MKS946")
  BY Sorts DEF ControlsOf
<1>3. PICK a \in BOOLEAN : a = value.on
  OBVIOUS
<1>4. PICK b \in BOOLEAN : b = ~value.on
  BY Zenon
<1>5. PICK v : v = Two(w, {"off"}, a, {"on"}, b)
  OBVIOUS
<1>6. SameBut(v, w, {"off"} \cup {"on"})
  BY <1>1, <1>5, TwoSame
<1>7. v \in WindowRecords /\ v.told = w.told /\ v.conn = w.conn /\ v.led = FALSE
  BY <1>1, <1>6 DEF SameBut
<1>8. PICK n : n = [v EXCEPT !.on = value.on, !.known = TRUE]
  OBVIOUS
<1>9. PIDState(w, value) = n
  BY <1>3, <1>4, <1>5, <1>8 DEF PIDState, Two
<1>10. /\ n \in WindowRecords /\ n.told = w.told /\ n.conn = w.conn /\ n.led = FALSE
       /\ n.offers = v.offers
  BY <1>7, <1>8 DEF WindowRecords
<1>11. n.offers \subseteq ControlsOf("MKS946")
  BY <1>1, <1>2, <1>6, <1>10 DEF SameBut, Switches
<1>12. w.told = TRUE /\ w.conn = FALSE => n.offers \subseteq {"connect", "change"} \cup Switches
  BY <1>6, <1>10 DEF WindowOK, DarkOf, SameBut, Switches
<1>13. WindowOK("MKS946", n)
  BY <1>10, <1>11, <1>12 DEF WindowOK, DarkOf
<1> QED
  BY <1>9, <1>13

(* Any window that is told a value.                                        *)
LEMMA ValueKeeps ==
  ASSUME NEW kind \in Kinds, NEW w, WindowOK(kind, w), NEW value,
         value.remote \in BOOLEAN, value.disabled \in BOOLEAN, value.on \in BOOLEAN
  PROVE  WindowOK(kind, UpdateValue(kind, w, value))
<1>1. CASE kind \in HVKinds
  <2>1. WindowOK(kind, DT1415ETConfiguration(w, value))
    BY <1>1, HVConfigurationKeeps
  <2>2. UpdateValue(kind, w, value) = DT1415ETConfiguration(w, value)
    BY <1>1 DEF UpdateValue, HVKinds, N1471Configuration, DT1470ETConfiguration
  <2> QED
    BY <2>1, <2>2
<1>2. CASE kind \in LVKinds
  <2>1. WindowOK(kind, LVMeasurements(w, value))
    BY <1>2, LVMeasurementsKeeps
  <2>2. UpdateValue(kind, w, value) = LVMeasurements(w, value)
    BY <1>2 DEF UpdateValue, LVKinds, LV4Measurements
  <2> QED
    BY <2>1, <2>2
<1>3. CASE kind = "TPG362"
  <2>1. /\ w \in WindowRecords /\ w.enabled \in BOOLEAN /\ w.led = FALSE
        /\ w.offers \subseteq ControlsOf("TPG362") /\ (w.told = TRUE => w.conn = w.enabled)
    BY <1>3, Sorts DEF WindowOK, WindowRecords
  <2>2. w.told = TRUE /\ ~w.enabled => "disconnect" \notin w.offers
    BY <1>3, <2>1 DEF WindowOK, DarkOf
  <2>3. WindowOK("TPG362", TwoState(w, w.enabled, value.on))
    BY <2>1, <2>2, TwoStateKeeps
  <2> QED
    BY <1>3, <2>3 DEF UpdateValue, TPG362Measurements
<1>4. CASE kind = "MKS910"
  BY <1>4 DEF UpdateValue
<1>5. CASE kind = "MKS946"
  <2>1. WindowOK("MKS946", PIDState(w, value))
    BY <1>5, PIDStateKeeps
  <2> QED
    BY <1>5, <2>1 DEF UpdateValue
<1> QED
  BY <1>1, <1>2, <1>3, <1>4, <1>5 DEF Kinds

(* Every new window is of its kind, and has not been told a status.        *)
LEMMA NewWindowOK ==
  ASSUME NEW kind \in Kinds, NEW w \in NewWindow(kind)
  PROVE  WindowOK(kind, w)
<1> DEFINE Fresh(v) ==
      v \in WindowRecords /\ v.told = FALSE /\ v.led = FALSE /\ v.offers \subseteq ControlsOf(kind)
<1>1. ASSUME NEW conn \in BOOLEAN, NEW on \in BOOLEAN, NEW remote \in BOOLEAN,
             NEW offers, offers \subseteq Controls, offers \subseteq ControlsOf(kind)
      PROVE  /\ Fresh(Window(conn, on, remote, offers))
             /\ Fresh([Window(conn, on, remote, offers) EXCEPT !.enabled = TRUE])
  BY <1>1 DEF Window, WindowRecords
<1> HIDE DEF Fresh
<1>2. CASE kind \in HVKinds
  <2>1. /\ TCPWidget \cup AllChannelsTab \cup ChannelTab \subseteq Controls
        /\ TCPWidget \cup AllChannelsTab \cup ChannelTab \subseteq ControlsOf(kind)
    BY <1>2, Sorts DEF TCPWidget, AllChannelsTab, ChannelTab, Controls, ControlsOf, HVControls,
       HVDialogs, Dialogs, TCPDialog
  <2>2. PICK conn \in BOOLEAN, remote \in BOOLEAN :
          w = Window(conn, FALSE, remote, TCPWidget \cup AllChannelsTab \cup ChannelTab)
    <3>1. w \in NewHV
      BY <1>2, Sorts DEF NewWindow
    <3> QED
      BY <3>1 DEF NewHV
  <2>3. Fresh(w)
    <3>1. Fresh(Window(conn, FALSE, remote, TCPWidget \cup AllChannelsTab \cup ChannelTab))
      BY <1>1, <2>1
    <3> QED
      BY <2>2, <3>1
  <2> QED
    BY <1>2, <2>3, Sorts DEF WindowOK, Fresh
<1>3. CASE kind \in LVKinds
  <2>1. TCPWidget \cup LVDialogs \subseteq Controls /\ TCPWidget \cup LVDialogs \subseteq ControlsOf(kind)
    BY <1>3, Sorts DEF TCPWidget, Controls, ControlsOf, Dialogs, TCPDialog
  <2>2. PICK conn \in BOOLEAN, on \in BOOLEAN : w = Window(conn, on, FALSE, TCPWidget \cup LVDialogs)
    <3>1. w \in NewLV
      BY <1>3, Sorts DEF NewWindow
    <3> QED
      BY <3>1 DEF NewLV
  <2>3. Fresh(w)
    <3>1. Fresh(Window(conn, on, FALSE, TCPWidget \cup LVDialogs))
      BY <1>1, <2>1
    <3> QED
      BY <2>2, <3>1
  <2> QED
    BY <1>3, <2>3, Sorts DEF WindowOK, Fresh
<1>4. CASE kind = "TPG362"
  <2>1. TCPWidget \cup TPG362CTab \subseteq Controls /\ TCPWidget \cup TPG362CTab \subseteq ControlsOf(kind)
    BY <1>4, Sorts DEF TCPWidget, TPG362CTab, Controls, ControlsOf, Dialogs, TCPDialog, Switches
  <2>2. PICK conn \in BOOLEAN :
          w = [Window(conn, FALSE, FALSE, TCPWidget \cup TPG362CTab) EXCEPT !.enabled = TRUE]
    BY <1>4, Sorts DEF NewWindow, NewTPG362
  <2>3. Fresh(w)
    BY <1>1, <2>1, <2>2
  <2> QED
    BY <1>4, <2>3, Sorts DEF WindowOK, Fresh
<1>5. CASE kind = "MKS910"
  <2>1. TCPWidget \subseteq Controls /\ TCPWidget \subseteq ControlsOf(kind)
    BY <1>5, Sorts DEF TCPWidget, Controls, ControlsOf, Dialogs, TCPDialog
  <2>2. PICK conn \in BOOLEAN : w = Window(conn, FALSE, FALSE, TCPWidget)
    BY <1>5, Sorts DEF NewWindow, NewMKS910
  <2>3. Fresh(w)
    BY <1>1, <2>1, <2>2
  <2> QED
    BY <1>5, <2>3, Sorts DEF WindowOK, Fresh
<1>6. CASE kind = "MKS946"
  <2>1. /\ TCPWidget \cup MKS946CTab \cup MKS946PIDTab \subseteq Controls
        /\ TCPWidget \cup MKS946CTab \cup MKS946PIDTab \subseteq ControlsOf(kind)
    BY <1>6, Sorts DEF TCPWidget, MKS946CTab, MKS946PIDTab, Controls, ControlsOf, Dialogs, TCPDialog,
       MKS946Dialogs
  <2>2. PICK conn \in BOOLEAN :
          w = Window(conn, FALSE, FALSE, TCPWidget \cup MKS946CTab \cup MKS946PIDTab)
    BY <1>6, Sorts DEF NewWindow, NewMKS946
  <2>3. Fresh(w)
    BY <1>1, <2>1, <2>2
  <2> QED
    BY <1>6, <2>3, Sorts DEF WindowOK, Fresh
<1> QED
  BY <1>2, <1>3, <1>4, <1>5, <1>6 DEF Kinds

(* The inductive invariant of a window and what it is told.                *)
PanelInv == PanelTypeOK /\ WindowOK(panelKind, panel)

(* At the start a window is new.                                           *)
LEMMA PanelInitInv == PanelInit => PanelInv
<1> SUFFICES ASSUME PanelInit
             PROVE  PanelInv
  OBVIOUS
<1>1. WindowOK(panelKind, panel)
  BY NewWindowOK DEF PanelInit
<1>2. panel \in WindowRecords
  BY <1>1 DEF WindowOK
<1>3. DOMAIN sampled = Items
  BY DEF PanelInit
<1> QED
  BY <1>1, <1>2, <1>3 DEF PanelInit, PanelInv, PanelTypeOK

(* A report leaves the window one of its kind.                             *)
LEMMA NotifyKeeps ==
  ASSUME PanelInv, NEW i \in Items, Notify(i)
  PROVE  PanelInv'
<1>1. /\ panelKind \in Kinds /\ panelKind' = panelKind /\ panelUp' = panelUp
      /\ serverStatus' = serverStatus /\ serverValue' = serverValue
      /\ panelDialog' = panelDialog /\ WindowOK(panelKind, panel)
  BY DEF Notify, PanelInv, PanelTypeOK
<1>2. DOMAIN sampled' = Items
  BY DEF Notify, PanelInv, PanelTypeOK
<1>3. ASSUME NEW c \in BOOLEAN
      PROVE  WindowOK(panelKind, UpdateStatus(panelKind, panel, c))
  BY <1>1, StatusKeeps
<1>4. ASSUME i = "status"
      PROVE  WindowOK(panelKind, panel')
  <2>1. ItemValue[i] = << serverStatus >> /\ serverStatus \in BOOLEAN
    BY <1>4 DEF ItemValue, Items, PanelInv, PanelTypeOK
  <2>2. panel' = UpdateStatus(panelKind, panel, serverStatus)
    BY <1>4, <2>1 DEF Notify, Null
  <2> QED
    BY <1>1, <1>3, <2>1, <2>2
<1>5. ASSUME i # "status" /\ serverValue = Null
      PROVE  WindowOK(panelKind, panel')
  <2>1. ItemValue[i] = Null
    BY <1>5 DEF ItemValue
  <2>2. panel' = panel
    BY <2>1 DEF Notify
  <2> QED
    BY <1>1, <2>2
<1>6. ASSUME i # "status" /\ serverValue # Null
      PROVE  WindowOK(panelKind, panel')
  <2>1. ItemValue[i] = serverValue
    BY <1>6 DEF ItemValue
  <2>2. panel' = UpdateValue(panelKind, panel, serverValue[1])
    BY <1>6, <2>1 DEF Notify
  <2>3. serverValue[1] \in PanelValues
    BY <1>6 DEF PanelInv, PanelTypeOK
  <2>4. /\ serverValue[1].remote \in BOOLEAN /\ serverValue[1].disabled \in BOOLEAN
        /\ serverValue[1].on \in BOOLEAN
    BY <2>3 DEF PanelValues
  <2>5. WindowOK(panelKind, UpdateValue(panelKind, panel, serverValue[1]))
    BY <1>1, <2>4, ValueKeeps
  <2> QED
    BY <1>1, <2>2, <2>5
<1>7. WindowOK(panelKind, panel')
  BY <1>4, <1>5, <1>6
<1> QED
  BY <1>1, <1>2, <1>7 DEF PanelInv, PanelTypeOK, PanelValues, WindowOK

(* Every step preserves the invariant.                                     *)
LEMMA PanelInductive == PanelInv /\ [PanelNext]_panelVars => PanelInv'
<1> SUFFICES ASSUME PanelInv, [PanelNext]_panelVars
             PROVE  PanelInv'
  OBVIOUS
<1>1. CASE StatusChanges
  <2>1. (serverStatus') \in BOOLEAN
    BY <1>1 DEF StatusChanges
  <2> QED
    BY <1>1, <2>1 DEF StatusChanges, PanelInv, PanelTypeOK, PanelValues
<1>2. CASE ValueChanges
  <2>1. serverValue' = Null \/ (serverValue')[1] \in PanelValues
    BY <1>2 DEF ValueChanges
  <2> QED
    BY <1>2, <2>1 DEF ValueChanges, PanelInv, PanelTypeOK, PanelValues
<1>3. CASE LinkDrops
  BY <1>3 DEF LinkDrops, PanelInv, PanelTypeOK, PanelValues
<1>4. CASE LinkOpens
  <2>1. DOMAIN sampled' = Items
    BY <1>4 DEF LinkOpens, MonitorItems
  <2> QED
    BY <1>4, <2>1 DEF LinkOpens, PanelInv, PanelTypeOK, PanelValues
<1>5. ASSUME NEW i \in Items, Notify(i)
      PROVE  PanelInv'
  BY <1>5, NotifyKeeps
<1>6. ASSUME NEW on \in BOOLEAN, Press(on)
      PROVE  PanelInv'
  <2>1. panel' = [panel EXCEPT !.radio = on] /\ panel \in WindowRecords
    BY <1>6 DEF Press, PanelInv, PanelTypeOK
  <2>2. /\ panel' \in WindowRecords /\ panel'.told = panel.told /\ panel'.conn = panel.conn
        /\ panel'.enabled = panel.enabled /\ panel'.led = panel.led /\ panel'.offers = panel.offers
    BY <2>1 DEF WindowRecords
  <2>3. WindowOK(panelKind, panel')
    BY <2>2 DEF PanelInv, WindowOK, DarkOf
  <2> QED
    BY <1>6, <2>2, <2>3 DEF Press, PanelInv, PanelTypeOK, PanelValues
<1>7. ASSUME NEW d \in Dialogs, OpenDialog(d)
      PROVE  PanelInv'
  BY <1>7 DEF OpenDialog, PanelInv, PanelTypeOK, PanelValues
<1>8. CASE CloseDialog
  BY <1>8 DEF CloseDialog, PanelInv, PanelTypeOK, PanelValues
<1>9. CASE UNCHANGED panelVars
  BY <1>9 DEF panelVars, PanelInv, PanelTypeOK, PanelValues
<1> QED
  BY <1>1, <1>2, <1>3, <1>4, <1>5, <1>6, <1>7, <1>8, <1>9 DEF PanelNext, PanelWorld

(* The invariant holds of every behaviour of a window.                     *)
LEMMA SpecPanelInv == PanelSpec => []PanelInv
BY PanelInitInv, PanelInductive, PTL DEF PanelSpec

(* The invariant says that a window that knows of no connection is dark.   *)
LEMMA InvIsDark == PanelInv => DisconnectedIsDark
<1> SUFFICES ASSUME PanelInv, panel.told, ~panel.conn
             PROVE  Dark(panel)
  BY DEF DisconnectedIsDark
<1>1. panel.told \in BOOLEAN /\ panel.conn \in BOOLEAN
  BY DEF PanelInv, PanelTypeOK, WindowRecords
<1>2. DarkOf(panelKind, panel)
  BY <1>1 DEF PanelInv, WindowOK
<1> QED
  BY <1>2 DEF DarkOf, Dark

-----------------------------------------------------------------------------
(* A window that has been told a status offers its controls by what it was *)
(* told, and its members are those of the last value that was reported.    *)

(* Some controls are all enabled, or all disabled.                         *)
Given(w, controls, cond) ==
  IF cond THEN controls \subseteq w.offers ELSE w.offers \cap controls = {}

(* What the members of a window say of its controls, and of the LED.       *)
GivenOf(kind, w) ==
  /\ Given(w, {"disconnect"}, w.conn)
  /\ Given(w, {"connect", "change"}, ~w.conn)
  /\ kind \in HVKinds =>
       /\ Given(w, HVControls, w.conn /\ w.enabled)
       /\ Given(w, {"all"}, w.conn /\ w.remote)
       /\ Given(w, {"kill"}, w.conn)
       /\ w.led = (w.conn /\ w.on)
  /\ kind \in LVKinds =>
       /\ Given(w, {"on"}, w.conn /\ ~w.on)
       /\ Given(w, {"off"}, w.conn /\ w.on)
       /\ Given(w, LVDialogs, w.conn)
  /\ kind = "TPG362" =>
       /\ Given(w, {"on"}, w.enabled /\ ~w.on)
       /\ Given(w, {"off"}, w.enabled /\ w.on)
  /\ kind = "MKS946" =>
       /\ Given(w, MKS946Dialogs, w.conn)
       /\ w.conn /\ w.known => Given(w, {"on"}, ~w.on) /\ Given(w, {"off"}, w.on)

(* What the members are when a value is the last that was reported.        *)
Holds(kind, w, value) ==
  /\ kind # "MKS910" => w.on = value.on
  /\ kind \in HVKinds => w.remote = value.remote /\ w.enabled = (value.remote /\ ~value.disabled)
  /\ kind = "MKS946" => w.known = TRUE

(* The inductive invariant of what is shown: the reports that are recorded *)
(* are those the window has.                                               *)
ShownInv ==
  /\ PanelInv
  /\ serverValue = Null \/ \E v \in PanelValues : serverValue = << v >>
  /\ panel.told = TRUE => GivenOf(panelKind, panel)
  /\ \A c \in BOOLEAN : sampled["status"] = << << c >> >> => panel.told = TRUE /\ panel.conn = c
  /\ \A v \in PanelValues : sampled["value"] = << << v >> >> => Holds(panelKind, panel, v)

(* What is enabled is given, and nothing else is changed.                  *)
LEMMA EnableGives ==
  ASSUME NEW w \in WindowRecords, NEW S, S \subseteq Controls, NEW cond \in BOOLEAN
  PROVE  /\ Given(Enable(w, S, cond), S, cond)
         /\ \A T : \A d \in BOOLEAN : T \cap S = {} /\ Given(w, T, d) => Given(Enable(w, S, cond), T, d)
<1>1. PICK v : v = Enable(w, S, cond)
  OBVIOUS
<1>2. v.offers = IF cond THEN w.offers \cup S ELSE w.offers \ S
  BY <1>1 DEF Enable, WindowRecords
<1>3. Given(v, S, cond)
  BY <1>2 DEF Given
<1>4. ASSUME NEW T, NEW d \in BOOLEAN, T \cap S = {}, Given(w, T, d)
      PROVE  Given(v, T, d)
  BY <1>2, <1>4 DEF Given
<1> QED
  BY <1>1, <1>3, <1>4

(* Groups of controls that have none in common.                            *)
LEMMA TwoGives ==
  ASSUME NEW w \in WindowRecords, NEW a \in BOOLEAN, NEW b \in BOOLEAN,
         NEW R, R \subseteq Controls, NEW S, S \subseteq Controls, R \cap S = {}
  PROVE  /\ Given(Two(w, R, a, S, b), R, a) /\ Given(Two(w, R, a, S, b), S, b)
         /\ \A T : \A d \in BOOLEAN :
              T \cap (R \cup S) = {} /\ Given(w, T, d) => Given(Two(w, R, a, S, b), T, d)
<1>1. PICK x : x = Enable(w, R, a)
  OBVIOUS
<1>2. x \in WindowRecords
  BY <1>1, EnableSame DEF SameBut
<1>3. PICK y : y = Enable(x, S, b)
  OBVIOUS
<1>4. Two(w, R, a, S, b) = y
  BY <1>1, <1>3 DEF Two
<1>5. /\ Given(x, R, a)
      /\ \A T : \A d \in BOOLEAN : T \cap R = {} /\ Given(w, T, d) => Given(x, T, d)
  BY <1>1, EnableGives
<1>6. /\ Given(y, S, b)
      /\ \A T : \A d \in BOOLEAN : T \cap S = {} /\ Given(x, T, d) => Given(y, T, d)
  BY <1>2, <1>3, EnableGives
<1>7. ASSUME NEW T, NEW d \in BOOLEAN, T \cap (R \cup S) = {}, Given(w, T, d)
      PROVE  Given(y, T, d)
  <2>1. T \cap R = {} /\ T \cap S = {}
    BY <1>7
  <2> QED
    BY <1>5, <1>6, <1>7, <2>1
<1> QED
  BY <1>4, <1>5, <1>6, <1>7

(* The same of three groups.                                               *)
LEMMA ThreeGives ==
  ASSUME NEW w \in WindowRecords, NEW a \in BOOLEAN, NEW b \in BOOLEAN, NEW c \in BOOLEAN,
         NEW R, R \subseteq Controls, NEW S, S \subseteq Controls, NEW T, T \subseteq Controls,
         R \cap S = {}, R \cap T = {}, S \cap T = {}
  PROVE  /\ Given(Three(w, R, a, S, b, T, c), R, a) /\ Given(Three(w, R, a, S, b, T, c), S, b)
         /\ Given(Three(w, R, a, S, b, T, c), T, c)
         /\ \A U : \A d \in BOOLEAN :
              U \cap (R \cup S \cup T) = {} /\ Given(w, U, d) => Given(Three(w, R, a, S, b, T, c), U, d)
<1>1. PICK x : x = Two(w, R, a, S, b)
  OBVIOUS
<1>2. x \in WindowRecords
  BY <1>1, TwoSame DEF SameBut
<1>3. PICK y : y = Enable(x, T, c)
  OBVIOUS
<1>4. Three(w, R, a, S, b, T, c) = y
  BY <1>1, <1>3 DEF Three, Two
<1>5. /\ Given(x, R, a) /\ Given(x, S, b)
      /\ \A U : \A d \in BOOLEAN : U \cap (R \cup S) = {} /\ Given(w, U, d) => Given(x, U, d)
  BY <1>1, TwoGives
<1>6. /\ Given(y, T, c)
      /\ \A U : \A d \in BOOLEAN : U \cap T = {} /\ Given(x, U, d) => Given(y, U, d)
  BY <1>2, <1>3, EnableGives
<1>7. ASSUME NEW U, NEW d \in BOOLEAN, U \cap (R \cup S \cup T) = {}, Given(w, U, d)
      PROVE  Given(y, U, d)
  <2>1. U \cap (R \cup S) = {} /\ U \cap T = {}
    BY <1>7
  <2> QED
    BY <1>5, <1>6, <1>7, <2>1
<1> QED
  BY <1>4, <1>5, <1>6, <1>7

(* The same is given by a window that offers the same.                     *)
LEMMA GivenSame ==
  ASSUME NEW v, NEW w, v.offers = w.offers, NEW S, NEW d \in BOOLEAN, Given(w, S, d)
  PROVE  Given(v, S, d)
BY DEF Given

(* The members that a value is in.                                         *)
SameMembers(v, w) == v.on = w.on /\ v.remote = w.remote /\ v.known = w.known /\ v.enabled = w.enabled

(* The controls of a connection are given by its status.                   *)
LEMMA SetStatusGives ==
  ASSUME NEW w \in WindowRecords, NEW c \in BOOLEAN, NEW v,
         v = [SetStatus(w, c) EXCEPT !.told = TRUE]
  PROVE  /\ v \in WindowRecords /\ v.told = TRUE /\ SameMembers(v, w) /\ v.led = w.led
         /\ Given(v, {"disconnect"}, c) /\ Given(v, {"connect", "change"}, ~c)
<1>1. {"disconnect"} \subseteq Controls /\ {"connect", "change"} \subseteq Controls
  BY DEF Controls, Dialogs, TCPDialog
<1>2. PICK d \in BOOLEAN : d = ~c
  BY Zenon
<1>3. PICK s : s = Two(w, {"disconnect"}, c, {"connect", "change"}, d)
  OBVIOUS
<1>4. SetStatus(w, c) = s
  BY <1>2, <1>3 DEF SetStatus, Two
<1>5. SameBut(s, w, {"disconnect"} \cup {"connect", "change"})
  BY <1>1, <1>3, TwoSame
<1>6. Given(s, {"disconnect"}, c) /\ Given(s, {"connect", "change"}, d)
  BY <1>1, <1>3, TwoGives
<1>7. /\ v \in WindowRecords /\ v.told = TRUE /\ v.offers = s.offers /\ v.led = s.led
      /\ SameMembers(v, s)
  BY <1>4, <1>5 DEF WindowRecords, SameBut, SameMembers
<1>8. Given(v, {"disconnect"}, c) /\ Given(v, {"connect", "change"}, d)
  BY <1>6, <1>7, GivenSame
<1> QED
  BY <1>2, <1>5, <1>7, <1>8 DEF SameBut, SameMembers

(* What a status leaves of a window.                                       *)
Told(kind, n, w, c) ==
  /\ n.told = TRUE /\ n.conn = c
  /\ GivenOf(kind, n)
  /\ \A value : Holds(kind, w, value) => Holds(kind, n, value)

(* The window of a high-voltage supply that is told its status.            *)
LEMMA HVStatusGives ==
  ASSUME NEW kind \in HVKinds, NEW w \in WindowRecords, NEW c \in BOOLEAN, w.told = TRUE,
         Given(w, {"disconnect"}, c), Given(w, {"connect", "change"}, ~c)
  PROVE  Told(kind, HVStatus(w, c), w, c)
<1>1. /\ HVControls \subseteq Controls /\ {"all"} \subseteq Controls /\ {"kill"} \subseteq Controls
      /\ HVControls \cap {"all"} = {} /\ HVControls \cap {"kill"} = {} /\ {"all"} \cap {"kill"} = {}
      /\ {"disconnect"} \cap (HVControls \cup {"all"} \cup {"kill"}) = {}
      /\ {"connect", "change"} \cap (HVControls \cup {"all"} \cup {"kill"}) = {}
  BY DEF HVControls, HVDialogs, Switches, Controls, Dialogs
<1>2. /\ w.enabled \in BOOLEAN /\ w.remote \in BOOLEAN /\ w.on \in BOOLEAN
      /\ kind \notin LVKinds /\ kind # "TPG362" /\ kind # "MKS946" /\ kind # "MKS910"
  BY Sorts DEF WindowRecords
<1>3. PICK a \in BOOLEAN : a = (c /\ w.enabled)
  BY <1>2, Zenon
<1>4. PICK b \in BOOLEAN : b = (c /\ w.remote)
  BY <1>2, Zenon
<1>5. PICK l \in BOOLEAN : l = (c /\ w.on)
  BY <1>2, Zenon
<1>6. PICK d \in BOOLEAN : d = ~c
  BY Zenon
<1>7. PICK v : v = Three(w, HVControls, a, {"all"}, b, {"kill"}, c)
  OBVIOUS
<1>8. SameBut(v, w, HVControls \cup {"all"} \cup {"kill"})
  BY <1>1, <1>7, ThreeSame
<1>9. /\ Given(v, HVControls, a) /\ Given(v, {"all"}, b) /\ Given(v, {"kill"}, c)
      /\ Given(v, {"disconnect"}, c) /\ Given(v, {"connect", "change"}, d)
  <2>1. Given(w, {"connect", "change"}, d)
    BY <1>6
  <2> QED
    BY <1>1, <1>7, <2>1, ThreeGives
<1>10. PICK r : r = IF c THEN w.on ELSE v.radio
  OBVIOUS
<1>11. PICK n : n = [v EXCEPT !.conn = c, !.led = l, !.radio = r]
  OBVIOUS
<1>12. HVStatus(w, c) = n
  BY <1>3, <1>4, <1>5, <1>7, <1>10, <1>11 DEF HVStatus, Three
<1>13. /\ n.told = TRUE /\ n.conn = c /\ n.led = l /\ n.offers = v.offers
       /\ n.enabled = w.enabled /\ n.on = w.on /\ n.remote = w.remote /\ n.known = w.known
  BY <1>8, <1>11 DEF WindowRecords, SameBut
<1>14. /\ Given(n, HVControls, a) /\ Given(n, {"all"}, b) /\ Given(n, {"kill"}, c)
       /\ Given(n, {"disconnect"}, c) /\ Given(n, {"connect", "change"}, d)
  BY <1>9, <1>13, GivenSame
<1>15. GivenOf(kind, n)
  BY <1>2, <1>3, <1>4, <1>5, <1>6, <1>13, <1>14 DEF GivenOf
<1>16. \A value : Holds(kind, w, value) => Holds(kind, n, value)
  BY <1>13 DEF Holds
<1> QED
  BY <1>12, <1>13, <1>15, <1>16 DEF Told

(* The window of a low-voltage supply that is told its status.             *)
LEMMA LVStatusGives ==
  ASSUME NEW kind \in LVKinds, NEW w \in WindowRecords, NEW c \in BOOLEAN, w.told = TRUE,
         Given(w, {"disconnect"}, c), Given(w, {"connect", "change"}, ~c)
  PROVE  Told(kind, LVStatus(w, c), w, c)
<1>1. /\ {"on"} \subseteq Controls /\ {"off"} \subseteq Controls /\ LVDialogs \subseteq Controls
      /\ {"on"} \cap {"off"} = {} /\ {"on"} \cap LVDialogs = {} /\ {"off"} \cap LVDialogs = {}
      /\ {"disconnect"} \cap ({"on"} \cup {"off"} \cup LVDialogs) = {}
      /\ {"connect", "change"} \cap ({"on"} \cup {"off"} \cup LVDialogs) = {}
  BY DEF LVDialogs, Switches, Controls, Dialogs
<1>2. /\ w.on \in BOOLEAN
      /\ kind \notin HVKinds /\ kind # "TPG362" /\ kind # "MKS946" /\ kind # "MKS910"
  BY Sorts DEF WindowRecords
<1>3. PICK a \in BOOLEAN : a = (c /\ ~w.on)
  BY <1>2, Zenon
<1>4. PICK b \in BOOLEAN : b = (c /\ w.on)
  BY <1>2, Zenon
<1>5. PICK d \in BOOLEAN : d = ~c
  BY Zenon
<1>6. PICK v : v = Three(w, {"on"}, a, {"off"}, b, LVDialogs, c)
  OBVIOUS
<1>7. SameBut(v, w, {"on"} \cup {"off"} \cup LVDialogs)
  BY <1>1, <1>6, ThreeSame
<1>8. /\ Given(v, {"on"}, a) /\ Given(v, {"off"}, b) /\ Given(v, LVDialogs, c)
      /\ Given(v, {"disconnect"}, c) /\ Given(v, {"connect", "change"}, d)
  <2>1. Given(w, {"connect", "change"}, d)
    BY <1>5
  <2> QED
    BY <1>1, <1>6, <2>1, ThreeGives
<1>9. PICK n : n = [v EXCEPT !.conn = c]
  OBVIOUS
<1>10. LVStatus(w, c) = n
  BY <1>3, <1>4, <1>6, <1>9 DEF LVStatus, Three
<1>11. /\ n.told = TRUE /\ n.conn = c /\ n.offers = v.offers
       /\ n.enabled = w.enabled /\ n.on = w.on /\ n.remote = w.remote /\ n.known = w.known
  BY <1>7, <1>9 DEF WindowRecords, SameBut
<1>12. /\ Given(n, {"on"}, a) /\ Given(n, {"off"}, b) /\ Given(n, LVDialogs, c)
       /\ Given(n, {"disconnect"}, c) /\ Given(n, {"connect", "change"}, d)
  BY <1>8, <1>11, GivenSame
<1>13. GivenOf(kind, n)
  BY <1>2, <1>3, <1>4, <1>5, <1>11, <1>12 DEF GivenOf
<1>14. \A value : Holds(kind, w, value) => Holds(kind, n, value)
  BY <1>11 DEF Holds
<1> QED
  BY <1>10, <1>11, <1>13, <1>14 DEF Told

(* What an MKS946's window that is told its status gives.                  *)
LEMMA MKS946StatusGives ==
  ASSUME NEW w \in WindowRecords, NEW c \in BOOLEAN, w.told = TRUE,
         Given(w, {"disconnect"}, c), Given(w, {"connect", "change"}, ~c)
  PROVE  Told("MKS946", MKS946Status(w, c), w, c)
<1>1. /\ {"on"} \subseteq Controls /\ {"off"} \subseteq Controls /\ MKS946Dialogs \subseteq Controls
      /\ {"off"} \cap {"on"} = {} /\ MKS946Dialogs \cap {"on"} = {} /\ MKS946Dialogs \cap {"off"} = {}
      /\ {"disconnect"} \cap (MKS946Dialogs \cup {"off"} \cup {"on"}) = {}
      /\ {"connect", "change"} \cap (MKS946Dialogs \cup {"off"} \cup {"on"}) = {}
  BY DEF MKS946Dialogs, Switches, Controls, Dialogs
<1>2. /\ w.on \in BOOLEAN /\ w.known \in BOOLEAN
      /\ "MKS946" \notin HVKinds /\ "MKS946" \notin LVKinds
  BY Sorts DEF WindowRecords
<1>3. PICK a \in BOOLEAN : a = (c /\ w.known /\ w.on)
  BY <1>2, Zenon
<1>4. PICK b \in BOOLEAN : b = (c /\ w.known /\ ~w.on)
  BY <1>2, Zenon
<1>5. PICK d \in BOOLEAN : d = ~c
  BY Zenon
<1>6. PICK v : v = Three(w, MKS946Dialogs, c, {"off"}, a, {"on"}, b)
  OBVIOUS
<1>7. SameBut(v, w, MKS946Dialogs \cup {"off"} \cup {"on"})
  BY <1>1, <1>6, ThreeSame
<1>8. /\ Given(v, MKS946Dialogs, c) /\ Given(v, {"off"}, a) /\ Given(v, {"on"}, b)
      /\ Given(v, {"disconnect"}, c) /\ Given(v, {"connect", "change"}, d)
  <2>1. Given(w, {"connect", "change"}, d)
    BY <1>5
  <2> QED
    BY <1>1, <1>6, <2>1, ThreeGives
<1>9. PICK n : n = [v EXCEPT !.conn = c]
  OBVIOUS
<1>10. MKS946Status(w, c) = n
  BY <1>3, <1>4, <1>6, <1>9 DEF MKS946Status, Three
<1>11. /\ n.told = TRUE /\ n.conn = c /\ n.offers = v.offers
       /\ n.enabled = w.enabled /\ n.on = w.on /\ n.remote = w.remote /\ n.known = w.known
  BY <1>7, <1>9 DEF WindowRecords, SameBut
<1>12. /\ Given(n, MKS946Dialogs, c) /\ Given(n, {"off"}, a) /\ Given(n, {"on"}, b)
       /\ Given(n, {"disconnect"}, c) /\ Given(n, {"connect", "change"}, d)
  BY <1>8, <1>11, GivenSame
<1>13. GivenOf("MKS946", n)
  BY <1>2, <1>3, <1>4, <1>5, <1>11, <1>12 DEF GivenOf
<1>14. \A value : Holds("MKS946", w, value) => Holds("MKS946", n, value)
  BY <1>11 DEF Holds
<1> QED
  BY <1>10, <1>11, <1>13, <1>14 DEF Told

(* The buttons of a TPG362 are given by the connection and its state.      *)
LEMMA TwoStateGives ==
  ASSUME NEW w \in WindowRecords, NEW e \in BOOLEAN, NEW on \in BOOLEAN,
         NEW c \in BOOLEAN, w.conn = c,
         Given(w, {"disconnect"}, c), Given(w, {"connect", "change"}, ~c)
  PROVE  /\ GivenOf("TPG362", TwoState(w, e, on))
         /\ TwoState(w, e, on).told = w.told /\ TwoState(w, e, on).conn = w.conn
         /\ TwoState(w, e, on).on = on
<1>1. /\ {"on"} \subseteq Controls /\ {"off"} \subseteq Controls /\ {"on"} \cap {"off"} = {}
      /\ {"disconnect"} \cap ({"on"} \cup {"off"}) = {}
      /\ {"connect", "change"} \cap ({"on"} \cup {"off"}) = {}
  BY DEF Switches, Controls
<1>2. PICK a \in BOOLEAN : a = (e /\ ~on)
  BY Zenon
<1>3. PICK b \in BOOLEAN : b = (e /\ on)
  BY Zenon
<1>4. PICK d \in BOOLEAN : d = ~c
  BY Zenon
<1>5. PICK v : v = Two(w, {"on"}, a, {"off"}, b)
  OBVIOUS
<1>6. SameBut(v, w, {"on"} \cup {"off"})
  BY <1>1, <1>5, TwoSame
<1>7. /\ Given(v, {"on"}, a) /\ Given(v, {"off"}, b)
      /\ Given(v, {"disconnect"}, c) /\ Given(v, {"connect", "change"}, d)
  <2>1. Given(w, {"connect", "change"}, d)
    BY <1>4
  <2> QED
    BY <1>1, <1>5, <2>1, TwoGives
<1>8. PICK n : n = [v EXCEPT !.enabled = e, !.on = on]
  OBVIOUS
<1>9. TwoState(w, e, on) = n
  BY <1>2, <1>3, <1>5, <1>8 DEF TwoState, Two
<1>10. /\ n.told = w.told /\ n.conn = w.conn /\ n.offers = v.offers
       /\ n.enabled = e /\ n.on = on
  BY <1>6, <1>8 DEF WindowRecords, SameBut
<1>11. /\ Given(n, {"on"}, a) /\ Given(n, {"off"}, b)
       /\ Given(n, {"disconnect"}, c) /\ Given(n, {"connect", "change"}, d)
  BY <1>7, <1>10, GivenSame
<1>12. GivenOf("TPG362", n)
  BY <1>2, <1>3, <1>4, <1>10, <1>11, Sorts DEF GivenOf
<1> QED
  BY <1>9, <1>10, <1>12

(* Any window that is told its status.                                     *)
LEMMA StatusGives ==
  ASSUME NEW kind \in Kinds, NEW w \in WindowRecords, NEW c \in BOOLEAN
  PROVE  Told(kind, UpdateStatus(kind, w, c), w, c)
<1>1. PICK v : v = [SetStatus(w, c) EXCEPT !.told = TRUE]
  OBVIOUS
<1>2. /\ v \in WindowRecords /\ v.told = TRUE /\ SameMembers(v, w)
      /\ Given(v, {"disconnect"}, c) /\ Given(v, {"connect", "change"}, ~c)
  BY <1>1, SetStatusGives
<1>3. \A value : Holds(kind, w, value) => Holds(kind, v, value)
  BY <1>2 DEF Holds, SameMembers
<1>4. ASSUME NEW n, Told(kind, n, v, c)
      PROVE  Told(kind, n, w, c)
  BY <1>3, <1>4 DEF Told
<1>5. CASE kind \in HVKinds
  <2>1. UpdateStatus(kind, w, c) = HVStatus(v, c)
    BY <1>1, <1>5, Sorts DEF UpdateStatus, LVKinds
  <2> QED
    BY <1>2, <1>4, <1>5, <2>1, HVStatusGives
<1>6. CASE kind \in LVKinds
  <2>1. UpdateStatus(kind, w, c) = LVStatus(v, c)
    BY <1>1, <1>6, Sorts DEF UpdateStatus, LVKinds, LV4Status
  <2> QED
    BY <1>2, <1>4, <1>6, <2>1, LVStatusGives
<1>7. CASE kind = "TPG362"
  <2>1. PICK u : u = [v EXCEPT !.conn = c]
    OBVIOUS
  <2>2. /\ u \in WindowRecords /\ u.conn = c /\ u.offers = v.offers /\ u.on = v.on
        /\ u.told = TRUE /\ v.on \in BOOLEAN
    BY <1>2, <2>1 DEF WindowRecords
  <2>3. PICK d \in BOOLEAN : d = ~c
    BY Zenon
  <2>4. Given(u, {"disconnect"}, c) /\ Given(u, {"connect", "change"}, d)
    BY <1>2, <2>2, <2>3, GivenSame
  <2>5. PICK n : n = TwoState(u, c, v.on)
    OBVIOUS
  <2>6. GivenOf("TPG362", n) /\ n.told = TRUE /\ n.conn = c /\ n.on = v.on
    BY <2>2, <2>3, <2>4, <2>5, TwoStateGives
  <2>7. UpdateStatus(kind, w, c) = n
    BY <1>1, <1>7, <2>1, <2>2, <2>5, Sorts DEF UpdateStatus, TPG362Status
  <2>8. \A value : Holds(kind, v, value) => Holds(kind, n, value)
    BY <1>7, <2>6, Sorts DEF Holds
  <2>9. Told(kind, n, v, c)
    BY <1>7, <2>6, <2>8 DEF Told
  <2> QED
    BY <1>4, <2>7, <2>9
<1>8. CASE kind = "MKS910"
  <2>1. PICK n : n = [v EXCEPT !.conn = c]
    OBVIOUS
  <2>2. /\ n.conn = c /\ n.offers = v.offers /\ n.told = TRUE
    BY <1>2, <2>1 DEF WindowRecords
  <2>3. PICK d \in BOOLEAN : d = ~c
    BY Zenon
  <2>4. Given(n, {"disconnect"}, c) /\ Given(n, {"connect", "change"}, d)
    BY <1>2, <2>2, <2>3, GivenSame
  <2>5. GivenOf(kind, n)
    BY <1>8, <2>2, <2>3, <2>4, Sorts DEF GivenOf
  <2>6. Told(kind, n, v, c)
    BY <1>8, <2>2, <2>5, Sorts DEF Told, Holds
  <2>7. UpdateStatus(kind, w, c) = n
    BY <1>1, <1>8, <2>1, Sorts DEF UpdateStatus, MKS910Status
  <2> QED
    BY <1>4, <2>6, <2>7
<1>9. CASE kind = "MKS946"
  <2>1. UpdateStatus(kind, w, c) = MKS946Status(v, c)
    BY <1>1, <1>9, Sorts DEF UpdateStatus, LVKinds
  <2> QED
    BY <1>2, <1>4, <1>9, <2>1, MKS946StatusGives
<1> QED
  BY <1>5, <1>6, <1>7, <1>8, <1>9 DEF Kinds

(* What a value leaves of a window.                                        *)
Shows(kind, n, w, value) ==
  /\ n.told = w.told /\ n.conn = w.conn
  /\ w.told = TRUE /\ GivenOf(kind, w) => GivenOf(kind, n)
  /\ Holds(kind, n, value)

(* The window of a high-voltage supply that is told the configuration.     *)
LEMMA HVConfigurationGives ==
  ASSUME NEW kind \in HVKinds, NEW w \in WindowRecords, NEW value,
         value.remote \in BOOLEAN, value.disabled \in BOOLEAN, value.on \in BOOLEAN
  PROVE  Shows(kind, DT1415ETConfiguration(w, value), w, value)
<1>1. /\ HVControls \subseteq Controls /\ {"all"} \subseteq Controls /\ HVControls \cap {"all"} = {}
      /\ {"disconnect"} \cap (HVControls \cup {"all"}) = {}
      /\ {"connect", "change"} \cap (HVControls \cup {"all"}) = {}
      /\ {"kill"} \cap (HVControls \cup {"all"}) = {}
  BY DEF HVControls, HVDialogs, Switches, Controls, Dialogs
<1>2. /\ w.conn \in BOOLEAN
      /\ kind \notin LVKinds /\ kind # "TPG362" /\ kind # "MKS946" /\ kind # "MKS910"
  BY Sorts DEF WindowRecords
<1>3. PICK e \in BOOLEAN : e = (value.remote /\ ~value.disabled)
  BY Zenon
<1>4. PICK a \in BOOLEAN : a = (w.conn /\ e)
  BY <1>2, Zenon
<1>5. PICK b \in BOOLEAN : b = (w.conn /\ value.remote)
  BY <1>2, Zenon
<1>6. PICK l \in BOOLEAN : l = (w.conn /\ value.on)
  BY <1>2, Zenon
<1>7. PICK c \in BOOLEAN : c = w.conn
  BY <1>2
<1>8. PICK d \in BOOLEAN : d = ~c
  BY Zenon
<1>9. PICK v : v = Two(w, HVControls, a, {"all"}, b)
  OBVIOUS
<1>10. SameBut(v, w, HVControls \cup {"all"})
  BY <1>1, <1>9, TwoSame
<1>11. PICK r : r = IF w.conn THEN value.on ELSE v.radio
  OBVIOUS
<1>12. PICK n : n = [v EXCEPT !.enabled = e, !.on = value.on, !.remote = value.remote,
                             !.led = l, !.radio = r]
  OBVIOUS
<1>13. DT1415ETConfiguration(w, value) = n
  BY <1>3, <1>4, <1>5, <1>6, <1>9, <1>11, <1>12 DEF DT1415ETConfiguration, Two
<1>14. /\ n.told = w.told /\ n.conn = c /\ n.led = l /\ n.offers = v.offers
       /\ n.enabled = e /\ n.on = value.on /\ n.remote = value.remote
  BY <1>7, <1>10, <1>12 DEF WindowRecords, SameBut
<1>15. Given(v, HVControls, a) /\ Given(v, {"all"}, b)
  BY <1>1, <1>9, TwoGives
<1>16. ASSUME GivenOf(kind, w)
       PROVE  GivenOf(kind, n)
  <2>1. /\ Given(w, {"disconnect"}, c) /\ Given(w, {"connect", "change"}, d)
        /\ Given(w, {"kill"}, c)
    BY <1>7, <1>8, <1>16 DEF GivenOf
  <2>2. /\ Given(v, {"disconnect"}, c) /\ Given(v, {"connect", "change"}, d)
        /\ Given(v, {"kill"}, c)
    BY <1>1, <1>9, <2>1, TwoGives
  <2>3. /\ Given(n, HVControls, a) /\ Given(n, {"all"}, b) /\ Given(n, {"kill"}, c)
        /\ Given(n, {"disconnect"}, c) /\ Given(n, {"connect", "change"}, d)
    BY <1>14, <1>15, <2>2, GivenSame
  <2> QED
    BY <1>2, <1>4, <1>5, <1>6, <1>7, <1>8, <1>14, <2>3 DEF GivenOf
<1>17. Holds(kind, n, value)
  BY <1>2, <1>3, <1>14 DEF Holds
<1> QED
  BY <1>7, <1>13, <1>14, <1>16, <1>17 DEF Shows

(* The window of a low-voltage supply that is told the measurements.       *)
LEMMA LVMeasurementsGives ==
  ASSUME NEW kind \in LVKinds, NEW w \in WindowRecords, NEW value, value.on \in BOOLEAN
  PROVE  Shows(kind, LVMeasurements(w, value), w, value)
<1>1. /\ {"on"} \subseteq Controls /\ {"off"} \subseteq Controls /\ {"on"} \cap {"off"} = {}
      /\ {"disconnect"} \cap ({"on"} \cup {"off"}) = {}
      /\ {"connect", "change"} \cap ({"on"} \cup {"off"}) = {}
      /\ LVDialogs \cap ({"on"} \cup {"off"}) = {}
  BY DEF LVDialogs, Switches, Controls, Dialogs
<1>2. /\ w.conn \in BOOLEAN
      /\ kind \notin HVKinds /\ kind # "TPG362" /\ kind # "MKS946" /\ kind # "MKS910"
  BY Sorts DEF WindowRecords
<1>3. PICK a \in BOOLEAN : a = (w.conn /\ ~value.on)
  BY <1>2, Zenon
<1>4. PICK b \in BOOLEAN : b = (w.conn /\ value.on)
  BY <1>2, Zenon
<1>5. PICK c \in BOOLEAN : c = w.conn
  BY <1>2
<1>6. PICK d \in BOOLEAN : d = ~c
  BY Zenon
<1>7. PICK v : v = Two(w, {"on"}, a, {"off"}, b)
  OBVIOUS
<1>8. SameBut(v, w, {"on"} \cup {"off"})
  BY <1>1, <1>7, TwoSame
<1>9. PICK n : n = [v EXCEPT !.on = value.on]
  OBVIOUS
<1>10. LVMeasurements(w, value) = n
  BY <1>3, <1>4, <1>7, <1>9 DEF LVMeasurements, Two
<1>11. n.told = w.told /\ n.conn = c /\ n.offers = v.offers /\ n.on = value.on
  BY <1>5, <1>8, <1>9 DEF WindowRecords, SameBut
<1>12. Given(v, {"on"}, a) /\ Given(v, {"off"}, b)
  BY <1>1, <1>7, TwoGives
<1>13. ASSUME GivenOf(kind, w)
       PROVE  GivenOf(kind, n)
  <2>1. /\ Given(w, {"disconnect"}, c) /\ Given(w, {"connect", "change"}, d)
        /\ Given(w, LVDialogs, c)
    BY <1>5, <1>6, <1>13 DEF GivenOf
  <2>2. /\ Given(v, {"disconnect"}, c) /\ Given(v, {"connect", "change"}, d)
        /\ Given(v, LVDialogs, c)
    BY <1>1, <1>7, <2>1, TwoGives
  <2>3. /\ Given(n, {"on"}, a) /\ Given(n, {"off"}, b) /\ Given(n, LVDialogs, c)
        /\ Given(n, {"disconnect"}, c) /\ Given(n, {"connect", "change"}, d)
    BY <1>11, <1>12, <2>2, GivenSame
  <2> QED
    BY <1>2, <1>3, <1>4, <1>5, <1>6, <1>11, <2>3 DEF GivenOf
<1>14. Holds(kind, n, value)
  BY <1>2, <1>11 DEF Holds
<1> QED
  BY <1>5, <1>10, <1>11, <1>13, <1>14 DEF Shows

(* What an MKS946's window that is told the state of the PID control gives.*)
LEMMA PIDStateGives ==
  ASSUME NEW w \in WindowRecords, NEW value, value.on \in BOOLEAN
  PROVE  Shows("MKS946", PIDState(w, value), w, value)
<1>1. /\ {"on"} \subseteq Controls /\ {"off"} \subseteq Controls /\ {"off"} \cap {"on"} = {}
      /\ {"disconnect"} \cap ({"off"} \cup {"on"}) = {}
      /\ {"connect", "change"} \cap ({"off"} \cup {"on"}) = {}
      /\ MKS946Dialogs \cap ({"off"} \cup {"on"}) = {}
  BY DEF MKS946Dialogs, Switches, Controls, Dialogs
<1>2. w.conn \in BOOLEAN /\ "MKS946" \notin HVKinds /\ "MKS946" \notin LVKinds
  BY Sorts DEF WindowRecords
<1>3. PICK a \in BOOLEAN : a = value.on
  OBVIOUS
<1>4. PICK b \in BOOLEAN : b = ~value.on
  BY Zenon
<1>5. PICK c \in BOOLEAN : c = w.conn
  BY <1>2
<1>6. PICK d \in BOOLEAN : d = ~c
  BY Zenon
<1>7. PICK v : v = Two(w, {"off"}, a, {"on"}, b)
  OBVIOUS
<1>8. SameBut(v, w, {"off"} \cup {"on"})
  BY <1>1, <1>7, TwoSame
<1>9. PICK n : n = [v EXCEPT !.on = value.on, !.known = TRUE]
  OBVIOUS
<1>10. PIDState(w, value) = n
  BY <1>3, <1>4, <1>7, <1>9 DEF PIDState, Two
<1>11. /\ n.told = w.told /\ n.conn = c /\ n.offers = v.offers /\ n.on = value.on
       /\ n.known = TRUE
  BY <1>5, <1>8, <1>9 DEF WindowRecords, SameBut
<1>12. Given(v, {"off"}, a) /\ Given(v, {"on"}, b)
  BY <1>1, <1>7, TwoGives
<1>13. ASSUME GivenOf("MKS946", w)
       PROVE  GivenOf("MKS946", n)
  <2>1. /\ Given(w, {"disconnect"}, c) /\ Given(w, {"connect", "change"}, d)
        /\ Given(w, MKS946Dialogs, c)
    BY <1>5, <1>6, <1>13 DEF GivenOf
  <2>2. /\ Given(v, {"disconnect"}, c) /\ Given(v, {"connect", "change"}, d)
        /\ Given(v, MKS946Dialogs, c)
    BY <1>1, <1>7, <2>1, TwoGives
  <2>3. /\ Given(n, {"on"}, b) /\ Given(n, {"off"}, a) /\ Given(n, MKS946Dialogs, c)
        /\ Given(n, {"disconnect"}, c) /\ Given(n, {"connect", "change"}, d)
    BY <1>11, <1>12, <2>2, GivenSame
  <2> QED
    BY <1>2, <1>3, <1>4, <1>5, <1>6, <1>11, <2>3 DEF GivenOf
<1>14. Holds("MKS946", n, value)
  BY <1>2, <1>11 DEF Holds
<1> QED
  BY <1>5, <1>10, <1>11, <1>13, <1>14 DEF Shows

(* Any window that is told a value.                                        *)
LEMMA ValueGives ==
  ASSUME NEW kind \in Kinds, NEW w \in WindowRecords, NEW value,
         value.remote \in BOOLEAN, value.disabled \in BOOLEAN, value.on \in BOOLEAN
  PROVE  Shows(kind, UpdateValue(kind, w, value), w, value)
<1>1. CASE kind \in HVKinds
  <2>1. UpdateValue(kind, w, value) = DT1415ETConfiguration(w, value)
    BY <1>1 DEF UpdateValue, HVKinds, N1471Configuration, DT1470ETConfiguration
  <2> QED
    BY <1>1, <2>1, HVConfigurationGives
<1>2. CASE kind \in LVKinds
  <2>1. UpdateValue(kind, w, value) = LVMeasurements(w, value)
    BY <1>2 DEF UpdateValue, LVKinds, LV4Measurements
  <2> QED
    BY <1>2, <2>1, LVMeasurementsGives
<1>3. CASE kind = "TPG362"
  <2>1. /\ w.conn \in BOOLEAN /\ w.enabled \in BOOLEAN
        /\ {"on"} \subseteq Controls /\ {"off"} \subseteq Controls
    BY DEF WindowRecords, Controls, Switches
  <2>2. PICK c \in BOOLEAN : c = w.conn
    BY <2>1
  <2>3. PICK n : n = TwoState(w, w.enabled, value.on)
    OBVIOUS
  <2>4. UpdateValue(kind, w, value) = n
    BY <1>3, <2>3 DEF UpdateValue, TPG362Measurements
  <2>5. n.told = w.told /\ n.conn = w.conn /\ n.on = value.on
    <3>1. PICK a \in BOOLEAN : a = (w.enabled /\ ~value.on)
      BY <2>1, Zenon
    <3>2. PICK b \in BOOLEAN : b = (w.enabled /\ value.on)
      BY <2>1, Zenon
    <3>3. PICK v : v = Two(w, {"on"}, a, {"off"}, b)
      OBVIOUS
    <3>4. SameBut(v, w, {"on"} \cup {"off"})
      BY <2>1, <3>3, TwoSame
    <3>5. n = [v EXCEPT !.enabled = w.enabled, !.on = value.on]
      BY <2>3, <3>1, <3>2, <3>3 DEF TwoState, Two
    <3> QED
      BY <3>4, <3>5 DEF WindowRecords, SameBut
  <2>6. ASSUME GivenOf(kind, w)
        PROVE  GivenOf(kind, n)
    <3>1. Given(w, {"disconnect"}, c) /\ Given(w, {"connect", "change"}, ~c)
      BY <2>2, <2>6 DEF GivenOf
    <3> QED
      BY <1>3, <2>1, <2>2, <2>3, <3>1, TwoStateGives
  <2>7. Holds(kind, n, value)
    BY <1>3, <2>5, Sorts DEF Holds
  <2> QED
    BY <2>4, <2>5, <2>6, <2>7 DEF Shows
<1>4. CASE kind = "MKS910"
  <2>1. UpdateValue(kind, w, value) = w
    BY <1>4 DEF UpdateValue
  <2> QED
    BY <1>4, <2>1, Sorts DEF Shows, Holds
<1>5. CASE kind = "MKS946"
  <2>1. UpdateValue(kind, w, value) = PIDState(w, value)
    BY <1>5 DEF UpdateValue
  <2> QED
    BY <1>5, <2>1, PIDStateGives
<1> QED
  BY <1>1, <1>2, <1>3, <1>4, <1>5 DEF Kinds

(* The values of the controls a window follows.                            *)
LEMMA ValueParts ==
  ASSUME NEW v \in PanelValues
  PROVE  v.remote \in BOOLEAN /\ v.disabled \in BOOLEAN /\ v.on \in BOOLEAN
BY DEF PanelValues

(* A new window has not been told a status.                                *)
LEMMA NewIsNotTold ==
  ASSUME NEW kind \in Kinds, NEW w \in NewWindow(kind)
  PROVE  w.told = FALSE
<1>1. CASE kind \in HVKinds
  <2>1. w \in NewHV
    BY <1>1, Sorts DEF NewWindow
  <2>2. PICK conn \in BOOLEAN, remote \in BOOLEAN :
          w = Window(conn, FALSE, remote, TCPWidget \cup AllChannelsTab \cup ChannelTab)
    BY <2>1 DEF NewHV
  <2> QED
    BY <2>2 DEF Window
<1>2. CASE kind \in LVKinds
  <2>1. w \in NewLV
    BY <1>2, Sorts DEF NewWindow
  <2>2. PICK conn \in BOOLEAN, on \in BOOLEAN : w = Window(conn, on, FALSE, TCPWidget \cup LVDialogs)
    BY <2>1 DEF NewLV
  <2> QED
    BY <2>2 DEF Window
<1>3. CASE kind = "TPG362"
  <2>1. PICK conn \in BOOLEAN :
          w = [Window(conn, FALSE, FALSE, TCPWidget \cup TPG362CTab) EXCEPT !.enabled = TRUE]
    BY <1>3, Sorts DEF NewWindow, NewTPG362
  <2> QED
    BY <2>1 DEF Window
<1>4. CASE kind = "MKS910"
  <2>1. PICK conn \in BOOLEAN : w = Window(conn, FALSE, FALSE, TCPWidget)
    BY <1>4, Sorts DEF NewWindow, NewMKS910
  <2> QED
    BY <2>1 DEF Window
<1>5. CASE kind = "MKS946"
  <2>1. PICK conn \in BOOLEAN :
          w = Window(conn, FALSE, FALSE, TCPWidget \cup MKS946CTab \cup MKS946PIDTab)
    BY <1>5, Sorts DEF NewWindow, NewMKS946
  <2> QED
    BY <2>1 DEF Window
<1> QED
  BY <1>1, <1>2, <1>3, <1>4, <1>5 DEF Kinds

(* At the start nothing has been reported.                                 *)
LEMMA ShownInitInv == PanelInit => ShownInv
<1> SUFFICES ASSUME PanelInit
             PROVE  ShownInv
  OBVIOUS
<1>1. PanelInv
  BY PanelInitInv
<1>2. serverValue = Null /\ sampled["status"] = <<>> /\ sampled["value"] = <<>>
  BY DEF PanelInit, Items
<1>3. panelKind \in Kinds /\ panel \in NewWindow(panelKind)
  BY DEF PanelInit
<1>4. panel.told # TRUE
  BY <1>3, NewIsNotTold
<1>5. \A x : << x >> # <<>>
  OBVIOUS
<1> QED
  BY <1>1, <1>2, <1>4, <1>5 DEF ShownInv

(* What is left alone stays shown, whatever the server's value becomes.    *)
LEMMA ShownStays ==
  ASSUME ShownInv, PanelInv', panelKind' = panelKind,
         serverValue' = Null \/ \E v \in PanelValues : serverValue' = << v >>,
         sampled' = sampled \/ (sampled'["status"] = <<>> /\ sampled'["value"] = <<>>),
         panel'.told = panel.told, panel'.conn = panel.conn,
         panel.told = TRUE /\ GivenOf(panelKind, panel) => GivenOf(panelKind, panel'),
         \A v : Holds(panelKind, panel, v) => Holds(panelKind, panel', v)
  PROVE  ShownInv'
<1>1. PanelValues' = PanelValues
  BY DEF PanelValues
<1>2. \A x : << x >> # <<>>
  OBVIOUS
<1>3. \A c \in BOOLEAN : sampled'["status"] = << << c >> >> => panel'.told = TRUE /\ panel'.conn = c
  BY <1>2 DEF ShownInv
<1>4. \A v \in PanelValues : sampled'["value"] = << << v >> >> => Holds(panelKind, panel', v)
  BY <1>2 DEF ShownInv
<1>5. panel'.told = TRUE => GivenOf(panelKind, panel')
  BY DEF ShownInv
<1> QED
  BY <1>1, <1>3, <1>4, <1>5 DEF ShownInv, Null

(* A report of the status.                                                 *)
LEMMA StatusShows ==
  ASSUME ShownInv, Notify("status")
  PROVE  ShownInv'
<1>1. /\ panelKind \in Kinds /\ panel \in WindowRecords /\ serverStatus \in BOOLEAN
      /\ DOMAIN sampled = Items
  BY DEF ShownInv, PanelInv, PanelTypeOK
<1>2. ItemValue["status"] = << serverStatus >> /\ << serverStatus >> # Null
  BY DEF ItemValue, Items, Null
<1>3. /\ panelKind' = panelKind /\ serverValue' = serverValue
      /\ sampled' = [sampled EXCEPT !["status"] = << << serverStatus >> >>]
      /\ panel' = UpdateStatus(panelKind, panel, serverStatus)
  BY <1>2 DEF Notify
<1>4. Told(panelKind, panel', panel, serverStatus)
  BY <1>1, <1>3, StatusGives
<1>5. sampled'["status"] = << << serverStatus >> >> /\ sampled'["value"] = sampled["value"]
  BY <1>1, <1>3 DEF Items
<1>6. PanelInv'
  BY NotifyKeeps DEF ShownInv, Items
<1>7. PanelValues' = PanelValues
  BY <1>3 DEF PanelValues
<1>8. \A c \in BOOLEAN : sampled'["status"] = << << c >> >> => panel'.told = TRUE /\ panel'.conn = c
  <2> SUFFICES ASSUME NEW c \in BOOLEAN, << << c >> >> = << << serverStatus >> >>
               PROVE  panel'.told = TRUE /\ panel'.conn = c
    BY <1>5
  <2>1. c = serverStatus
    OBVIOUS
  <2> QED
    BY <1>4, <2>1 DEF Told
<1>9. \A v \in PanelValues : sampled'["value"] = << << v >> >> => Holds(panelKind, panel', v)
  BY <1>4, <1>5 DEF ShownInv, Told
<1>10. GivenOf(panelKind, panel')
  BY <1>4 DEF Told
<1> QED
  BY <1>3, <1>6, <1>7, <1>8, <1>9, <1>10 DEF ShownInv, Null

(* A report of the value: a null is not passed on.                         *)
LEMMA ValueShows ==
  ASSUME ShownInv, Notify("value")
  PROVE  ShownInv'
<1>1. /\ panelKind \in Kinds /\ panel \in WindowRecords /\ DOMAIN sampled = Items
  BY DEF ShownInv, PanelInv, PanelTypeOK
<1>2. ItemValue["value"] = serverValue
  BY DEF ItemValue, Items
<1>3. /\ panelKind' = panelKind /\ serverValue' = serverValue
      /\ sampled' = [sampled EXCEPT !["value"] = << serverValue >>]
      /\ panel' = IF serverValue = Null THEN panel
                  ELSE UpdateValue(panelKind, panel, serverValue[1])
  BY <1>2 DEF Notify
<1>4. sampled'["value"] = << serverValue >> /\ sampled'["status"] = sampled["status"]
  BY <1>1, <1>3 DEF Items
<1>5. PanelInv'
  BY NotifyKeeps DEF ShownInv, Items
<1>6. PanelValues' = PanelValues
  BY <1>3 DEF PanelValues
<1>7. CASE serverValue = Null
  <2>1. panel' = panel
    BY <1>3, <1>7
  <2>2. \A v : << << v >> >> # << <<>> >>
    OBVIOUS
  <2>3. \A v \in PanelValues : sampled'["value"] = << << v >> >> => Holds(panelKind, panel', v)
    BY <1>4, <1>7, <2>2 DEF Null
  <2> QED
    BY <1>3, <1>4, <1>5, <1>6, <2>1, <2>3 DEF ShownInv, Null
<1>8. CASE serverValue # Null
  <2>1. PICK x \in PanelValues : serverValue = << x >>
    BY <1>8 DEF ShownInv
  <2>2. panel' = UpdateValue(panelKind, panel, x)
    <3>1. serverValue[1] = x
      BY <2>1
    <3> QED
      BY <1>3, <1>8, <3>1
  <2>3. Shows(panelKind, panel', panel, x)
    BY <1>1, <2>1, <2>2, ValueParts, ValueGives
  <2>4. \A v \in PanelValues : sampled'["value"] = << << v >> >> => Holds(panelKind, panel', v)
    <3> SUFFICES ASSUME NEW v \in PanelValues, << << v >> >> = << << x >> >>
                 PROVE  Holds(panelKind, panel', v)
      BY <1>4, <2>1
    <3>1. v = x
      OBVIOUS
    <3> QED
      BY <2>3, <3>1 DEF Shows
  <2>5. panel'.told = panel.told /\ panel'.conn = panel.conn
    BY <2>3 DEF Shows
  <2>6. panel'.told = TRUE => GivenOf(panelKind, panel')
    BY <2>3 DEF Shows, ShownInv
  <2>7. \A c \in BOOLEAN : sampled'["status"] = << << c >> >> => panel'.told = TRUE /\ panel'.conn = c
    BY <1>4, <2>5 DEF ShownInv
  <2> QED
    BY <1>3, <1>5, <1>6, <2>4, <2>6, <2>7 DEF ShownInv, Null
<1> QED
  BY <1>7, <1>8

(* Every step keeps what is shown.                                         *)
LEMMA ShownInductive == ShownInv /\ [PanelNext]_panelVars => ShownInv'
<1> SUFFICES ASSUME ShownInv, [PanelNext]_panelVars
             PROVE  ShownInv'
  OBVIOUS
<1>0. PanelInv'
  BY PanelInductive DEF ShownInv
<1>stays. ASSUME panelKind' = panelKind, panel' = panel,
                 serverValue' = serverValue \/ serverValue' = Null
                   \/ \E v \in PanelValues : serverValue' = << v >>,
                 sampled' = sampled \/ (sampled'["status"] = <<>> /\ sampled'["value"] = <<>>)
          PROVE  ShownInv'
  <2>1. serverValue' = Null \/ \E v \in PanelValues : serverValue' = << v >>
    BY <1>stays DEF ShownInv
  <2> QED
    BY <1>0, <1>stays, <2>1, ShownStays
<1>1. CASE StatusChanges
  BY <1>1, <1>stays DEF StatusChanges
<1>2. CASE ValueChanges
  BY <1>2, <1>stays DEF ValueChanges
<1>3. CASE LinkDrops
  BY <1>3, <1>stays DEF LinkDrops
<1>4. CASE LinkOpens
  <2>1. sampled'["status"] = <<>> /\ sampled'["value"] = <<>>
    BY <1>4 DEF LinkOpens, MonitorItems, Items
  <2> QED
    BY <1>4, <2>1, <1>stays DEF LinkOpens
<1>5. ASSUME NEW i \in Items, Notify(i)
      PROVE  ShownInv'
  <2>1. CASE i = "status"
    BY <1>5, <2>1, StatusShows
  <2>2. CASE i = "value"
    BY <1>5, <2>2, ValueShows
  <2> QED
    BY <2>1, <2>2 DEF Items
<1>6. ASSUME NEW on \in BOOLEAN, Press(on)
      PROVE  ShownInv'
  <2>1. /\ panel' = [panel EXCEPT !.radio = on] /\ panel \in WindowRecords
        /\ panelKind' = panelKind /\ sampled' = sampled /\ serverValue' = serverValue
    BY <1>6 DEF Press, ShownInv, PanelInv, PanelTypeOK
  <2>2. /\ panel'.told = panel.told /\ panel'.conn = panel.conn /\ panel'.on = panel.on
        /\ panel'.remote = panel.remote /\ panel'.enabled = panel.enabled
        /\ panel'.known = panel.known /\ panel'.led = panel.led /\ panel'.offers = panel.offers
    BY <2>1 DEF WindowRecords
  <2>3. GivenOf(panelKind, panel) => GivenOf(panelKind, panel')
    BY <2>2 DEF GivenOf, Given
  <2>4. \A v : Holds(panelKind, panel, v) => Holds(panelKind, panel', v)
    BY <2>2 DEF Holds
  <2>5. serverValue' = Null \/ \E v \in PanelValues : serverValue' = << v >>
    BY <2>1 DEF ShownInv
  <2> QED
    BY <1>0, <2>1, <2>2, <2>3, <2>4, <2>5, ShownStays
<1>7. ASSUME NEW d \in Dialogs, OpenDialog(d)
      PROVE  ShownInv'
  BY <1>7, <1>stays DEF OpenDialog
<1>8. CASE CloseDialog
  BY <1>8, <1>stays DEF CloseDialog
<1>9. CASE UNCHANGED panelVars
  BY <1>9, <1>stays DEF panelVars
<1> QED
  BY <1>1, <1>2, <1>3, <1>4, <1>5, <1>6, <1>7, <1>8, <1>9 DEF PanelNext, PanelWorld

(* The invariant holds of every behaviour of a window.                     *)
LEMMA SpecShownInv == PanelSpec => []ShownInv
BY ShownInitInv, ShownInductive, PTL DEF PanelSpec

(* What a window offers when its device is connected and has a value.      *)
LEMMA ConnectedOffers ==
  ASSUME NEW v, panelKind \in Kinds, WindowOK(panelKind, panel), GivenOf(panelKind, panel),
         Holds(panelKind, panel, v), panel.told = TRUE, panel.conn = TRUE,
         v.remote \in BOOLEAN, v.disabled \in BOOLEAN, v.on \in BOOLEAN
  PROVE  /\ panel.offers = Offered(v)
         /\ panel.led = (panelKind \in HVKinds /\ v.on)
<1>1. /\ panel \in WindowRecords /\ panel.led \in BOOLEAN
      /\ panel.offers \subseteq ControlsOf(panelKind)
  BY DEF WindowOK, WindowRecords
<1>2. "disconnect" \in panel.offers /\ "connect" \notin panel.offers /\ "change" \notin panel.offers
  BY DEF GivenOf, Given
<1>3. CASE panelKind \in HVKinds
  <2>1. ControlsOf(panelKind) = {"connect", "disconnect", "change"} \cup HVControls \cup {"all", "kill"}
    BY <1>3, Sorts DEF ControlsOf
  <2>2. Offered(v) = {"disconnect", "kill"} \cup (IF v.remote THEN {"all"} ELSE {})
                       \cup (IF v.remote /\ ~v.disabled THEN HVControls ELSE {})
    BY <1>3, Sorts DEF Offered
  <2>3. /\ Given(panel, HVControls, v.remote /\ ~v.disabled)
        /\ Given(panel, {"all"}, v.remote) /\ Given(panel, {"kill"}, TRUE)
        /\ panel.led = v.on
    BY <1>3, Sorts DEF GivenOf, Holds, Given
  <2>4. {"connect", "disconnect", "change", "all", "kill"} \cap HVControls = {}
    BY DEF HVControls, Switches, HVDialogs
  <2>5. panel.offers = Offered(v)
    BY <1>1, <1>2, <2>1, <2>2, <2>3, <2>4 DEF Given
  <2> QED
    BY <1>3, <2>3, <2>5
<1>4. CASE panelKind \in LVKinds
  <2>1. ControlsOf(panelKind) = {"connect", "disconnect", "change"} \cup Switches \cup LVDialogs
    BY <1>4, Sorts DEF ControlsOf
  <2>2. Offered(v) = {"disconnect", "setV", "setI", Change(v)}
    BY <1>4, Sorts DEF Offered
  <2>3. /\ Given(panel, {"on"}, ~v.on) /\ Given(panel, {"off"}, v.on)
        /\ Given(panel, LVDialogs, TRUE)
    BY <1>4, Sorts DEF GivenOf, Holds, Given
  <2>4. panel.offers = Offered(v)
    BY <1>1, <1>2, <2>1, <2>2, <2>3 DEF Given, Change, Switches, LVDialogs
  <2>5. panel.led = FALSE /\ panelKind \notin HVKinds
    BY <1>4, Sorts DEF WindowOK
  <2> QED
    BY <2>4, <2>5
<1>5. CASE panelKind = "TPG362"
  <2>1. ControlsOf(panelKind) = {"connect", "disconnect", "change"} \cup Switches
    BY <1>5, Sorts DEF ControlsOf
  <2>2. Offered(v) = {"disconnect", Change(v)}
    BY <1>5, Sorts DEF Offered
  <2>3. Given(panel, {"on"}, ~v.on) /\ Given(panel, {"off"}, v.on)
    BY <1>5, Sorts DEF GivenOf, Holds, Given, WindowOK
  <2>4. panel.offers = Offered(v)
    BY <1>1, <1>2, <2>1, <2>2, <2>3 DEF Given, Change, Switches
  <2>5. panel.led = FALSE /\ panelKind \notin HVKinds
    BY <1>5, Sorts DEF WindowOK
  <2> QED
    BY <2>4, <2>5
<1>6. CASE panelKind = "MKS910"
  <2>1. ControlsOf(panelKind) = {"connect", "disconnect", "change"} /\ Offered(v) = {"disconnect"}
    BY <1>6, Sorts DEF ControlsOf, Offered
  <2>2. panel.led = FALSE /\ panelKind \notin HVKinds
    BY <1>6, Sorts DEF WindowOK
  <2> QED
    BY <1>1, <1>2, <2>1, <2>2
<1>7. CASE panelKind = "MKS946"
  <2>1. ControlsOf(panelKind) = {"connect", "disconnect", "change"} \cup Switches \cup MKS946Dialogs
    BY <1>7, Sorts DEF ControlsOf
  <2>2. Offered(v) = {"disconnect", Change(v)} \cup MKS946Dialogs
    BY <1>7, Sorts DEF Offered
  <2>3. /\ Given(panel, {"on"}, ~v.on) /\ Given(panel, {"off"}, v.on)
        /\ Given(panel, MKS946Dialogs, TRUE)
    BY <1>7, Sorts DEF GivenOf, Holds, Given
  <2>4. {"connect", "disconnect", "change", "on", "off"} \cap MKS946Dialogs = {}
    BY DEF MKS946Dialogs
  <2>5. panel.offers = Offered(v)
    BY <1>1, <1>2, <2>1, <2>2, <2>3, <2>4 DEF Given, Change, Switches
  <2>6. panel.led = FALSE /\ panelKind \notin HVKinds
    BY <1>7, Sorts DEF WindowOK
  <2> QED
    BY <2>5, <2>6
<1> QED
  BY <1>3, <1>4, <1>5, <1>6, <1>7 DEF Kinds

(* A window that was told what is shows what is.                           *)
LEMMA ShownAgrees == ShownInv => ReportedIsShown
<1> SUFFICES ASSUME ShownInv, \A i \in Items : sampled[i] = << ItemValue[i] >>
             PROVE  PanelAgrees
  BY DEF ReportedIsShown
<1>1. /\ sampled["status"] = << << serverStatus >> >> /\ sampled["value"] = << serverValue >>
      /\ serverStatus \in BOOLEAN /\ panelKind \in Kinds
  BY DEF Items, ItemValue, ShownInv, PanelInv, PanelTypeOK
<1>2. panel.told = TRUE /\ panel.conn = serverStatus
  BY <1>1 DEF ShownInv
<1>3. ~serverStatus => Dark(panel)
  BY <1>1, <1>2, InvIsDark DEF ShownInv, DisconnectedIsDark
<1>4. ASSUME serverStatus, serverValue # Null
      PROVE  /\ panel.offers = Offered(serverValue[1])
             /\ panel.led = (panelKind \in HVKinds /\ serverValue[1].on)
  <2>1. PICK x \in PanelValues : serverValue = << x >>
    BY <1>4 DEF ShownInv
  <2>2. Holds(panelKind, panel, x)
    <3>1. sampled["value"] = << << x >> >>
      BY <1>1, <2>1
    <3> QED
      BY <3>1 DEF ShownInv
  <2>3. GivenOf(panelKind, panel) /\ WindowOK(panelKind, panel) /\ panel.conn = TRUE
    BY <1>1, <1>2, <1>4 DEF ShownInv, PanelInv
  <2>4. /\ panel.offers = Offered(x)
        /\ panel.led = (panelKind \in HVKinds /\ x.on)
    BY <1>1, <1>2, <2>1, <2>2, <2>3, ValueParts, ConnectedOffers
  <2>5. serverValue[1] = x
    BY <2>1
  <2> QED
    BY <2>4, <2>5
<1> QED
  BY <1>2, <1>3, <1>4 DEF PanelAgrees

-----------------------------------------------------------------------------
(* The trace list: the latest item is first, so that the items to keep are *)
(* the first ones.                                                         *)

LatestFirst ==
  \A i, j \in 1 .. Len(traces) : i < j =>
    /\ traces[j].timestamp <= traces[i].timestamp
    /\ traces[j].id < traces[i].id

(* The inductive invariant of a trace list.                                *)
TraceInv ==
  /\ TraceTypeOK
  /\ LatestFirst
  /\ \A i \in 1 .. Len(traces) : traces[i].id <= traceTotal
  /\ HeldIsShown

(* A set of numbers has a least one.                                       *)
LEMMA LeastNumber ==
  ASSUME NEW T, T \subseteq Nat, T # {}
  PROVE  \E n \in T : \A k \in T : n <= k
<1>1. \E n \in T : \A k \in T : ~ (<<k, n>> \in OpToRel(<, Nat))
  BY NatLessThanWellFounded, WFMin
<1>2. PICK n \in T : \A k \in T : ~ (k < n)
  BY <1>1 DEF OpToRel
<1>3. \A k \in T : k \in Nat
  OBVIOUS
<1> QED
  BY <1>2, <1>3

(* What is in the list has a time.                                         *)
LEMMA TraceNumbers ==
  ASSUME TraceInv
  PROVE  /\ Len(traces) \in Nat /\ traceInterval \in Nat /\ traceNow \in Nat
         /\ \A i \in 1 .. Len(traces) :
              traces[i] \in Traces /\ traces[i].timestamp \in Nat /\ traces[i].id \in Nat
<1>1. /\ traces \in Seq(Traces) /\ traceInterval \in Nat /\ traceNow \in Nat
  BY TraceAssumption DEF TraceInv, TraceTypeOK
<1>2. \A t \in Traces : t.timestamp \in Nat /\ t.id \in Nat
  BY TraceAssumption DEF Traces
<1>3. \A i \in 1 .. Len(traces) : traces[i] \in Traces
  BY <1>1
<1> QED
  BY <1>1, <1>2, <1>3

(* The items to keep are those before the first obsolete one.              *)
LEMMA KeptPlaces ==
  ASSUME TraceInv
  PROVE  \E m \in 0 .. Len(traces) :
           \A i \in 1 .. Len(traces) : Obsolete(traces[i]) <=> i > m
<1> DEFINE T == {i \in 1 .. Len(traces) : Obsolete(traces[i])}
<1>0. Len(traces) \in Nat
  BY TraceNumbers
<1>1. CASE T = {}
  <2>1. \A i \in 1 .. Len(traces) : ~Obsolete(traces[i]) /\ ~(i > Len(traces))
    BY <1>0, <1>1
  <2> QED
    BY <1>0, <2>1
<1>2. CASE T # {}
  <2>1. T \subseteq Nat
    BY <1>0
  <2>2. \E n \in T : \A k \in T : n <= k
    <3> HIDE DEF T
    <3> QED
      BY <1>2, <2>1, LeastNumber
  <2>3. PICK n \in 1 .. Len(traces) :
          Obsolete(traces[n]) /\ \A k \in 1 .. Len(traces) : Obsolete(traces[k]) => n <= k
    BY <2>2
  <2>4. ASSUME NEW i \in 1 .. Len(traces)
        PROVE  Obsolete(traces[i]) <=> i > n - 1
    <3>1. i < n => ~Obsolete(traces[i])
      BY <1>0, <2>3
    <3>2. i > n => Obsolete(traces[i])
      BY <1>0, <2>3, TraceNumbers DEF TraceInv, LatestFirst, Obsolete
    <3> QED
      BY <1>0, <2>3, <3>1, <3>2
  <2>5. n - 1 \in 0 .. Len(traces)
    BY <1>0
  <2> QED
    BY <2>4, <2>5
<1> QED
  BY <1>1, <1>2

(* remove_if keeps the first items.                                        *)
LEMMA KeptIs ==
  ASSUME TraceInv, NEW m \in 0 .. Len(traces),
         \A i \in 1 .. Len(traces) : Obsolete(traces[i]) <=> i > m
  PROVE  Kept = SubSeq(traces, 1, m)
<1> DEFINE Moved(M, n) ==
             IF n = 0 THEN <<>>
             ELSE IF Obsolete(traces[n]) THEN M[n - 1] ELSE Append(M[n - 1], traces[n])
           Front(n) == SubSeq(traces, 1, IF n <= m THEN n ELSE m)
           F == [n \in 0 .. Len(traces) |-> Front(n)]
<1>0. Len(traces) \in Nat /\ traces \in Seq(Traces) /\ m \in Nat /\ m <= Len(traces)
  BY DEF TraceInv, TraceTypeOK
<1>1. ASSUME NEW n \in 1 .. Len(traces)
      PROVE  Front(n) = IF Obsolete(traces[n]) THEN Front(n - 1) ELSE Append(Front(n - 1), traces[n])
  <2>1. CASE n > m
    BY <1>0, <2>1
  <2>2. CASE n <= m
    <3>1. ~Obsolete(traces[n]) /\ n - 1 <= m /\ n - 1 \in 0 .. Len(traces)
      BY <1>0, <2>2
    <3>2. SubSeq(traces, 1, n) = Append(SubSeq(traces, 1, n - 1), traces[n])
      BY <1>0
    <3> QED
      BY <2>2, <3>1, <3>2
  <2> QED
    BY <1>0, <2>1, <2>2
<1>2. Front(0) = <<>>
  BY <1>0
<1>3. F = [n \in 0 .. Len(traces) |-> Moved(F, n)]
  <2>1. ASSUME NEW n \in 0 .. Len(traces)
        PROVE  Front(n) = Moved(F, n)
    <3>1. CASE n = 0
      BY <1>2, <3>1
    <3>2. CASE n # 0
      <4>1. n \in 1 .. Len(traces) /\ n - 1 \in 0 .. Len(traces)
        BY <1>0, <3>2
      <4>2. F[n - 1] = Front(n - 1)
        BY <4>1
      <4> HIDE DEF Front, F
      <4> QED
        BY <1>1, <3>2, <4>1, <4>2
    <3> QED
      BY <3>1, <3>2
  <2> HIDE DEF Front, Moved
  <2> QED
    BY <2>1
<1>4. ASSUME NEW M, M = [n \in 0 .. Len(traces) |-> Moved(M, n)]
      PROVE  M[Len(traces)] = Front(Len(traces))
  <2> DEFINE T == {n \in 0 .. Len(traces) : M[n] # Front(n)}
  <2>1. \A n \in 0 .. Len(traces) : M[n] = Moved(M, n)
    BY <1>4
  <2>2. ASSUME T # {}
        PROVE  FALSE
    <3>0. T \subseteq Nat
      BY <1>0
    <3>1. PICK n \in T : \A k \in T : n <= k
      <4> HIDE DEF T
      <4> QED
        BY <2>2, <3>0, LeastNumber
    <3>2. n \in 0 .. Len(traces) /\ M[n] # Front(n)
      BY <3>1
    <3>3. n # 0
      BY <1>2, <2>1, <3>2
    <3>4. n \in 1 .. Len(traces) /\ n - 1 \in 0 .. Len(traces) /\ ~(n <= n - 1)
      BY <1>0, <3>2, <3>3
    <3>5. M[n - 1] = Front(n - 1)
      BY <3>1, <3>4
    <3>6. M[n] = Moved(M, n)
      BY <2>1, <3>2
    <3> HIDE DEF Front
    <3>7. M[n] = Front(n)
      BY <1>1, <3>3, <3>4, <3>5, <3>6
    <3> QED
      BY <3>2, <3>7
  <2>3. Len(traces) \in 0 .. Len(traces)
    BY <1>0
  <2> HIDE DEF Front
  <2> QED
    BY <2>2, <2>3
<1>5. PICK M : M = [n \in 0 .. Len(traces) |-> Moved(M, n)] /\ Kept = M[Len(traces)]
  <2> HIDE DEF F
  <2> QED
    BY <1>3 DEF Kept
<1>6. Front(Len(traces)) = SubSeq(traces, 1, m)
  BY <1>0
<1> HIDE DEF Step, Front
<1> QED
  BY <1>4, <1>5, <1>6

(* What clearItems deletes is behind what it keeps.                        *)
LEMMA ClearItemsKeeps ==
  ASSUME TraceInv, ClearItems
  PROVE  TraceInv'
<1>0. Len(traces) \in Nat /\ traces \in Seq(Traces)
  BY TraceNumbers DEF TraceInv, TraceTypeOK
<1>1. PICK m \in 0 .. Len(traces) : \A i \in 1 .. Len(traces) : Obsolete(traces[i]) <=> i > m
  BY KeptPlaces
<1>2. Kept = SubSeq(traces, 1, m)
  BY <1>1, KeptIs
<1>3. /\ Len(Kept) = m /\ Kept \in Seq(Traces)
      /\ \A i \in 1 .. m : Kept[i] = traces[i]
  BY <1>0, <1>2
<1> DEFINE behind == SubSeq(traces, m + 1, Len(traces))
<1>4. /\ traces' = Kept /\ traceShown' = traceShown \ Members(behind)
      /\ UNCHANGED <<traceNow, traceInterval, traceTotal>>
  BY <1>3 DEF ClearItems
<1>5. Members(behind) = {traces[i] : i \in m + 1 .. Len(traces)}
  <2>1. DOMAIN behind = 1 .. Len(traces) - m
    BY <1>0
  <2>2. \A i \in 1 .. Len(traces) - m : behind[i] = traces[m + i]
    BY <1>0
  <2>3. \A i \in m + 1 .. Len(traces) : i - m \in 1 .. Len(traces) - m /\ m + (i - m) = i
    BY <1>0
  <2>4. \A i \in 1 .. Len(traces) - m : m + i \in m + 1 .. Len(traces)
    BY <1>0
  <2> HIDE DEF behind
  <2>5. \A t : t \in Members(behind) <=> \E i \in 1 .. Len(traces) - m : t = traces[m + i]
    BY <2>1, <2>2 DEF Members
  <2> QED
    BY <2>3, <2>4, <2>5
<1>6. Members(traces) = {traces[i] : i \in 1 .. Len(traces)}
  BY <1>0 DEF Members
<1>7. Members(Kept) = {traces[i] : i \in 1 .. m}
  BY <1>0, <1>3 DEF Members
<1>8. ASSUME NEW i \in 1 .. m, NEW j \in m + 1 .. Len(traces)
      PROVE  traces[i] # traces[j]
  <2>1. i \in 1 .. Len(traces) /\ j \in 1 .. Len(traces) /\ i < j
    BY <1>0
  <2>2. traces[j].id < traces[i].id /\ traces[i].id \in Nat /\ traces[j].id \in Nat
    BY <2>1, TraceNumbers DEF TraceInv, LatestFirst
  <2> QED
    BY <2>2
<1>9. \A i \in 1 .. Len(traces) : i \in 1 .. m \/ i \in m + 1 .. Len(traces)
  BY <1>0
<1>10. \A i \in 1 .. m : i \in 1 .. Len(traces)
  BY <1>0
<1> HIDE DEF behind
<1>11. HeldIsShown'
  BY <1>4, <1>5, <1>6, <1>7, <1>8, <1>9, <1>10 DEF TraceInv, HeldIsShown
<1>12. LatestFirst' /\ (\A i \in 1 .. Len(traces) : traces[i].id <= traceTotal)'
  BY <1>3, <1>4, <1>10 DEF TraceInv, LatestFirst
<1>13. TraceTypeOK'
  BY <1>3, <1>4 DEF TraceInv, TraceTypeOK
<1> QED
  BY <1>11, <1>12, <1>13 DEF TraceInv

(* The item that is added is the latest, and its number new.               *)
LEMMA AddItemKeeps ==
  ASSUME TraceInv, AddItem
  PROVE  TraceInv'
<1>1. PICK time \in 0 .. traceNow :
        /\ \A t \in Members(traces) : t.timestamp <= time
        /\ traces' = Pushed([id |-> traceTotal + 1, timestamp |-> time])
        /\ traceShown' = traceShown \cup {[id |-> traceTotal + 1, timestamp |-> time]}
  BY DEF AddItem
<1>2. PICK t : t = [id |-> traceTotal + 1, timestamp |-> time]
  OBVIOUS
<1>3. /\ Len(traces) \in Nat /\ traces \in Seq(Traces)
      /\ traceTotal \in 0 .. MaxTraces /\ traceTotal < MaxTraces
      /\ traceNow \in 0 .. MaxNow /\ MaxNow \in Nat /\ MaxTraces \in Nat
      /\ traceTotal' = traceTotal + 1 /\ UNCHANGED <<traceNow, traceInterval>>
  BY TraceNumbers, TraceAssumption DEF TraceInv, TraceTypeOK, AddItem
<1>4. traceTotal + 1 \in 1 .. MaxTraces /\ time \in 0 .. MaxNow
  BY <1>3
<1>5. t \in Traces /\ t.id = traceTotal + 1 /\ t.timestamp = time
  BY <1>2, <1>4 DEF Traces
<1>6. /\ traces' = << t >> \o traces /\ traceShown' = traceShown \cup {t}
  BY <1>1, <1>2 DEF Pushed
<1>7. /\ traces' \in Seq(Traces) /\ Len(traces') = Len(traces) + 1
      /\ traces'[1] = t
      /\ \A i \in 1 .. Len(traces) : traces'[i + 1] = traces[i]
  BY <1>3, <1>5, <1>6
<1>8. ASSUME NEW i \in 1 .. Len(traces'), i # 1
      PROVE  i - 1 \in 1 .. Len(traces) /\ traces'[i] = traces[i - 1]
  <2>1. i - 1 \in 1 .. Len(traces) /\ (i - 1) + 1 = i
    BY <1>3, <1>7, <1>8
  <2> QED
    BY <1>7, <2>1
<1>9. \A i \in 1 .. Len(traces) :
        /\ traces[i] \in Members(traces) /\ traces[i].timestamp <= time
        /\ traces[i].id <= traceTotal
        /\ traces[i].timestamp \in Nat /\ traces[i].id \in Nat
  BY <1>1, <1>3, TraceNumbers DEF Members, TraceInv
<1>10. LatestFirst'
  <2> SUFFICES ASSUME NEW i \in 1 .. Len(traces'), NEW j \in 1 .. Len(traces'), i < j
               PROVE  /\ traces'[j].timestamp <= traces'[i].timestamp
                      /\ traces'[j].id < traces'[i].id
    BY DEF LatestFirst
  <2>1. j # 1 /\ j - 1 \in 1 .. Len(traces) /\ traces'[j] = traces[j - 1]
    BY <1>3, <1>7, <1>8
  <2>2. CASE i = 1
    BY <1>3, <1>5, <1>7, <1>9, <2>1, <2>2
  <2>3. CASE i # 1
    <3>1. i - 1 \in 1 .. Len(traces) /\ traces'[i] = traces[i - 1]
      BY <1>8, <2>3
    <3>2. i - 1 < j - 1
      BY <1>3, <1>7
    <3> QED
      BY <2>1, <3>1, <3>2 DEF TraceInv, LatestFirst
  <2> QED
    BY <2>2, <2>3
<1>11. (\A i \in 1 .. Len(traces) : traces[i].id <= traceTotal)'
  <2> SUFFICES ASSUME NEW i \in 1 .. Len(traces')
               PROVE  traces'[i].id <= traceTotal'
    OBVIOUS
  <2>1. CASE i = 1
    BY <1>3, <1>5, <1>7, <2>1
  <2>2. CASE i # 1
    BY <1>3, <1>8, <1>9, <2>2
  <2> QED
    BY <2>1, <2>2
<1>12. Members(traces') = Members(traces) \cup {t}
  <2>1. DOMAIN traces' = 1 .. Len(traces') /\ DOMAIN traces = 1 .. Len(traces)
    BY <1>3, <1>7
  <2>2. 1 \in 1 .. Len(traces') /\ \A i \in 1 .. Len(traces) : i + 1 \in 1 .. Len(traces')
    BY <1>3, <1>7
  <2>3. t \in Members(traces')
    BY <1>7, <2>1, <2>2 DEF Members
  <2>4. \A i \in 1 .. Len(traces) : traces[i] \in Members(traces')
    BY <1>7, <2>1, <2>2 DEF Members
  <2>5. \A i \in 1 .. Len(traces') : traces'[i] = t \/ traces'[i] \in Members(traces)
    BY <1>7, <1>8, <2>1 DEF Members
  <2>6. \A u \in Members(traces') : u = t \/ u \in Members(traces)
    BY <2>1, <2>5 DEF Members
  <2>7. \A u \in Members(traces) : u \in Members(traces')
    BY <2>1, <2>4 DEF Members
  <2> QED
    BY <2>3, <2>6, <2>7
<1>13. HeldIsShown'
  BY <1>6, <1>12 DEF TraceInv, HeldIsShown
<1>14. TraceTypeOK'
  BY <1>3, <1>4, <1>5, <1>6, <1>7 DEF TraceInv, TraceTypeOK
<1> QED
  BY <1>10, <1>11, <1>13, <1>14 DEF TraceInv

(* An empty list shows nothing.                                            *)
LEMMA TraceInitInv == TraceInit => TraceInv
<1> SUFFICES ASSUME TraceInit
             PROVE  TraceInv
  OBVIOUS
<1>1. traces = <<>> /\ Len(traces) = 0 /\ traceShown = {}
  BY DEF TraceInit
<1>2. TraceTypeOK
  BY <1>1, TraceAssumption DEF TraceTypeOK, TraceInit
<1>3. HeldIsShown
  BY <1>1 DEF HeldIsShown, Members
<1> QED
  BY <1>1, <1>2, <1>3 DEF TraceInv, LatestFirst

(* No step takes an item out of the list without the list widget's.        *)
LEMMA TraceInductive == TraceInv /\ [TraceNext]_traceVars => TraceInv'
<1> SUFFICES ASSUME TraceInv, [TraceNext]_traceVars
             PROVE  TraceInv'
  OBVIOUS
<1>1. CASE AddItem
  BY <1>1, AddItemKeeps
<1>2. CASE ClearItems
  BY <1>2, ClearItemsKeeps
<1>3. CASE ClearAllItems
  <2>1. traces' = <<>> /\ Len(traces') = 0 /\ traceShown' = {}
    BY <1>3 DEF ClearAllItems, TraceInv, HeldIsShown
  <2>2. TraceTypeOK'
    BY <1>3, <2>1 DEF ClearAllItems, TraceInv, TraceTypeOK
  <2>3. HeldIsShown'
    BY <2>1 DEF HeldIsShown, Members
  <2> QED
    BY <2>1, <2>2, <2>3 DEF TraceInv, LatestFirst
<1>4. CASE TraceTick \/ ConfigureDialog \/ UNCHANGED traceVars
  <2>1. UNCHANGED <<traceTotal, traces, traceShown>>
    BY <1>4 DEF TraceTick, ConfigureDialog, traceVars
  <2>2. traceNow' \in 0 .. MaxNow /\ traceInterval' \in Intervals
    BY <1>4, TraceAssumption DEF TraceTick, ConfigureDialog, traceVars, TraceInv, TraceTypeOK
  <2> QED
    BY <2>1, <2>2 DEF TraceInv, TraceTypeOK, LatestFirst, HeldIsShown
<1> QED
  BY <1>1, <1>2, <1>3, <1>4 DEF TraceNext

(* The invariant holds of every behaviour of a trace list.                 *)
LEMMA SpecTraceInv == TraceSpec => []TraceInv
BY TraceInitInv, TraceInductive, PTL DEF TraceSpec

-----------------------------------------------------------------------------
(* A behaviour of the station is one of each part.                         *)

(* Each step of the station is one of its parts', or leaves it alone.      *)
LEMMA StepsOfParts ==
  ASSUME [Next]_vars
  PROVE  /\ [MKSNext]_mksVars /\ [LVNext]_lvVars
         /\ [ProfilesNext]_profileVars /\ [PanelNext]_panelVars
         /\ [TPGNext]_tpgVars /\ [TraceNext]_traceVars
<1>1. CASE TPG362Step
  BY <1>1 DEF TPG362Step
<1>2. CASE MKS910Step
  BY <1>2 DEF MKS910Step
<1>3. CASE LowVoltageStep
  BY <1>3 DEF LowVoltageStep
<1>4. CASE ProfilesStep
  BY <1>4 DEF ProfilesStep
<1>5. CASE PanelStep
  BY <1>5 DEF PanelStep
<1>6. CASE TraceStep
  BY <1>6 DEF TraceStep
<1>7. CASE UNCHANGED vars
  BY <1>7 DEF vars
<1> QED
  BY <1>1, <1>2, <1>3, <1>4, <1>5, <1>6, <1>7 DEF Next

(* The station's behaviours, seen from each of its parts.                  *)
LEMMA BehavioursOfParts ==
  Spec => /\ MKSSpec /\ LVSpec /\ ProfilesSpec
          /\ PanelSpec /\ TPGSpec /\ TraceSpec
<1>1. Init => /\ MKSInit /\ LVInit /\ ProfilesInit
              /\ PanelInit /\ TPGInit /\ TraceInit
  BY DEF Init
<1> QED
  BY <1>1, StepsOfParts, PTL
     DEF Spec, MKSSpec, LVSpec, ProfilesSpec, PanelSpec, TPGSpec, TraceSpec

(* A behaviour of the station looks at one part all the time.              *)
Focused == focus \in Parts

(* The part that is looked at never changes.                               *)
LEMMA SpecFocused == Spec => []Focused
<1>1. Init => Focused
  BY DEF Init, Focused
<1>2. Focused /\ [Next]_vars => Focused'
  BY DEF Focused, Next, vars, TPG362Step, MKS910Step, LowVoltageStep, ProfilesStep, PanelStep, TraceStep
<1> QED
  BY <1>1, <1>2, PTL DEF Spec

(* Every part of the station, for any instruments, windows and bounds,     *)
(* stays among the states its module describes: no controller is left in a *)
(* job, a program or a phase that the code does not have.                  *)
THEOREM SpecStationTypeOK == Spec => []StationTypeOK
<1>1. /\ TPGInv => TPGTypeOK
      /\ MKSInv => MKSTypeOK
      /\ ProfilesInv => ProfilesTypeOK
      /\ PanelInv => PanelTypeOK
      /\ TraceInv => TraceTypeOK
  BY DEF TPGInv, MKSInv, ProfilesInv, PanelInv, TraceInv
<1>2. (/\ Focused /\ TPGTypeOK /\ MKSTypeOK /\ LVTypeOK
       /\ ProfilesTypeOK /\ PanelTypeOK /\ TraceTypeOK)
        => StationTypeOK
  BY DEF StationTypeOK, Focused
<1> QED
  BY <1>1, <1>2, SpecFocused, SpecTPGInv, SpecMKSInv, LVSpecTypeOK, SpecProfilesInv, SpecPanelInv,
     SpecTraceInv, BehavioursOfParts, PTL

(* sendWithEnquiry and the loop of getRelay, for any list of relays, any   *)
(* number of tries and any number of late answers: an update that ends on  *)
(* a stream on which no more than three were ever late at a time shows no  *)
(* relay with what was answered for another.                               *)
THEOREM SpecRelayInTime == Spec => RelayInTime
BY TPGSpecRelayInTime, BehavioursOfParts, PTL

(* setRelay of the MKS910's controller: a relay is only enabled with the   *)
(* settings of a single call, wherever the connection breaks.              *)
THEOREM SpecRelayOfOneCall == Spec => []RelayOfOneCall
<1>1. MKSInv => RelayOfOneCall
  BY DEF MKSInv
<1> QED
  BY <1>1, SpecMKSInv, BehavioursOfParts, PTL

(* saveProfile, for any controllers and names: a profile that was saved is *)
(* in the file whenever the server can read it.                            *)
THEOREM SpecNoProfileLost == Spec => []NoProfileLost
<1>1. ProfilesInv => NoProfileLost
  BY DEF ProfilesInv
<1> QED
  BY <1>1, SpecProfilesInv, BehavioursOfParts, PTL

(* The windows of every device: in whatever order status and values are    *)
(* reported, one that knows it is disconnected offers to connect only.     *)
THEOREM SpecDisconnectedIsDark == Spec => []DisconnectedIsDark
BY InvIsDark, SpecPanelInv, BehavioursOfParts, PTL

(* The windows of every device: when the subscription has reported both of *)
(* the variables as they are, in any order and after whatever it reported  *)
(* before, what a window offers and shows is what the device can do.       *)
THEOREM SpecReportedIsShown == Spec => []ReportedIsShown
BY ShownAgrees, SpecShownInv, BehavioursOfParts, PTL

(* clearItems, for any intervals and any number of items: remove_if leaves *)
(* the obsolete ones behind, so that what is deleted is what is not held.  *)
THEOREM SpecHeldIsShown == Spec => []HeldIsShown
<1>1. TraceInv => HeldIsShown
  BY DEF TraceInv
<1> QED
  BY <1>1, SpecTraceInv, BehavioursOfParts, PTL

(* The low-voltage supplies, in the station: readings and settings of a    *)
(* channel are that channel's own.                                         *)
THEOREM SpecChannels == Spec => []ReadingsOfChannel /\ SettingsOfChannel
BY LVSpecReadingsOfChannel, LVSpecSettingsOfChannel, BehavioursOfParts, PTL
===============================================================================
