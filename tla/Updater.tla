------------------------------ MODULE Updater ------------------------------
(***************************************************************************)
(* What an update promises to who asks for it, whatever lies between: the  *)
(* area of the image is written in any order and any number of times, with *)
(* any contents; it is verified only while it holds the image; from then   *)
(* on it is not written again, whether it runs or loses its power, unless  *)
(* the update is begun anew by one who has not heard that it ran.          *)
(***************************************************************************)
EXTENDS Sequences

CONSTANTS
  Image,    \* the words of the application
  Value     \* what a word can hold

VARIABLES
  area,     \* what the area of the image holds
  phase     \* "open", "verified" or "running"

updater == <<area, phase>>

UpdaterInit == area \in [DOMAIN Image -> Value] /\ phase = "open"

Store == phase = "open" /\ area' \in [DOMAIN Image -> Value] /\ UNCHANGED phase
Verify == phase = "open" /\ area = Image /\ phase' = "verified" /\ UNCHANGED area
GiveUp == phase = "verified" /\ phase' = "open" /\ UNCHANGED area
Run == phase = "verified" /\ phase' = "running" /\ UNCHANGED area
PowerCycle == phase = "running" /\ phase' \in {"verified", "open"} /\ UNCHANGED area

UpdaterNext == Store \/ Verify \/ GiveUp \/ Run \/ PowerCycle

UpdaterSpec == UpdaterInit /\ [][UpdaterNext]_updater

=============================================================================
