------------------------------ MODULE Sessions ------------------------------
(***************************************************************************)
(* A user at either Windows front end, and what the screen, the engine and   *)
(* the server have of the same channels.                                     *)
(*                                                                          *)
(* strayed collects what a user of one channel does not meet: "second", a    *)
(* join while another channel is shown as joined; "early", a join while      *)
(* doConnect runs; "slid", a slider moved while a channel is muted; "lost",  *)
(* a connection that broke.  A property that needs one of them not to have   *)
(* happened names it, and fails without that condition.                      *)
(***************************************************************************)
EXTENDS GuiSession, ConsoleSession

VARIABLE front     \* the program the user has started

vars == <<engineVars, screenVars, strayed, guiVars, front>>

Init ==
  /\ ControlInit /\ GuiInit
  /\ front \in {"gui", "console"}

Next ==
  /\ \/ front = "gui" /\ GuiNext
     \/ front = "console" /\ ConsoleNext /\ UNCHANGED guiVars
  /\ UNCHANGED front

Spec == Init /\ [][Next]_vars

---------------------------------------------------------------------------
(* The microphone is never open without the screen saying so: whatever is     *)
(* clicked or typed in whatever order, on one channel or several, and        *)
(* whatever becomes of the connection, the engine transmits only while some  *)
(* channel is shown as transmitting.                                         *)
OnAirIsShown == transmitting => talking # {}

(* The voice goes to the channel whose Talk was pressed, and to no other that *)
(* is shown as transmitting, for a user who leaves before joining another.   *)
(* With two channels shown as joined it goes to the last one joined.         *)
TalkGoesWherePressed ==
  transmitting /\ "second" \notin strayed => talking = {engineCh}

(* Nobody is silenced without a trace: if the channel plays at volume 0, some *)
(* channel is shown as muted or some slider is at 0, whatever happened.      *)
SilenceIsShown ==
  front = "gui" /\ engineCh # None /\ volume = 0 =>
    muted # {} \/ \E h \in Channel : slider[h] = 0

(* A channel shown as muted is silent until it is unmuted or left, for a user *)
(* of one channel who leaves the sliders alone meanwhile; a slider, of any   *)
(* channel, sets the volume behind the Unmute button.                        *)
MuteHolds ==
  engineCh \in muted /\ strayed \cap {"second", "slid"} = {} => volume = 0

(* The server has read all there is to read on a working connection.         *)
Drained ==
  front = "gui" /\ gConnected /\ connecting = "no" /\ link = "open" /\ requests = <<>>

(* Once the requests are read, screen, engine and server have the user in the *)
(* same channel, and agree on whether the user speaks: whoever the server     *)
(* shows as speaking is heard, whoever is heard is shown as speaking.  So it  *)
(* is for a user who joins one channel at a time, not while connecting and    *)
(* not across a lost connection.  Otherwise they may differ for good: a       *)
(* refused second join is only logged, a join during doConnect misses the     *)
(* engine or the server, and a loss leaves the buttons as they are.           *)
ServerAgrees ==
  Drained /\ strayed \subseteq {"slid"} =>
    /\ serverCh = engineCh
    /\ joined = {engineCh} \ {None}
    /\ speaking = transmitting
    /\ talking = IF transmitting THEN {engineCh} ELSE {}
=============================================================================
