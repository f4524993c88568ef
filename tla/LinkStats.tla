------------------------------ MODULE LinkStats ------------------------------
(***************************************************************************)
(* What ae_engine_get_stats says of the link: the round-trip time that        *)
(* ae_engine_process measures with a ping every two seconds, and, from        *)
(* SeqTracker, the loss count.  The UDP loop of the server turns a ping into  *)
(* a pong and sends it back; the network loses, delays, reorders and repeats  *)
(* both.  A ping carries no number the engine looks at when its pong arrives. *)
(*                                                                          *)
(* Time is in whole seconds.  The tick runs often enough for a ping to leave  *)
(* within the second it is due in.                                           *)
(***************************************************************************)
EXTENDS SeqTracker

CONSTANTS Interval,   \* PING_INTERVAL_MS, in seconds
          MaxTime     \* bound on the clock

ASSUME LinkAssumption == Interval \in Nat \ {0} /\ MaxTime \in Nat

VARIABLES
  now,        \* ae_net_time_ms
  connected,
  lastPing,   \* last_ping_ms
  pingSent,   \* ping_send_time_ms; 0 when no pong is awaited
  rtt,        \* rtt_ms, 0 before the first pong
  echoes,     \* send times of the pings and pongs on their way
  truth       \* the time the pong that set rtt took

pingVars == <<now, connected, lastPing, pingSent, rtt, echoes, truth>>

LinkInit ==
  /\ SeqInit
  /\ now = 1 /\ connected = FALSE
  /\ lastPing = 0 /\ pingSent = 0
  /\ rtt = 0 /\ truth = 0
  /\ echoes = {}

PingDue == connected /\ now - lastPing >= Interval

Second ==
  /\ now < MaxTime
  /\ ~PingDue
  /\ now' = now + 1
  /\ UNCHANGED <<connected, lastPing, pingSent, rtt, echoes, truth>>

(* ae_engine_connect: a new socket; a keepalive, but no ping, leaves at once. *)
Connect ==
  /\ ~connected
  /\ connected' = TRUE
  /\ lastPing' = now
  /\ UNCHANGED <<now, pingSent, rtt, echoes, truth>>

(* ae_engine_disconnect: what the old socket would have received is lost.     *)
Disconnect ==
  /\ connected
  /\ connected' = FALSE
  /\ echoes' = {}
  /\ UNCHANGED <<now, lastPing, pingSent, rtt, truth>>

(* Mutant of SendPing: a pong that is awaited is still awaited.              *)
SendPingKeeping ==
  /\ PingDue
  /\ lastPing' = now
  /\ pingSent' = IF pingSent = 0 THEN now ELSE pingSent
  /\ echoes' = echoes \cup {now}
  /\ UNCHANGED <<now, connected, rtt, truth>>

SendPing ==
  /\ PingDue
  /\ lastPing' = now
  /\ pingSent' = now
  /\ echoes' = echoes \cup {now}
  /\ UNCHANGED <<now, connected, rtt, truth>>

LoseEcho ==
  /\ \E p \in echoes : echoes' = echoes \ {p}
  /\ UNCHANGED <<now, connected, lastPing, pingSent, rtt, truth>>

(* A pong.  The next one is not looked at before the next ping.              *)
Pong ==
  /\ connected
  /\ \E p \in echoes :
       /\ IF pingSent > 0 THEN rtt' = now - pingSent /\ truth' = now - p
                          ELSE UNCHANGED <<rtt, truth>>
       /\ pingSent' = 0
       /\ echoes' \in {echoes, echoes \ {p}}
  /\ UNCHANGED <<now, connected, lastPing>>

LinkNext ==
  \/ SeqNext /\ UNCHANGED pingVars
  \/ /\ Second \/ Connect \/ Disconnect \/ SendPing \/ LoseEcho \/ Pong
     /\ UNCHANGED seqVars

LinkSpec == LinkInit /\ [][LinkNext]_<<seqVars, pingVars>>

---------------------------------------------------------------------------
(* The round-trip time shown is that of some pong, and never too long,        *)
(* however pings and pongs are lost, delayed and repeated; it is exact when   *)
(* the pong took less than the interval.  A pong that took longer is measured *)
(* from a later ping and shown as a short one, up to an interval of zero.     *)
RttSound ==
  /\ rtt <= truth
  /\ truth < Interval => rtt = truth
=============================================================================
