---------------------------- MODULE ChannelBoard ----------------------------
(***************************************************************************)
(* What the server promises about channels, with no task, no map and no      *)
(* message: a connected client is in one channel or in none, enters one only *)
(* from none, talks only inside a channel and never leaves it talking.       *)
(***************************************************************************)
CONSTANTS Client, Channel, None

VARIABLES
  online,   \* clients that are connected
  room,     \* room[c]: the channel c is in, or None
  talking   \* clients that are transmitting

boardVars == <<online, room, talking>>

Init == /\ online = {}
        /\ room = [c \in Client |-> None]
        /\ talking = {}

Connect(c) == /\ c \notin online
              /\ online' = online \cup {c}
              /\ UNCHANGED <<room, talking>>

Enter(c, h) == /\ c \in online
               /\ room[c] = None
               /\ room' = [room EXCEPT ![c] = h]
               /\ UNCHANGED <<online, talking>>

StartTalking(c) == /\ room[c] # None
                   /\ talking' = talking \cup {c}
                   /\ UNCHANGED <<online, room>>

StopTalking(c) == /\ talking' = talking \ {c}
                  /\ UNCHANGED <<online, room>>

Exit(c) == /\ room[c] # None
           /\ c \notin talking
           /\ room' = [room EXCEPT ![c] = None]
           /\ UNCHANGED <<online, talking>>

Disconnect(c) == /\ c \in online
                 /\ room[c] = None
                 /\ online' = online \ {c}
                 /\ UNCHANGED <<room, talking>>

Next == \E c \in Client :
          \/ Connect(c) \/ Disconnect(c) \/ Exit(c)
          \/ StartTalking(c) \/ StopTalking(c)
          \/ \E h \in Channel : Enter(c, h)

Spec == Init /\ [][Next]_boardVars
=============================================================================
