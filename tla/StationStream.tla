---------------------------- MODULE StationStream ----------------------------
(***************************************************************************)
(* What the billing server promises its stations: all that it does to a    *)
(* station it tells it, in the same step and in this order, and nothing    *)
(* else; until a line is lost because the station does not read, and from  *)
(* then on nothing is promised (sendRaw, src/server/BillingServer.cpp).    *)
(***************************************************************************)
EXTENDS ServerSide

CONSTANT Stations

VARIABLES open,    \* the stations that are connected
          status,  \* per station, what the server believes of it
          wire,    \* per station, what is written and not yet read
          torn     \* the stations whose stream has lost a line

streamVars == <<open, status, wire, torn>>

StreamInit == /\ open = {} /\ torn = {}
              /\ status = [c \in Stations |-> Fresh]
              /\ wire = [c \in Stations |-> << >>]

Accepted(c) == /\ c \notin open /\ c \in open' /\ c \notin torn'
               /\ status'[c] = Fresh /\ wire'[c] = << >>

Left(c) == /\ c \in open /\ c \notin open' /\ c \notin torn'
           /\ status'[c] = Fresh /\ wire'[c] = << >>

Stays(c) == (c \in open <=> c \in open') /\ (c \in torn => c \in torn')

Written(c, lines) ==
    \/ c \notin torn' /\ wire'[c] = wire[c] \o lines
    \/ /\ c \in torn' \ torn
       /\ \E n \in 0..(Len(lines) - 1) : wire'[c] = wire[c] \o SubSeq(lines, 1, n)
    \/ c \in torn /\ wire'[c] = wire[c]

Done(c) == /\ c \in open /\ Stays(c)
           /\ \E d \in DeedsOf(status[c]) : status'[c] = d.then /\ Written(c, d.lines)

Read(c) == /\ Stays(c) /\ (c \in torn' => c \in torn)
           /\ wire[c] # << >> /\ wire'[c] = Tail(wire[c])
           /\ status'[c] = status[c]

Unchanged(c) == /\ Stays(c) /\ (c \in torn' => c \in torn)
                /\ wire'[c] = wire[c] /\ status'[c] = status[c]

(* One step of the server may reach any number of stations.                *)
StreamNext == \A c \in Stations : Accepted(c) \/ Left(c) \/ Done(c) \/ Read(c) \/ Unchanged(c)

StreamSpec == StreamInit /\ [][StreamNext]_streamVars
=============================================================================
