------------------------- MODULE CirculationQueues -------------------------
(***************************************************************************)
(* Every book of Circulation is a HoldQueue.  The tickets are the ids of   *)
(* the reservations table, the order of the queue is that of reserved_at,  *)
(* and a hold is late when the sweep's query would find it.                *)
(***************************************************************************)
EXTENDS Circulation

Waiting(b) == Pending(b, reservations)
Recent(b) == {r \in Waiting(b) : reservations[r].reserved_at = now}
Fresh(b) == Held(b, reservations) \ ExpiredHolds
Late(b) == Held(b, reservations) \cap ExpiredHolds

ArrivedBefore(b) ==
    {pair \in Waiting(b) \X Waiting(b) :
        reservations[pair[1]].reserved_at < reservations[pair[2]].reserved_at}

Queue(b) == INSTANCE HoldQueue WITH
    Tickets <- ReservationIds,
    state   <- books[b].state,
    shelf   <- books[b].available,
    out     <- Cardinality(CopiesOut(b)),
    waiting <- Waiting(b),
    ahead   <- ArrivedBefore(b),
    recent  <- Recent(b),
    fresh   <- Fresh(b),
    late    <- Late(b)

\* Each step of the services is, for every book, one step of its queue or no
\* step at all: what ADR-0019 and ADR-0020 promise about one book holds while
\* loans, reservations, sweeps and deletions of all books go on, whichever
\* rows and dates the code keeps it in.
EveryBookIsAQueue ==
    /\ \A b \in Books : Queue(b)!Init
    /\ [][\A b \in Books : [Queue(b)!Next]_(Queue(b)!vars)]_vars

=============================================================================
