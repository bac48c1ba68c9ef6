----------------------------- MODULE HNBandwidth -----------------------------
(***************************************************************************)
(* The bandwidth of a cluster of HNemu (gn/hnemu/hnemu.cpp): memories,     *)
(* router ports, routes and the cluster itself, reserved and released by   *)
(* clients, next to the isolation of areas by reserve_units_set and        *)
(* release_units_set, which use the same counters of the ports.            *)
(*                                                                         *)
(* Nothing keeps the two apart: isolating an area, or opening it, erases   *)
(* what is reserved of the ports on its border.  Two history variables say *)
(* which reservations still count and which accounts are lost by giving    *)
(* back what does not.  Clients release what they have reserved, in the    *)
(* call for it; a route has two different ends.                            *)
(***************************************************************************)
EXTENDS HNMesh, FiniteSetsExt

CONSTANTS Capacity,     \* the configured bandwidth of each resource
          Garbage,      \* what is in memory never written
          Largest,      \* the most that is reserved at once
          Amounts,      \* the amounts reserved
          Single,       \* the resources reserved one by one
          Pairs,        \* the ends of the routes reserved
          Rectangles,   \* the areas that are isolated
          Clients       \* the users of the bandwidth

\* Stands for the whole cluster in the place of a tile.
Cluster == <<-1, -1>>

Resources ==
    (Tiles \X (Ports \cup {"LOCAL", "READ", "WRITE"}))
        \cup ({Cluster} \X {"READ", "WRITE"})

ASSUME BandwidthAssumption ==
    /\ Capacity \in [Resources -> Nat]
    /\ Garbage \subseteq Nat
    /\ Largest \in Nat /\ Amounts \subseteq 1 .. Largest
    /\ Single \subseteq Resources
    /\ Pairs \subseteq Tiles \X Tiles /\ \A p \in Pairs : p[1] # p[2]
    /\ \A B \in Rectangles : B # {} /\ B \subseteq Tiles /\ Box(B) = B
    /\ IsFiniteSet(Clients)

VARIABLES avail,        \* the avail_ fields
          reserved,     \* what each client has reserved
          standing,     \* the part of it that no isolation has erased
          lost,         \* the resources whose account is wrong since
          isolated,     \* the areas that are reserved
          answer        \* what the last call asked for and returned

bandwidthVars == <<avail, reserved, standing, lost, isolated, answer>>

None == [call |-> "none"]
One(r, bw) == [call |-> "one", what |-> r, bw |-> bw]
Net(src, dst, bw) == [call |-> "network", src |-> src, dst |-> dst, bw |-> bw]

Assigned == UNION isolated

\* The ports a route goes through.
Routes ==
    [p \in Tiles \X Tiles |->
       {<<t, RoutePort(t, p[2])>> : t \in RouteTiles(p[1], p[2])}]
Route(src, dst) == Routes[<<src, dst>>]

\* What a client has reserved, and of what.
Uses(h) ==
    CASE h.call = "none"    -> {}
      [] h.call = "one"     -> {h.what}
      [] h.call = "network" -> Route(h.src, h.dst)

Amount(h) == IF h = None THEN 0 ELSE h.bw
Request(h) == [uses |-> Uses(h), bw |-> Amount(h)]
Answer(h, code) == [asked |-> Request(h), code |-> code]

Less(S, bw) == [r \in Resources |-> IF r \in S THEN avail[r] - bw ELSE avail[r]]
More(S, bw) == [r \in Resources |-> IF r \in S THEN avail[r] + bw ELSE avail[r]]

\* fill_default_config sets every field; fill_config, with an XML file, leaves
\* what is available of the cluster as the memory was.
BandwidthInit ==
    /\ \/ avail = Capacity /\ lost = {}
       \/ \E g \in [{"READ", "WRITE"} -> Garbage] :
            avail = [r \in Resources |-> IF r[1] = Cluster THEN g[r[2]] ELSE Capacity[r]]
          /\ lost = {Cluster} \X {"READ", "WRITE"}
    /\ reserved = [u \in Clients |-> None]
    /\ standing = [u \in Clients |-> {}]
    /\ isolated = {}
    /\ answer = Answer(None, "SUCCEEDED")

NotEnough(h) ==
    /\ answer' = Answer(h, "NOT_ENOUGH_BANDWIDTH_AVAILABLE")
    /\ UNCHANGED <<avail, reserved, standing, lost, isolated>>

Reserve(u, h) ==
    /\ avail' = Less(Uses(h), h.bw)
    /\ reserved' = [reserved EXCEPT ![u] = h]
    /\ standing' = [standing EXCEPT ![u] = Uses(h)]
    /\ answer' = Answer(h, "SUCCEEDED")
    /\ UNCHANGED <<lost, isolated>>

\* A release that frees S.  It says so, after the fact, if a counter exceeds what
\* is configured.
GiveBack(u, S, over) ==
    /\ avail' = More(S, reserved[u].bw)
    /\ answer' = Answer(None, IF over THEN "WRONG_BANDWIDTH_SETTING" ELSE "SUCCEEDED")
    /\ lost' = lost \cup (S \ standing[u]) \cup (standing[u] \ S)
    /\ reserved' = [reserved EXCEPT ![u] = None]
    /\ standing' = [standing EXCEPT ![u] = {}]
    /\ UNCHANGED isolated

-----------------------------------------------------------------------------
(* Memories, router ports and the cluster.                                 *)

\* A faulty variant: all that is left cannot be reserved.
ReserveOneShort(u, r, bw) ==
    /\ reserved[u] = None
    /\ \/ avail[r] <= bw /\ NotEnough(One(r, bw))
       \/ avail[r] > bw /\ Reserve(u, One(r, bw))

ReserveOne(u, r, bw) ==
    /\ reserved[u] = None
    /\ \/ avail[r] < bw /\ NotEnough(One(r, bw))
       \/ avail[r] >= bw /\ Reserve(u, One(r, bw))

\* For the cluster, reads and writes look at the counter of writes.
Looked(r) == IF r[1] = Cluster THEN <<Cluster, "WRITE">> ELSE r

ReleaseOne(u) ==
    LET h == reserved[u]
        r == Looked(h.what)
    IN  /\ h.call = "one"
        /\ GiveBack(u, {h.what}, More({h.what}, h.bw)[r] > Capacity[r])

-----------------------------------------------------------------------------
(* Routes.                                                                 *)

\* A faulty variant: what is available at the first port of the route.
AvailableAtStart(src, dst) == avail[<<src, RoutePort(src, dst)>>]

\* get_available_network_bw: the smallest bandwidth on the route.
AvailableNetwork(src, dst) == Min({avail[w] : w \in Route(src, dst)})

\* Every port is looked at before the first one is taken, so that none of the
\* calls of reserve_router_bw fails.
ReserveNetwork(u, src, dst, bw) ==
    /\ reserved[u] = None
    /\ \/ AvailableNetwork(src, dst) < bw /\ NotEnough(Net(src, dst, bw))
       \/ AvailableNetwork(src, dst) >= bw /\ Reserve(u, Net(src, dst, bw))

\* The hops a route has made before it is at tile t.
Hops(src, t) == Distance(src, t)

\* release_network_bw goes along the route up to a port that then has more than
\* is configured.
ReleaseNetwork(u) ==
    LET h     == reserved[u]
        over  == {w \in Route(h.src, h.dst) : avail[w] + h.bw > Capacity[w]}
        freed == {w \in Route(h.src, h.dst) :
                    \A o \in over : Hops(h.src, w[1]) <= Hops(h.src, o[1])}
    IN  /\ h.call = "network"
        /\ GiveBack(u, freed, over # {})

-----------------------------------------------------------------------------
(* The isolation of areas.                                                 *)

\* What is reserved of the ports in T is erased: all of their bandwidth is taken
\* or given back.
Erase(T) ==
    /\ standing' = [u \in Clients |-> standing[u] \ T]
    /\ lost' = lost \ T
    /\ answer' = [asked |-> [uses |-> T, bw |-> 0], code |-> "SUCCEEDED"]
    /\ UNCHANGED reserved

\* reserve_units_set: the ports on the border of the area have no bandwidth.
Isolate(B) ==
    /\ B \cap Assigned = {}
    /\ isolated' = isolated \cup {B}
    /\ avail' = [r \in Resources |-> IF r \in Walls(B) THEN 0 ELSE avail[r]]
    /\ Erase(Walls(B))

\* A faulty variant: the tiles outside are not looked at.
OpenAll(B) ==
    /\ B \in isolated
    /\ isolated' = isolated \ {B}
    /\ avail' = [r \in Resources |-> IF r \in Walls(B) THEN Capacity[r] ELSE avail[r]]
    /\ Erase(Walls(B))

\* release_units_set: a port on the border has all of its bandwidth again,
\* unless the tile outside is assigned.
Open(B) ==
    LET restored == {w \in Walls(B) : Ends(w) \cap (Assigned \ B) = {}}
    IN  /\ B \in isolated
        /\ isolated' = isolated \ {B}
        /\ avail' = [r \in Resources |-> IF r \in restored THEN Capacity[r] ELSE avail[r]]
        /\ Erase(restored)

-----------------------------------------------------------------------------
BandwidthNext ==
    \/ \E u \in Clients :
         \/ \E bw \in Amounts :
              \/ \E r \in Single : ReserveOne(u, r, bw)
              \/ \E p \in Pairs : ReserveNetwork(u, p[1], p[2], bw)
         \/ ReleaseOne(u) \/ ReleaseNetwork(u)
    \/ \E B \in Rectangles : Isolate(B) \/ Open(B)

BandwidthSpec == BandwidthInit /\ [][BandwidthNext]_bandwidthVars

-----------------------------------------------------------------------------
Isolated == UNION {Walls(B) : B \in isolated}

\* The units of bandwidth of r that clients have reserved, and their number; and
\* the number of those that count.
Units(r, uses) ==
    UNION {{u} \X (1 .. Amount(reserved[u])) : u \in {v \in Clients : r \in uses[v]}}
Taken(r) == Cardinality(Units(r, [u \in Clients |-> Uses(reserved[u])]))
Owed(r) == Cardinality(Units(r, standing))

\* Types: no counter wraps below 0.  None grows without bound either: a port that
\* is opened under reservations has at most those more than is configured, and
\* the cluster no more than it began with.
BandwidthTypeOK ==
    /\ avail \in [Resources -> Nat]
    /\ \A r \in Resources :
         IF r[1] = Cluster
         THEN avail[r] + Taken(r) \in {Capacity[r]} \cup Garbage
         ELSE avail[r] + Taken(r) <= Capacity[r] + Cardinality(Clients) * Largest
    /\ \A u \in Clients : /\ reserved[u] = None \/ Uses(reserved[u]) \subseteq Resources
                          /\ standing[u] \subseteq Uses(reserved[u])
    /\ lost \subseteq Resources
    /\ isolated \subseteq Rectangles
    /\ answer.code \in {"SUCCEEDED", "NOT_ENOUGH_BANDWIDTH_AVAILABLE",
                        "WRONG_BANDWIDTH_SETTING"}

\* The ports of isolated areas have no bandwidth; every other resource has what
\* is configured less what the clients hold of it, in whatever order routes that
\* share ports are reserved and released and areas isolated and opened.  The one
\* thing that spoils an account is to give back what an isolation has erased (or
\* not to have been told what is available); the next isolation mends it.
BandwidthExact ==
    \A r \in Resources \ lost :
      avail[r] = IF r \in Isolated THEN 0 ELSE Capacity[r] - Owed(r)

\* Both strengthened to be inductive: no reservation that counts goes through a
\* wall; all that is reserved of the cluster counts, whose two accounts are lost
\* together; and no other area has its border where an area is opened but one that
\* lies on the other side.
BandwidthInv ==
    /\ BandwidthTypeOK /\ BandwidthExact
    /\ reserved = [u \in Clients |-> reserved[u]]
    /\ standing = [u \in Clients |-> standing[u]]
    /\ \A u \in Clients :
         \/ reserved[u] = None
         \/ \E r \in Single, bw \in Amounts : reserved[u] = One(r, bw)
         \/ \E p \in Pairs, bw \in Amounts : reserved[u] = Net(p[1], p[2], bw)
    /\ \A u \in Clients :
         /\ standing[u] \cap (Isolated \ lost) = {}
         /\ \A r \in Uses(reserved[u]) : r[1] = Cluster => r \in standing[u]
    /\ <<Cluster, "READ">> \in lost <=> <<Cluster, "WRITE">> \in lost
    /\ \A B, C \in isolated : B # C => B \cap C = {}

\* The counters implement the ledger: a request is granted exactly when every
\* resource it needs has enough, and what is held can be given back unless an
\* isolation has erased it.
Requested ==
    [uses : {{r} : r \in Single} \cup {Routes[p] : p \in Pairs}, bw : Amounts]

L == INSTANCE HNLedger WITH
       Users <- Clients, Requests <- Requested, Borders <- {Walls(B) : B \in Rectangles},
       Unset <- {Cluster} \X {"READ", "WRITE"},
       holds <- [u \in Clients |-> Request(reserved[u])], closed <- Isolated

ImplementsLedger == L!Spec

\* "isolate area using bw" (hnemu.cpp:1367): nothing can be reserved across the
\* border of an isolated area.  It does not hold: a reservation from before the
\* isolation, given back, leaves a gap in the border.
BordersClosed == \A r \in Isolated : avail[r] = 0
=============================================================================
