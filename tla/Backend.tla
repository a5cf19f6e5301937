------------------------------- MODULE Backend -------------------------------
(***************************************************************************)
(* The back end: the broker that holds the messages for Node-RED, and the   *)
(* flow (docker/node-red/flows.json) that checks a message, asks the        *)
(* database twice and inserts one row per noise value.  The nodes between   *)
(* two queries run in one go; the queries of different messages, and the    *)
(* inserts of one, are answered in any order or fail.                      *)
(*                                                                         *)
(* A message has the region of its topic, a mode, the noise values in       *)
(* hundredths of a decibel (one if the mode is avg), the place, in metres,  *)
(* and, as a history variable, the number of the sample it tells of.        *)
(***************************************************************************)
EXTENDS Integers, Sequences, FiniteSets, Bags

Bag == INSTANCE BagsExt

CONSTANTS
    Regions,  \* table region: the bounds by id
    Points    \* table point_of_interest

ASSUME RegionsAssumption == DOMAIN Regions \subseteq Nat
ASSUME PointsAssumption == \A p \in Points : p.coord_x \in Int /\ p.coord_y \in Int

VARIABLES
    broker,  \* messages for Node-RED
    flow,    \* messages under way in the flow, a bag
    rows     \* table noise_measure, a bag

backendVars == <<broker, flow, rows>>

BackendInit == broker = <<>> /\ flow = EmptyBag /\ rows = EmptyBag

-----------------------------------------------------------------------------
(* The checks and the queries.                                             *)

\* Set region, Check region: "noise/region" and digits; a negative number has none.
CheckRegion(m) == m.region >= 0

\* The levels the schema accepts, in hundredths of a decibel.
Storable == {v \in Nat : 1000 <= v /\ v <= 18000}

\* Mutation: the items of an array are not looked at.
SchemaLenient(m) == m.mode = "avg" => m.noise[1] \in Storable

\* Check JSON schema.
Schema(m) == \A i \in DOMAIN m.noise : m.noise[i] \in Storable

\* The region exists and the place is in it.
WithinBoundaries(m) ==
    /\ m.region \in DOMAIN Regions
    /\ LET b == Regions[m.region]
       IN  m.at[1] \in b.min_x .. b.max_x /\ m.at[2] \in b.min_y .. b.max_y

\* The distance of the query is rounded to a tenth of a millimetre, which keeps
\* distances between whole metres apart: their squares are compared instead.
Distance(p, at) ==
    (p.coord_x - at[1]) * (p.coord_x - at[1]) + (p.coord_y - at[2]) * (p.coord_y - at[2])

\* Any of the nearest points of the region.
Nearest(m) ==
    LET here == {p \in Points : p.region = m.region}
    IN  {p \in here : \A q \in here : Distance(p, m.at) <= Distance(q, m.at)}

Row(m, i, nearestPoint) ==
    [noise |-> m.noise[i], region |-> m.region, at |-> m.at, nearest_point |-> nearestPoint,
     sample |-> m.sample, mode |-> m.mode, value |-> i]

-----------------------------------------------------------------------------
(* The steps of the flow.                                                  *)

Waiting(m) == [msg |-> m, stage |-> "boundaries", nearestPoint |-> 0, left |-> {}]

\* Message f of the flow is replaced by next, which is empty or a new state of it.
Becomes(f, next) == flow' = Bag!BagRemove(flow, f) (+) SetToBag(next)

\* mqtt in, Set region, Check region, Check JSON schema: up to the first query.
Arrive ==
    /\ broker # <<>>
    /\ broker' = Tail(broker)
    /\ flow' = IF CheckRegion(Head(broker)) /\ Schema(Head(broker))
               THEN Bag!BagAdd(flow, Waiting(Head(broker))) ELSE flow
    /\ UNCHANGED rows

\* Check region boundaries, Preparing Distance Query.
BoundariesAnswered ==
    \E f \in BagToSet(flow) :
        /\ f.stage = "boundaries"
        /\ Becomes(f, IF WithinBoundaries(f.msg) THEN {[f EXCEPT !.stage = "nearest"]} ELSE {})
        /\ UNCHANGED <<broker, rows>>

\* Mutation: a region without points of interest is forgotten.
NearestAnsweredSome ==
    \E f \in BagToSet(flow) :
        /\ f.stage = "nearest"
        /\ \E id \in {p.id : p \in Nearest(f.msg)} :
               Becomes(f, {[f EXCEPT !.stage = "insert", !.nearestPoint = id,
                                     !.left = DOMAIN f.msg.noise]})
        /\ UNCHANGED <<broker, rows>>

\* Mutation: the answer is kept where that to another message overwrites it.
NearestAnsweredShared ==
    \E f, g \in BagToSet(flow) :
        /\ f.stage = "nearest" /\ g.stage # "boundaries"
        /\ \E id \in IF Nearest(g.msg) = {} THEN {0} ELSE {p.id : p \in Nearest(g.msg)} :
               Becomes(f, {[f EXCEPT !.stage = "insert", !.nearestPoint = id,
                                     !.left = DOMAIN f.msg.noise]})
        /\ UNCHANGED <<broker, rows>>

\* Prepare for noise array split, Noise split.
NearestAnswered ==
    \E f \in BagToSet(flow) :
        /\ f.stage = "nearest"
        /\ \E id \in IF Nearest(f.msg) = {} THEN {0} ELSE {p.id : p \in Nearest(f.msg)} :
               Becomes(f, {[f EXCEPT !.stage = "insert", !.nearestPoint = id,
                                     !.left = DOMAIN f.msg.noise]})
        /\ UNCHANGED <<broker, rows>>

\* What is left of a message without value i.
Without(f, i) == IF f.left = {i} THEN {} ELSE {[f EXCEPT !.left = @ \ {i}]}

\* Mutation: the message goes through the split again after its first insert.
InsertedAgain ==
    \E f \in BagToSet(flow) : \E i \in f.left :
        /\ rows' = Bag!BagAdd(rows, Row(f.msg, i, f.nearestPoint))
        /\ Becomes(f, IF Cardinality(f.left) > 1 THEN Without(f, i)
                      ELSE {[f EXCEPT !.left = DOMAIN f.msg.noise]})
        /\ UNCHANGED broker

\* One INSERT is done.
Inserted ==
    \E f \in BagToSet(flow) : \E i \in f.left :
        /\ rows' = Bag!BagAdd(rows, Row(f.msg, i, f.nearestPoint))
        /\ Becomes(f, Without(f, i))
        /\ UNCHANGED broker

\* A query of message f fails and is only logged: the message is gone, or one
\* of its values.
QueryFails(f) ==
    /\ \/ f.left = {} /\ Becomes(f, {})
       \/ \E i \in f.left : Becomes(f, Without(f, i))
    /\ UNCHANGED <<broker, rows>>

\* Node-RED loses its connection, and with its clean session what waits for it.
SessionLost == broker' = <<>> /\ UNCHANGED <<flow, rows>>
=============================================================================
