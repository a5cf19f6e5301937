--------------------------- MODULE MCMeasurements ---------------------------
(* One producer of each kind in turn.  Region 1 has two points of interest,   *)
(* to which (47, 48) is equally near; region 2 has none; region 99, the        *)
(* default of the sensors, does not exist, and -1 is no region in a topic.     *)
EXTENDS Measurements

All == {"noise-sensor", "noise-simulated-sensor", "mpi"}
Virtual == {"noise-simulated-sensor"}
Told == {-1, 1, 2, 99}
Sighted == {1}
City == [min_x |-> 0, min_y |-> 0, max_x |-> 100, max_y |-> 100]
Cities == [id \in 1 .. 3 |-> City]
Sights == {[id |-> 4, region |-> 1, coord_x |-> 20, coord_y |-> 20],
           [id |-> 2, region |-> 1, coord_x |-> 75, coord_y |-> 75],
           [id |-> 12, region |-> 3, coord_x |-> 50, coord_y |-> 50]}
InOrOut == {<<60, 60>>, <<101, 50>>}
HereOrThere == {<<46, 46>>, <<49, 49>>}
Between == {<<47, 48>>}
QuietOrLoud == {-100, -10}
SoftOrLoud == {5, 65}
NearTheBounds == {19, 89}
UpOrDown == {-10, 10}
Enough == [k \in All |-> IF k = "mpi" THEN 2 ELSE 4]
=============================================================================
