------------------------------- MODULE DataSet -------------------------------
(***************************************************************************)
(* The file of the virtual sensors: dataset-generator.py writes it, the     *)
(* sensor reads it again and again, 15 bytes at a time                     *)
(* (noise-simulated-sensor.c 320-336), through the file system of Cooja     *)
(* (cfs-cooja.c), which knows bytes and no rows.                           *)
(*                                                                         *)
(* A row is a noise level and a place.  The two coordinates walk between    *)
(* their bounds like the noise does; here a place is any of a few, with     *)
(* coordinates of two digits before the point, as those bounds have.        *)
(***************************************************************************)
EXTENDS Integers, Sequences

CONSTANTS
    min_noise, max_noise,  \* the bounds of the walk
    Starts, Deltas,        \* starting_noise and the steps of the walk
    Sites,                 \* the places
    n_samples,             \* rows
    RowBytes               \* sizeof(message)

ASSUME SamplesAssumption == n_samples \in Nat \ {0}

\* The walk starts within its bounds, and they are far enough apart for every
\* step that is turned round to stay within them.
ASSUME WalkAssumption ==
    /\ min_noise \in Nat /\ max_noise \in Nat
    /\ Starts \subseteq min_noise .. max_noise
    /\ \A delta \in Deltas : /\ delta \in Int
                             /\ 2 * delta <= max_noise - min_noise + 1
                             /\ -2 * delta <= max_noise - min_noise + 1

VARIABLES
    dataset,  \* the rows of the file
    fileptr   \* the file's position, in bytes

dataVars == <<dataset, fileptr>>

-----------------------------------------------------------------------------
(* The generator.                                                          *)

\* Mutation: the walk only turns at the upper bound.
StepUpperOnly(noise, delta) ==
    noise + (IF noise + delta > max_noise THEN - delta ELSE delta)

\* A step that would leave the bounds goes the other way.
Step(noise, delta) ==
    noise + (IF noise + delta > max_noise \/ noise + delta < min_noise THEN - delta ELSE delta)

\* The file for a start, the steps drawn and the places.
Walk(start, delta, at) ==
    LET noise[i \in 0 .. n_samples] == IF i = 0 THEN start ELSE Step(noise[i - 1], delta[i])
    IN  [i \in 1 .. n_samples |-> [noise |-> noise[i], at |-> at[i]]]

-----------------------------------------------------------------------------
(* The bytes of the file.                                                  *)

\* "noise,xx.xx,yy.yy\n"
Width(row) == (IF row.noise < 10 THEN 1 ELSE IF row.noise < 100 THEN 2 ELSE 3) + 13

\* All levels of the walk have as many digits as the sensor's buffer has room for.
ASSUME WidthAssumption ==
    \A level \in min_noise .. max_noise : Width([noise |-> level]) = RowBytes

\* Where row i begins, counted from 0.
Begin(i) == LET begin[k \in 1 .. i] == IF k = 1 THEN 0 ELSE begin[k - 1] + Width(dataset[k - 1])
            IN  begin[i]

endptr == Begin(n_samples) + Width(dataset[n_samples])

\* How many bytes cfs_read gets from a position.
cfs_read(from) == IF from + RowBytes >= endptr THEN endptr - from ELSE RowBytes

\* The file is there when the sensor boots.
init_file_reading ==
    /\ \E start \in Starts, delta \in [1 .. n_samples -> Deltas], at \in [1 .. n_samples -> Sites] :
           dataset = Walk(start, delta, at)
    /\ fileptr = 0

\* At the end of the file the sensor starts over.
ReadRow ==
    LET from == IF cfs_read(fileptr) = 0 THEN 0 ELSE fileptr
    IN  fileptr' = from + cfs_read(from)

\* What the sensor makes of the bytes: the row, if they are the bytes of a row.
\* Otherwise the numbers run into each other; no such case is reached.
RowRead ==
    LET from == IF cfs_read(fileptr) = 0 THEN 0 ELSE fileptr
        hit == {i \in 1 .. n_samples : from = Begin(i) /\ cfs_read(from) = Width(dataset[i])}
    IN  IF hit = {} THEN [noise |-> 0, at |-> <<0, 0>>] ELSE dataset[CHOOSE i \in hit : TRUE]
=============================================================================
