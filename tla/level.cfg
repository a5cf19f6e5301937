CONSTANTS
    world_size = 3
    P = 10
    V = 5
    Np = 40
    Nv = 45
SPECIFICATION Spec
INVARIANTS Accurate BoundedDrift ArrivalOrder OrderDrift
