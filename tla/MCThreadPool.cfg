CONSTANTS
  Workers = {w1, w2, w3, w4}
  Main = main
  Tasks = {k1, k2, k3, k4, k5}
  Nothing = Nothing
SPECIFICATION PoolSpec
INVARIANTS PoolTypeOK EachTaskOnce EnoughAwake
PROPERTY ImplementsTaskRunner
