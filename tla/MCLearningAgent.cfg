\* Two lines of two pages; explored are the actions of CAT (7: levels 1, 2) and 13
\* (levels 2, 3), and 0 is the best one at first.  Fixed
\* point numbers have the scale 10; products wrap at 900.
SPECIFICATION Spec
CONSTANTS
  Lines = {1, 2}
  pgs_per_line = 2
  Ages = {5, 100}
  word = 900
  RL_Q_SCALE = 10
  RL_ALPHA = 8
  RL_GAMMA = 2
  RL_LAMBDA = 5
  RL_EPSILON_INIT = 300
  RL_EPSILON_MIN = 50
  RL_EPSILON_DECAY = 999
  Explored = {7, 13}
  Modes = {"rl", "cat", "greedy"}
  MaxCollections = 2
INVARIANT VictimScoresHighest QBounded
CHECK_DEADLOCK FALSE
