--------------------------- MODULE LearningAgent ---------------------------
(***************************************************************************)
(* The choice of victims and the learning agent of conv_ftl.c, over calls  *)
(* of do_gc: Observe and SelectOther are its first half, with the agent    *)
(* (rl_get_state, rl_select_action, rl_decode_action) and without, Collect *)
(* the collection itself (ConvFtl has its detail), Learn the second        *)
(* rl_get_state and rl_update.  gc_mode is a parameter of the loaded       *)
(* module that do_gc reads again at each of these, and SetMode changes it  *)
(* at any time; foreground_gc and the first half read it together.         *)
(*                                                                         *)
(* Of the FTL only the erase counts are kept.  At each of the two scans    *)
(* the victim queue is any sequence of written lines that have an invalid  *)
(* page; ages are given by their weights.  The Q table holds the entries   *)
(* that were learned, all others are zero.  The scale 1000 of the fixed    *)
(* point numbers is RL_Q_SCALE throughout, the wrap of uint64_t is word.   *)
(***************************************************************************)
EXTENDS Integers, Sequences, FiniteSetsExt

CONSTANTS
  Lines, pgs_per_line, Ages, word,
  RL_Q_SCALE, RL_ALPHA, RL_GAMMA, RL_LAMBDA,
  RL_EPSILON_INIT, RL_EPSILON_MIN, RL_EPSILON_DECAY,
  Explored,             (* the actions that exploration may take             *)
  Modes,                (* the values that gc_mode is given                  *)
  MaxCollections        (* bound on the collections                          *)

RL_NUM_A1 == 4
RL_NUM_A2 == 5
Actions == 0 .. RL_NUM_A1 * RL_NUM_A2 - 1
States == 0 .. 1727

ASSUME AgentAssumption ==
  /\ IsFiniteSet(Lines) /\ Lines # {}
  /\ pgs_per_line \in Nat \ {0} /\ word \in Nat \ {0} /\ Ages \subseteq {1, 5, 20, 100}
  /\ RL_Q_SCALE \in Nat \ {0}
  /\ RL_ALPHA \in 0 .. RL_Q_SCALE /\ RL_GAMMA \in 0 .. RL_Q_SCALE - 1 /\ RL_LAMBDA \in Nat
  /\ RL_EPSILON_INIT \in Nat /\ RL_EPSILON_MIN \in Nat /\ RL_EPSILON_DECAY \in Nat
  /\ Explored \subseteq Actions /\ MaxCollections \in Nat
  /\ Modes \subseteq {"greedy", "cb", "cat", "rl"} /\ Modes # {}

VARIABLES
  pc, gc_mode, erase_cnt,
  q_table, epsilon, cur_state, cur_action,
  prev_range,           (* prev_erase_max - prev_erase_min                   *)
  copied,               (* gc_copied_pages - prev_copied_pages               *)
  charged,              (* the most that one update was charged for          *)
  last_victim_ec,
  window_hot, window_total, prev_hot_pct,
  queue, levels,        (* the queue of the first scan, the levels of score  *)
  victim,               (* and what they chose                               *)
  collections

rlVars == <<q_table, epsilon, prev_range, charged, collections>>
windowVars == <<window_hot, window_total, prev_hot_pct>>
chosenVars == <<queue, levels, victim>>
vars == <<pc, gc_mode, erase_cnt, rlVars, copied, cur_state, cur_action, last_victim_ec,
          windowVars, chosenVars>>

-----------------------------------------------------------------------------
(* Arithmetic: the division of C, products that wrap, Newton's square root. *)

Trunc(a, b) == IF a >= 0 THEN a \div b ELSE -((-a) \div b)
Mul(a, b) == (a * b) % word

isqrt_u64(n) ==
  LET x[i \in 0 .. n + 1] == IF i = 0 THEN n ELSE (x[i - 1] + n \div x[i - 1]) \div 2
      Stops(i) == x[i + 1] >= x[i]
  IN  x[CHOOSE i \in 0 .. n : Stops(i) /\ \A j \in 0 .. i - 1 : ~Stops(j)]

-----------------------------------------------------------------------------
(* Scores.                                                                 *)

apply_alpha(aw, level) ==
  CASE level = 0 -> isqrt_u64(aw)
    [] level = 1 -> aw
    [] level = 2 -> Mul(aw, isqrt_u64(aw))
    [] OTHER     -> Mul(aw, aw)

apply_delta(ec1, level) ==
  CASE level = 0 -> 1
    [] level = 1 -> isqrt_u64(ec1)
    [] level = 2 -> ec1
    [] level = 3 -> Mul(ec1, isqrt_u64(ec1))
    [] OTHER     -> Mul(ec1, ec1)

num(c, alpha) == Mul(apply_alpha(c.age, alpha), c.ipc)
den(c, delta) ==
  LET d == Mul(c.vpc + 1, apply_delta(erase_cnt[c.line] + 1, delta)) IN IF d = 0 THEN 1 ELSE d

(* Variant of Beats: the products are not crossed.                         *)
BeatsUncrossed(c, b, alpha, delta) ==
  Mul(num(c, alpha), den(c, delta)) > Mul(num(b, alpha), den(b, delta))

Beats(c, b, alpha, delta) ==
  Mul(num(c, alpha), den(b, delta)) > Mul(num(b, alpha), den(c, delta))

(* What a scan of q ends with: the last, from its first element on, that    *)
(* beat the best before it.  It is the one element of the set; beats has   *)
(* the positions <<i, j>> of which the first is taken for the better.      *)
Scan(q, beats) ==
  {q[best[Len(q)]] : best \in {b \in [DOMAIN q -> DOMAIN q] :
     /\ b[1] = 1
     /\ \A i \in DOMAIN q \ {1} :
          b[i] = IF <<i, b[i - 1]>> \in beats THEN i ELSE b[i - 1]}}
Pairs(q) == (DOMAIN q) \X (DOMAIN q)
The(S) == CHOOSE x \in S : TRUE

select_victim_scored(q, alpha, delta) ==
  Scan(q, {p \in Pairs(q) : Beats(q[p[1]], q[p[2]], alpha, delta)})

(* The heap pops a line of the fewest valid pages, one of them.            *)
select_victim_greedy(q) ==
  {q[i] : i \in {i \in DOMAIN q : \A j \in DOMAIN q : q[i].vpc <= q[j].vpc}}

-----------------------------------------------------------------------------
(* What the agent sees.                                                    *)

(* One of the lines a scan for the state finds, if its whole-numbered score *)
(* is not zero, or Nothing.                                                *)
Nothing == [line |-> "none", vpc |-> 0, ipc |-> 0, age |-> 0]
BestWhole(q, delta) ==
  LET Whole(c) == num(c, 1) \div den(c, delta)
      best == The(Scan(q, {p \in Pairs(q) : Whole(q[p[1]]) > Whole(q[p[2]])}))
  IN  IF Whole(best) > 0 THEN best ELSE Nothing

Gap(a, b) ==
  IF a # Nothing /\ b # Nothing /\ b.vpc > a.vpc
  THEN ((b.vpc - a.vpc) * 100) \div pgs_per_line ELSE 0

(* In which of the classes with these upper limits x is.                   *)
Class(x, limits) == Cardinality({i \in 1 .. Len(limits) : x >= limits[i]})

EraseRange(counts) == LET R == {counts[l] : l \in Lines} IN Max(R) - Min(R)
EraseMean(counts) ==  (* each line counts once for each of its erases *)
  Cardinality(UNION {{l} \X (1 .. counts[l]) : l \in Lines}) \div Cardinality(Lines)

hot_pct == IF window_total > 0 THEN (window_hot * 100) \div window_total ELSE 0

(* The six dimensions of the state.                                        *)
S1(q) ==
  LET least == The(Scan(q, {p \in Pairs(q) : q[p[1]].vpc < q[p[2]].vpc}))
  IN  IF q = <<>> THEN 0 ELSE Class(Gap(least, BestWhole(q, 0)), <<3, 8, 18>>)
S2(q) == IF q = <<>> THEN 0 ELSE Class(Gap(BestWhole(q, 0), BestWhole(q, 2)), <<3, 8, 18>>)
S3 == Class(hot_pct, <<10, 30, 55>>)
S4 == Class(hot_pct - prev_hot_pct, <<-8, 9>>)
Mean(q) == IF q = <<>> THEN 0
           ELSE MapThenSumSet(LAMBDA i : erase_cnt[q[i].line], DOMAIN q) \div Len(q)
S5(q) ==
  LET m == Mean(q) IN IF last_victim_ec <= m THEN 0 ELSE IF last_victim_ec <= m + m \div 2 THEN 1 ELSE 2
S6(q) ==
  LET E == {erase_cnt[q[i].line] : i \in 1 .. Len(q)} IN
  IF Mean(q) = 0 THEN 0
  ELSE Class(((Max(E) - Min(E)) * 100) \div (Mean(q) + 1), <<5, 20>>)

rl_get_state(q) ==
  ((((S1(q) * 4 + S2(q)) * 4 + S3) * 3 + S4) * 3 + S5(q)) * 3 + S6(q)

-----------------------------------------------------------------------------
(* What it does.                                                           *)

Q(s, a) == IF <<s, a>> \in DOMAIN q_table THEN q_table[<<s, a>>] ELSE 0
Greedy(s) == {a \in Actions : \A b \in Actions : Q(s, a) >= Q(s, b)}

(* rl_select_action: the first of the best actions, or any.                *)
Chosen(s) == {CHOOSE a \in Greedy(s) : \A b \in Greedy(s) : a <= b}
             \cup (IF epsilon > 0 THEN Explored ELSE {})

alpha_level(a) == a \div RL_NUM_A2
delta_level(a) == a % RL_NUM_A2

(* Written lines with an invalid page, in any order.                       *)
Entries == {[line |-> l, vpc |-> v, ipc |-> pgs_per_line - v, age |-> w] :
              l \in Lines, v \in 0 .. pgs_per_line - 1, w \in Ages}
Queues == {q \in UNION {[1 .. n -> Entries] : n \in 0 .. Cardinality(Lines)} :
             \A i, j \in DOMAIN q : i # j => q[i].line # q[j].line}

QueuesWithout(l) == {q \in Queues : \A i \in DOMAIN q : q[i].line # l}

Init ==
  /\ pc = "host" /\ gc_mode \in Modes /\ erase_cnt = [l \in Lines |-> 0]
  /\ q_table = [p \in {} |-> 0] /\ epsilon = RL_EPSILON_INIT
  /\ cur_state = 0 /\ cur_action = 0 /\ prev_range = 0 /\ last_victim_ec = 0
  /\ copied = 0 /\ charged = 0
  /\ window_hot = 0 /\ window_total = 0 /\ prev_hot_pct = 0
  /\ queue = <<>> /\ levels = <<>> /\ victim = Nothing
  /\ collections = 0

(* A write to the parameter of the module.                                 *)
SetMode ==
  /\ gc_mode' \in Modes \ {gc_mode}
  /\ UNCHANGED <<pc, erase_cnt, rlVars, copied, cur_state, cur_action, last_victim_ec,
                 windowVars, chosenVars>>

(* The window of conv_write: a page is hot if it was written lately.       *)
HostWrite ==
  /\ pc = "host" /\ gc_mode = "rl"
  /\ \E h \in {0, 1} :
       IF window_total + 1 >= pgs_per_line
       THEN /\ prev_hot_pct' = ((window_hot + h) * 100) \div (window_total + 1)
            /\ window_hot' = 0 /\ window_total' = 0
       ELSE /\ window_hot' = window_hot + h /\ window_total' = window_total + 1
            /\ UNCHANGED prev_hot_pct
  /\ UNCHANGED <<pc, gc_mode, erase_cnt, rlVars, copied, cur_state, cur_action,
                 last_victim_ec, chosenVars>>

(* Without a victim do_gc returns there.                                   *)
Observe ==
  /\ pc = "host" /\ gc_mode = "rl" /\ collections < MaxCollections
  /\ \E q \in Queues : \E s \in {rl_get_state(q)} : \E a \in Chosen(s) :
       /\ cur_state' = s /\ cur_action' = a
       /\ IF q = <<>> THEN UNCHANGED <<pc, chosenVars>>
          ELSE /\ pc' = "collect" /\ queue' = q /\ levels' = <<alpha_level(a), delta_level(a)>>
               /\ victim' \in select_victim_scored(q, alpha_level(a), delta_level(a))
  /\ UNCHANGED <<gc_mode, erase_cnt, rlVars, copied, last_victim_ec, windowVars>>

(* CB and CAT are scores of fixed levels.                                  *)
Fixed == [cb |-> <<1, 0>>, cat |-> <<1, 2>>]

SelectOther ==
  /\ pc = "host" /\ gc_mode # "rl" /\ collections < MaxCollections
  /\ \E q \in Queues \ {<<>>} :
       /\ pc' = "collect" /\ queue' = q
       /\ \/ /\ gc_mode = "greedy" /\ levels' = <<>>
             /\ victim' \in select_victim_greedy(q)
          \/ /\ gc_mode # "greedy" /\ levels' = Fixed[gc_mode]
             /\ victim' \in select_victim_scored(q, Fixed[gc_mode][1], Fixed[gc_mode][2])
  /\ UNCHANGED <<gc_mode, erase_cnt, rlVars, copied, cur_state, cur_action, last_victim_ec,
                 windowVars>>

(* The collection copies the valid pages of the victim and erases it.      *)
Collect ==
  /\ pc = "collect" /\ pc' = "learn"
  /\ last_victim_ec' = IF gc_mode = "rl" THEN erase_cnt[victim.line] ELSE last_victim_ec
  /\ erase_cnt' = [erase_cnt EXCEPT ![victim.line] = @ + 1]
  /\ copied' = copied + victim.vpc
  /\ queue' = <<>> /\ levels' = <<>>
  /\ UNCHANGED <<gc_mode, rlVars, cur_state, cur_action, windowVars, victim>>

Clamped(x, bound) == IF x > bound THEN bound ELSE IF x < -bound THEN -bound ELSE x

Waf(pages) == (pages * RL_Q_SCALE) \div pgs_per_line

Reward(pages, range, mean) ==
  LET waf_penalty == Waf(pages)
      delta_term == Trunc((range - prev_range) * RL_Q_SCALE, mean + 1)
      level_term == (range * RL_Q_SCALE) \div (mean + 1)
      wear_penalty == Clamped(delta_term + level_term \div 4, 2 * RL_Q_SCALE)
  IN  -waf_penalty - Trunc(RL_LAMBDA * wear_penalty, RL_Q_SCALE)

(* Variant of Updated: the learning rate is not scaled back.               *)
UpdatedUnscaled(old_q, reward, max_q_next) ==
  old_q + RL_ALPHA * (reward + Trunc(RL_GAMMA * max_q_next, RL_Q_SCALE) - old_q)

Updated(old_q, reward, max_q_next) ==
  old_q + Trunc(RL_ALPHA * (reward + Trunc(RL_GAMMA * max_q_next, RL_Q_SCALE) - old_q), RL_Q_SCALE)

(* rl_update, which charges the action for all pages copied since the last *)
(* update.                                                                 *)
Learn ==
  /\ pc = "learn" /\ gc_mode = "rl" /\ pc' = "host"
  /\ \E new_state \in {rl_get_state(q) : q \in QueuesWithout(victim.line)} :
       LET here == <<cur_state, cur_action>>
           reward == Reward(copied, EraseRange(erase_cnt), EraseMean(erase_cnt))
       IN  \E best \in Greedy(new_state) :
           q_table' = [p \in DOMAIN q_table \cup {here} |->
                IF p = here THEN Updated(Q(cur_state, cur_action), reward, Q(new_state, best))
                ELSE q_table[p]]
  /\ epsilon' = Max({(epsilon * RL_EPSILON_DECAY) \div 1000, RL_EPSILON_MIN})
  /\ prev_range' = EraseRange(erase_cnt)
  /\ copied' = 0 /\ charged' = IF copied > charged THEN copied ELSE charged
  /\ collections' = collections + 1
  /\ victim' = Nothing
  /\ UNCHANGED <<gc_mode, erase_cnt, cur_state, cur_action, last_victim_ec, windowVars, queue,
                 levels>>

(* do_gc ends without the agent.                                           *)
Finish ==
  /\ pc = "learn" /\ gc_mode # "rl" /\ pc' = "host"
  /\ collections' = collections + 1
  /\ victim' = Nothing
  /\ UNCHANGED <<gc_mode, erase_cnt, q_table, epsilon, prev_range, copied, charged, cur_state,
                 cur_action, last_victim_ec, windowVars, queue, levels>>

Next == SetMode \/ HostWrite \/ Observe \/ SelectOther \/ Collect \/ Learn \/ Finish

Spec == Init /\ [][Next]_vars

-----------------------------------------------------------------------------

(* The score as conv_ftl.h states it, with whole-numbered square roots, as *)
(* long as no product wraps.                                               *)
Root(n) == CHOOSE r \in 0 .. n : r * r <= n /\ n < (r + 1) * (r + 1)
Power(n, halves) == (IF halves % 2 = 1 THEN Root(n) ELSE 1)
                    * (IF halves < 2 THEN 1 ELSE IF halves < 4 THEN n ELSE n * n)
Gain(c, alpha) == Power(c.age, alpha + 1) * c.ipc
Cost(c, delta) == (c.vpc + 1) * Power(erase_cnt[c.line] + 1, delta)

(* The victim has the highest score of the queue under the levels that     *)
(* were in force, those of CB, CAT or the action, unless a product of the  *)
(* comparison exceeds 64 bits.                                             *)
VictimScoresHighest ==
  pc = "collect" /\ levels # <<>> =>
    LET Q_ == {queue[i] : i \in DOMAIN queue}
        alpha == levels[1]
        delta == levels[2]
    IN
    (\A c, d \in Q_ : Gain(c, alpha) * Cost(d, delta) < word) =>
      \A c \in Q_ : Gain(c, alpha) * Cost(victim, delta)
                      <= Gain(victim, alpha) * Cost(c, delta)

(* No rounding of the updates lets a value of the table leave the range    *)
(* that the rewards and the discount allow, where pages is the most that   *)
(* one update was charged for.                                             *)
QFloor(pages) == -((RL_Q_SCALE * (Waf(pages) + 2 * RL_LAMBDA) + RL_Q_SCALE - RL_GAMMA - 1)
                      \div (RL_Q_SCALE - RL_GAMMA))
QMin == QFloor(charged)
QMax == (RL_Q_SCALE * (2 * RL_LAMBDA) + RL_Q_SCALE - RL_GAMMA - 1) \div (RL_Q_SCALE - RL_GAMMA)
QBounded == \A p \in DOMAIN q_table : QMin <= q_table[p] /\ q_table[p] <= QMax

=============================================================================
