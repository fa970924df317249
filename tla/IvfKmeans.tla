----------------------------- MODULE IvfKmeans ------------------------------
(***************************************************************************)
(* ElkanKmeans (ivfkmeans.c) with vectors of one dimension: samples are    *)
(* assigned to centers with the help of bounds on their distances, so that *)
(* most distances are never computed.  Samples are multiples of a number   *)
(* that every count of samples and 2 divide, so means and halves are exact.*)
(***************************************************************************)
EXTENDS Integers, Sequences, FiniteSets, SequencesExt, FiniteSetsExt

Distance(x, y) == IF x < y THEN y - x ELSE x - y

\* InitCenters: the distances of all samples from the centers it picks, of
\* which each sample gets the first closest
Assigned(x, centers) ==
  LET ds == {Distance(x, centers[k]) : k \in DOMAIN centers}
      c == Min({k \in DOMAIN centers : Distance(x, centers[k]) = Min(ds)})
  IN [c |-> c, u |-> Min(ds), l |-> [k \in DOMAIN centers |-> Distance(x, centers[k])],
      rj |-> FALSE, changes |-> 0]

\* Half the distance of two centers, and s(c), the least of those of c
HalfDist(centers, j, k) == Distance(centers[j], centers[k]) \div 2
NearestHalf(centers, j) == Min({HalfDist(centers, j, k) : k \in (DOMAIN centers) \ {j}})

\* Step 3 for a sample at x and center k: p is what is kept of the sample
TryCenter(p, x, k, centers) ==
  LET d == Distance(x, centers[p.c])
      q == IF p.rj THEN [p EXCEPT !.l[p.c] = d, !.u = d, !.rj = FALSE] ELSE p
      dxc == Distance(x, centers[k])
      seen == [q EXCEPT !.l[k] = dxc]
  IN IF k = p.c \/ p.u <= p.l[k] \/ p.u <= HalfDist(centers, p.c, k) THEN p
     ELSE IF q.u > q.l[k] \/ q.u > HalfDist(centers, q.c, k)
       THEN IF dxc < q.u THEN [seen EXCEPT !.c = k, !.u = dxc, !.changes = @ + 1] ELSE seen
     ELSE q

\* Steps 2 and 3: after the first round the upper bound is not exact any more
NeverStale(iteration) == FALSE
BoundIsStale(iteration) == iteration # 0
Reassign(p, x, centers, iteration) ==
  IF p.u <= NearestHalf(centers, p.c) THEN [p EXCEPT !.changes = 0]
  ELSE FoldLeft(LAMBDA q, k : TryCenter(q, x, k, centers),
                [p EXCEPT !.rj = BoundIsStale(iteration), !.changes = 0],
                [k \in 1..Len(centers) |-> k])

\* ComputeNewCenters: means; a center without samples goes anywhere (empty)
NewCenter(samples, ps, k, empty) ==
  LET mine == {j \in DOMAIN samples : ps[j].c = k}
  IN IF mine = {} THEN empty ELSE MapThenSumSet(LAMBDA j : samples[j], mine) \div Cardinality(mine)

\* Steps 5 and 6: the bounds follow the centers that have moved
Drift(p, moved) ==
  [p EXCEPT !.l = [k \in DOMAIN @ |-> IF @[k] > moved[k] THEN @[k] - moved[k] ELSE 0],
            !.u = @ + moved[p.c]]

\* A round; rounds remembers the centers and assignments of each
Round(st, iteration, samples, empty) ==
  LET ps == [j \in DOMAIN samples |-> Reassign(st.ps[j], samples[j], st.centers, iteration)]
      new == [k \in DOMAIN st.centers |-> NewCenter(samples, ps, k, empty)]
      moved == [k \in DOMAIN new |-> Distance(st.centers[k], new[k])]
  IN IF st.done THEN st
     ELSE [centers |-> new,
           ps |-> [j \in DOMAIN samples |-> Drift(ps[j], moved)],
           done |-> iteration # 0 /\ \A j \in DOMAIN samples : ps[j].changes = 0,
           rounds |-> Append(st.rounds, [centers |-> st.centers,
                                         closest |-> [j \in DOMAIN samples |-> ps[j].c]])]

ElkanKmeans(samples, initial, empty, iterations) ==
  FoldLeft(LAMBDA st, i : Round(st, i - 1, samples, empty),
           [centers |-> initial, ps |-> [j \in DOMAIN samples |-> Assigned(samples[j], initial)],
            done |-> FALSE, rounds |-> <<>>],
           [i \in 1..iterations |-> i])
=============================================================================
