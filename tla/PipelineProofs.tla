------------------------- MODULE PipelineProofs -------------------------
(***************************************************************************)
(* What ChordPipeline says of every track, proved for every number of      *)
(* frames, every labelling and every duration.  The loops of the model are *)
(* recursive functions; each gets a lemma that unrolls it (RunsLoop,       *)
(* DespeckleLoop, LabLoop, StitchLoop, CollapseLoop, from Induction) and   *)
(* an invariant of its iterations (Cut, Absorbed, Coded, Stitched, Merged).*)
(***************************************************************************)
EXTENDS ChordPipeline, SequenceTheorems, Induction

-----------------------------------------------------------------------------
(* The runs of a sequence *)

Run == [from : Nat, to : Nat]

(* The last run made to end at k: the others stay, and where it begins     *)
(* does.                                                                   *)
LEMMA LastGrown ==
  ASSUME NEW runs \in Seq(Run), runs # <<>>, NEW k \in Nat
  PROVE  LET grown == [runs EXCEPT ![Len(runs)].to = k]
             n == Len(runs)
         IN /\ grown \in Seq(Run) /\ Len(grown) = n /\ n \in Nat \ {0}
            /\ \A j \in 1..n - 1 : grown[j] = runs[j]
            /\ grown[n].from = runs[n].from /\ grown[n].to = k
<1> DEFINE n == Len(runs)
           e == [runs[n] EXCEPT !.to = k]
<1>1. n \in 1..Len(runs) /\ n \in Nat \ {0} /\ runs[n] \in Run
  BY EmptySeq, LenProperties
<1>2. e \in Run /\ e.from = runs[n].from /\ e.to = k
  BY <1>1 DEF Run
<1>3. [runs EXCEPT ![n].to = k] = [runs EXCEPT ![n] = e]
  OBVIOUS
<1> HIDE DEF e
<1>4. /\ [runs EXCEPT ![n] = e] \in Seq(Run)
      /\ Len([runs EXCEPT ![n] = e]) = Len(runs)
      /\ \A j \in 1..Len(runs) : [runs EXCEPT ![n] = e][j] = IF j = n THEN e ELSE runs[j]
  BY <1>1, <1>2, ExceptSeq
<1> QED BY <1>1, <1>2, <1>3, <1>4

(* One step of the loop makes runs of runs. *)
LEMMA GrownRuns ==
  ASSUME NEW s, NEW k \in Nat \ {0}, NEW runs \in Seq(Run)
  PROVE  Grown(runs, s, k) \in Seq(Run)
<1>1. CASE runs # <<>> /\ s[k] = s[k-1]
  BY <1>1, LastGrown DEF Grown
<1>2. CASE ~(runs # <<>> /\ s[k] = s[k-1])
  <2>1. [from |-> k, to |-> k] \in Run
    BY DEF Run
  <2> QED BY <1>2, <2>1, AppendProperties DEF Grown
<1> QED BY <1>1, <1>2

(* RunsOf, unrolled: what its loop holds after each element. *)
LEMMA RunsLoop ==
  ASSUME NEW V, NEW s \in Seq(V)
  PROVE  \E f : /\ f \in [0..Len(s) -> Seq(Run)] /\ f[0] = <<>>
                /\ \A k \in 1..Len(s) : f[k] = Grown(f[k - 1], s, k)
                /\ RunsOf(s) = f[Len(s)]
<1> DEFINE m == Len(s)
           T == [k \in 1..m |-> [v \in Seq(Run) |-> Grown(v, s, k)]]
           Eq(g) == [k \in 0..m |-> IF k = 0 THEN <<>> ELSE Grown(g[k - 1], s, k)]
           f == CHOOSE g : g = Eq(g)
<1>1. m \in Nat
  OBVIOUS
<1>2. T \in [1..m -> [Seq(Run) -> Seq(Run)]]
  BY <1>1, GrownRuns
<1>3. PICK g : Computes(g, m, Seq(Run), <<>>, T)
  <2>1. <<>> \in Seq(Run)
    OBVIOUS
  <2> HIDE DEF T, m
  <2> QED BY <1>1, <1>2, <2>1, Recursion
<1>4. g \in [0..m -> Seq(Run)] /\ g[0] = <<>> /\ \A k \in 1..m : g[k] = T[k][g[k - 1]]
  <2> HIDE DEF T, m
  <2> QED BY <1>3 DEF Computes
<1>5. ASSUME NEW k \in 1..m PROVE g[k] = Grown(g[k - 1], s, k)
  <2>1. k - 1 \in 0..m /\ g[k] = T[k][g[k - 1]]
    <3> HIDE DEF T, m
    <3> QED BY <1>1, <1>4
  <2>2. g[k - 1] \in Seq(Run)
    BY <1>4, <2>1
  <2> QED BY <2>1, <2>2
<1>6. g = Eq(g)
  BY <1>1, <1>4, <1>5
<1>7. f = Eq(f)
  <2> HIDE DEF Eq
  <2> QED BY <1>6
<1>8. f[0] = <<>> /\ \A k \in 1..m : f[k] = Grown(f[k - 1], s, k)
  <2> HIDE DEF f
  <2> QED BY <1>1, <1>7
<1>9. \A k \in 0..m : f[k] \in Seq(Run)
  <2> HIDE DEF f, m
  <2>1. \A k \in 1..m : f[k - 1] \in Seq(Run) => f[k] \in Seq(Run)
    BY <1>1, <1>8, GrownRuns
  <2>2. f[0] \in Seq(Run)
    BY <1>8
  <2> QED BY <1>1, <2>1, <2>2, Kept
<1>10. f \in [0..m -> Seq(Run)]
  <2> HIDE DEF f
  <2> QED BY <1>7, <1>9
<1>11. RunsOf(s) = f[m]
  BY DEF RunsOf
<1> HIDE DEF f
<1> QED BY <1>8, <1>10, <1>11

(* runs is what the first k elements of s consist of: runs of one element  *)
(* each, one after the other, and neighbours of different elements.        *)
Cut(s, k, runs) ==
  /\ runs \in Seq(Run) /\ Len(runs) \in 1..k
  /\ runs[1].from = 1 /\ runs[Len(runs)].to = k
  /\ \A j \in 1..Len(runs) :
       /\ runs[j].from \in 1..k /\ runs[j].to \in runs[j].from..k
       /\ \A i \in runs[j].from..runs[j].to : s[i] = s[runs[j].from]
  /\ \A j \in 2..Len(runs) :
       runs[j].from = runs[j - 1].to + 1 /\ s[runs[j].from] # s[runs[j - 1].to]

(* The first element is a run. *)
LEMMA FirstCut ==
  ASSUME NEW s
  PROVE  Cut(s, 1, Grown(<<>>, s, 1))
<1>1. Grown(<<>>, s, 1) = <<[from |-> 1, to |-> 1]>>
  BY DEF Grown
<1> DEFINE one == <<[from |-> 1, to |-> 1]>>
<1>2. one \in Seq(Run) /\ Len(one) = 1 /\ one[1].from = 1 /\ one[1].to = 1
  BY DEF Run
<1> HIDE DEF one
<1>3. \A j \in 1..Len(one) : j = 1
  BY <1>2
<1>4. \A j \in 2..Len(one) : FALSE
  BY <1>2
<1>5. Cut(s, 1, one)
  BY <1>2, <1>3, <1>4 DEF Cut
<1> QED BY <1>1, <1>5 DEF one

(* One element more: it joins the last run or begins one. *)
LEMMA NextCut ==
  ASSUME NEW s, NEW k \in Nat \ {0}, NEW runs, Cut(s, k, runs)
  PROVE  Cut(s, k + 1, Grown(runs, s, k + 1))
<1> DEFINE n == Len(runs)
           new == Grown(runs, s, k + 1)
<1>1. /\ runs \in Seq(Run) /\ n \in 1..k /\ n \in Nat /\ runs # <<>>
      /\ runs[1].from = 1 /\ runs[n].to = k
  BY DEF Cut
<1>2. \A j \in 1..n :
        /\ runs[j].from \in 1..k /\ runs[j].to \in runs[j].from..k
        /\ \A i \in runs[j].from..runs[j].to : s[i] = s[runs[j].from]
  BY DEF Cut
<1>3. \A j \in 2..n :
        runs[j].from = runs[j - 1].to + 1 /\ s[runs[j].from] # s[runs[j - 1].to]
  BY DEF Cut
<1>4. CASE s[k + 1] = s[k]
  <2>1. new = [runs EXCEPT ![n].to = k + 1]
    BY <1>1, <1>4 DEF Grown
  <2>2. /\ new \in Seq(Run) /\ Len(new) = n
        /\ \A j \in 1..n - 1 : new[j] = runs[j]
        /\ new[n].from = runs[n].from /\ new[n].to = k + 1
    <3>1. k + 1 \in Nat
      OBVIOUS
    <3> HIDE DEF new
    <3> QED BY <1>1, <2>1, <3>1, LastGrown
  <2> HIDE DEF n, new
  <2>3. \A j \in 1..n : new[j].from = runs[j].from
    BY <1>1, <2>2
  <2>4. \A j \in 1..n : new[j].to = IF j = n THEN k + 1 ELSE runs[j].to
    BY <1>1, <2>2
  <2>5. ASSUME NEW j \in 1..n
        PROVE  /\ new[j].from \in 1..k + 1 /\ new[j].to \in new[j].from..k + 1
               /\ \A i \in new[j].from..new[j].to : s[i] = s[new[j].from]
    <3>1. CASE j = n
      <4>1. ASSUME NEW i \in new[j].from..new[j].to PROVE s[i] = s[new[j].from]
        <5>1. CASE i = k + 1
          BY <1>1, <1>2, <1>4, <2>3, <2>4, <3>1, <5>1
        <5>2. CASE i # k + 1
          BY <1>1, <1>2, <2>3, <2>4, <3>1, <5>2
        <5> QED BY <5>1, <5>2
      <4> QED BY <1>1, <1>2, <2>3, <2>4, <3>1, <4>1
    <3>2. CASE j # n
      BY <1>1, <1>2, <2>3, <2>4, <3>2
    <3> QED BY <3>1, <3>2
  <2>6. ASSUME NEW j \in 2..n
        PROVE  new[j].from = new[j - 1].to + 1 /\ s[new[j].from] # s[new[j - 1].to]
    <3>1. j \in 1..n /\ j - 1 \in 1..n /\ j - 1 # n
      BY <1>1
    <3>2. new[j].from = runs[j].from /\ new[j - 1].to = runs[j - 1].to
      BY <2>3, <2>4, <3>1
    <3> QED BY <1>3, <3>2
  <2>7. Len(new) \in 1..k + 1 /\ new[1].from = 1 /\ new[Len(new)].to = k + 1
    BY <1>1, <2>2, <2>3
  <2>8. Cut(s, k + 1, new)
    BY <2>2, <2>5, <2>6, <2>7 DEF Cut
  <2> QED BY <2>8 DEF new
<1>5. CASE s[k + 1] # s[k]
  <2> DEFINE r == [from |-> k + 1, to |-> k + 1]
  <2>1. new = Append(runs, r) /\ r \in Run /\ r.from = k + 1 /\ r.to = k + 1
    BY <1>1, <1>5 DEF Grown, Run
  <2> HIDE DEF r
  <2>2. /\ new \in Seq(Run) /\ Len(new) = n + 1
        /\ \A j \in 1..n : new[j] = runs[j]
        /\ new[n + 1] = r
    BY <1>1, <2>1, AppendProperties
  <2> HIDE DEF n, new
  <2>3. ASSUME NEW j \in 1..n + 1
        PROVE  /\ new[j].from \in 1..k + 1 /\ new[j].to \in new[j].from..k + 1
               /\ \A i \in new[j].from..new[j].to : s[i] = s[new[j].from]
    <3>1. CASE j = n + 1
      BY <1>1, <2>1, <2>2, <3>1
    <3>2. CASE j # n + 1
      BY <1>1, <1>2, <2>2, <3>2
    <3> QED BY <3>1, <3>2
  <2>4. ASSUME NEW j \in 2..n + 1
        PROVE  new[j].from = new[j - 1].to + 1 /\ s[new[j].from] # s[new[j - 1].to]
    <3>1. CASE j = n + 1
      BY <1>1, <1>5, <2>1, <2>2, <3>1
    <3>2. CASE j # n + 1
      BY <1>1, <1>3, <2>2, <3>2
    <3> QED BY <3>1, <3>2
  <2>5. Len(new) \in 1..k + 1 /\ new[1].from = 1 /\ new[Len(new)].to = k + 1
    BY <1>1, <2>1, <2>2
  <2>6. Cut(s, k + 1, new)
    BY <2>2, <2>3, <2>4, <2>5 DEF Cut
  <2> QED BY <2>6 DEF new
<1> QED BY <1>4, <1>5

(* So after k iterations the first k elements are cut into runs. *)
LEMMA CutUpTo ==
  ASSUME NEW m \in Nat, NEW s, NEW f, f[0] = <<>>, \A k \in 1..m : f[k] = Grown(f[k - 1], s, k)
  PROVE  \A k \in 1..m : Cut(s, k, f[k])
<1> DEFINE S == {k \in Nat : k # 0 => Cut(s, k, f[k])}
<1>1. 0 \in S
  OBVIOUS
<1>2. ASSUME NEW k \in Nat, k < m, k \in S PROVE k + 1 \in S
  <2>1. f[k + 1] = Grown(f[k], s, k + 1)
    <3>1. k + 1 \in 1..m /\ (k + 1) - 1 = k
      BY <1>2
    <3> QED BY <3>1
  <2>2. CASE k = 0
    BY <2>1, <2>2, FirstCut
  <2>3. CASE k # 0
    BY <1>2, <2>1, <2>3, NextCut
  <2> QED BY <2>2, <2>3
<1>3. \A k \in Nat : k < m /\ k \in S => k + 1 \in S
  BY <1>2
<1>4. \A k \in 0..m : k \in S
  <2> HIDE DEF S
  <2> QED BY <1>1, <1>3, Inductive
<1> QED BY <1>4

(* RunsOf cuts all of a sequence into its maximal runs. *)
LEMMA RunsCut ==
  ASSUME NEW V, NEW s \in Seq(V), s # <<>>
  PROVE  Cut(s, Len(s), RunsOf(s))
<1>1. PICK f : /\ f[0] = <<>> /\ \A k \in 1..Len(s) : f[k] = Grown(f[k - 1], s, k)
               /\ RunsOf(s) = f[Len(s)]
  BY RunsLoop
<1>2. Len(s) \in Nat \ {0}
  BY EmptySeq
<1>3. \A k \in 1..Len(s) : Cut(s, k, f[k])
  BY <1>1, <1>2, CutUpTo
<1> QED BY <1>1, <1>2, <1>3

-----------------------------------------------------------------------------
(* What _despeckle does to them *)

(* A run of the least length has a neighbour inside it. *)
LEMMA MinRunType == MinRun \in Nat /\ MinRun > 1
BY ChordPipelineAssumption

(* Among the first p labels no run but the first is shorter than MinRun.   *)
Steady(L, p) ==
  \A i \in 2..p : L[i] # L[i - 1] =>
    i + MinRun - 1 <= p /\ \A q \in i..i + MinRun - 1 : L[q] = L[i]

(* What _despeckle has made of the labels when it is through with k runs.  *)
Absorbed(L, labels, runs, k) ==
  LET n == Len(labels)
      p == IF k = 0 THEN 0 ELSE runs[k].to
  IN /\ Len(L) = n
     /\ \A i \in p + 1..n : L[i] = labels[i]
     /\ Steady(L, p)
     /\ \A j \in 1..k : Size(runs[j]) >= MinRun =>
          \A i \in runs[j].from..runs[j].to : L[i] = labels[i]

(* _despeckle changes labels and never how many there are. *)
LEMMA AbsorbType ==
  ASSUME NEW V, NEW n \in Nat, NEW L \in [1..n -> V], NEW run,
         run.from \in 1..n, run.to \in run.from..n
  PROVE  Absorb(L, run) \in [1..n -> V] /\ Len(L) = n
<1>1. Len(L) = n
  OBVIOUS
<1> DEFINE into == IF run.from > 1 THEN L[run.from - 1]
                   ELSE IF run.to < n THEN L[run.to + 1] ELSE L[run.from]
<1>2. into \in V
  OBVIOUS
<1>3. Absorb(L, run) = IF Size(run) >= MinRun THEN L
                       ELSE [i \in 1..n |-> IF i \in run.from..run.to THEN into ELSE L[i]]
  BY <1>1 DEF Absorb
<1> HIDE DEF into
<1> QED BY <1>1, <1>2, <1>3

(* Despeckle, unrolled: the labels after each run. *)
LEMMA DespeckleLoop ==
  ASSUME NEW V, NEW n \in Nat \ {0}, NEW labels \in [1..n -> V]
  PROVE  \E f : /\ f \in [0..Len(RunsOf(labels)) -> [1..n -> V]] /\ f[0] = labels
                /\ \A k \in 1..Len(RunsOf(labels)) : f[k] = Absorb(f[k - 1], RunsOf(labels)[k])
                /\ Despeckle(labels) = f[Len(RunsOf(labels))]
<1> DEFINE runs == RunsOf(labels)
           m == Len(runs)
           W == [1..n -> V]
           T == [k \in 1..m |-> [v \in W |-> Absorb(v, runs[k])]]
           Eq(g) == [k \in 0..m |-> IF k = 0 THEN labels ELSE Absorb(g[k - 1], runs[k])]
           f == CHOOSE g : g = Eq(g)
<1>1. labels \in Seq(V) /\ Len(labels) = n /\ labels # <<>>
  OBVIOUS
<1>2. Cut(labels, n, runs)
  BY <1>1, RunsCut
<1> HIDE DEF runs
<1>3. m \in Nat /\ \A k \in 1..m : runs[k].from \in 1..n /\ runs[k].to \in runs[k].from..n
  BY <1>2 DEF Cut
<1>4. \A k \in 1..m, v \in W : Absorb(v, runs[k]) \in W
  <2> HIDE DEF m
  <2> QED BY <1>3, AbsorbType
<1>5. T \in [1..m -> [W -> W]] /\ labels \in W
  <2> HIDE DEF m, W
  <2> QED BY <1>4 DEF W
<1>6. PICK g : Computes(g, m, W, labels, T)
  <2> HIDE DEF T, m, W
  <2> QED BY <1>3, <1>5, Recursion
<1>7. g \in [0..m -> W] /\ g[0] = labels /\ \A k \in 1..m : g[k] = T[k][g[k - 1]]
  <2> HIDE DEF T, m, W
  <2> QED BY <1>6 DEF Computes
<1>8. ASSUME NEW k \in 1..m PROVE g[k] = Absorb(g[k - 1], runs[k])
  <2> HIDE DEF m, W
  <2>1. k - 1 \in 0..m /\ g[k] = T[k][g[k - 1]]
    <3> HIDE DEF T
    <3> QED BY <1>3, <1>7
  <2>2. g[k - 1] \in W
    BY <1>7, <2>1
  <2> QED BY <2>1, <2>2
<1>9. g = Eq(g)
  <2> HIDE DEF m, W, T
  <2> QED BY <1>3, <1>7, <1>8
<1>10. f = Eq(f)
  <2> HIDE DEF Eq
  <2> QED BY <1>9
<1>11. f[0] = labels /\ \A k \in 1..m : f[k] = Absorb(f[k - 1], runs[k])
  <2> HIDE DEF f, m
  <2>1. f[0] = labels
    BY <1>3, <1>10
  <2>2. ASSUME NEW k \in 1..m PROVE f[k] = Absorb(f[k - 1], runs[k])
    <3>1. k \in 0..m /\ k # 0
      BY <1>3
    <3>2. Eq(f)[k] = Absorb(f[k - 1], runs[k])
      BY <3>1
    <3> HIDE DEF Eq
    <3> QED BY <1>10, <3>2
  <2> QED BY <2>1, <2>2
<1>12. \A k \in 0..m : f[k] \in W
  <2> HIDE DEF f, m, W, T
  <2>1. \A k \in 1..m : f[k - 1] \in W => f[k] \in W
    BY <1>4, <1>11
  <2>2. f[0] \in W
    BY <1>5, <1>11
  <2> QED BY <1>3, <2>1, <2>2, Kept
<1>13. f \in [0..m -> W]
  <2> HIDE DEF f, m, W
  <2> QED BY <1>10, <1>12
<1>14. Despeckle(labels) = f[m]
  BY DEF Despeckle, runs
<1> HIDE DEF f, T
<1> QED BY <1>11, <1>13, <1>14 DEF runs

(* Runs do not overlap. *)
LEMMA CutOrder ==
  ASSUME NEW s, NEW n \in Nat, NEW runs, Cut(s, n, runs)
  PROVE  \A j \in 1..Len(runs) : \A i \in 1..j - 1 : runs[i].to < runs[j].from
<1> DEFINE m == Len(runs)
           S == {j \in Nat : j <= m => \A i \in 1..j - 1 : runs[i].to < runs[j].from}
<1>1. /\ m \in Nat
      /\ \A j \in 1..m : runs[j].from \in 1..n /\ runs[j].to \in runs[j].from..n
      /\ \A j \in 2..m : runs[j].from = runs[j - 1].to + 1
  BY DEF Cut
<1>2. 0 \in S
  OBVIOUS
<1>3. ASSUME NEW j \in Nat, j < m, j \in S PROVE j + 1 \in S
  <2> HIDE DEF m
  <2>1. ASSUME NEW i \in 1..j PROVE runs[i].to < runs[j + 1].from
    <3>1. j + 1 \in 2..m /\ j \in 1..m /\ i \in 1..m /\ (j + 1) - 1 = j
      BY <1>1, <1>3
    <3>2. runs[j + 1].from = runs[j].to + 1
      BY <1>1, <3>1
    <3>3. CASE i = j
      BY <1>1, <3>1, <3>2, <3>3
    <3>4. CASE i # j
      <4>1. runs[i].to < runs[j].from
        BY <1>1, <1>3, <3>1, <3>4
      <4>2. runs[j].from <= runs[j].to /\ runs[j].to \in Int /\ runs[i].to \in Int /\ runs[j].from \in Int
        BY <1>1, <3>1
      <4> QED BY <3>2, <4>1, <4>2
    <3> QED BY <3>3, <3>4
  <2> QED BY <1>1, <2>1
<1>4. \A j \in Nat : j < m /\ j \in S => j + 1 \in S
  BY <1>3
<1>5. \A j \in 0..m : j \in S
  <2> HIDE DEF S, m
  <2> QED BY <1>1, <1>2, <1>4, Inductive
<1> QED BY <1>1, <1>5

(* Every position is in one of the runs. *)
LEMMA CutCovers ==
  ASSUME NEW s, NEW n \in Nat, NEW runs, Cut(s, n, runs), NEW i \in 1..n
  PROVE  \E j \in 1..Len(runs) : i \in runs[j].from..runs[j].to
<1> DEFINE m == Len(runs)
           T == {j \in 1..m : i <= runs[j].to}
<1>1. /\ m \in Nat /\ m # 0
      /\ \A j \in 1..m : runs[j].from \in 1..n /\ runs[j].to \in runs[j].from..n
      /\ \A j \in 2..m : runs[j].from = runs[j - 1].to + 1
      /\ runs[1].from = 1 /\ runs[m].to = n
  BY DEF Cut
<1> HIDE DEF m
<1>2. T \subseteq Nat /\ m \in T
  BY <1>1
<1>3. PICK j \in T : \A q \in T : j <= q
  <2> HIDE DEF T
  <2> QED BY <1>2, Least
<1>4. j \in 1..m /\ i <= runs[j].to
  OBVIOUS
<1>5. runs[j].from <= i
  <2>1. CASE j = 1
    BY <1>1, <2>1
  <2>2. CASE j # 1
    <3>1. j - 1 \in 1..m /\ j \in 2..m /\ ~(j <= j - 1)
      BY <1>1, <1>4, <2>2
    <3>2. j - 1 \notin T
      BY <1>3, <3>1
    <3>3. ~(i <= runs[j - 1].to)
      BY <3>1, <3>2
    <3>4. runs[j - 1].to \in Int /\ runs[j].from = runs[j - 1].to + 1
      BY <1>1, <3>1
    <3> QED BY <3>3, <3>4
  <2> QED BY <2>1, <2>2
<1>6. i \in runs[j].from..runs[j].to
  BY <1>1, <1>4, <1>5
<1> QED BY <1>4, <1>6 DEF m

(* Before the first run nothing has changed. *)
LEMMA AbsorbedFirst ==
  ASSUME NEW V, NEW n \in Nat \ {0}, NEW labels \in [1..n -> V], NEW runs
  PROVE  Absorbed(labels, labels, runs, 0)
<1>1. Len(labels) = n
  OBVIOUS
<1> QED BY <1>1 DEF Absorbed, Steady

(* One run more: a long one stays, a short one takes the label before it,  *)
(* which then goes on, or at the start the label after it.                 *)
LEMMA AbsorbedNext ==
  ASSUME NEW V, NEW n \in Nat \ {0}, NEW labels \in [1..n -> V],
         NEW runs, Cut(labels, n, runs), NEW k \in 0..Len(runs) - 1,
         NEW L \in [1..n -> V], Absorbed(L, labels, runs, k)
  PROVE  Absorbed(Absorb(L, runs[k + 1]), labels, runs, k + 1)
<1> DEFINE m == Len(runs)
           p == IF k = 0 THEN 0 ELSE runs[k].to
           run == runs[k + 1]
           new == Absorb(L, run)
<1>1. /\ m \in Nat /\ k + 1 \in 1..m /\ k \in Nat
      /\ \A j \in 1..m : runs[j].from \in 1..n /\ runs[j].to \in runs[j].from..n
      /\ \A j \in 1..m : \A i \in runs[j].from..runs[j].to : labels[i] = labels[runs[j].from]
      /\ \A j \in 2..m : runs[j].from = runs[j - 1].to + 1
      /\ runs[1].from = 1
  BY DEF Cut
<1>2. Len(L) = n /\ Len(labels) = n
  OBVIOUS
<1>3. /\ \A i \in p + 1..n : L[i] = labels[i]
      /\ Steady(L, p)
      /\ \A j \in 1..k : Size(runs[j]) >= MinRun =>
           \A i \in runs[j].from..runs[j].to : L[i] = labels[i]
  BY <1>2 DEF Absorbed
<1>4. /\ run.from \in 1..n /\ run.to \in run.from..n
      /\ \A i \in run.from..run.to : labels[i] = labels[run.from]
  BY <1>1
<1>5. p \in 0..n /\ run.from = p + 1 /\ p < run.to
  <2>1. CASE k = 0
    <3>1. runs[k + 1] = runs[1] /\ p = 0
      BY <2>1
    <3> QED BY <1>1, <1>4, <3>1
  <2>2. CASE k # 0
    <3>1. k + 1 \in 2..m /\ k \in 1..m /\ (k + 1) - 1 = k
      BY <1>1, <2>2
    <3>2. run.from = runs[k].to + 1 /\ p = runs[k].to
      BY <1>1, <2>2, <3>1
    <3>3. runs[k].to \in runs[k].from..n /\ runs[k].from \in 1..n
      BY <1>1, <3>1
    <3> HIDE DEF p, run, m
    <3> QED BY <1>4, <3>2, <3>3
  <2> QED BY <2>1, <2>2
<1>6. \A j \in 1..k : runs[j].to <= p /\ runs[j].from \in 1..n /\ runs[j].to \in Int
  <2>1. \A j \in 1..m : \A i \in 1..j - 1 : runs[i].to < runs[j].from
    BY CutOrder
  <2>2. ASSUME NEW j \in 1..k PROVE runs[j].to <= p /\ runs[j].from \in 1..n /\ runs[j].to \in Int
    <3>1. j \in 1..m /\ j \in 1..(k + 1) - 1
      BY <1>1
    <3>2. runs[j].to < run.from
      BY <1>1, <2>1, <3>1
    <3> HIDE DEF p, run
    <3> QED BY <1>1, <1>5, <3>1, <3>2
  <2> QED BY <2>2
<1>7. Len(new) = n
  <2>1. new \in [1..n -> V]
    BY <1>4, AbsorbType
  <2> HIDE DEF new
  <2> QED BY <2>1
<1> HIDE DEF p, run, m
<1>8. CASE Size(run) >= MinRun
  <2>1. new = L
    BY <1>8 DEF Absorb
  <2>2. Steady(L, run.to)
    <3>1. ASSUME NEW i \in 2..run.to, L[i] # L[i - 1]
          PROVE  i + MinRun - 1 <= run.to /\ \A q \in i..i + MinRun - 1 : L[q] = L[i]
      <4>1. CASE i <= p
        <5>1. i \in 2..p
          BY <1>5, <4>1
        <5>2. i + MinRun - 1 <= p /\ \A q \in i..i + MinRun - 1 : L[q] = L[i]
          BY <1>3, <3>1, <5>1 DEF Steady
        <5> QED BY <1>4, <1>5, <5>2, MinRunType
      <4>2. CASE i = run.from
        <5>1. i + MinRun - 1 <= run.to
          BY <1>4, <1>8, <4>2, MinRunType DEF Size
        <5>2. \A q \in run.from..run.to : L[q] = labels[run.from]
          BY <1>3, <1>4, <1>5
        <5>3. \A q \in i..i + MinRun - 1 : q \in run.from..run.to
          BY <1>4, <4>2, <5>1, MinRunType
        <5>4. i \in run.from..run.to
          BY <1>4, <4>2
        <5> QED BY <5>1, <5>2, <5>3, <5>4
      <4>3. CASE i > run.from
        <5>1. L[i] = labels[i] /\ L[i - 1] = labels[i - 1]
          BY <1>3, <1>4, <1>5, <4>3
        <5>2. i \in run.from..run.to /\ i - 1 \in run.from..run.to
          BY <1>4, <4>3
        <5>3. labels[i] = labels[run.from] /\ labels[i - 1] = labels[run.from]
          BY <1>4, <5>2
        <5> QED BY <3>1, <5>1, <5>3
      <4> QED BY <1>4, <1>5, <4>1, <4>2, <4>3
    <3> QED BY <3>1 DEF Steady
  <2>3. \A i \in run.to + 1..n : L[i] = labels[i]
    BY <1>3, <1>4, <1>5
  <2>4. ASSUME NEW j \in 1..k + 1, Size(runs[j]) >= MinRun, NEW i \in runs[j].from..runs[j].to
        PROVE  L[i] = labels[i]
    <3>1. CASE j = k + 1
      BY <1>3, <1>4, <1>5, <3>1 DEF run
    <3>2. CASE j # k + 1
      <4>1. j \in 1..k
        BY <1>1, <3>2
      <4> QED BY <1>3, <2>4, <4>1
    <3> QED BY <3>1, <3>2
  <2>5. (IF k + 1 = 0 THEN 0 ELSE runs[k + 1].to) = run.to
    BY <1>1 DEF run
  <2>6. Absorbed(L, labels, runs, k + 1)
    BY <1>2, <2>2, <2>3, <2>4, <2>5 DEF Absorbed
  <2> QED BY <2>1, <2>6 DEF run
<1>9. CASE ~(Size(run) >= MinRun)
  <2> DEFINE into == IF run.from > 1 THEN L[run.from - 1]
                     ELSE IF run.to < n THEN L[run.to + 1] ELSE L[run.from]
  <2>1. new = [i \in 1..n |-> IF i \in run.from..run.to THEN into ELSE L[i]]
    BY <1>2, <1>9 DEF Absorb
  <2> HIDE DEF into, new
  <2>2. \A i \in run.to + 1..n : new[i] = labels[i]
    BY <1>3, <1>4, <1>5, <2>1
  <2>3. Steady(new, run.to)
    <3>1. \A i \in 1..p : new[i] = L[i]
      BY <1>4, <1>5, <2>1
    <3>2. \A i \in run.from..run.to : new[i] = into
      BY <1>4, <2>1
    <3>3. p > 0 => into = L[p]
      BY <1>4, <1>5 DEF into
    <3>4. ASSUME NEW i \in 2..run.to, new[i] # new[i - 1]
          PROVE  i + MinRun - 1 <= run.to /\ \A q \in i..i + MinRun - 1 : new[q] = new[i]
      <4>1. i <= p
        <5>1. CASE i > run.from
          <6>1. i - 1 \in run.from..run.to /\ i \in run.from..run.to
            BY <1>4, <5>1
          <6> QED BY <3>2, <3>4, <6>1
        <5>2. CASE i = run.from
          <6>1. i - 1 = p /\ p > 0 /\ p \in 1..p
            BY <1>4, <1>5, <5>2
          <6> QED BY <1>4, <3>1, <3>2, <3>3, <3>4, <5>2, <6>1
        <5> QED BY <1>4, <1>5, <5>1, <5>2
      <4>2. i \in 2..p /\ i \in 1..p /\ i - 1 \in 1..p
        BY <4>1, <1>5
      <4>3. L[i] # L[i - 1]
        BY <3>1, <3>4, <4>2
      <4>4. i + MinRun - 1 <= p /\ \A q \in i..i + MinRun - 1 : L[q] = L[i]
        BY <1>3, <4>2, <4>3 DEF Steady
      <4>5. \A q \in i..i + MinRun - 1 : q \in 1..p
        BY <1>5, <4>2, <4>4, MinRunType
      <4>6. \A q \in i..i + MinRun - 1 : new[q] = new[i]
        BY <3>1, <4>2, <4>4, <4>5
      <4> QED BY <1>4, <1>5, <4>4, <4>6, MinRunType
    <3> QED BY <3>4 DEF Steady
  <2>4. ASSUME NEW j \in 1..k + 1, Size(runs[j]) >= MinRun, NEW i \in runs[j].from..runs[j].to
        PROVE  new[i] = labels[i]
    <3>1. j \in 1..k
      BY <1>1, <1>9, <2>4 DEF run
    <3>2. runs[j].to <= p /\ runs[j].from \in 1..n /\ runs[j].to \in Int
      BY <1>6, <3>1
    <3>3. i \in 1..n /\ i <= p
      BY <1>5, <3>2
    <3>4. new[i] = L[i]
      BY <1>4, <1>5, <2>1, <3>3
    <3> QED BY <1>3, <2>4, <3>1, <3>4
  <2>5. (IF k + 1 = 0 THEN 0 ELSE runs[k + 1].to) = run.to
    BY <1>1 DEF run
  <2>6. Len(new) = Len(labels)
    BY <1>2, <1>7
  <2>7. Absorbed(new, labels, runs, k + 1)
    BY <1>2, <2>2, <2>3, <2>4, <2>5, <2>6 DEF Absorbed
  <2> QED BY <2>7 DEF new, run
<1> QED BY <1>8, <1>9 DEF run

(* What _despeckle returns: labels as many, no run but the first shorter   *)
(* than MinRun, and the long ones as they were.                            *)
LEMMA DespeckleSteady ==
  ASSUME NEW V, NEW n \in Nat \ {0}, NEW labels \in [1..n -> V]
  PROVE  /\ Despeckle(labels) \in [1..n -> V]
         /\ Steady(Despeckle(labels), n)
         /\ \A j \in 1..Len(RunsOf(labels)) : Size(RunsOf(labels)[j]) >= MinRun =>
              \A i \in RunsOf(labels)[j].from..RunsOf(labels)[j].to :
                 Despeckle(labels)[i] = labels[i]
<1> DEFINE runs == RunsOf(labels)
           m == Len(runs)
<1>1. PICK f : /\ f \in [0..m -> [1..n -> V]] /\ f[0] = labels
               /\ \A k \in 1..m : f[k] = Absorb(f[k - 1], runs[k])
               /\ Despeckle(labels) = f[m]
  <2> HIDE DEF m, runs
  <2> QED BY DespeckleLoop DEF m, runs
<1>2. Cut(labels, n, runs)
  <2>1. labels \in Seq(V) /\ Len(labels) = n /\ labels # <<>>
    OBVIOUS
  <2> QED BY <2>1, RunsCut
<1> HIDE DEF runs
<1>3. m \in Nat /\ m # 0 /\ runs[m].to = n
  BY <1>2 DEF Cut
<1> DEFINE S == {k \in Nat : k <= m => Absorbed(f[k], labels, runs, k)}
<1>4. 0 \in S
  BY <1>1, AbsorbedFirst
<1>5. ASSUME NEW k \in Nat, k < m, k \in S PROVE k + 1 \in S
  <2>1. k \in 0..m - 1 /\ k \in 0..m /\ k + 1 \in 1..m /\ (k + 1) - 1 = k
    BY <1>3, <1>5
  <2>2. f[k + 1] = Absorb(f[k], runs[k + 1])
    <3> HIDE DEF m
    <3> QED BY <1>1, <2>1
  <2>3. Absorbed(f[k], labels, runs, k) /\ f[k] \in [1..n -> V]
    <3> HIDE DEF m
    <3> QED BY <1>1, <1>5, <2>1
  <2>4. Absorbed(Absorb(f[k], runs[k + 1]), labels, runs, k + 1)
    <3> DEFINE L == f[k]
    <3>1. L \in [1..n -> V] /\ Absorbed(L, labels, runs, k)
      BY <2>3
    <3>2. k \in 0..Len(runs) - 1
      BY <2>1
    <3> HIDE DEF L, m
    <3>3. Absorbed(Absorb(L, runs[k + 1]), labels, runs, k + 1)
      BY <1>2, <3>1, <3>2, AbsorbedNext
    <3> QED BY <3>3 DEF L
  <2> QED BY <2>2, <2>4
<1>6. \A k \in Nat : k < m /\ k \in S => k + 1 \in S
  BY <1>5
<1>7. \A k \in 0..m : k \in S
  <2> HIDE DEF S, m
  <2> QED BY <1>3, <1>4, <1>6, Inductive
<1>8. Absorbed(f[m], labels, runs, m) /\ f[m] \in [1..n -> V]
  <2> HIDE DEF m
  <2> QED BY <1>1, <1>3, <1>7
<1> HIDE DEF m
<1>9. Steady(f[m], n)
  BY <1>3, <1>8 DEF Absorbed, m
<1>10. \A j \in 1..m : Size(runs[j]) >= MinRun =>
         \A i \in runs[j].from..runs[j].to : f[m][i] = labels[i]
  BY <1>8 DEF Absorbed
<1> QED BY <1>1, <1>8, <1>9, <1>10 DEF m, runs

(* Runs of steady labels are long but for the first. *)
LEMMA SteadyRuns ==
  ASSUME NEW n \in Nat \ {0}, NEW L, Steady(L, n), NEW runs, Cut(L, n, runs),
         NEW j \in 1..Len(runs), runs[j].from > 1
  PROVE  Size(runs[j]) >= MinRun
<1> DEFINE m == Len(runs)
<1>1. /\ m \in Nat
      /\ \A i \in 1..m : runs[i].from \in 1..n /\ runs[i].to \in runs[i].from..n
      /\ \A i \in 2..m : runs[i].from = runs[i - 1].to + 1 /\ L[runs[i].from] # L[runs[i - 1].to]
      /\ runs[1].from = 1 /\ runs[m].to = n
  BY DEF Cut
<1>2. j \in 2..m
  BY <1>1
<1> DEFINE a == runs[j].from
           b == runs[j].to
<1>3. a \in 2..n /\ b \in a..n /\ L[a] # L[a - 1]
  <2>1. j \in 1..m /\ j - 1 \in 1..m /\ a > 1
    BY <1>1, <1>2
  <2>2. a = runs[j - 1].to + 1 /\ L[a] # L[runs[j - 1].to]
    BY <1>1, <1>2
  <2>3. runs[j - 1].to = a - 1
    BY <1>1, <2>1, <2>2
  <2> QED BY <1>1, <2>1, <2>2, <2>3
<1>4. a + MinRun - 1 <= n /\ \A q \in a..a + MinRun - 1 : L[q] = L[a]
  BY <1>3 DEF Steady
<1> HIDE DEF a, b, m
<1>5. ASSUME b < a + MinRun - 1 PROVE FALSE
  <2>1. j # m
    BY <1>1, <1>4, <1>5, MinRunType DEF a, b
  <2>2. j + 1 \in 2..m /\ (j + 1) - 1 = j
    BY <1>1, <1>2, <2>1
  <2>3. runs[j + 1].from = b + 1 /\ L[runs[j + 1].from] # L[b]
    BY <1>1, <2>2 DEF b
  <2>4. b + 1 \in a..a + MinRun - 1 /\ b \in a..a + MinRun - 1
    BY <1>3, <1>5, MinRunType
  <2> QED BY <1>4, <2>3, <2>4
<1> QED BY <1>3, <1>5, MinRunType DEF Size, a, b

-----------------------------------------------------------------------------
(* Chords that tile the track; the segments of librosa_engine.py *)

(* The bounds on the constants, one by one. *)
LEMMA Bounds ==
  /\ Hop \in Nat \ {0} /\ Unit \in Nat \ {0} /\ Milli \in Nat \ {0} /\ Timestep \in Nat \ {0}
  /\ Eps \in Nat /\ 2 * Eps <= Milli /\ 2 * Milli <= Unit
BY ChordPipelineAssumption

Heardable == Labels \cup {"N"}
Chord == {Seg(a, b, label) : a \in Int, b \in Int, label \in Heardable}

(* A chord is none, or it has a root. *)
LEMMA ChordHonest ==
  ASSUME NEW c \in Chord
  PROVE  /\ c.start \in Int /\ c.end \in Int
         /\ IF c.label = "N" THEN c.root = None /\ c.quality = "N" ELSE c.root # None
<1>1. PICK a \in Int, b \in Int, label \in Heardable : c = Seg(a, b, label)
  BY DEF Chord
<1>2. /\ c.start = a /\ c.end = b /\ c.label = Parsed(label).label
      /\ c.root = Parsed(label).root /\ c.quality = Parsed(label).quality
  BY <1>1 DEF Seg
<1>3. CASE label \in NoChord
  <2>1. Parsed(label) = Silence
    BY <1>3 DEF Parsed
  <2> QED BY <1>2, <2>1 DEF Silence
<1>4. CASE label \notin NoChord
  <2>1. label \in DOMAIN Named /\ label # "N"
    BY <1>4, ChordPipelineAssumption DEF Heardable, NoChord
  <2>2. Parsed(label) = Sounding(label, Named[label].root, Named[label].quality)
    BY <1>4 DEF Parsed
  <2>3. Named[label].root # None
    BY <2>1, ChordPipelineAssumption
  <2> QED BY <1>2, <2>1, <2>2, <2>3 DEF Sounding
<1> QED BY <1>3, <1>4

(* What a segment is made of. *)
LEMMA SegChord ==
  ASSUME NEW a \in Int, NEW b \in Int, NEW label \in Heardable
  PROVE  /\ Seg(a, b, label) \in Chord
         /\ Seg(a, b, label).start = a /\ Seg(a, b, label).end = b
         /\ Seg(a, b, label).root = Parsed(label).root
         /\ Seg(a, b, label).quality = Parsed(label).quality
BY DEF Chord, Seg

(* The chord c made to end at b. *)
LEMMA EndMoved ==
  ASSUME NEW c \in Chord, NEW b \in Int
  PROVE  /\ [c EXCEPT !.end = b] \in Chord
         /\ [c EXCEPT !.end = b].start = c.start /\ [c EXCEPT !.end = b].end = b
         /\ SameChord([c EXCEPT !.end = b], c)
<1>1. PICK a \in Int, e \in Int, label \in Heardable : c = Seg(a, e, label)
  BY DEF Chord
<1>2. [c EXCEPT !.end = b] = Seg(a, b, label)
  BY <1>1 DEF Seg
<1>3. Seg(a, b, label) \in Chord
  BY DEF Chord
<1> QED BY <1>1, <1>2, <1>3 DEF Seg, SameChord

(* The chords follow each other from from to to, without a gap. *)
Tiles(cs, from, to) ==
  /\ cs \in Seq(Chord) /\ Len(cs) > 0
  /\ cs[1].start = from /\ cs[Len(cs)].end = to
  /\ \A i \in 1..Len(cs) : cs[i].start < cs[i].end
  /\ \A i \in 2..Len(cs) : cs[i].start = cs[i - 1].end

(* At the time t, cs shows the chord p. *)
Shows(cs, t, p) ==
  \E i \in 1..Len(cs) :
    cs[i].start <= t /\ t < cs[i].end /\ cs[i].root = p.root /\ cs[i].quality = p.quality

(* Chords that tile the track pass validateChords. *)
LEMMA TilesValid ==
  ASSUME NEW d \in Int, NEW cs, Tiles(cs, 0, d)
  PROVE  ValidChords(cs, d)
<1> DEFINE n == Len(cs)
<1>1. /\ cs \in Seq(Chord) /\ n \in Nat /\ n > 0 /\ DOMAIN cs = 1..n /\ cs # <<>>
      /\ cs[1].start = 0 /\ cs[n].end = d
      /\ \A i \in 1..n : cs[i].start < cs[i].end
      /\ \A i \in 2..n : cs[i].start = cs[i - 1].end
      /\ Last(cs) = cs[n]
  BY LenProperties, EmptySeq DEF Tiles, Last
<1> HIDE DEF n
<1>2. \A a \in Int : Near(a, a)
  BY Bounds DEF Near
<1>3. ASSUME NEW i \in 1..n
      PROVE  /\ cs[i].end > cs[i].start
             /\ Near(cs[i].start, IF i = 1 THEN 0 ELSE cs[i - 1].end)
             /\ IF cs[i].label = "N" THEN cs[i].root = None /\ cs[i].quality = "N"
                ELSE cs[i].root # None
  <2>1. cs[i] \in Chord
    BY <1>1 DEF n
  <2>2. cs[i].start \in Int /\ cs[i].end \in Int
    BY <2>1, ChordHonest
  <2>3. cs[i].start = IF i = 1 THEN 0 ELSE cs[i - 1].end
    BY <1>1
  <2>4. cs[i].end > cs[i].start
    BY <1>1, <2>2
  <2>5. Near(cs[i].start, cs[i].start)
    BY <1>2, <2>2
  <2> QED BY <2>1, <2>3, <2>4, <2>5, ChordHonest
<1>4. Near(Last(cs).end, d)
  BY <1>1, <1>2
<1> QED BY <1>1, <1>3, <1>4 DEF ValidChords

(* A frame later is a hop later, at least. *)
LEMMA Times ==
  ASSUME NEW a \in Int, NEW b \in Int, a < b, NEW h \in Nat
  PROVE  a * h + h <= b * h /\ a * h \in Int /\ b * h \in Int
<1>1. PICK d \in Nat : b = a + 1 + d
  <2>1. b - a - 1 \in Nat /\ b = a + 1 + (b - a - 1)
    OBVIOUS
  <2> QED BY <2>1
<1>2. b * h = a * h + h + d * h
  BY <1>1
<1>3. d * h >= 0 /\ d * h \in Int
  OBVIOUS
<1> QED BY <1>2, <1>3

(* The segments of a track tile it, and at each frame's middle show its    *)
(* label.                                                                   *)
LEMMA SegmentsTile ==
  ASSUME NEW n \in Nat \ {0}, NEW L \in [1..n -> LibrosaLabels], Steady(L, n),
         NEW over \in 0..Hop - 1, NEW d, d = (n - 1) * Hop + over, d # 0
  PROVE  /\ Tiles(Segments(L, d), 0, d)
         /\ \A k \in 0..n - 1 : k * Hop + Hop \div 2 < d =>
              Shows(Segments(L, d), k * Hop + Hop \div 2, Parsed(L[k + 1]))
<1> DEFINE runs == RunsOf(L)
           m == Len(runs)
           End(i) == IF runs[i].to >= n THEN d ELSE runs[i].to * Hop
           cs == Segments(L, d)
<1>1. L \in Seq(LibrosaLabels) /\ Len(L) = n /\ L # <<>>
  OBVIOUS
<1>2. Cut(L, n, runs)
  BY <1>1, RunsCut
<1>3. cs = [i \in DOMAIN runs |-> Seg(IF i = 1 THEN 0 ELSE End(i - 1), End(i), L[runs[i].from])]
  BY <1>1 DEF Segments
<1> HIDE DEF runs, cs
<1>4. /\ m \in 1..n /\ DOMAIN runs = 1..m
      /\ \A j \in 1..m : runs[j].from \in 1..n /\ runs[j].to \in runs[j].from..n
      /\ \A j \in 1..m : \A i \in runs[j].from..runs[j].to : L[i] = L[runs[j].from]
      /\ \A j \in 2..m : runs[j].from = runs[j - 1].to + 1
      /\ runs[1].from = 1 /\ runs[m].to = n
  BY <1>2, LenProperties DEF Cut
<1>5. d \in Nat /\ d > 0 /\ Hop \in Nat /\ Hop > 0
  <2>1. (n - 1) * Hop \in Nat
    BY Bounds
  <2> QED BY <2>1, Bounds
<1>6. \A i \in 1..m : runs[i].to < n => i # m
  BY <1>4
<1>7. \A i \in 1..m - 1 : runs[i].to < n
  <2>1. ASSUME NEW i \in 1..m - 1 PROVE runs[i].to < n
    <3>1. \A j \in 1..m : \A q \in 1..j - 1 : runs[q].to < runs[j].from
      BY <1>2, CutOrder
    <3>2. m \in 1..m /\ i \in 1..m
      BY <1>4
    <3>3. runs[i].to < runs[m].from
      BY <3>1, <3>2
    <3>4. runs[m].from \in 1..n /\ runs[i].to \in runs[i].from..n /\ runs[i].from \in 1..n
      BY <1>4, <3>2
    <3> QED BY <3>3, <3>4
  <2> QED BY <2>1
<1> HIDE DEF m
<1>8. ASSUME NEW i \in 1..m
      PROVE  /\ End(i) \in Int
             /\ i = m => End(i) = d
             /\ i # m => End(i) = runs[i].to * Hop /\ runs[i].to \in Nat
  <2>1. runs[i].to \in 1..n
    BY <1>4
  <2>2. runs[i].to * Hop \in Int
    BY <1>5, <2>1
  <2>3. i # m => runs[i].to < n
    BY <1>4, <1>7
  <2> QED BY <1>4, <1>5, <2>1, <2>2, <2>3
<1> DEFINE Start(i) == IF i = 1 THEN 0 ELSE End(i - 1)
<1>9. ASSUME NEW i \in 1..m
      PROVE  Start(i) = (runs[i].from - 1) * Hop
  <2>1. CASE i = 1
    BY <1>4, <1>5, <2>1
  <2>2. CASE i # 1
    <3>1. i - 1 \in 1..m /\ i - 1 # m /\ i \in 2..m
      BY <1>4, <2>2
    <3>2. End(i - 1) = runs[i - 1].to * Hop /\ runs[i - 1].to \in Nat
      BY <1>8, <3>1
    <3>3. runs[i].from - 1 = runs[i - 1].to
      BY <1>4, <3>1, <3>2
    <3> HIDE DEF End
    <3> QED BY <2>2, <3>2, <3>3
  <2> QED BY <2>1, <2>2
<1>10. ASSUME NEW i \in 1..m
       PROVE  Start(i) < End(i) /\ Start(i) \in Int /\ End(i) \in Int
  <2>1. runs[i].from - 1 \in Int /\ runs[i].to \in Int /\ runs[i].from - 1 < runs[i].to
        /\ n - 1 \in Int
    BY <1>4
  <2>2. CASE i # m
    <3>1. (runs[i].from - 1) * Hop + Hop <= runs[i].to * Hop
          /\ (runs[i].from - 1) * Hop \in Int /\ runs[i].to * Hop \in Int
      BY <1>5, <2>1, Times
    <3>2. End(i) = runs[i].to * Hop
      BY <1>8, <2>2
    <3> HIDE DEF Start, End
    <3> QED BY <1>5, <1>9, <3>1, <3>2
  <2>3. CASE i = m /\ runs[i].from = 1
    <3>1. Start(i) = 0 * Hop
      <4> HIDE DEF Start
      <4> QED BY <1>9, <2>3
    <3>2. End(i) = d
      BY <1>8, <2>3
    <3> HIDE DEF Start, End
    <3> QED BY <1>5, <3>1, <3>2
  <2>4. CASE i = m /\ runs[i].from > 1
    <3>1. Size(runs[i]) >= MinRun
      BY <1>2, <2>4, SteadyRuns DEF m
    <3>2. runs[i].from - 1 < n - 1
      BY <1>4, <2>1, <2>4, <3>1, MinRunType DEF Size
    <3>3. (runs[i].from - 1) * Hop + Hop <= (n - 1) * Hop
          /\ (runs[i].from - 1) * Hop \in Int /\ (n - 1) * Hop \in Int
      BY <1>5, <2>1, <3>2, Times
    <3>4. End(i) = d
      BY <1>8, <2>4
    <3> HIDE DEF Start, End
    <3> QED BY <1>5, <1>9, <3>3, <3>4
  <2> QED BY <1>4, <2>2, <2>3, <2>4
<1>11. ASSUME NEW i \in 1..m
       PROVE  /\ cs[i] \in Chord /\ cs[i].start = Start(i) /\ cs[i].end = End(i)
              /\ cs[i].root = Parsed(L[runs[i].from]).root
              /\ cs[i].quality = Parsed(L[runs[i].from]).quality
  <2>1. Start(i) \in Int /\ End(i) \in Int
    BY <1>10
  <2>2. L[runs[i].from] \in Heardable
    BY <1>4 DEF Heardable, Labels
  <2>3. cs[i] = Seg(Start(i), End(i), L[runs[i].from])
    BY <1>3, <1>4
  <2> HIDE DEF Start, End
  <2> QED BY <2>1, <2>2, <2>3, SegChord
<1>12. cs \in Seq(Chord) /\ Len(cs) = m
  <2>1. cs \in [1..m -> Chord]
    <3>1. \A i \in 1..m : cs[i] \in Chord
      BY <1>11
    <3>2. cs = [i \in 1..m |-> cs[i]]
      BY <1>3, <1>4
    <3> QED BY <3>1, <3>2
  <2> QED BY <1>4, <2>1
<1>13. Tiles(cs, 0, d)
  <2>1. cs[1].start = 0 /\ cs[m].end = d
    <3>1. cs[1].start = Start(1) /\ cs[m].end = End(m)
      BY <1>4, <1>11
    <3>2. Start(1) = 0
      OBVIOUS
    <3>3. End(m) = d
      BY <1>4, <1>8
    <3> QED BY <3>1, <3>2, <3>3
  <2>2. \A i \in 1..m : cs[i].start < cs[i].end
    BY <1>10, <1>11
  <2>3. ASSUME NEW i \in 2..m PROVE cs[i].start = cs[i - 1].end
    <3>1. i \in 1..m /\ i - 1 \in 1..m /\ i # 1
      BY <1>4
    <3>2. cs[i].start = Start(i) /\ cs[i - 1].end = End(i - 1)
      BY <1>11, <3>1
    <3> HIDE DEF End
    <3> QED BY <3>1, <3>2
  <2> QED BY <1>4, <1>12, <2>1, <2>2, <2>3 DEF Tiles
<1>14. ASSUME NEW k \in 0..n - 1, k * Hop + Hop \div 2 < d
       PROVE  Shows(cs, k * Hop + Hop \div 2, Parsed(L[k + 1]))
  <2>1. PICK i \in 1..m : k + 1 \in runs[i].from..runs[i].to
    BY <1>2, CutCovers DEF m
  <2>2. L[k + 1] = L[runs[i].from]
    BY <1>4, <2>1
  <2> DEFINE t == k * Hop + Hop \div 2
  <2>3. k * Hop \in Int /\ Hop \div 2 \in 0..Hop - 1
    BY <1>5
  <2>4. Start(i) <= t
    <3>1. (runs[i].from - 1) * Hop <= k * Hop /\ (runs[i].from - 1) * Hop \in Int
      <4>1. CASE runs[i].from - 1 = k
        BY <2>3, <4>1
      <4>2. CASE runs[i].from - 1 # k
        <5>1. runs[i].from - 1 < k /\ runs[i].from - 1 \in Int
          <6>1. runs[i].from \in 1..n /\ runs[i].to \in runs[i].from..n
            BY <1>4
          <6>2. runs[i].from <= k + 1
            BY <2>1, <6>1
          <6> QED BY <4>2, <6>1, <6>2
        <5> QED BY <1>5, <5>1, Times
      <4> QED BY <4>1, <4>2
    <3> HIDE DEF Start
    <3> QED BY <1>9, <2>3, <3>1
  <2>5. t < End(i)
    <3>1. CASE i = m
      <4>1. End(i) = d
        BY <1>8, <3>1
      <4>2. t < d
        BY <1>14
      <4> HIDE DEF End, t
      <4> QED BY <4>1, <4>2
    <3>2. CASE i # m
      <4>1. k < runs[i].to /\ runs[i].to \in Int
        BY <1>4, <2>1
      <4>2. k * Hop + Hop <= runs[i].to * Hop /\ runs[i].to * Hop \in Int
        BY <1>5, <4>1, Times
      <4>3. End(i) = runs[i].to * Hop
        BY <1>8, <3>2
      <4>4. t < k * Hop + Hop
        BY <1>5, <2>3
      <4>5. t \in Int
        BY <2>3
      <4> DEFINE x == k * Hop
                 z == runs[i].to * Hop
      <4>6. x \in Int /\ z \in Int /\ x + Hop <= z /\ t < x + Hop /\ End(i) = z
        BY <2>3, <4>2, <4>3, <4>4
      <4> HIDE DEF End, t, x, z
      <4> QED BY <1>5, <4>5, <4>6
    <3> QED BY <3>1, <3>2
  <2> HIDE DEF Start, End
  <2>6. i \in 1..Len(cs) /\ cs[i].start <= t /\ t < cs[i].end
    BY <1>11, <1>12, <2>4, <2>5
  <2> QED BY <1>11, <2>2, <2>6 DEF Shows
<1> QED BY <1>13, <1>14 DEF cs

-----------------------------------------------------------------------------
(* collapseProgression *)

(* The last chord made to end at b: the others stay, and what it sounds    *)
(* does.                                                                   *)
LEMMA LastEndMoved ==
  ASSUME NEW runs \in Seq(Chord), runs # <<>>, NEW b \in Int
  PROVE  LET moved == [runs EXCEPT ![Len(runs)].end = b]
             n == Len(runs)
         IN /\ moved \in Seq(Chord) /\ Len(moved) = n /\ n \in Nat \ {0}
            /\ \A j \in 1..n - 1 : moved[j] = runs[j]
            /\ moved[n].start = runs[n].start /\ moved[n].end = b
            /\ SameChord(moved[n], runs[n])
<1> DEFINE n == Len(runs)
           e == [runs[n] EXCEPT !.end = b]
<1>1. n \in 1..Len(runs) /\ n \in Nat \ {0} /\ runs[n] \in Chord
  BY EmptySeq, LenProperties
<1>2. e \in Chord /\ e.start = runs[n].start /\ e.end = b /\ SameChord(e, runs[n])
  BY <1>1, EndMoved
<1>3. [runs EXCEPT ![n].end = b] = [runs EXCEPT ![n] = e]
  OBVIOUS
<1> HIDE DEF e
<1>4. /\ [runs EXCEPT ![n] = e] \in Seq(Chord)
      /\ Len([runs EXCEPT ![n] = e]) = Len(runs)
      /\ \A j \in 1..Len(runs) : [runs EXCEPT ![n] = e][j] = IF j = n THEN e ELSE runs[j]
  BY <1>1, <1>2, ExceptSeq
<1> QED BY <1>1, <1>2, <1>3, <1>4

(* One step of the loop makes chords of chords. *)
LEMMA CollapsedType ==
  ASSUME NEW runs \in Seq(Chord), NEW seg \in Chord
  PROVE  Collapsed(runs, seg) \in Seq(Chord)
<1>1. seg.end \in Int
  BY ChordHonest
<1>2. CASE runs # <<>> /\ SameChord(Last(runs), seg)
  BY <1>1, <1>2, LastEndMoved DEF Collapsed
<1>3. CASE ~(runs # <<>> /\ SameChord(Last(runs), seg))
  BY <1>3, AppendProperties DEF Collapsed
<1> QED BY <1>2, <1>3

(* CollapseProgression, unrolled: the cells after each chord. *)
LEMMA CollapseLoop ==
  ASSUME NEW cs \in Seq(Chord)
  PROVE  \E f : /\ f \in [0..Len(cs) -> Seq(Chord)] /\ f[0] = <<>>
                /\ \A k \in 1..Len(cs) : f[k] = Collapsed(f[k - 1], cs[k])
                /\ CollapseProgression(cs) = f[Len(cs)]
<1> DEFINE m == Len(cs)
           T == [k \in 1..m |-> [v \in Seq(Chord) |-> Collapsed(v, cs[k])]]
           Eq(g) == [k \in 0..m |-> IF k = 0 THEN <<>> ELSE Collapsed(g[k - 1], cs[k])]
           f == CHOOSE g : g = Eq(g)
<1>1. m \in Nat /\ \A k \in 1..m : cs[k] \in Chord
  OBVIOUS
<1>2. T \in [1..m -> [Seq(Chord) -> Seq(Chord)]]
  <2> HIDE DEF m
  <2> QED BY <1>1, CollapsedType
<1>3. PICK g : Computes(g, m, Seq(Chord), <<>>, T)
  <2>1. <<>> \in Seq(Chord)
    OBVIOUS
  <2> HIDE DEF T, m
  <2> QED BY <1>1, <1>2, <2>1, Recursion
<1>4. g \in [0..m -> Seq(Chord)] /\ g[0] = <<>> /\ \A k \in 1..m : g[k] = T[k][g[k - 1]]
  <2> HIDE DEF T, m
  <2> QED BY <1>3 DEF Computes
<1>5. ASSUME NEW k \in 1..m PROVE g[k] = Collapsed(g[k - 1], cs[k])
  <2>1. k - 1 \in 0..m /\ g[k] = T[k][g[k - 1]]
    <3> HIDE DEF T, m
    <3> QED BY <1>1, <1>4
  <2>2. g[k - 1] \in Seq(Chord)
    BY <1>4, <2>1
  <2> QED BY <2>1, <2>2
<1>6. g = Eq(g)
  BY <1>1, <1>4, <1>5
<1>7. f = Eq(f)
  <2> HIDE DEF Eq
  <2> QED BY <1>6
<1>8. f[0] = <<>> /\ \A k \in 1..m : f[k] = Collapsed(f[k - 1], cs[k])
  <2> HIDE DEF f
  <2> QED BY <1>1, <1>7
<1>9. \A k \in 0..m : f[k] \in Seq(Chord)
  <2> HIDE DEF f, m
  <2>1. \A k \in 1..m : f[k - 1] \in Seq(Chord) => f[k] \in Seq(Chord)
    BY <1>1, <1>8, CollapsedType
  <2>2. f[0] \in Seq(Chord)
    BY <1>8
  <2> QED BY <1>1, <2>1, <2>2, Kept
<1>10. f \in [0..m -> Seq(Chord)]
  <2> HIDE DEF f
  <2> QED BY <1>7, <1>9
<1>11. CollapseProgression(cs) = f[m]
  BY DEF CollapseProgression
<1> HIDE DEF f
<1> QED BY <1>8, <1>10, <1>11

(* What collapseProgression has made of the first k chords.                *)
Merged(cs, k, runs) ==
  /\ runs \in Seq(Chord) /\ Len(runs) > 0
  /\ runs[1].start = cs[1].start /\ runs[Len(runs)].end = cs[k].end
  /\ runs[Len(runs)].start <= cs[k].start /\ SameChord(runs[Len(runs)], cs[k])
  /\ \A i \in 2..Len(runs) :
       runs[i].start = runs[i - 1].end /\ ~SameChord(runs[i], runs[i - 1])
  /\ \A j \in 1..k : \E i \in 1..Len(runs) :
       runs[i].start <= cs[j].start /\ cs[j].end <= runs[i].end /\ SameChord(runs[i], cs[j])

(* The first chord is a cell. *)
LEMMA FirstMerged ==
  ASSUME NEW cs \in Seq(Chord), Len(cs) > 0
  PROVE  Merged(cs, 1, Collapsed(<<>>, cs[1]))
<1> DEFINE c == cs[1]
           one == <<c>>
<1>1. Collapsed(<<>>, c) = one
  BY DEF Collapsed
<1>2. c \in Chord /\ c.start \in Int /\ c.end \in Int
  <2>1. c \in Chord
    OBVIOUS
  <2> QED BY <2>1, ChordHonest
<1> HIDE DEF c
<1>3. one \in Seq(Chord) /\ Len(one) = 1 /\ one[1] = c
  BY <1>2
<1> HIDE DEF one
<1>4. \A i \in 2..Len(one) : FALSE
  BY <1>3
<1>5. SameChord(c, c)
  BY DEF SameChord
<1>6. \A j \in 1..1 : j = 1
  OBVIOUS
<1>7. 1 \in 1..Len(one)
  BY <1>3
<1>8. Merged(cs, 1, one)
  BY <1>2, <1>3, <1>4, <1>5, <1>6, <1>7 DEF Merged, c
<1> QED BY <1>1, <1>8 DEF c

(* One chord more: it joins the last cell or begins one. *)
LEMMA NextMerged ==
  ASSUME NEW from, NEW to, NEW cs, Tiles(cs, from, to),
         NEW k \in 1..Len(cs) - 1, NEW runs, Merged(cs, k, runs)
  PROVE  Merged(cs, k + 1, Collapsed(runs, cs[k + 1]))
<1> DEFINE n == Len(runs)
           c == cs[k + 1]
           new == Collapsed(runs, c)
<1>1. /\ cs \in Seq(Chord) /\ k \in 1..Len(cs) /\ k + 1 \in 2..Len(cs) /\ (k + 1) - 1 = k
      /\ k + 1 \in 1..Len(cs)
      /\ \A i \in 1..Len(cs) : cs[i].start < cs[i].end
      /\ \A i \in 2..Len(cs) : cs[i].start = cs[i - 1].end
  BY DEF Tiles
<1>2. c.start = cs[k].end /\ c.start < c.end /\ c \in Chord
  BY <1>1
<1>3. /\ c.start \in Int /\ c.end \in Int /\ cs[k].end \in Int /\ cs[k].end <= c.end
      /\ cs[k].start \in Int /\ cs[k].start <= c.start
  <2>1. c.start \in Int /\ c.end \in Int
    BY <1>2, ChordHonest
  <2>2. cs[k] \in Chord /\ cs[k].start < cs[k].end
    BY <1>1
  <2>3. cs[k].start \in Int /\ cs[k].end \in Int
    BY <2>2, ChordHonest
  <2> HIDE DEF c
  <2> QED BY <1>2, <2>1, <2>2, <2>3
<1>4. /\ runs \in Seq(Chord) /\ n \in Nat /\ n > 0 /\ runs # <<>> /\ Last(runs) = runs[n]
      /\ runs[1].start = cs[1].start /\ runs[n].end = cs[k].end
      /\ runs[n].start <= cs[k].start /\ SameChord(runs[n], cs[k])
      /\ \A i \in 2..n : runs[i].start = runs[i - 1].end /\ ~SameChord(runs[i], runs[i - 1])
  BY LenProperties, EmptySeq DEF Merged, Last
<1>5. \A j \in 1..k : \E i \in 1..n :
        runs[i].start <= cs[j].start /\ cs[j].end <= runs[i].end /\ SameChord(runs[i], cs[j])
  BY DEF Merged
<1>6. \A i \in 1..n : runs[i] \in Chord /\ runs[i].start \in Int /\ runs[i].end \in Int
  <2>1. \A i \in 1..n : runs[i] \in Chord
    BY <1>4
  <2> QED BY <2>1, ChordHonest
<1>7. \A j \in 1..k + 1 : j \in 1..k \/ j = k + 1
  OBVIOUS
<1> HIDE DEF c
<1>8. CASE SameChord(runs[n], c)
  <2>1. new = [runs EXCEPT ![Len(runs)].end = c.end]
    BY <1>4, <1>8 DEF Collapsed
  <2>2. /\ new \in Seq(Chord) /\ Len(new) = n
        /\ \A j \in 1..n - 1 : new[j] = runs[j]
        /\ new[n].start = runs[n].start /\ new[n].end = c.end
        /\ SameChord(new[n], runs[n])
    <3> HIDE DEF new
    <3> QED BY <1>3, <1>4, <2>1, LastEndMoved
  <2> HIDE DEF new, n
  <2>3. ASSUME NEW i \in 1..n
        PROVE  /\ new[i].start = runs[i].start /\ SameChord(new[i], runs[i])
               /\ runs[i].end <= new[i].end
               /\ i # n => new[i].end = runs[i].end
    <3>1. CASE i = n
      BY <1>3, <1>4, <2>2, <3>1
    <3>2. CASE i # n
      <4>1. new[i] = runs[i]
        BY <1>4, <2>2, <3>2
      <4> QED BY <1>6, <4>1, <3>2 DEF SameChord
    <3> QED BY <3>1, <3>2
  <2>4. ASSUME NEW i \in 2..n
        PROVE  new[i].start = new[i - 1].end /\ ~SameChord(new[i], new[i - 1])
    <3>1. i \in 1..n /\ i - 1 \in 1..n /\ i - 1 # n
      BY <1>4
    <3>2. runs[i].start = runs[i - 1].end /\ ~SameChord(runs[i], runs[i - 1])
      BY <1>4
    <3>3. /\ new[i].start = runs[i].start /\ SameChord(new[i], runs[i])
          /\ new[i - 1].end = runs[i - 1].end /\ SameChord(new[i - 1], runs[i - 1])
      BY <2>3, <3>1
    <3> QED BY <3>2, <3>3 DEF SameChord
  <2>5. SameChord(new[n], c)
    BY <1>8, <2>2 DEF SameChord
  <2>9. new[n].start <= c.start
    <3>1. n \in 1..n
      BY <1>4
    <3>2. runs[n].start \in Int
      BY <1>6, <3>1
    <3> QED BY <1>3, <1>4, <2>2, <3>2
  <2>6. ASSUME NEW j \in 1..k + 1
        PROVE  \E i \in 1..n :
                 new[i].start <= cs[j].start /\ cs[j].end <= new[i].end /\ SameChord(new[i], cs[j])
    <3>1. CASE j = k + 1
      <4>1. cs[j] = c /\ n \in 1..n
        BY <1>4, <3>1 DEF c
      <4>2. new[n].start <= c.start
        BY <2>9
      <4>3. c.end <= new[n].end
        BY <1>3, <2>2
      <4> QED BY <2>5, <4>1, <4>2, <4>3
    <3>2. CASE j \in 1..k
      <4>1. PICK i \in 1..n :
              runs[i].start <= cs[j].start /\ cs[j].end <= runs[i].end /\ SameChord(runs[i], cs[j])
        BY <1>5, <3>2
      <4>2. new[i].start = runs[i].start /\ SameChord(new[i], runs[i]) /\ runs[i].end <= new[i].end
        BY <2>3
      <4>3. cs[j].end \in Int /\ new[i].end \in Int /\ runs[i].end \in Int
        <5>1. cs[j] \in Chord /\ new[i] \in Chord
          BY <1>1, <2>2, <3>2
        <5> QED BY <1>6, <5>1, ChordHonest
      <4>4. cs[j].end <= new[i].end
        BY <4>1, <4>2, <4>3
      <4>5. SameChord(new[i], cs[j])
        BY <4>1, <4>2 DEF SameChord
      <4> QED BY <4>1, <4>2, <4>4, <4>5
    <3> QED BY <1>7, <3>1, <3>2
  <2>7. Len(new) > 0 /\ new[1].start = cs[1].start /\ new[Len(new)].end = cs[k + 1].end
    BY <1>4, <2>2, <2>3 DEF c
  <2>8. Merged(cs, k + 1, new)
    BY <2>2, <2>4, <2>5, <2>6, <2>7, <2>9 DEF Merged, c
  <2> QED BY <2>8 DEF new, c
<1>9. CASE ~SameChord(runs[n], c)
  <2>1. new = Append(runs, c)
    BY <1>4, <1>9 DEF Collapsed
  <2>2. /\ new \in Seq(Chord) /\ Len(new) = n + 1
        /\ \A j \in 1..n : new[j] = runs[j]
        /\ new[n + 1] = c
    <3> HIDE DEF new
    <3> QED BY <1>2, <1>4, <2>1, AppendProperties
  <2> HIDE DEF new, n
  <2>3. ASSUME NEW i \in 2..n + 1
        PROVE  new[i].start = new[i - 1].end /\ ~SameChord(new[i], new[i - 1])
    <3>1. CASE i = n + 1
      <4>1. new[i] = c /\ new[i - 1] = runs[n]
        BY <1>4, <2>2, <3>1
      <4> QED BY <1>2, <1>4, <1>9, <4>1 DEF SameChord
    <3>2. CASE i # n + 1
      <4>1. i \in 2..n /\ new[i] = runs[i] /\ new[i - 1] = runs[i - 1]
        BY <1>4, <2>2, <3>2
      <4> QED BY <1>4, <4>1
    <3> QED BY <3>1, <3>2
  <2>4. ASSUME NEW j \in 1..k + 1
        PROVE  \E i \in 1..n + 1 :
                 new[i].start <= cs[j].start /\ cs[j].end <= new[i].end /\ SameChord(new[i], cs[j])
    <3>1. CASE j = k + 1
      <4>1. cs[j] = c /\ n + 1 \in 1..n + 1
        BY <1>4, <3>1 DEF c
      <4> QED BY <1>3, <2>2, <4>1 DEF SameChord
    <3>2. CASE j \in 1..k
      <4>1. PICK i \in 1..n :
              runs[i].start <= cs[j].start /\ cs[j].end <= runs[i].end /\ SameChord(runs[i], cs[j])
        BY <1>5, <3>2
      <4>2. i \in 1..n + 1 /\ new[i] = runs[i]
        BY <1>4, <2>2
      <4> QED BY <4>1, <4>2
    <3> QED BY <1>7, <3>1, <3>2
  <2>5. /\ Len(new) > 0 /\ new[1].start = cs[1].start /\ new[Len(new)].end = cs[k + 1].end
        /\ new[Len(new)].start <= cs[k + 1].start /\ SameChord(new[Len(new)], cs[k + 1])
    BY <1>3, <1>4, <2>2 DEF c, SameChord
  <2>6. Merged(cs, k + 1, new)
    BY <2>2, <2>3, <2>4, <2>5 DEF Merged
  <2> QED BY <2>6 DEF new, c
<1> QED BY <1>8, <1>9

(* What collapseProgression makes of chords that tile the track.           *)
LEMMA CollapseMerges ==
  ASSUME NEW from, NEW to, NEW cs, Tiles(cs, from, to)
  PROVE  Merged(cs, Len(cs), CollapseProgression(cs))
<1> DEFINE m == Len(cs)
<1>1. cs \in Seq(Chord) /\ m \in Nat /\ m > 0
  BY LenProperties DEF Tiles
<1>2. PICK f : /\ f[0] = <<>> /\ \A k \in 1..m : f[k] = Collapsed(f[k - 1], cs[k])
               /\ CollapseProgression(cs) = f[m]
  BY <1>1, CollapseLoop
<1> HIDE DEF m
<1> DEFINE S == {k \in Nat : k # 0 => Merged(cs, k, f[k])}
<1>3. 0 \in S
  OBVIOUS
<1>4. ASSUME NEW k \in Nat, k < m, k \in S PROVE k + 1 \in S
  <2>1. f[k + 1] = Collapsed(f[k], cs[k + 1])
    <3>1. k + 1 \in 1..m /\ (k + 1) - 1 = k
      BY <1>1, <1>4
    <3> QED BY <1>2, <3>1
  <2>2. CASE k = 0
    BY <1>1, <1>2, <2>1, <2>2, FirstMerged DEF m
  <2>3. CASE k # 0
    <3>1. k \in 1..Len(cs) - 1 /\ Merged(cs, k, f[k])
      BY <1>1, <1>4, <2>3 DEF m
    <3> QED BY <2>1, <3>1, NextMerged
  <2> QED BY <2>2, <2>3
<1>5. \A k \in Nat : k < m /\ k \in S => k + 1 \in S
  BY <1>4
<1>6. \A k \in 0..m : k \in S
  <2> HIDE DEF S
  <2> QED BY <1>1, <1>3, <1>5, Inductive
<1> QED BY <1>1, <1>2, <1>6 DEF m

-----------------------------------------------------------------------------
(* '%.3f' *)

(* What the panel shows of chords that tile the track.                     *)
LEMMA CellsOfTiles ==
  ASSUME NEW d \in Int, NEW cs, Tiles(cs, 0, d)
  PROVE  LET shown == CollapseProgression(cs)
         IN /\ shown[1].start = 0 /\ Near(Last(shown).end, d) /\ DOMAIN shown = 1..Len(shown)
            /\ \A i \in 2..Len(shown) :
                 Near(shown[i].start, shown[i - 1].end) /\ ~SameChord(shown[i], shown[i - 1])
            /\ \A t \in Int : \A p : Shows(cs, t, p) => Shows(shown, t, p)
<1> DEFINE shown == CollapseProgression(cs)
           n == Len(shown)
           m == Len(cs)
<1>1. Merged(cs, m, shown)
  BY CollapseMerges
<1> HIDE DEF shown
<1>2. /\ shown \in Seq(Chord) /\ n \in Nat /\ n > 0 /\ DOMAIN shown = 1..n /\ Last(shown) = shown[n]
      /\ shown[1].start = cs[1].start /\ shown[n].end = cs[m].end
      /\ \A i \in 2..n : shown[i].start = shown[i - 1].end /\ ~SameChord(shown[i], shown[i - 1])
      /\ \A j \in 1..m : \E i \in 1..n :
           shown[i].start <= cs[j].start /\ cs[j].end <= shown[i].end /\ SameChord(shown[i], cs[j])
  BY <1>1, LenProperties DEF Merged, Last
<1>3. cs[1].start = 0 /\ cs[m].end = d /\ cs \in Seq(Chord)
  BY DEF Tiles
<1>4. \A a \in Int : Near(a, a)
  BY Bounds DEF Near
<1> HIDE DEF n, m
<1>5. \A i \in 1..n : shown[i].start \in Int /\ shown[i].end \in Int
  <2>1. \A i \in 1..n : shown[i] \in Chord
    BY <1>2 DEF n
  <2> QED BY <2>1, ChordHonest
<1>6. \A j \in 1..m : cs[j].start \in Int /\ cs[j].end \in Int
  <2>1. \A j \in 1..m : cs[j] \in Chord
    BY <1>3 DEF m
  <2> QED BY <2>1, ChordHonest
<1>7. \A i \in 2..n :
        Near(shown[i].start, shown[i - 1].end) /\ ~SameChord(shown[i], shown[i - 1])
  <2>1. ASSUME NEW i \in 2..n PROVE shown[i].start \in Int
    <3>1. i \in 1..n
      BY <1>2
    <3> QED BY <1>5, <3>1
  <2> QED BY <1>2, <1>4, <2>1
<1>8. ASSUME NEW t \in Int, NEW p, Shows(cs, t, p) PROVE Shows(shown, t, p)
  <2>1. PICK j \in 1..m :
          cs[j].start <= t /\ t < cs[j].end /\ cs[j].root = p.root /\ cs[j].quality = p.quality
    BY <1>8 DEF Shows, m
  <2>2. PICK i \in 1..n :
          shown[i].start <= cs[j].start /\ cs[j].end <= shown[i].end /\ SameChord(shown[i], cs[j])
    BY <1>2
  <2>3. shown[i].start <= t /\ t < shown[i].end
    BY <1>5, <1>6, <2>1, <2>2
  <2>4. shown[i].root = p.root /\ shown[i].quality = p.quality
    BY <2>1, <2>2 DEF SameChord
  <2> QED BY <2>3, <2>4 DEF Shows, n
<1>9. Near(Last(shown).end, d)
  BY <1>2, <1>3, <1>4
<1> QED BY <1>2, <1>3, <1>7, <1>8, <1>9 DEF shown, n

(* What the quotient and the remainder are. *)
LEMMA Division ==
  ASSUME NEW a \in Nat, NEW b \in Nat \ {0}
  PROVE  /\ a \div b \in Nat /\ a % b \in 0..b - 1
         /\ a = b * (a \div b) + (a % b)
OBVIOUS

(* '%.3f' moves a boundary by half a millisecond at most.                  *)
LEMMA PrintedNear ==
  ASSUME NEW k \in Nat
  PROVE  /\ Printed(k) \in Nat /\ k * Unit \in Nat
         /\ 2 * Printed(k) <= 2 * (k * Unit) + Milli
         /\ 2 * (k * Unit) < 2 * Printed(k) + Milli
<1> DEFINE x == k * Unit
           a == 2 * x + Milli
           b == 2 * Milli
           q == a \div b
           r == a % b
           y == Milli * q
<1>1. x \in Nat /\ Milli \in Nat \ {0}
  BY Bounds
<1>2. 2 * k * Unit = 2 * x
  BY Bounds
<1>3. Printed(k) = y
  BY <1>2 DEF Printed
<1> HIDE DEF x
<1>4. a \in Nat /\ b \in Nat \ {0}
  BY <1>1
<1> HIDE DEF a, b
<1>5. q \in Nat /\ r \in 0..b - 1 /\ a = b * q + r
  BY <1>4, Division
<1> HIDE DEF q, r
<1>6. b * q = 2 * y /\ y \in Nat
  BY <1>1, <1>5 DEF b
<1> HIDE DEF y
<1>7. r >= 0 /\ r < 2 * Milli /\ r \in Int
  BY <1>1, <1>5 DEF b
<1>8. 2 * x + Milli = 2 * y + r
  BY <1>5, <1>6 DEF a
<1>9. 2 * y <= 2 * x + Milli /\ 2 * x < 2 * y + Milli
  BY <1>1, <1>6, <1>7, <1>8
<1> QED BY <1>1, <1>3, <1>6, <1>9 DEF x

(* So boundaries stay in order, more than a tolerance apart, with the      *)
(* middle of each frame between those of the frame.                        *)
LEMMA PrintedOrder ==
  ASSUME NEW k \in Nat
  PROVE  /\ Printed(k) + Eps < Printed(k + 1)
         /\ Printed(k) + Eps <= k * Unit + Unit \div 2
         /\ k * Unit + Unit \div 2 < Printed(k + 1)
         /\ k * Unit + Unit \div 2 \in Nat
         /\ Printed(k) \in Nat /\ Printed(k + 1) \in Nat
<1> DEFINE x == k * Unit
           z == (k + 1) * Unit
           p == Printed(k)
           q == Printed(k + 1)
           h == Unit \div 2
<1>1. z = x + Unit
  BY Bounds
<1>2. p \in Nat /\ x \in Nat /\ 2 * p <= 2 * x + Milli /\ 2 * x < 2 * p + Milli
  BY PrintedNear
<1>3. q \in Nat /\ z \in Nat /\ 2 * q <= 2 * z + Milli /\ 2 * z < 2 * q + Milli
  <2>1. k + 1 \in Nat
    OBVIOUS
  <2> QED BY <2>1, PrintedNear
<1>4. h \in Nat /\ 2 * h <= Unit /\ Unit <= 2 * h + 1
  BY Bounds
<1> HIDE DEF x, z, p, q, h
<1>5. p + Eps < q /\ p + Eps <= x + h /\ x + h < q /\ x + h \in Nat
  BY <1>1, <1>2, <1>3, <1>4, Bounds
<1> QED BY <1>2, <1>3, <1>5 DEF x, p, q, h

(* The first line starts at 0. *)
LEMMA PrintedZero == Printed(0) = 0
<1>1. 2 * 0 * Unit + Milli = Milli
  BY Bounds
<1>2. Milli \div (2 * Milli) = 0
  BY Bounds
<1> QED BY <1>1, <1>2, Bounds DEF Printed

(* Printed boundaries keep the order of the frames. *)
LEMMA PrintedLess ==
  ASSUME NEW j \in Nat, NEW k \in Nat, j <= k
  PROVE  Printed(j) <= Printed(k) /\ Printed(j) \in Nat /\ Printed(k) \in Nat
<1> DEFINE x == j * Unit
           z == k * Unit
           p == Printed(j)
           q == Printed(k)
<1>1. CASE j = k
  BY <1>1, PrintedNear
<1>2. CASE j < k
  <2>1. x + Unit <= z
    BY <1>2, Times, Bounds
  <2>2. p \in Nat /\ x \in Nat /\ 2 * p <= 2 * x + Milli
    BY PrintedNear
  <2>3. q \in Nat /\ z \in Nat /\ 2 * z < 2 * q + Milli
    BY PrintedNear
  <2> HIDE DEF x, z, p, q
  <2>4. p <= q
    BY <2>1, <2>2, <2>3, Bounds
  <2> QED BY <2>2, <2>3, <2>4 DEF p, q
<1> QED BY <1>1, <1>2

-----------------------------------------------------------------------------
(* The loop of _btc_lab_lines *)

(* The padded frames fill one instance more than the frames do.            *)
LEMMA Padding ==
  ASSUME NEW n \in Nat
  PROVE  /\ NumPad(n) \in 1..Timestep
         /\ (n + NumPad(n)) \div Timestep - 1 = n \div Timestep
<1> DEFINE T == Timestep
           q == n \div T
           r == n % T
           c == (n + NumPad(n)) \div T
           e == (n + NumPad(n)) % T
<1>1. T \in Nat \ {0}
  BY Bounds
<1>2. q \in Nat /\ r \in 0..T - 1 /\ n = T * q + r
  BY <1>1, Division
<1>3. NumPad(n) = T - r
  BY DEF NumPad
<1>4. NumPad(n) \in 1..T
  BY <1>1, <1>2, <1>3
<1>5. c \in Nat /\ e \in 0..T - 1 /\ n + NumPad(n) = T * c + e
  <2>1. n + NumPad(n) \in Nat
    BY <1>1, <1>4
  <2> HIDE DEF T
  <2> QED BY <1>1, <2>1, Division
<1> DEFINE x == T * q
           y == T * c
<1>6. y + e = x + T
  <2>1. x \in Nat /\ y \in Nat
    BY <1>1, <1>2, <1>5
  <2> HIDE DEF x, y, q, r, c, e, T
  <2> QED BY <1>1, <1>2, <1>3, <1>4, <1>5, <2>1 DEF x, y
<1>7. c = q + 1
  <2>1. CASE c <= q
    <3>1. T * c <= T * q
      <4>3. T * c \in Int /\ c \in Int /\ q \in Int /\ T \in Int
        BY <1>1, <1>2, <1>5
      <4> HIDE DEF c, q, T
      <4>1. CASE c = q
        BY <4>1, <4>3
      <4>2. CASE c # q
        <5>1. c < q
          BY <2>1, <4>2, <4>3
        <5>2. c \in Int /\ q \in Int /\ T \in Nat
          BY <1>1, <1>2, <1>5
        <5> HIDE DEF c, q, T
        <5>3. c * T + T <= q * T
          BY <5>1, <5>2, Times
        <5> QED BY <1>1, <1>2, <1>5, <5>3
      <4> HIDE DEF c, q, T
      <4> QED BY <4>1, <4>2
    <3>2. y <= x /\ x \in Nat /\ y \in Nat
      BY <1>1, <1>2, <1>5, <3>1
    <3> HIDE DEF x, y, e, T
    <3> QED BY <1>1, <1>5, <1>6, <3>2
  <2>2. CASE c > q + 1
    <3>1. (q + 1) * T + T <= c * T
      <4>1. c \in Int /\ q + 1 \in Int /\ T \in Nat
        BY <1>1, <1>2, <1>5
      <4> HIDE DEF c, q, T
      <4> QED BY <2>2, <4>1, Times
    <3>2. x + T + T <= y /\ x \in Nat /\ y \in Nat
      <4> HIDE DEF c, q, T
      <4> QED BY <1>1, <1>2, <1>5, <3>1
    <3> HIDE DEF x, y, e, T
    <3> QED BY <1>1, <1>5, <1>6, <3>2
  <2> HIDE DEF c, q
  <2> QED BY <1>2, <1>5, <2>1, <2>2
<1> HIDE DEF c, q
<1> QED BY <1>2, <1>4, <1>7 DEF c, q

(* The loop's test for the last frame finds the first padded one.          *)
LEMMA LastFrameFound ==
  ASSUME NEW n \in Nat, NEW k \in Nat
  PROVE  IsLastFrame(n, n + NumPad(n), k) <=> k = n
<1> DEFINE T == Timestep
           q == n \div T
           r == n % T
           c == k \div T
           e == k % T
<1>1. T \in Nat \ {0}
  BY Bounds
<1>2. q \in Nat /\ r \in 0..T - 1 /\ n = T * q + r
  BY <1>1, Division
<1>3. c \in Nat /\ e \in 0..T - 1 /\ k = T * c + e
  BY <1>1, Division
<1>4. NumPad(n) = T - r
  BY DEF NumPad
<1>5. IsLastFrame(n, n + NumPad(n), k) <=> c = q /\ e + NumPad(n) = T
  BY Padding DEF IsLastFrame
<1>6. e + NumPad(n) = T <=> e = r
  <2> HIDE DEF T, e, r
  <2> QED BY <1>1, <1>2, <1>3, <1>4
<1>7. k = n => c = q /\ e = r
  OBVIOUS
<1>8. c = q /\ e = r => k = n
  <2> HIDE DEF T, c, q, e, r
  <2> QED BY <1>2, <1>3
<1> QED BY <1>5, <1>6, <1>7, <1>8

LabLine == {Line(a, b, label) : a \in Nat, b \in Nat, label \in BtcLabels}
LabState == [start : Nat, prev : BtcLabels, lines : Seq(LabLine), done : BOOLEAN]

(* The two changes of the loop's state, field by field. *)
LEMMA TurnedFields ==
  ASSUME NEW A, NEW B, NEW C, NEW D, NEW st \in [start : A, prev : B, lines : C, done : D],
         NEW a \in A, NEW b \in B, NEW c \in C
  PROVE  LET new == [st EXCEPT !.lines = c, !.start = a, !.prev = b]
         IN /\ new \in [start : A, prev : B, lines : C, done : D]
            /\ new.start = a /\ new.prev = b /\ new.lines = c /\ new.done = st.done
OBVIOUS

(* The same of the change at the last frame. *)
LEMMA ClosedFields ==
  ASSUME NEW A, NEW B, NEW C, NEW D, NEW st \in [start : A, prev : B, lines : C, done : D],
         NEW c \in C, NEW d \in D
  PROVE  LET new == [st EXCEPT !.done = d, !.lines = c]
         IN /\ new \in [start : A, prev : B, lines : C, done : D]
            /\ new.lines = c /\ new.done = d
OBVIOUS

(* A change of chord closes a line and opens the next. *)
LEMMA Turned ==
  ASSUME NEW st \in LabState, NEW k \in Nat, NEW label \in BtcLabels
  PROVE  LET new == Turn(st, k, label)
         IN /\ new \in LabState /\ new.start = k /\ new.prev = label /\ new.done = st.done
            /\ new.lines = Append(st.lines, Line(st.start, k, st.prev))
<1>1. st.start \in Nat /\ st.prev \in BtcLabels /\ st.lines \in Seq(LabLine)
  BY DEF LabState
<1>2. Line(st.start, k, st.prev) \in LabLine
  BY <1>1 DEF LabLine
<1> DEFINE ls == Append(st.lines, Line(st.start, k, st.prev))
           LS == Seq(LabLine)
<1>3. ls \in LS
  BY <1>1, <1>2, AppendProperties
<1>4. st \in [start : Nat, prev : BtcLabels, lines : LS, done : BOOLEAN]
  BY DEF LabState
<1> HIDE DEF ls, LS
<1> DEFINE new == [st EXCEPT !.lines = ls, !.start = k, !.prev = label]
<1>5. /\ new \in [start : Nat, prev : BtcLabels, lines : LS, done : BOOLEAN]
      /\ new.start = k /\ new.prev = label /\ new.lines = ls /\ new.done = st.done
  BY <1>3, <1>4, TurnedFields
<1> HIDE DEF new
<1>6. new \in LabState
  BY <1>5 DEF LabState, LS
<1>7. Turn(st, k, label) = new
  BY Zenon DEF Turn, new, ls
<1> QED BY <1>5, <1>6, <1>7, Zenon DEF ls

(* The last frame closes the line that is open, unless it has just been. *)
LEMMA Closed ==
  ASSUME NEW st \in LabState, NEW k \in Nat
  PROVE  /\ LastFrame(st, k) \in LabState
         /\ LastFrame(st, k).done = TRUE
         /\ LastFrame(st, k).lines =
              IF st.start # k THEN Append(st.lines, Line(st.start, k, st.prev)) ELSE st.lines
<1>1. st.start \in Nat /\ st.prev \in BtcLabels /\ st.lines \in Seq(LabLine)
  BY DEF LabState
<1>2. Line(st.start, k, st.prev) \in LabLine
  BY <1>1 DEF LabLine
<1> DEFINE ls == IF st.start # k THEN Append(st.lines, Line(st.start, k, st.prev)) ELSE st.lines
           LS == Seq(LabLine)
<1>3. ls \in LS
  BY <1>1, <1>2, AppendProperties
<1>4. st \in [start : Nat, prev : BtcLabels, lines : LS, done : BOOLEAN]
  BY DEF LabState
<1>5. LastFrame(st, k) = [st EXCEPT !.done = TRUE, !.lines = ls]
  BY Zenon DEF LastFrame
<1> HIDE DEF ls, LS
<1> DEFINE new == [st EXCEPT !.done = TRUE, !.lines = ls]
<1>6. /\ new \in [start : Nat, prev : BtcLabels, lines : LS, done : BOOLEAN]
      /\ new.lines = ls /\ new.done = TRUE
  <2>1. TRUE \in BOOLEAN
    OBVIOUS
  <2> QED BY <1>3, <1>4, <2>1, ClosedFields
<1> HIDE DEF new
<1>7. new \in LabState
  BY <1>6 DEF LabState, LS
<1>8. LastFrame(st, k) = new
  BY <1>5 DEF new
<1> QED BY <1>6, <1>7, <1>8, Zenon DEF ls

(* One prediction makes a state of the loop of a state of the loop. *)
LEMMA PredictType ==
  ASSUME NEW n \in Nat, NEW labels \in Seq(BtcLabels), NEW k \in 1..Len(labels) - 1,
         NEW st \in LabState
  PROVE  Predict(n, labels, st, k) \in LabState
<1> DEFINE turned == IF labels[k+1] = st.prev THEN st ELSE Turn(st, k, labels[k+1])
<1>1. k \in Nat /\ labels[k+1] \in BtcLabels
  OBVIOUS
<1>2. turned \in LabState
  BY <1>1, Turned
<1> HIDE DEF turned
<1>3. LastFrame(turned, k) \in LabState
  BY <1>1, <1>2, Closed
<1>4. Predict(n, labels, st, k) \in {st, turned, LastFrame(turned, k)}
  BY DEF Predict, turned
<1> QED BY <1>2, <1>3, <1>4

(* LabLines, unrolled: the state of the loop after each prediction. *)
LEMMA LabLoop ==
  ASSUME NEW n \in Nat, NEW labels \in Seq(BtcLabels), Len(labels) > 0
  PROVE  \E f : /\ f \in [0..Len(labels) - 1 -> LabState]
                /\ f[0] = [start |-> 0, prev |-> labels[1], lines |-> <<>>, done |-> FALSE]
                /\ \A k \in 1..Len(labels) - 1 : f[k] = Predict(n, labels, f[k - 1], k)
                /\ LabLines(n, labels) = f[Len(labels) - 1].lines
<1> DEFINE m == Len(labels) - 1
           base == [start |-> 0, prev |-> labels[1], lines |-> <<>>, done |-> FALSE]
           T == [k \in 1..m |-> [v \in LabState |-> Predict(n, labels, v, k)]]
           Eq(g) == [k \in 0..m |-> IF k = 0 THEN base ELSE Predict(n, labels, g[k - 1], k)]
           f == CHOOSE g : g = Eq(g)
<1>1. m \in Nat
  OBVIOUS
<1>2. T \in [1..m -> [LabState -> LabState]]
  BY PredictType
<1>3. base \in LabState
  <2>1. labels[1] \in BtcLabels /\ <<>> \in Seq(LabLine)
    OBVIOUS
  <2> QED BY <2>1 DEF LabState
<1> HIDE DEF base
<1>4. PICK g : Computes(g, m, LabState, base, T)
  <2> HIDE DEF T, m
  <2> QED BY <1>1, <1>2, <1>3, Recursion
<1>5. g \in [0..m -> LabState] /\ g[0] = base /\ \A k \in 1..m : g[k] = T[k][g[k - 1]]
  <2> HIDE DEF T, m
  <2> QED BY <1>4 DEF Computes
<1>6. ASSUME NEW k \in 1..m PROVE g[k] = Predict(n, labels, g[k - 1], k)
  <2>1. k - 1 \in 0..m /\ g[k] = T[k][g[k - 1]]
    <3> HIDE DEF T, m
    <3> QED BY <1>1, <1>5
  <2>2. g[k - 1] \in LabState
    BY <1>5, <2>1
  <2> QED BY <2>1, <2>2
<1>7. g = Eq(g)
  <2> HIDE DEF m, T
  <2> QED BY <1>1, <1>5, <1>6
<1>8. f = Eq(f)
  <2> HIDE DEF Eq
  <2> QED BY <1>7
<1>9. f[0] = base /\ \A k \in 1..m : f[k] = Predict(n, labels, f[k - 1], k)
  <2> HIDE DEF f, m
  <2>1. f[0] = base
    BY <1>1, <1>8
  <2>2. ASSUME NEW k \in 1..m PROVE f[k] = Predict(n, labels, f[k - 1], k)
    <3>1. k \in 0..m /\ k # 0
      BY <1>1
    <3>2. Eq(f)[k] = Predict(n, labels, f[k - 1], k)
      BY <3>1
    <3> HIDE DEF Eq
    <3> QED BY <1>8, <3>2
  <2> QED BY <2>1, <2>2
<1>10. \A k \in 0..m : f[k] \in LabState
  <2>1. \A k \in 1..m : f[k - 1] \in LabState => f[k] \in LabState
    <3> HIDE DEF f
    <3> QED BY <1>9, PredictType
  <2> HIDE DEF f, m
  <2>2. f[0] \in LabState
    BY <1>3, <1>9
  <2> QED BY <1>1, <2>1, <2>2, Kept
<1>11. f \in [0..m -> LabState]
  <2> HIDE DEF f, m
  <2> QED BY <1>8, <1>10
<1>12. LabLines(n, labels) = f[m].lines
  BY DEF LabLines, base
<1> HIDE DEF f, T
<1> QED BY <1>9, <1>11, <1>12 DEF base

(* The loop after k + 1 predictions: the runs of the frames so far, the    *)
(* last of them still open.                                                *)
Coded(st, labels, runs, k) ==
  LET open == Len(runs)
  IN /\ st \in LabState /\ st.done = FALSE
     /\ st.prev = labels[k + 1] /\ st.start = runs[open].from - 1
     /\ Len(st.lines) = open - 1
     /\ \A j \in 1..open - 1 :
          st.lines[j] = Line(runs[j].from - 1, runs[j].to, labels[runs[j].from])

(* The first prediction opens the first line. *)
LEMMA CodedFirst ==
  ASSUME NEW labels \in Seq(BtcLabels), Len(labels) > 0, NEW s, NEW st,
         st = [start |-> 0, prev |-> labels[1], lines |-> <<>>, done |-> FALSE]
  PROVE  Coded(st, labels, Grown(<<>>, s, 1), 0)
<1> DEFINE one == <<[from |-> 1, to |-> 1]>>
<1>1. Grown(<<>>, s, 1) = one
  BY DEF Grown
<1>2. Len(one) = 1 /\ one[1].from = 1
  OBVIOUS
<1> HIDE DEF one
<1>3. labels[1] \in BtcLabels /\ <<>> \in Seq(LabLine) /\ Len(<<>>) = 0
  OBVIOUS
<1>4. st.start = 0 /\ st.prev = labels[1] /\ st.lines = <<>> /\ st.done = FALSE
  OBVIOUS
<1>5. st \in LabState
  BY <1>3 DEF LabState
<1>6. \A j \in 1..Len(one) - 1 : FALSE
  BY <1>2
<1>7. labels[0 + 1] = labels[1]
  OBVIOUS
<1>8. Coded(st, labels, one, 0)
  BY <1>2, <1>3, <1>4, <1>5, <1>6, <1>7 DEF Coded
<1> QED BY <1>1, <1>8

(* A frame of the audio after the first. *)
LEMMA CodedNext ==
  ASSUME NEW n \in Nat, NEW labels \in Seq(BtcLabels), Len(labels) = n + NumPad(n),
         NEW s, \A i \in 1..n : s[i] = labels[i],
         NEW k \in 1..n - 1, NEW runs, Cut(s, k, runs), NEW st, Coded(st, labels, runs, k - 1)
  PROVE  Coded(Predict(n, labels, st, k), labels, Grown(runs, s, k + 1), k)
<1> DEFINE open == Len(runs)
           new == Predict(n, labels, st, k)
           grown == Grown(runs, s, k + 1)
<1>1. /\ runs \in Seq(Run) /\ open \in Nat /\ open # 0 /\ open \in 1..open /\ runs # <<>>
      /\ runs[open].to = k /\ runs[open].from \in 1..k
      /\ \A i \in runs[open].from..k : s[i] = s[runs[open].from]
      /\ \A j \in 1..open : runs[j].from \in 1..k
  BY DEF Cut
<1>2. (k - 1) + 1 = k /\ (k + 1) - 1 = k /\ k \in 1..n /\ k + 1 \in 1..n /\ k \in Nat /\ k # n
      /\ k + 1 \in Nat
  OBVIOUS
<1>3. /\ st \in LabState /\ st.done = FALSE
      /\ st.prev = labels[k] /\ st.start = runs[open].from - 1
      /\ Len(st.lines) = open - 1
      /\ \A j \in 1..open - 1 :
           st.lines[j] = Line(runs[j].from - 1, runs[j].to, labels[runs[j].from])
  BY <1>2 DEF Coded
<1>4. ~IsLastFrame(n, Len(labels), k)
  BY <1>2, LastFrameFound
<1>5. labels[k + 1] \in BtcLabels
  <2>1. k + 1 \in 1..Len(labels)
    BY <1>2, Padding
  <2> QED BY <2>1
<1>6. s[k] = labels[k] /\ s[k + 1] = labels[k + 1]
  BY <1>2
<1>7. CASE labels[k + 1] = labels[k]
  <2>1. new = st
    BY <1>3, <1>4, <1>7, Zenon DEF Predict
  <2>2. grown = [runs EXCEPT ![open].to = k + 1]
    BY <1>1, <1>2, <1>6, <1>7 DEF Grown
  <2>3. /\ Len(grown) = open
        /\ \A j \in 1..open - 1 : grown[j] = runs[j]
        /\ grown[open].from = runs[open].from
    <3> HIDE DEF grown
    <3> QED BY <1>1, <1>2, <2>2, LastGrown
  <2> HIDE DEF grown, new, open
  <2>4. Coded(st, labels, grown, k)
    BY <1>3, <1>7, <2>3 DEF Coded
  <2> QED BY <2>1, <2>4 DEF grown, new
<1>8. CASE labels[k + 1] # labels[k]
  <2> DEFINE turned == Turn(st, k, labels[k + 1])
             r == [from |-> k + 1, to |-> k + 1]
  <2>1. new = turned
    BY <1>3, <1>4, <1>8, Zenon DEF Predict
  <2>2. /\ turned \in LabState /\ turned.start = k /\ turned.prev = labels[k + 1]
        /\ turned.done = st.done
        /\ turned.lines = Append(st.lines, Line(st.start, k, st.prev))
    <3> DEFINE l == labels[k + 1]
    <3>1. st \in LabState /\ k \in Nat /\ l \in BtcLabels
      BY <1>2, <1>3, <1>5
    <3> HIDE DEF l
    <3>2. LET t == Turn(st, k, l)
          IN /\ t \in LabState /\ t.start = k /\ t.prev = l /\ t.done = st.done
             /\ t.lines = Append(st.lines, Line(st.start, k, st.prev))
      BY <3>1, Turned
    <3> QED BY <3>2 DEF l
  <2>3. grown = Append(runs, r) /\ r \in Run /\ r.from = k + 1
    BY <1>1, <1>2, <1>6, <1>8 DEF Grown, Run
  <2> HIDE DEF turned, r
  <2>4. /\ Len(grown) = open + 1
        /\ \A j \in 1..open : grown[j] = runs[j]
        /\ grown[open + 1] = r
    <3> HIDE DEF grown
    <3> QED BY <1>1, <2>3, AppendProperties
  <2> DEFINE last == Line(st.start, k, st.prev)
             ls == Append(st.lines, last)
  <2>5. last \in LabLine /\ st.lines \in Seq(LabLine)
    <3>1. st.start \in Nat /\ st.prev \in BtcLabels /\ st.lines \in Seq(LabLine)
      BY <1>3 DEF LabState
    <3> QED BY <1>2, <3>1 DEF LabLine
  <2>6. last = Line(runs[open].from - 1, runs[open].to, labels[runs[open].from])
    <3>1. s[k] = s[runs[open].from]
      BY <1>1, <1>2
    <3>2. s[runs[open].from] = labels[runs[open].from]
      BY <1>1, <1>2
    <3> QED BY <1>1, <1>3, <1>6, <3>1, <3>2
  <2> HIDE DEF last
  <2>7. /\ Len(ls) = open
        /\ \A j \in 1..open - 1 : ls[j] = st.lines[j]
        /\ ls[open] = last
    <3> HIDE DEF open, ls
    <3>1. /\ Len(ls) = Len(st.lines) + 1
          /\ \A j \in 1..Len(st.lines) : ls[j] = st.lines[j]
          /\ ls[Len(st.lines) + 1] = last
      BY <2>5, AppendProperties DEF ls
    <3>2. (open - 1) + 1 = open
      BY <1>1
    <3> QED BY <1>3, <3>1, <3>2
  <2>8. turned.lines = ls
    BY <2>2 DEF last
  <2> HIDE DEF ls, open, grown, new
  <2>9. ASSUME NEW j \in 1..open
        PROVE  turned.lines[j] = Line(grown[j].from - 1, grown[j].to, labels[grown[j].from])
    <3>1. grown[j] = runs[j]
      BY <2>4
    <3>2. CASE j = open
      BY <2>6, <2>7, <2>8, <3>1, <3>2
    <3>3. CASE j # open
      <4>1. j \in 1..open - 1
        BY <1>1, <3>3
      <4> QED BY <1>3, <2>7, <2>8, <3>1, <4>1
    <3> QED BY <3>2, <3>3
  <2>10. /\ (open + 1) - 1 = open /\ Len(turned.lines) = open
         /\ turned.start = grown[open + 1].from - 1
    BY <1>1, <1>2, <2>2, <2>3, <2>4, <2>7, <2>8
  <2>11. turned.done = FALSE
    BY <1>3, <2>2
  <2>12. Coded(turned, labels, grown, k)
    BY <2>2, <2>4, <2>9, <2>10, <2>11 DEF Coded
  <2> QED BY <2>1, <2>12 DEF grown, new
<1> QED BY <1>7, <1>8

(* The frame after the audio: every run has its line, and that is all.     *)
Finished(st, labels, runs) ==
  /\ st \in LabState /\ st.done = TRUE
  /\ Len(st.lines) = Len(runs)
  /\ \A j \in 1..Len(runs) :
       st.lines[j] = Line(runs[j].from - 1, runs[j].to, labels[runs[j].from])

(* The first padded frame closes the last line, whatever its label. *)
LEMMA CodedLast ==
  ASSUME NEW n \in Nat \ {0}, NEW labels \in Seq(BtcLabels), Len(labels) = n + NumPad(n),
         NEW s, \A i \in 1..n : s[i] = labels[i],
         NEW runs, Cut(s, n, runs), NEW st, Coded(st, labels, runs, n - 1)
  PROVE  Finished(Predict(n, labels, st, n), labels, runs)
<1> DEFINE open == Len(runs)
           new == Predict(n, labels, st, n)
<1>1. /\ open \in Nat /\ open # 0 /\ open \in 1..open
      /\ runs[open].to = n /\ runs[open].from \in 1..n
      /\ \A i \in runs[open].from..n : s[i] = s[runs[open].from]
  BY DEF Cut
<1>2. (n - 1) + 1 = n /\ n \in 1..n /\ n \in Nat
  OBVIOUS
<1>3. /\ st \in LabState /\ st.done = FALSE
      /\ st.prev = labels[n] /\ st.start = runs[open].from - 1
      /\ Len(st.lines) = open - 1
      /\ \A j \in 1..open - 1 :
           st.lines[j] = Line(runs[j].from - 1, runs[j].to, labels[runs[j].from])
  BY <1>2 DEF Coded
<1>4. IsLastFrame(n, Len(labels), n)
  BY <1>2, LastFrameFound
<1>5. labels[n + 1] \in BtcLabels
  <2>1. n + 1 \in 1..Len(labels)
    BY <1>2, Padding
  <2> QED BY <2>1
<1> DEFINE last == Line(st.start, n, st.prev)
           ls == Append(st.lines, last)
<1>6. last \in LabLine /\ st.lines \in Seq(LabLine) /\ st.start # n
  <2>1. st.start \in Nat /\ st.prev \in BtcLabels /\ st.lines \in Seq(LabLine)
    BY <1>3 DEF LabState
  <2>2. st.start # n
    BY <1>1, <1>3
  <2> QED BY <1>2, <2>1, <2>2 DEF LabLine
<1>7. last = Line(runs[open].from - 1, runs[open].to, labels[runs[open].from])
  <2>1. s[n] = s[runs[open].from] /\ s[n] = labels[n]
    BY <1>1, <1>2
  <2>2. s[runs[open].from] = labels[runs[open].from]
    BY <1>1
  <2> QED BY <1>1, <1>3, <2>1, <2>2
<1>8. new \in LabState /\ new.done = TRUE /\ new.lines = ls
  <2>1. CASE labels[n + 1] = labels[n]
    <3>1. new = LastFrame(st, n)
      BY <1>3, <1>4, <2>1, Zenon DEF Predict
    <3> HIDE DEF new, last
    <3> QED BY <1>2, <1>3, <1>6, <3>1, Closed DEF last
  <2>2. CASE labels[n + 1] # labels[n]
    <3> DEFINE turned == Turn(st, n, labels[n + 1])
    <3>1. new = LastFrame(turned, n)
      BY <1>3, <1>4, <2>2, Zenon DEF Predict
    <3>2. turned \in LabState /\ turned.start = n /\ turned.lines = ls
      <4> DEFINE l == labels[n + 1]
      <4>1. st \in LabState /\ n \in Nat /\ l \in BtcLabels
        BY <1>2, <1>3, <1>5
      <4> HIDE DEF l
      <4>2. LET t == Turn(st, n, l)
            IN t \in LabState /\ t.start = n /\ t.lines = Append(st.lines, Line(st.start, n, st.prev))
        BY <4>1, Turned
      <4> QED BY <4>2 DEF l
    <3> HIDE DEF new, turned, ls
    <3> QED BY <1>2, <3>1, <3>2, Closed
  <2> QED BY <2>1, <2>2
<1> HIDE DEF last, new
<1>9. /\ Len(ls) = open
      /\ \A j \in 1..open - 1 : ls[j] = st.lines[j]
      /\ ls[open] = last
  <2> HIDE DEF open, ls
  <2>1. /\ Len(ls) = Len(st.lines) + 1
        /\ \A j \in 1..Len(st.lines) : ls[j] = st.lines[j]
        /\ ls[Len(st.lines) + 1] = last
    BY <1>6, AppendProperties DEF ls
  <2>2. (open - 1) + 1 = open
    BY <1>1
  <2> QED BY <1>3, <2>1, <2>2
<1> HIDE DEF ls, open
<1>10. ASSUME NEW j \in 1..open
       PROVE  new.lines[j] = Line(runs[j].from - 1, runs[j].to, labels[runs[j].from])
  <2>1. CASE j = open
    BY <1>7, <1>8, <1>9, <2>1
  <2>2. CASE j # open
    <3>1. j \in 1..open - 1
      BY <1>1, <2>2
    <3> QED BY <1>3, <1>8, <1>9, <3>1
  <2> QED BY <2>1, <2>2
<1> QED BY <1>8, <1>9, <1>10 DEF Finished, new, open

(* The rest of the padding changes nothing. *)
LEMMA FinishedKept ==
  ASSUME NEW n, NEW labels, NEW k, NEW st, st.done = TRUE
  PROVE  Predict(n, labels, st, k) = st
BY Zenon DEF Predict

(* The lines are the run-length code of the frames of the audio.           *)
LEMMA LabLinesCode ==
  ASSUME NEW n \in Nat \ {0}, NEW labels \in [1..(n + NumPad(n)) -> BtcLabels]
  PROVE  LET audio == SubSeq(labels, 1, n)
             runs == RunsOf(audio)
             code == LabLines(n, labels)
         IN /\ \A i \in 1..n : audio[i] = labels[i]
            /\ Cut(audio, n, runs)
            /\ code \in Seq(LabLine) /\ Len(code) = Len(runs)
            /\ \A j \in 1..Len(runs) :
                 code[j] = Line(runs[j].from - 1, runs[j].to, audio[runs[j].from])
<1> DEFINE audio == SubSeq(labels, 1, n)
           runs == RunsOf(audio)
           code == LabLines(n, labels)
           last == n + NumPad(n) - 1
<1>1. /\ NumPad(n) \in Nat /\ NumPad(n) > 0 /\ last \in Nat /\ n <= last
  <2>1. NumPad(n) \in 1..Timestep /\ Timestep \in Nat
    BY Padding, Bounds
  <2> QED BY <2>1
<1>2. labels \in Seq(BtcLabels) /\ Len(labels) = n + NumPad(n) /\ Len(labels) > 0
      /\ Len(labels) - 1 = last
  BY <1>1
<1>3. audio \in Seq(BtcLabels) /\ Len(audio) = n /\ \A i \in 1..n : audio[i] = labels[i]
  <2>1. 1 \in 1..Len(labels) + 1 /\ n \in 0..Len(labels) /\ 1 <= n
    BY <1>1, <1>2
  <2> QED BY <1>2, <2>1, SubSeqProperties
<1> HIDE DEF audio
<1>4. audio # <<>>
  BY <1>3
<1>5. PICK g : /\ g[0] = <<>> /\ \A k \in 1..n : g[k] = Grown(g[k - 1], audio, k)
               /\ runs = g[n]
  BY <1>3, RunsLoop
<1>6. \A k \in 1..n : Cut(audio, k, g[k])
  BY <1>5, CutUpTo
<1> HIDE DEF runs, code, last
<1>7. PICK f : /\ f \in [0..last -> LabState]
               /\ f[0] = [start |-> 0, prev |-> labels[1], lines |-> <<>>, done |-> FALSE]
               /\ \A k \in 1..last : f[k] = Predict(n, labels, f[k - 1], k)
               /\ code = f[last].lines
  BY <1>2, LabLoop DEF code
<1> DEFINE S == {k \in Nat : k < n => Coded(f[k], labels, g[k + 1], k)}
<1>8. 0 \in S
  <2>1. g[0 + 1] = Grown(<<>>, audio, 1)
    <3>1. 1 \in 1..n /\ 1 - 1 = 0 /\ 0 + 1 = 1
      OBVIOUS
    <3> QED BY <1>5, <3>1
  <2>2. Coded(f[0], labels, Grown(<<>>, audio, 1), 0)
    BY <1>2, <1>7, CodedFirst
  <2> QED BY <2>1, <2>2
<1>9. ASSUME NEW k \in Nat, k < n - 1, k \in S PROVE k + 1 \in S
  <2>1. /\ k + 1 \in 1..n - 1 /\ k + 1 \in 1..n /\ k + 1 \in 1..last /\ (k + 1) - 1 = k
        /\ (k + 1) + 1 \in 1..n /\ ((k + 1) + 1) - 1 = k + 1
    BY <1>1, <1>9
  <2>2. Coded(f[k], labels, g[k + 1], k)
    BY <1>9
  <2>3. f[k + 1] = Predict(n, labels, f[k], k + 1)
    BY <1>7, <2>1
  <2>4. g[(k + 1) + 1] = Grown(g[k + 1], audio, (k + 1) + 1)
    BY <1>5, <2>1
  <2>5. Cut(audio, k + 1, g[k + 1])
    BY <1>6, <2>1
  <2> DEFINE a == f[k]
             r == g[k + 1]
             q == k + 1
  <2>6. q \in 1..n - 1 /\ Cut(audio, q, r) /\ Coded(a, labels, r, q - 1)
    BY <2>1, <2>2, <2>5
  <2> HIDE DEF a, r, q
  <2>7. Coded(Predict(n, labels, a, q), labels, Grown(r, audio, q + 1), q)
    BY <1>2, <1>3, <2>6, CodedNext
  <2>8. Coded(f[k + 1], labels, g[(k + 1) + 1], k + 1)
    BY <2>3, <2>4, <2>7 DEF a, r, q
  <2> QED BY <2>8
<1>10. \A k \in Nat : k < n - 1 /\ k \in S => k + 1 \in S
  BY <1>9
<1>11. Coded(f[n - 1], labels, runs, n - 1)
  <2>1. \A k \in 0..n - 1 : k \in S
    <3> HIDE DEF S
    <3>1. n - 1 \in Nat
      OBVIOUS
    <3> QED BY <1>8, <1>10, <3>1, Inductive
  <2>2. n - 1 \in 0..n - 1 /\ n - 1 < n /\ (n - 1) + 1 = n
    OBVIOUS
  <2> QED BY <1>5, <2>1, <2>2
<1> HIDE DEF S
<1>12. Cut(audio, n, runs)
  BY <1>5, <1>6
<1>13. Finished(f[n], labels, runs)
  <2>1. f[n] = Predict(n, labels, f[n - 1], n)
    BY <1>1, <1>7
  <2> QED BY <1>2, <1>3, <1>11, <1>12, <2>1, CodedLast
<1> DEFINE D == {j \in Nat : n + j <= last => Finished(f[n + j], labels, runs)}
<1>14. 0 \in D
  BY <1>13
<1>15. ASSUME NEW j \in Nat, j < last - n, j \in D PROVE j + 1 \in D
  <2>1. /\ n + (j + 1) \in 1..last /\ (n + (j + 1)) - 1 = n + j /\ n + j <= last
    BY <1>1, <1>15
  <2>2. f[n + (j + 1)] = Predict(n, labels, f[n + j], n + (j + 1))
    BY <1>7, <2>1
  <2>3. Finished(f[n + j], labels, runs)
    BY <1>15, <2>1
  <2>4. f[n + j].done = TRUE
    BY <2>3 DEF Finished
  <2>5. f[n + (j + 1)] = f[n + j]
    BY <2>2, <2>4, FinishedKept
  <2> QED BY <2>3, <2>5
<1>16. \A j \in Nat : j < last - n /\ j \in D => j + 1 \in D
  BY <1>15
<1>17. Finished(f[last], labels, runs)
  <2>1. last - n \in Nat
    BY <1>1
  <2>2. \A j \in 0..last - n : j \in D
    <3> HIDE DEF D
    <3> QED BY <1>14, <1>16, <2>1, Inductive
  <2>3. last - n \in 0..last - n /\ n + (last - n) = last
    BY <1>1, <2>1
  <2> QED BY <1>1, <2>2, <2>3
<1>18. code \in Seq(LabLine) /\ Len(code) = Len(runs)
       /\ \A j \in 1..Len(runs) :
            code[j] = Line(runs[j].from - 1, runs[j].to, labels[runs[j].from])
  BY <1>7, <1>17 DEF Finished, LabState
<1>19. \A j \in 1..Len(runs) : audio[runs[j].from] = labels[runs[j].from]
  <2>1. \A j \in 1..Len(runs) : runs[j].from \in 1..n
    BY <1>12 DEF Cut
  <2> QED BY <1>3, <2>1
<1> QED BY <1>3, <1>12, <1>18, <1>19 DEF audio, runs, code

(* What LinesAreTheAudio says of one track.                                *)
LEMMA LabLinesAudio ==
  ASSUME NEW n \in Nat \ {0}, NEW labels \in [1..(n + NumPad(n)) -> BtcLabels]
  PROVE  LET audio == SubSeq(labels, 1, n)
             runs == RunsOf(audio)
         IN LabLines(n, labels)
              = [i \in DOMAIN runs |-> Line(runs[i].from - 1, runs[i].to, audio[runs[i].from])]
<1> DEFINE audio == SubSeq(labels, 1, n)
           runs == RunsOf(audio)
           code == LabLines(n, labels)
<1>1. /\ Cut(audio, n, runs) /\ code \in Seq(LabLine) /\ Len(code) = Len(runs)
      /\ \A j \in 1..Len(runs) :
           code[j] = Line(runs[j].from - 1, runs[j].to, audio[runs[j].from])
  BY LabLinesCode
<1> HIDE DEF runs, audio, code
<1>2. runs \in Seq(Run)
  BY <1>1 DEF Cut
<1>3. DOMAIN code = 1..Len(runs) /\ DOMAIN runs = 1..Len(runs)
      /\ code = [i \in DOMAIN code |-> code[i]]
  BY <1>1, <1>2
<1>4. code = [i \in DOMAIN runs |-> Line(runs[i].from - 1, runs[i].to, audio[runs[i].from])]
  BY <1>1, <1>3
<1> QED BY <1>4 DEF runs, audio, code

-----------------------------------------------------------------------------
(* _gap_free *)

(* The lines of a .lab file follow each other from 0, more than a          *)
(* tolerance long each.                                                    *)
Ruled(ls) ==
  /\ ls \in Seq(LabLine) /\ Len(ls) > 0 /\ ls[1].start = 0
  /\ \A i \in 1..Len(ls) :
       /\ ls[i].start \in Nat /\ ls[i].end \in Nat /\ ls[i].label \in Heardable
       /\ ls[i].start + Eps < ls[i].end
  /\ \A i \in 2..Len(ls) : ls[i].start = ls[i - 1].end

(* The lines that _btc_lab_lines writes are ruled. *)
LEMMA LabLinesRuled ==
  ASSUME NEW n \in Nat \ {0}, NEW labels \in [1..(n + NumPad(n)) -> BtcLabels]
  PROVE  Ruled(LabLines(n, labels))
<1> DEFINE audio == SubSeq(labels, 1, n)
           runs == RunsOf(audio)
           code == LabLines(n, labels)
           m == Len(runs)
<1>1. /\ Cut(audio, n, runs) /\ code \in Seq(LabLine) /\ Len(code) = m
      /\ \A j \in 1..m :
           code[j] = Line(runs[j].from - 1, runs[j].to, audio[runs[j].from])
  BY LabLinesCode
<1> HIDE DEF runs, audio, code
<1>2. /\ m \in Nat /\ m > 0 /\ runs[1].from = 1
      /\ \A j \in 1..m : runs[j].from \in 1..n /\ runs[j].to \in runs[j].from..n
      /\ \A j \in 2..m : runs[j].from = runs[j - 1].to + 1
  BY <1>1 DEF Cut
<1> HIDE DEF m
<1>3. ASSUME NEW j \in 1..m
      PROVE  /\ code[j].start = Printed(runs[j].from - 1) /\ code[j].end = Printed(runs[j].to)
             /\ code[j].start \in Nat /\ code[j].end \in Nat
             /\ code[j].start + Eps < code[j].end /\ code[j].label \in Heardable
  <2>1. code[j].start = Printed(runs[j].from - 1) /\ code[j].end = Printed(runs[j].to)
    BY <1>1 DEF Line
  <2>2. /\ runs[j].from - 1 \in Nat /\ runs[j].from \in Nat /\ runs[j].to \in Nat
        /\ (runs[j].from - 1) + 1 = runs[j].from /\ runs[j].from <= runs[j].to
    BY <1>2
  <2>3. Printed(runs[j].from - 1) + Eps < Printed(runs[j].from)
        /\ Printed(runs[j].from - 1) \in Nat
    BY <2>2, PrintedOrder
  <2>4. Printed(runs[j].from) <= Printed(runs[j].to) /\ Printed(runs[j].from) \in Nat
        /\ Printed(runs[j].to) \in Nat
    BY <2>2, PrintedLess
  <2>5. code[j].label \in Heardable
    <3>1. code[j] \in LabLine
      BY <1>1 DEF m
    <3> QED BY <3>1 DEF LabLine, Line, Heardable, Labels
  <2>6. Printed(runs[j].from - 1) + Eps < Printed(runs[j].to)
    BY <2>3, <2>4, Bounds
  <2> QED BY <2>1, <2>3, <2>4, <2>5, <2>6
<1>4. code[1].start = 0
  <2>1. 1 \in 1..m /\ runs[1].from - 1 = 0
    BY <1>2
  <2> QED BY <1>3, <2>1, PrintedZero
<1>5. ASSUME NEW j \in 2..m PROVE code[j].start = code[j - 1].end
  <2>1. j \in 1..m /\ j - 1 \in 1..m
    BY <1>2
  <2>2. runs[j].from - 1 = runs[j - 1].to
    <3>1. runs[j].from = runs[j - 1].to + 1 /\ runs[j - 1].to \in Int
      BY <1>2, <2>1
    <3> QED BY <3>1
  <2> QED BY <1>3, <2>1, <2>2
<1>6. Ruled(code)
  BY <1>1, <1>2, <1>3, <1>4, <1>5 DEF Ruled
<1> QED BY <1>6 DEF code

StitchState == [cursor : Int, out : Seq(Chord)]

(* What min and max are. *)
LEMMA MinMax ==
  ASSUME NEW a \in Int, NEW b \in Int
  PROVE  /\ Lesser(a, b) \in Int /\ Lesser(a, b) <= a /\ Lesser(a, b) <= b
         /\ Lesser(a, b) \in {a, b}
         /\ Greater(a, b) \in Int /\ a <= Greater(a, b) /\ b <= Greater(a, b)
         /\ Greater(a, b) \in {a, b}
BY DEF Lesser, Greater

(* One line makes a state of the loop of a state of the loop. *)
LEMMA StitchType ==
  ASSUME NEW d \in Int, NEW st \in StitchState, NEW line,
         line.start \in Int, line.end \in Int, line.label \in Heardable
  PROVE  Stitch(d, st, line) \in StitchState
<1> DEFINE e == Lesser(d, line.end)
           s == Greater(line.start, st.cursor)
           gap == IF s - st.cursor > Eps THEN <<Seg(st.cursor, s, "N")>> ELSE <<>>
           seg == Seg(s, e, line.label)
           all == st.out \o gap \o <<seg>>
<1>1. st.cursor \in Int /\ st.out \in Seq(Chord)
  BY DEF StitchState
<1>2. e \in Int /\ s \in Int
  BY <1>1, MinMax
<1> HIDE DEF e, s
<1>3. "N" \in Heardable
  BY DEF Heardable
<1>4. seg \in Chord /\ Seg(st.cursor, s, "N") \in Chord
  BY <1>1, <1>2, <1>3, SegChord
<1>5. gap \in Seq(Chord)
  BY <1>4
<1> HIDE DEF gap, seg
<1>6. all \in Seq(Chord)
  BY <1>1, <1>4, <1>5
<1>7. Stitch(d, st, line) \in {st, [cursor |-> e, out |-> all]}
  BY DEF Stitch, e, s, gap, seg
<1> HIDE DEF all
<1>8. [cursor |-> e, out |-> all] \in StitchState
  BY <1>2, <1>6 DEF StitchState
<1> QED BY <1>7, <1>8

(* GapFree, unrolled: the state of the loop after each line. *)
LEMMA StitchLoop ==
  ASSUME NEW d \in Int, NEW ls, Ruled(ls)
  PROVE  \E f : /\ f \in [0..Len(ls) -> StitchState]
                /\ f[0] = [cursor |-> 0, out |-> <<>>]
                /\ \A k \in 1..Len(ls) : f[k] = Stitch(d, f[k - 1], ls[k])
                /\ GapFree(ls, d) = Covering(f[Len(ls)], d)
<1> DEFINE m == Len(ls)
           base == [cursor |-> 0, out |-> <<>>]
           T == [k \in 1..m |-> [v \in StitchState |-> Stitch(d, v, ls[k])]]
           Eq(g) == [k \in 0..m |-> IF k = 0 THEN base ELSE Stitch(d, g[k - 1], ls[k])]
           f == CHOOSE g : g = Eq(g)
<1>1. m \in Nat /\ \A k \in 1..m : ls[k].start \in Int /\ ls[k].end \in Int /\ ls[k].label \in Heardable
  BY LenProperties DEF Ruled
<1>2. \A k \in 1..m, v \in StitchState : Stitch(d, v, ls[k]) \in StitchState
  <2> HIDE DEF m
  <2> QED BY <1>1, StitchType
<1>3. T \in [1..m -> [StitchState -> StitchState]]
  <2> HIDE DEF m
  <2> QED BY <1>2
<1>4. base \in StitchState
  BY DEF StitchState
<1> HIDE DEF base
<1>5. PICK g : Computes(g, m, StitchState, base, T)
  <2> HIDE DEF T, m
  <2> QED BY <1>1, <1>3, <1>4, Recursion
<1>6. g \in [0..m -> StitchState] /\ g[0] = base /\ \A k \in 1..m : g[k] = T[k][g[k - 1]]
  <2> HIDE DEF T, m
  <2> QED BY <1>5 DEF Computes
<1>7. ASSUME NEW k \in 1..m PROVE g[k] = Stitch(d, g[k - 1], ls[k])
  <2>1. k - 1 \in 0..m /\ g[k] = T[k][g[k - 1]]
    <3> HIDE DEF T, m
    <3> QED BY <1>1, <1>6
  <2>2. g[k - 1] \in StitchState
    BY <1>6, <2>1
  <2> QED BY <2>1, <2>2
<1>8. g = Eq(g)
  <2> HIDE DEF m, T
  <2> QED BY <1>1, <1>6, <1>7
<1>9. f = Eq(f)
  <2> HIDE DEF Eq
  <2> QED BY <1>8
<1>10. f[0] = base /\ \A k \in 1..m : f[k] = Stitch(d, f[k - 1], ls[k])
  <2> HIDE DEF f, m
  <2>1. f[0] = base
    BY <1>1, <1>9
  <2>2. ASSUME NEW k \in 1..m PROVE f[k] = Stitch(d, f[k - 1], ls[k])
    <3>1. k \in 0..m /\ k # 0
      BY <1>1
    <3>2. Eq(f)[k] = Stitch(d, f[k - 1], ls[k])
      BY <3>1
    <3> HIDE DEF Eq
    <3> QED BY <1>9, <3>2
  <2> QED BY <2>1, <2>2
<1>11. \A k \in 0..m : f[k] \in StitchState
  <2> HIDE DEF f, m
  <2>1. \A k \in 1..m : f[k - 1] \in StitchState => f[k] \in StitchState
    BY <1>2, <1>10
  <2>2. f[0] \in StitchState
    BY <1>4, <1>10
  <2> QED BY <1>1, <2>1, <2>2, Kept
<1>12. f \in [0..m -> StitchState]
  <2> HIDE DEF f, m
  <2> QED BY <1>9, <1>11
<1>13. GapFree(ls, d) = Covering(f[m], d)
  BY DEF GapFree, base
<1> HIDE DEF f, T
<1> QED BY <1>10, <1>12, <1>13 DEF base

(* A chord that begins where the others end continues them. *)
LEMMA TilesAppend ==
  ASSUME NEW out \in Seq(Chord), NEW c \in Int, NEW seg \in Chord,
         out = <<>> => c = 0, out # <<>> => Tiles(out, 0, c), seg.start = c, c < seg.end
  PROVE  Tiles(Append(out, seg), 0, seg.end)
<1> DEFINE n == Len(out)
           new == Append(out, seg)
<1>1. /\ new \in Seq(Chord) /\ Len(new) = n + 1
      /\ \A j \in 1..n : new[j] = out[j]
      /\ new[n + 1] = seg /\ n \in Nat
  BY AppendProperties, LenProperties
<1> HIDE DEF new
<1>2. CASE out = <<>>
  <2>1. n = 0
    BY <1>2
  <2>2. \A i \in 1..Len(new) : i = 1
    BY <1>1, <2>1
  <2>3. \A i \in 2..Len(new) : FALSE
    BY <1>1, <2>1
  <2>4. Len(new) = 1 /\ new[1] = seg
    BY <1>1, <2>1
  <2>5. Tiles(new, 0, seg.end)
    BY <1>1, <1>2, <2>2, <2>3, <2>4 DEF Tiles
  <2> QED BY <2>5 DEF new
<1>3. CASE out # <<>>
  <2>1. /\ n > 0 /\ out[1].start = 0 /\ out[n].end = c
        /\ \A i \in 1..n : out[i].start < out[i].end
        /\ \A i \in 2..n : out[i].start = out[i - 1].end
    BY <1>3 DEF Tiles
  <2> HIDE DEF n
  <2>2. ASSUME NEW i \in 1..n + 1 PROVE new[i].start < new[i].end
    <3>1. CASE i = n + 1
      BY <1>1, <3>1
    <3>2. CASE i # n + 1
      BY <1>1, <2>1, <3>2
    <3> QED BY <3>1, <3>2
  <2>3. ASSUME NEW i \in 2..n + 1 PROVE new[i].start = new[i - 1].end
    <3>1. CASE i = n + 1
      <4>1. new[i] = seg /\ new[i - 1] = out[n]
        BY <1>1, <2>1, <3>1
      <4> QED BY <2>1, <4>1
    <3>2. CASE i # n + 1
      <4>1. i \in 2..n /\ new[i] = out[i] /\ new[i - 1] = out[i - 1]
        BY <1>1, <3>2
      <4> QED BY <2>1, <4>1
    <3> QED BY <3>1, <3>2
  <2>4. Len(new) > 0 /\ new[1].start = 0 /\ new[Len(new)].end = seg.end
    BY <1>1, <2>1
  <2>5. Tiles(new, 0, seg.end)
    BY <1>1, <2>2, <2>3, <2>4 DEF Tiles
  <2> QED BY <2>5 DEF new
<1> QED BY <1>2, <1>3

(* Each of the first j lines that begins within the track has its chord.   *)
Told(out, ls, j, d) ==
  \A i \in 1..j : ls[i].start + Eps < d =>
    \E q \in 1..Len(out) :
      /\ out[q].start <= ls[i].start /\ Lesser(d, ls[i].end) <= out[q].end
      /\ out[q].root = Parsed(ls[i].label).root /\ out[q].quality = Parsed(ls[i].label).quality

(* A chord more leaves what was told as it was. *)
LEMMA ToldAppend ==
  ASSUME NEW out \in Seq(Chord), NEW seg \in Chord, NEW ls, NEW j, NEW d, Told(out, ls, j, d)
  PROVE  Told(Append(out, seg), ls, j, d)
<1> DEFINE new == Append(out, seg)
<1>1. Len(new) = Len(out) + 1 /\ \A q \in 1..Len(out) : new[q] = out[q]
  BY AppendProperties
<1>2. \A q \in 1..Len(out) : q \in 1..Len(new)
  BY <1>1, LenProperties
<1> HIDE DEF new
<1>3. Told(new, ls, j, d)
  BY <1>1, <1>2 DEF Told
<1> QED BY <1>3 DEF new

Reached(ls, j) == IF j = 0 THEN 0 ELSE ls[j].end

(* What _gap_free has made of the first j lines: chords up to its cursor,  *)
(* which is the end of the last line, or within a tolerance of the end of  *)
(* the track when the lines are past it.                                   *)
Stitched(st, ls, d, j) ==
  /\ st \in StitchState /\ st.cursor \in Nat /\ st.cursor <= d
  /\ st.out = <<>> => st.cursor = 0
  /\ st.out # <<>> => Tiles(st.out, 0, st.cursor)
  /\ \/ st.cursor = Reached(ls, j) /\ (j > 0 => st.out # <<>>)
     \/ d <= Reached(ls, j) /\ d <= st.cursor + Eps
  /\ Told(st.out, ls, j, d)

(* Before the first line there is no chord. *)
LEMMA StitchedFirst ==
  ASSUME NEW ls, NEW d \in Nat
  PROVE  Stitched([cursor |-> 0, out |-> <<>>], ls, d, 0)
<1> DEFINE st == [cursor |-> 0, out |-> <<>>]
<1>1. st.cursor = 0 /\ st.out = <<>> /\ st \in StitchState
  BY DEF StitchState
<1> HIDE DEF st
<1>2. Told(st.out, ls, 0, d)
  BY DEF Told
<1>3. Stitched(st, ls, d, 0)
  BY <1>1, <1>2 DEF Stitched, Reached
<1> QED BY <1>3 DEF st

(* One line more: it is clipped to the track and joined, or skipped when   *)
(* no more than a tolerance of it is left.                                 *)
LEMMA StitchedNext ==
  ASSUME NEW ls, Ruled(ls), NEW d \in Nat, NEW j \in 0..Len(ls) - 1,
         NEW st, Stitched(st, ls, d, j)
  PROVE  Stitched(Stitch(d, st, ls[j + 1]), ls, d, j + 1)
<1> DEFINE line == ls[j + 1]
           cur == st.cursor
           out == st.out
           e == Lesser(d, line.end)
           new == Stitch(d, st, line)
<1>1. /\ line.start \in Nat /\ line.end \in Nat /\ line.label \in Heardable
      /\ line.start + Eps < line.end /\ line.start = Reached(ls, j)
      /\ Reached(ls, j + 1) = line.end /\ j + 1 > 0 /\ j \in Nat
  <2>1. j + 1 \in 1..Len(ls) /\ j \in Nat /\ j + 1 # 0
    BY LenProperties DEF Ruled
  <2>2. line.start = Reached(ls, j)
    <3>1. CASE j = 0
      BY <3>1 DEF Ruled, Reached
    <3>2. CASE j # 0
      <4>1. j + 1 \in 2..Len(ls) /\ (j + 1) - 1 = j
        BY <2>1, <3>2
      <4> QED BY <3>2, <4>1 DEF Ruled, Reached
    <3> QED BY <3>1, <3>2
  <2> QED BY <2>1, <2>2 DEF Ruled, Reached
<1>2. /\ st \in StitchState /\ cur \in Nat /\ cur <= d /\ out \in Seq(Chord)
      /\ out = <<>> => cur = 0
      /\ out # <<>> => Tiles(out, 0, cur)
      /\ \/ cur = line.start
         \/ d <= line.start /\ d <= cur + Eps
      /\ Told(out, ls, j, d)
  BY <1>1 DEF Stitched, StitchState
<1>3. e \in Int /\ e <= d /\ e <= line.end /\ e \in {d, line.end}
  <2>1. line.end \in Int /\ d \in Int
    BY <1>1
  <2> HIDE DEF line
  <2> QED BY <2>1, MinMax
<1>4. \A i \in 1..j + 1 : i \in 1..j \/ i = j + 1
  BY <1>1
<1> HIDE DEF line, e
<1>5. CASE e <= cur + Eps
  <2>1. new = st
    BY <1>5 DEF Stitch, e
  <2>2. d <= line.end /\ d <= cur + Eps
    BY <1>1, <1>2, <1>3, <1>5, Bounds
  <2>3. ~(line.start + Eps < d)
    BY <1>1, <1>2, <2>2, Bounds
  <2>4. Told(out, ls, j + 1, d)
    BY <1>2, <1>4, <2>3 DEF Told, line
  <2>5. Stitched(st, ls, d, j + 1)
    BY <1>1, <1>2, <2>2, <2>4 DEF Stitched
  <2> HIDE DEF new
  <2> QED BY <2>1, <2>5 DEF new, line
<1>6. CASE ~(e <= cur + Eps)
  <2> DEFINE seg == Seg(cur, e, line.label)
             all == Append(out, seg)
  <2>1. cur = line.start /\ cur < e /\ cur + Eps < e
    BY <1>1, <1>2, <1>3, <1>6, Bounds
  <2>2. seg \in Chord /\ seg.start = cur /\ seg.end = e
        /\ seg.root = Parsed(line.label).root /\ seg.quality = Parsed(line.label).quality
    BY <1>1, <1>2, <1>3, SegChord
  <2> HIDE DEF seg
  <2>3. new = [cursor |-> e, out |-> all]
    <3>1. Greater(line.start, cur) = cur
      BY <2>1 DEF Greater
    <3>2. ~(cur - cur > Eps) /\ ~(line.end <= line.start)
      BY <1>1, <1>2, Bounds
    <3>3. (out \o <<>>) \o <<seg>> = all
      <4>1. out \o <<>> = out
        BY <1>2, ConcatEmptySeq
      <4>2. all = out \o <<seg>>
        BY <1>2, <2>2, AppendIsConcat
      <4> HIDE DEF all
      <4> QED BY <4>1, <4>2
    <3>4. new = [cursor |-> e, out |-> (out \o <<>>) \o <<seg>>]
      BY <1>6, <3>1, <3>2 DEF Stitch, e, seg
    <3> HIDE DEF new, all
    <3> QED BY <3>3, <3>4
  <2> HIDE DEF new
  <2>4. new.cursor = e /\ new.out = all
    BY <2>3
  <2>5. all \in Seq(Chord) /\ Len(all) = Len(out) + 1 /\ all[Len(out) + 1] = seg /\ all # <<>>
        /\ Len(out) \in Nat
    BY <1>2, <2>2, AppendProperties, LenProperties
  <2>6. Tiles(all, 0, e)
    <3> HIDE DEF all, cur, out
    <3> QED BY <1>2, <2>1, <2>2, TilesAppend DEF all
  <2>7. Told(all, ls, j, d)
    <3> HIDE DEF cur, out
    <3> QED BY <1>2, <2>2, ToldAppend
  <2> HIDE DEF all
  <2>8. Told(all, ls, j + 1, d)
    <3>1. ASSUME NEW i \in 1..j + 1, ls[i].start + Eps < d
          PROVE  \E q \in 1..Len(all) :
                   /\ all[q].start <= ls[i].start /\ Lesser(d, ls[i].end) <= all[q].end
                   /\ all[q].root = Parsed(ls[i].label).root
                   /\ all[q].quality = Parsed(ls[i].label).quality
      <4>1. CASE i \in 1..j
        BY <2>7, <3>1, <4>1 DEF Told
      <4>2. CASE i = j + 1
        <5>1. Len(out) + 1 \in 1..Len(all)
          BY <2>5
        <5>2. ls[i] = line /\ Lesser(d, ls[i].end) = e
          BY <4>2 DEF line, e
        <5>3. seg.start <= line.start /\ e <= seg.end
          BY <1>1, <1>3, <2>1, <2>2
        <5> QED BY <2>2, <2>5, <5>1, <5>2, <5>3
      <4> QED BY <1>4, <4>1, <4>2
    <3> QED BY <3>1 DEF Told
  <2>9. new \in StitchState
    BY <1>3, <2>3, <2>5 DEF StitchState
  <2>10. e \in Nat /\ (e = line.end \/ (d <= line.end /\ d <= e + Eps))
    BY <1>1, <1>2, <1>3, <2>1, Bounds
  <2>11. Stitched(new, ls, d, j + 1)
    BY <1>1, <1>3, <2>4, <2>5, <2>6, <2>8, <2>9, <2>10 DEF Stitched
  <2> QED BY <2>11 DEF new, line
<1> QED BY <1>5, <1>6

(* What the loop of _gap_free ends with, and what is made of it. *)
LEMMA StitchedAll ==
  ASSUME NEW d \in Nat, NEW ls, Ruled(ls)
  PROVE  \E st : Stitched(st, ls, d, Len(ls)) /\ GapFree(ls, d) = Covering(st, d)
<1> DEFINE m == Len(ls)
<1>1. PICK f : /\ f[0] = [cursor |-> 0, out |-> <<>>]
               /\ \A k \in 1..m : f[k] = Stitch(d, f[k - 1], ls[k])
               /\ GapFree(ls, d) = Covering(f[m], d)
  BY StitchLoop
<1>2. m \in Nat
  BY LenProperties DEF Ruled
<1> HIDE DEF m
<1> DEFINE S == {j \in Nat : j <= m => Stitched(f[j], ls, d, j)}
<1>3. 0 \in S
  BY <1>1, StitchedFirst
<1>4. ASSUME NEW j \in Nat, j < m, j \in S PROVE j + 1 \in S
  <2>1. j \in 0..Len(ls) - 1 /\ j + 1 \in 1..m /\ (j + 1) - 1 = j
    BY <1>2, <1>4 DEF m
  <2>2. f[j + 1] = Stitch(d, f[j], ls[j + 1])
    BY <1>1, <2>1
  <2> DEFINE a == f[j]
  <2>3. Stitched(a, ls, d, j)
    BY <1>2, <1>4
  <2> HIDE DEF a
  <2>4. Stitched(Stitch(d, a, ls[j + 1]), ls, d, j + 1)
    BY <2>1, <2>3, StitchedNext
  <2>5. Stitched(f[j + 1], ls, d, j + 1)
    BY <2>2, <2>4 DEF a
  <2> QED BY <2>5
<1>5. \A j \in Nat : j < m /\ j \in S => j + 1 \in S
  BY <1>4
<1>6. Stitched(f[m], ls, d, m)
  <2>1. \A j \in 0..m : j \in S
    <3> HIDE DEF S
    <3> QED BY <1>2, <1>3, <1>5, Inductive
  <2> QED BY <1>2, <2>1
<1> QED BY <1>1, <1>6 DEF m

(* Chords that tile up to c, made to end at d.                             *)
LEMMA PinnedTiles ==
  ASSUME NEW out, NEW c \in Int, Tiles(out, 0, c), NEW d \in Int, c <= d
  PROVE  /\ Tiles(Pinned(out, d), 0, d)
         /\ \A t \in Int : \A p : Shows(out, t, p) => Shows(Pinned(out, d), t, p)
         /\ out[Len(out)].start <= c
<1> DEFINE n == Len(out)
           new == Pinned(out, d)
           e == [out[n] EXCEPT !.end = d]
<1>1. /\ out \in Seq(Chord) /\ n \in Nat /\ n > 0 /\ out # <<>>
      /\ out[1].start = 0 /\ out[n].end = c
      /\ \A i \in 1..n : out[i].start < out[i].end
      /\ \A i \in 2..n : out[i].start = out[i - 1].end
  BY LenProperties, EmptySeq DEF Tiles
<1>2. \A i \in 1..n : out[i] \in Chord /\ out[i].start \in Int /\ out[i].end \in Int
  <2>1. \A i \in 1..n : out[i] \in Chord
    BY <1>1
  <2> QED BY <2>1, ChordHonest
<1>3. [out EXCEPT ![1].start = 0] = out
  <2> DEFINE f == out[1]
  <2>1. f \in Chord /\ f.start = 0
    BY <1>1, <1>2
  <2>2. [f EXCEPT !.start = 0] = f
    <3> HIDE DEF f
    <3>1. PICK a \in Int, b \in Int, label \in Heardable : f = Seg(a, b, label)
      BY <2>1 DEF Chord
    <3> QED BY <2>1, <3>1 DEF Seg
  <2>3. [out EXCEPT ![1].start = 0] = [out EXCEPT ![1] = [f EXCEPT !.start = 0]]
    OBVIOUS
  <2>4. out = [i \in 1..n |-> out[i]]
    BY <1>1
  <2>5. [out EXCEPT ![1] = f] = out
    BY <2>4
  <2> QED BY <2>2, <2>3, <2>5
<1>4. new = [out EXCEPT ![n].end = d]
  <2>1. new = [[out EXCEPT ![1].start = 0] EXCEPT ![n].end = d]
    BY Zenon DEF Pinned
  <2> HIDE DEF new
  <2> QED BY <1>3, <2>1
<1>5. /\ new \in Seq(Chord) /\ Len(new) = n
      /\ \A j \in 1..n - 1 : new[j] = out[j]
      /\ new[n].start = out[n].start /\ new[n].end = d /\ SameChord(new[n], out[n])
  <2> HIDE DEF new
  <2> QED BY <1>1, <1>4, LastEndMoved
<1> HIDE DEF n, new
<1>6. n \in 1..n /\ out[n].start < c /\ out[n].start \in Int
  BY <1>1, <1>2
<1>7. ASSUME NEW i \in 1..n
      PROVE  /\ new[i].start = out[i].start /\ SameChord(new[i], out[i])
             /\ out[i].end <= new[i].end /\ new[i].start < new[i].end
             /\ i # n => new[i].end = out[i].end
  <2>1. CASE i = n
    BY <1>1, <1>5, <1>6, <2>1
  <2>2. CASE i # n
    <3>1. new[i] = out[i]
      BY <1>1, <1>5, <2>2
    <3> QED BY <1>1, <1>2, <2>2, <3>1 DEF SameChord
  <2> QED BY <2>1, <2>2
<1>8. Tiles(new, 0, d)
  <2>1. new[1].start = 0
    BY <1>1, <1>7
  <2>2. ASSUME NEW i \in 2..n PROVE new[i].start = new[i - 1].end
    <3>1. i \in 1..n /\ i - 1 \in 1..n /\ i - 1 # n
      BY <1>1
    <3> QED BY <1>1, <1>7, <3>1
  <2> QED BY <1>1, <1>5, <1>7, <2>1, <2>2 DEF Tiles
<1>9. ASSUME NEW t \in Int, NEW p, Shows(out, t, p) PROVE Shows(new, t, p)
  <2>1. PICK i \in 1..n :
          out[i].start <= t /\ t < out[i].end /\ out[i].root = p.root /\ out[i].quality = p.quality
    BY <1>9 DEF Shows, n
  <2>2. new[i].end \in Int
    <3>1. new[i] \in Chord
      BY <1>5
    <3> QED BY <3>1, ChordHonest
  <2>3. new[i].start <= t /\ t < new[i].end
    BY <1>2, <1>7, <2>1, <2>2
  <2> QED BY <1>5, <1>7, <2>1, <2>3 DEF Shows, SameChord
<1> QED BY <1>6, <1>8, <1>9 DEF n, new

(* The stitched chords tile the track, show every line that begins within  *)
(* it, and silence after the last.                                         *)
LEMMA GapFreeTells ==
  ASSUME NEW ls, Ruled(ls), NEW d \in Nat, d # 0
  PROVE  /\ Tiles(GapFree(ls, d), 0, d)
         /\ \A i \in 1..Len(ls) : \A t \in Int :
              ls[i].start + Eps < d /\ ls[i].start <= t /\ t < ls[i].end /\ t < d =>
                Shows(GapFree(ls, d), t, Parsed(ls[i].label))
         /\ \A t \in Int :
              ls[Len(ls)].end + Eps < d /\ ls[Len(ls)].end <= t /\ t < d =>
                Shows(GapFree(ls, d), t, Parsed("N"))
<1> DEFINE m == Len(ls)
           whole == GapFree(ls, d)
<1>1. PICK st : Stitched(st, ls, d, m) /\ whole = Covering(st, d)
  BY StitchedAll
<1> HIDE DEF whole
<1> DEFINE cur == st.cursor
           out == st.out
           tail == CoverTail(st, d)
           most == IF tail = <<>> THEN <<Seg(0, d, "N")>> ELSE tail
           rest == Seg(cur, d, "N")
<1>2. /\ m \in Nat /\ m > 0
      /\ \A i \in 1..m : ls[i].start \in Nat /\ ls[i].end \in Nat /\ ls[i].start + Eps < ls[i].end
  BY LenProperties DEF Ruled
<1>3. /\ cur \in Nat /\ cur <= d /\ out \in Seq(Chord)
      /\ out = <<>> => cur = 0
      /\ out # <<>> => Tiles(out, 0, cur)
      /\ \/ cur = ls[m].end /\ out # <<>>
         \/ d <= ls[m].end /\ d <= cur + Eps
      /\ Told(out, ls, m, d)
  BY <1>1, <1>2 DEF Stitched, StitchState, Reached
<1>4. "N" \in Heardable
  BY DEF Heardable
<1>5. rest \in Chord /\ rest.start = cur /\ rest.end = d
      /\ rest.root = Parsed("N").root /\ rest.quality = Parsed("N").quality
  <2>1. cur \in Int /\ d \in Int
    BY <1>3
  <2> HIDE DEF cur
  <2> QED BY <1>4, <2>1, SegChord
<1>6. whole = Pinned(most, d)
  BY <1>1 DEF Covering
<1> HIDE DEF m, cur, out, rest
<1>7. \E c \in Int :
        /\ Tiles(most, 0, c) /\ c <= d
        /\ Told(most, ls, m, d)
        /\ \A t \in Int : ls[m].end + Eps < d /\ ls[m].end <= t /\ t < d => Shows(most, t, Parsed("N"))
  <2>1. CASE d - cur > Eps
    <3>1. tail = Append(out, rest)
      BY <2>1 DEF CoverTail, cur, out, rest
    <3>2. cur < d
      BY <1>3, <2>1, Bounds
    <3>3. Tiles(Append(out, rest), 0, d)
      BY <1>3, <1>5, <3>2, TilesAppend
    <3>4. Len(tail) = Len(out) + 1 /\ tail[Len(out) + 1] = rest /\ tail # <<>> /\ Len(out) \in Nat
      <4> HIDE DEF tail
      <4> QED BY <1>3, <1>5, <3>1, AppendProperties, LenProperties
    <3>5. most = Append(out, rest)
      BY <3>1, <3>4
    <3>6. Told(Append(out, rest), ls, m, d)
      BY <1>3, <1>5, ToldAppend
    <3>7. cur = ls[m].end
      BY <1>2, <1>3, <2>1, Bounds
    <3>8. ASSUME NEW t \in Int, ls[m].end <= t, t < d PROVE Shows(Append(out, rest), t, Parsed("N"))
      <4>1. Len(out) + 1 \in 1..Len(Append(out, rest)) /\ Append(out, rest)[Len(out) + 1] = rest
        BY <3>1, <3>4
      <4>2. rest.start <= t /\ t < rest.end
        BY <1>5, <3>7, <3>8
      <4> QED BY <1>5, <4>1, <4>2 DEF Shows
    <3> HIDE DEF most, tail
    <3> QED BY <3>3, <3>5, <3>6, <3>8
  <2>2. CASE ~(d - cur > Eps)
    <3>1. tail = out
      BY <2>2 DEF CoverTail, cur, out
    <3>2. ~(ls[m].end + Eps < d)
      BY <1>2, <1>3, <2>2, Bounds
    <3>3. CASE out = <<>>
      <4> DEFINE one == Seg(0, d, "N")
      <4>1. most = <<one>>
        BY <3>1, <3>3
      <4>2. one \in Chord /\ one.start = 0 /\ one.end = d
        BY <1>4, SegChord
      <4> HIDE DEF one
      <4>3. Tiles(<<one>>, 0, d)
        <5>1. Append(<<>>, one) = <<one>> /\ <<>> \in Seq(Chord)
          OBVIOUS
        <5>2. 0 < d /\ 0 \in Int
          OBVIOUS
        <5>3. Tiles(Append(<<>>, one), 0, one.end)
          BY <4>2, <5>1, <5>2, TilesAppend
        <5> QED BY <4>2, <5>1, <5>3
      <4>4. \A i \in 1..m : ~(ls[i].start + Eps < d)
        <5>1. Len(out) = 0
          BY <3>3
        <5> QED BY <1>3, <5>1 DEF Told
      <4>5. Told(<<one>>, ls, m, d)
        BY <4>4 DEF Told
      <4> HIDE DEF most, tail
      <4> QED BY <3>2, <4>1, <4>3, <4>5
    <3>4. CASE out # <<>>
      <4>1. most = out
        BY <3>1, <3>4
      <4> HIDE DEF most, tail
      <4> QED BY <1>3, <3>2, <3>4, <4>1
    <3> QED BY <3>3, <3>4
  <2> QED BY <2>1, <2>2
<1> HIDE DEF most, tail
<1>8. PICK c \in Int :
        /\ Tiles(most, 0, c) /\ c <= d
        /\ Told(most, ls, m, d)
        /\ \A t \in Int : ls[m].end + Eps < d /\ ls[m].end <= t /\ t < d => Shows(most, t, Parsed("N"))
  BY <1>7
<1>9. Tiles(whole, 0, d) /\ \A t \in Int : \A p : Shows(most, t, p) => Shows(whole, t, p)
  <2>1. d \in Int
    OBVIOUS
  <2> QED BY <1>6, <1>8, <2>1, PinnedTiles
<1>10. ASSUME NEW i \in 1..m, NEW t \in Int,
              ls[i].start + Eps < d, ls[i].start <= t, t < ls[i].end, t < d
       PROVE  Shows(whole, t, Parsed(ls[i].label))
  <2>1. PICK q \in 1..Len(most) :
          /\ most[q].start <= ls[i].start /\ Lesser(d, ls[i].end) <= most[q].end
          /\ most[q].root = Parsed(ls[i].label).root
          /\ most[q].quality = Parsed(ls[i].label).quality
    BY <1>8, <1>10 DEF Told
  <2>2. most[q].start \in Int /\ most[q].end \in Int
    <3>1. most[q] \in Chord
      BY <1>8 DEF Tiles
    <3> QED BY <3>1, ChordHonest
  <2>3. t < Lesser(d, ls[i].end) /\ Lesser(d, ls[i].end) \in Int
    BY <1>2, <1>10 DEF Lesser
  <2>4. most[q].start <= t /\ t < most[q].end
    BY <1>2, <1>10, <2>1, <2>2, <2>3
  <2>5. Shows(most, t, Parsed(ls[i].label))
    BY <2>1, <2>4 DEF Shows
  <2> QED BY <1>9, <2>5
<1> QED BY <1>8, <1>9, <1>10 DEF m, whole

-----------------------------------------------------------------------------
(* The state machine *)

LibrosaTrack ==
  /\ track.engine = "librosa" /\ track.frames \in Nat \ {0}
  /\ track.labels \in [1..track.frames -> LibrosaLabels]
  /\ \E over \in 0..Hop - 1 : track.duration = (track.frames - 1) * Hop + over

BtcTrack ==
  /\ track.engine = "btc" /\ track.frames \in Nat \ {0} /\ track.duration \in Nat
  /\ track.labels \in [1..(track.frames + NumPad(track.frames)) -> BtcLabels]
  /\ lines = LabLines(track.frames, track.labels)

TrackSound ==
  /\ stage = "start" => track.engine = None
  /\ stage \in {"labelled", "smoothed"} => LibrosaTrack
  /\ stage = "inferred" => BtcTrack
  /\ stage # "start" => LibrosaTrack \/ BtcTrack

Made == {"assembled", "accepted", "shown"}

StagesSound ==
  /\ stage \in Made \cup {"start", "labelled", "inferred", "refused", "smoothed"}
  /\ stage \in Made \cup {"smoothed"} => track.duration # 0
  /\ stage \in Made \cup {"smoothed"} /\ track.engine = "librosa" =>
       smoothed = Despeckle(track.labels)
  /\ stage \in Made =>
       chords = IF track.engine = "librosa" THEN Segments(smoothed, track.duration)
                ELSE GapFree(lines, track.duration)
  /\ stage = "shown" => cells = CollapseProgression(chords)

IInv == TrackSound /\ StagesSound

(* The chords tile the track and show at each frame's middle what was heard. *)
ChordsTell ==
  /\ track.duration \in Int /\ Tiles(chords, 0, track.duration)
  /\ \A k \in 0..(track.frames - (IF track.engine = "btc" THEN 0 ELSE 1)) :
       Middle(k) < track.duration => Middle(k) \in Int /\ Shows(chords, Middle(k), Heard(k))

(* The chords of librosa_engine.py tell what it heard. *)
LEMMA LibrosaTells ==
  ASSUME LibrosaTrack, track.duration # 0, smoothed = Despeckle(track.labels),
         chords = Segments(smoothed, track.duration)
  PROVE  ChordsTell
<1> DEFINE n == track.frames
           d == track.duration
<1>1. n \in Nat \ {0} /\ track.labels \in [1..n -> LibrosaLabels] /\ track.engine = "librosa"
  BY DEF LibrosaTrack
<1>2. PICK over \in 0..Hop - 1 : d = (n - 1) * Hop + over
  BY DEF LibrosaTrack
<1> HIDE DEF n, d
<1>3. smoothed \in [1..n -> LibrosaLabels] /\ Steady(smoothed, n)
  BY <1>1, DespeckleSteady
<1>4. d # 0 /\ chords = Segments(smoothed, d)
  BY DEF d
<1>5. /\ Tiles(chords, 0, d)
      /\ \A k \in 0..n - 1 : k * Hop + Hop \div 2 < d =>
           Shows(chords, k * Hop + Hop \div 2, Parsed(smoothed[k + 1]))
  BY <1>1, <1>2, <1>3, <1>4, SegmentsTile
<1>6. track.engine # "btc"
  BY <1>1
<1>7. d \in Int
  BY <1>1, <1>2, Bounds
<1>8. ASSUME NEW k \in 0..n - 1
      PROVE  /\ Middle(k) = k * Hop + Hop \div 2 /\ Middle(k) \in Int
             /\ Heard(k) = Parsed(smoothed[k + 1])
  BY <1>1, Bounds DEF Middle, Heard
<1> QED BY <1>5, <1>6, <1>7, <1>8 DEF ChordsTell, n, d

(* The chords of btc_engine.py tell what it heard: the frame k is in a     *)
(* run, the run has its line, the line begins before the middle of the     *)
(* frame by more than the tolerance, and so its chord shows there.         *)
LEMMA BtcTells ==
  ASSUME BtcTrack, track.duration # 0, chords = GapFree(lines, track.duration)
  PROVE  ChordsTell
<1> DEFINE n == track.frames
           d == track.duration
           labels == track.labels
           audio == SubSeq(labels, 1, n)
           runs == RunsOf(audio)
           m == Len(runs)
<1>1. /\ n \in Nat \ {0} /\ d \in Nat /\ d # 0 /\ track.engine = "btc"
      /\ labels \in [1..(n + NumPad(n)) -> BtcLabels]
      /\ lines = LabLines(n, labels) /\ chords = GapFree(lines, d)
  BY DEF BtcTrack
<1> HIDE DEF n, d, labels
<1>2. Ruled(lines)
  BY <1>1, LabLinesRuled
<1>3. /\ \A i \in 1..n : audio[i] = labels[i]
      /\ Cut(audio, n, runs) /\ Len(lines) = m
      /\ \A j \in 1..m :
           lines[j] = Line(runs[j].from - 1, runs[j].to, audio[runs[j].from])
  BY <1>1, LabLinesCode
<1> HIDE DEF audio, runs, m
<1>4. /\ m \in Nat /\ m > 0 /\ runs[m].to = n
      /\ \A j \in 1..m : runs[j].from \in 1..n /\ runs[j].to \in runs[j].from..n
      /\ \A j \in 1..m : \A i \in runs[j].from..runs[j].to : audio[i] = audio[runs[j].from]
  BY <1>3 DEF Cut, m
<1>5. /\ Tiles(chords, 0, d)
      /\ \A i \in 1..m : \A t \in Int :
           lines[i].start + Eps < d /\ lines[i].start <= t /\ t < lines[i].end /\ t < d =>
             Shows(chords, t, Parsed(lines[i].label))
      /\ \A t \in Int :
           lines[m].end + Eps < d /\ lines[m].end <= t /\ t < d => Shows(chords, t, Parsed("N"))
  BY <1>1, <1>2, <1>3, GapFreeTells
<1>6. ASSUME NEW k \in 0..n, Middle(k) < d
      PROVE  Middle(k) \in Int /\ Shows(chords, Middle(k), Heard(k))
  <2> DEFINE t == Middle(k)
             p == Printed(k)
             q == Printed(k + 1)
  <2>1. /\ p + Eps <= t /\ t < q /\ t \in Nat /\ p \in Nat /\ q \in Nat
    <3>1. t = k * Unit + Unit \div 2
      BY <1>1 DEF Middle
    <3> HIDE DEF t
    <3> QED BY <3>1, PrintedOrder
  <2>2. CASE k < n
    <3>1. PICK j \in 1..m : k + 1 \in runs[j].from..runs[j].to
      <4> DEFINE i == k + 1
      <4>1. i \in 1..n /\ n \in Nat /\ Cut(audio, n, runs)
        BY <1>1, <1>3, <2>2
      <4> HIDE DEF i
      <4>2. \E j \in 1..m : i \in runs[j].from..runs[j].to
        BY <4>1, CutCovers DEF m
      <4> QED BY <4>2 DEF i
    <3>2. runs[j].from - 1 \in Nat /\ runs[j].to \in Nat /\ runs[j].from - 1 <= k /\ k + 1 <= runs[j].to
      BY <1>4, <3>1
    <3>3. Printed(runs[j].from - 1) <= p /\ Printed(runs[j].from - 1) \in Nat
      BY <3>2, PrintedLess
    <3>4. q <= Printed(runs[j].to) /\ Printed(runs[j].to) \in Nat
      BY <3>2, PrintedLess
    <3>5. /\ lines[j].start = Printed(runs[j].from - 1) /\ lines[j].end = Printed(runs[j].to)
          /\ lines[j].label = audio[runs[j].from]
      BY <1>3 DEF Line
    <3>6. audio[runs[j].from] = labels[k + 1]
      <4>1. audio[k + 1] = audio[runs[j].from]
        BY <1>4, <3>1
      <4>2. k + 1 \in 1..n
        BY <1>1, <2>2
      <4> QED BY <1>3, <4>1, <4>2
    <3>7. Heard(k) = Parsed(labels[k + 1])
      BY <1>1, <2>2 DEF Heard, labels, n
    <3> HIDE DEF t, p, q
    <3>8. lines[j].start + Eps < d /\ lines[j].start <= t /\ t < lines[j].end /\ t < d /\ t \in Int
      <4>1. t < d
        BY <1>6 DEF t
      <4> QED BY <1>1, <2>1, <3>3, <3>4, <3>5, <4>1, Bounds
    <3>9. Shows(chords, t, Parsed(lines[j].label))
      BY <1>5, <3>8
    <3> QED BY <3>5, <3>6, <3>7, <3>8, <3>9 DEF t
  <2>3. CASE k = n
    <3>1. lines[m].end = p
      <4>1. m \in 1..m
        BY <1>4
      <4> QED BY <1>3, <1>4, <2>3, <4>1 DEF Line
    <3>2. Heard(k) = Parsed("N")
      BY <1>1, <2>3 DEF Heard, n
    <3> HIDE DEF t, p, q
    <3>3. lines[m].end + Eps < d /\ lines[m].end <= t /\ t < d /\ t \in Int
      <4>1. t < d
        BY <1>6 DEF t
      <4> QED BY <1>1, <2>1, <3>1, <4>1, Bounds
    <3>4. Shows(chords, t, Parsed("N"))
      BY <1>5, <3>3
    <3> QED BY <3>2, <3>3, <3>4 DEF t
  <2> QED BY <1>1, <2>2, <2>3
<1>7. n - (IF track.engine = "btc" THEN 0 ELSE 1) = n /\ d \in Int
  BY <1>1
<1> QED BY <1>5, <1>6, <1>7 DEF ChordsTell, n, d

(* So they do from the moment that they are assembled. *)
LEMMA MadeTells ==
  ASSUME IInv, stage \in Made
  PROVE  ChordsTell
<1>1. LibrosaTrack \/ BtcTrack
  BY DEF IInv, TrackSound, Made
<1>2. CASE LibrosaTrack
  <2>1. track.engine = "librosa"
    BY <1>2 DEF LibrosaTrack
  <2> QED BY <1>2, <2>1, LibrosaTells DEF IInv, StagesSound
<1>3. CASE BtcTrack
  <2>1. track.engine # "librosa"
    BY <1>3 DEF BtcTrack
  <2> QED BY <1>3, <2>1, BtcTells DEF IInv, StagesSound
<1> QED BY <1>1, <1>2, <1>3

(* The invariant holds before the first stage. *)
LEMMA InitIInv == Init => IInv
<1> SUFFICES ASSUME Init PROVE IInv
  OBVIOUS
<1>1. stage = "start" /\ track.engine = None
  BY DEF Init
<1> QED BY <1>1 DEF IInv, TrackSound, StagesSound, Made

(* Every stage keeps it; validateChords is where the chords must tile the  *)
(* track.                                                                  *)
LEMMA NextIInv == IInv /\ [Next]_vars => IInv'
<1> SUFFICES ASSUME IInv, [Next]_vars PROVE IInv'
  OBVIOUS
<1> USE DEF IInv, Made
<1>1. CASE LabelFrames
  <2>1. PICK n \in 1..LibrosaFrames : \E labels \in [1..n -> LibrosaLabels], over \in 0..(Hop - 1) :
          track' = [engine |-> "librosa", labels |-> labels, frames |-> n,
                    duration |-> (n - 1) * Hop + over]
    BY <1>1 DEF LabelFrames
  <2>2. PICK labels \in [1..n -> LibrosaLabels], over \in 0..(Hop - 1) :
          track' = [engine |-> "librosa", labels |-> labels, frames |-> n,
                    duration |-> (n - 1) * Hop + over]
    BY <2>1
  <2>3. n \in Nat \ {0}
    BY ChordPipelineAssumption
  <2>4. /\ track'.engine = "librosa" /\ track'.labels = labels /\ track'.frames = n
        /\ track'.duration = (n - 1) * Hop + over
    BY <2>2
  <2>5. LibrosaTrack'
    BY <2>3, <2>4 DEF LibrosaTrack
  <2>6. stage' = "labelled"
    BY <1>1 DEF LabelFrames
  <2> QED BY <2>5, <2>6 DEF TrackSound, StagesSound
<1>2. CASE Infer
  <2>1. PICK n \in 1..BtcFrames : \E labels \in [1..(n + NumPad(n)) -> BtcLabels] :
          \E duration \in 0..((n + 1) * Unit) :
            /\ track' = [engine |-> "btc", labels |-> labels, frames |-> n, duration |-> duration]
            /\ lines' = LabLines(n, labels)
    BY <1>2 DEF Infer
  <2>2. PICK labels \in [1..(n + NumPad(n)) -> BtcLabels] :
          \E duration \in 0..((n + 1) * Unit) :
            /\ track' = [engine |-> "btc", labels |-> labels, frames |-> n, duration |-> duration]
            /\ lines' = LabLines(n, labels)
    BY <2>1
  <2>3. PICK duration \in 0..((n + 1) * Unit) :
          /\ track' = [engine |-> "btc", labels |-> labels, frames |-> n, duration |-> duration]
          /\ lines' = LabLines(n, labels)
    BY <2>2
  <2>4. n \in Nat \ {0} /\ duration \in Nat
    BY ChordPipelineAssumption
  <2>5. /\ track'.engine = "btc" /\ track'.labels = labels /\ track'.frames = n
        /\ track'.duration = duration
    BY <2>3
  <2>6. BtcTrack'
    BY <2>3, <2>4, <2>5 DEF BtcTrack
  <2>7. stage' = "inferred"
    BY <1>2 DEF Infer
  <2> QED BY <2>6, <2>7 DEF TrackSound, StagesSound
<1>3. CASE Refuse
  <2>1. stage' = "refused" /\ track' = track /\ lines' = lines /\ stage \in {"labelled", "inferred"}
    BY <1>3 DEF Refuse
  <2>2. (LibrosaTrack \/ BtcTrack)'
    BY <2>1 DEF TrackSound, LibrosaTrack, BtcTrack
  <2> QED BY <2>1, <2>2 DEF TrackSound, StagesSound
<1>4. CASE Smooth
  <2>1. /\ stage' = "smoothed" /\ stage = "labelled" /\ track.duration # 0 /\ track' = track
        /\ smoothed' = Despeckle(track.labels)
    BY <1>4 DEF Smooth, Empty
  <2>2. LibrosaTrack'
    BY <2>1 DEF TrackSound, LibrosaTrack
  <2> QED BY <2>1, <2>2 DEF TrackSound, StagesSound
<1>5. CASE AssembleLibrosa
  <2>1. /\ stage' = "assembled" /\ stage = "smoothed" /\ track' = track /\ smoothed' = smoothed
        /\ chords' = Segments(smoothed, track.duration)
    BY <1>5 DEF AssembleLibrosa
  <2>2. LibrosaTrack' /\ track.engine = "librosa"
    BY <2>1 DEF TrackSound, LibrosaTrack
  <2> QED BY <2>1, <2>2 DEF TrackSound, StagesSound
<1>6. CASE AssembleBtc
  <2>1. /\ stage' = "assembled" /\ stage = "inferred" /\ track' = track /\ lines' = lines
        /\ track.duration # 0 /\ chords' = GapFree(lines, track.duration)
    BY <1>6 DEF AssembleBtc, Empty
  <2>2. BtcTrack' /\ track.engine = "btc"
    BY <2>1 DEF TrackSound, BtcTrack
  <2> QED BY <2>1, <2>2 DEF TrackSound, StagesSound
<1>7. CASE Validate
  <2>1. /\ stage = "assembled" /\ UNCHANGED <<track, smoothed, lines, chords, cells>>
        /\ stage' = IF ValidChords(chords, track.duration) THEN "accepted" ELSE "rejected"
    BY <1>7 DEF Validate
  <2>2. ChordsTell
    BY <2>1, MadeTells
  <2>3. stage' = "accepted"
    BY <2>1, <2>2, TilesValid DEF ChordsTell
  <2>4. (LibrosaTrack \/ BtcTrack)'
    BY <2>1 DEF TrackSound, LibrosaTrack, BtcTrack
  <2> QED BY <2>1, <2>3, <2>4 DEF TrackSound, StagesSound
<1>8. CASE Show
  <2>1. /\ stage = "accepted" /\ stage' = "shown" /\ UNCHANGED <<track, smoothed, lines, chords>>
        /\ cells' = CollapseProgression(chords)
    BY <1>8 DEF Show
  <2>2. (LibrosaTrack \/ BtcTrack)'
    BY <2>1 DEF TrackSound, LibrosaTrack, BtcTrack
  <2> QED BY <2>1, <2>2 DEF TrackSound, StagesSound
<1>9. CASE UNCHANGED vars
  BY <1>9 DEF vars, TrackSound, StagesSound, LibrosaTrack, BtcTrack
<1> QED BY <1>1, <1>2, <1>3, <1>4, <1>5, <1>6, <1>7, <1>8, <1>9 DEF Next

(* So it always holds. *)
THEOREM IInvHolds == Spec => []IInv
<1>1. Init => IInv
  BY InitIInv
<1>2. IInv /\ [Next]_vars => IInv'
  BY NextIInv
<1> QED BY <1>1, <1>2, PTL DEF Spec

(* ContractMet: validateChords never rejects what an engine assembled. *)
THEOREM ContractMetHolds == Spec => []ContractMet
<1>1. IInv => ContractMet
  BY DEF IInv, StagesSound, ContractMet, Made
<1> QED BY <1>1, IInvHolds, PTL

(* NoFlicker: what _despeckle promises of the runs it leaves. *)
THEOREM NoFlickerHolds == Spec => []NoFlicker
<1>1. IInv => NoFlicker
  <2> SUFFICES ASSUME IInv, stage = "smoothed" PROVE NoFlicker
    BY DEF NoFlicker
  <2> DEFINE n == track.frames
             labels == track.labels
  <2>1. n \in Nat \ {0} /\ labels \in [1..n -> LibrosaLabels] /\ smoothed = Despeckle(labels)
    BY DEF IInv, TrackSound, StagesSound, LibrosaTrack
  <2> HIDE DEF n, labels
  <2>2. /\ smoothed \in [1..n -> LibrosaLabels] /\ Steady(smoothed, n)
        /\ \A j \in 1..Len(RunsOf(labels)) : Size(RunsOf(labels)[j]) >= MinRun =>
             \A i \in RunsOf(labels)[j].from..RunsOf(labels)[j].to : smoothed[i] = labels[i]
    <3>1. /\ Despeckle(labels) \in [1..n -> LibrosaLabels] /\ Steady(Despeckle(labels), n)
          /\ \A j \in 1..Len(RunsOf(labels)) : Size(RunsOf(labels)[j]) >= MinRun =>
               \A i \in RunsOf(labels)[j].from..RunsOf(labels)[j].to :
                  Despeckle(labels)[i] = labels[i]
      BY <2>1, DespeckleSteady
    <3>2. \A i : smoothed[i] = Despeckle(labels)[i]
      BY <2>1
    <3>3. smoothed \in [1..n -> LibrosaLabels] /\ Steady(smoothed, n)
      BY <2>1, <3>1
    <3> QED BY <3>1, <3>2, <3>3
  <2>3. Cut(smoothed, n, RunsOf(smoothed))
    <3>1. smoothed \in Seq(LibrosaLabels) /\ Len(smoothed) = n /\ smoothed # <<>>
      BY <2>1, <2>2
    <3> QED BY <3>1, RunsCut
  <2>4. Cut(labels, n, RunsOf(labels))
    <3>1. labels \in Seq(LibrosaLabels) /\ Len(labels) = n /\ labels # <<>>
      BY <2>1
    <3> QED BY <3>1, RunsCut
  <2>5. ASSUME NEW r \in Range(RunsOf(smoothed)), r.from > 1 PROVE Size(r) >= MinRun
    <3>1. PICK j \in 1..Len(RunsOf(smoothed)) : r = RunsOf(smoothed)[j]
      BY <2>3 DEF Range, Cut
    <3> QED BY <2>1, <2>2, <2>3, <2>5, <3>1, SteadyRuns
  <2>6. ASSUME NEW r \in Range(RunsOf(labels)), Size(r) >= MinRun, NEW i \in r.from..r.to
        PROVE  smoothed[i] = labels[i]
    <3>1. PICK j \in 1..Len(RunsOf(labels)) : r = RunsOf(labels)[j]
      BY <2>4 DEF Range, Cut
    <3> QED BY <2>2, <2>6, <3>1
  <2> QED BY <2>5, <2>6 DEF NoFlicker, labels
<1> QED BY <1>1, IInvHolds, PTL

(* LinesAreTheAudio: no padding in the .lab lines, and nothing lost. *)
THEOREM LinesAreTheAudioHolds == Spec => []LinesAreTheAudio
<1>1. IInv => LinesAreTheAudio
  <2> SUFFICES ASSUME IInv, track.engine = "btc" PROVE LinesAreTheAudio
    BY DEF LinesAreTheAudio
  <2>1. BtcTrack
    BY ChordPipelineAssumption DEF IInv, TrackSound, LibrosaTrack
  <2> QED BY <2>1, LabLinesAudio DEF LinesAreTheAudio, BtcTrack
<1> QED BY <1>1, IInvHolds, PTL

(* CellsTell: the cells of the panel are maximal and show, at the middle   *)
(* of every frame, the chord that the engine heard there.                  *)
THEOREM CellsTellHolds == Spec => []CellsTell
<1>1. IInv => CellsTell
  <2> SUFFICES ASSUME IInv, stage = "shown" PROVE CellsTell
    BY DEF CellsTell, ShowsWhatWasHeard, CellsAreMaximal
  <2>1. ChordsTell /\ cells = CollapseProgression(chords)
    BY MadeTells DEF IInv, StagesSound, Made
  <2>2. /\ cells[1].start = 0 /\ Near(Last(cells).end, track.duration) /\ DOMAIN cells = 1..Len(cells)
        /\ \A i \in 2..Len(cells) :
             Near(cells[i].start, cells[i - 1].end) /\ ~SameChord(cells[i], cells[i - 1])
        /\ \A t \in Int : \A p : Shows(chords, t, p) => Shows(cells, t, p)
    BY <2>1, CellsOfTiles DEF ChordsTell
  <2>3. CellsAreMaximal
    BY <2>2 DEF CellsAreMaximal
  <2>4. ASSUME NEW k \in 0..(track.frames - (IF track.engine = "btc" THEN 0 ELSE 1)),
               Middle(k) < track.duration
        PROVE  Shows(cells, Middle(k), Heard(k))
    BY <2>1, <2>2, <2>4 DEF ChordsTell
  <2>5. ShowsWhatWasHeard
    BY <2>2, <2>4 DEF ShowsWhatWasHeard, Shows
  <2> QED BY <2>3, <2>5 DEF CellsTell
<1> QED BY <1>1, IInvHolds, PTL
=============================================================================
