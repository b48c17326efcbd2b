--------------------------- MODULE OrderSheetsProofs ---------------------------
(***************************************************************************)
(* Theorems about OrderSheets for any clerks, receivers, sheets, items,    *)
(* quantities and limits.                                                  *)
(***************************************************************************)
EXTENDS OrderSheets, FiniteSetTheorems, WellFoundedInduction, TLAPS

--------------------------------------------------------------------------------
\* Sums over finite sets.

SumOf(f, S) == MapThenSumSet(LAMBDA x : f[x], S)
Chosen(s) == CHOOSE x \in s : TRUE

\* One step of the recursion that MapThenSumSet is defined by, and its solutions.
SumStep(f, S, g) ==
  [s \in SUBSET S |-> IF s = {} THEN 0 ELSE f[Chosen(s)] + g[s \ {Chosen(s)}]]
Sums(f, S) == {g \in [SUBSET S -> Nat] : g = SumStep(f, S, g)}

\* Among subsets of a finite set there is one that contains no other.
LEMMA LeastSubset ==
  ASSUME NEW S, IsFiniteSet(S), NEW T \in SUBSET SUBSET S, T # {}
  PROVE  \E U \in T : \A V \in T : V \subseteq U => V = U
<1> DEFINE R == StrictSubsetOrdering(S)
<1>1. T \subseteq FiniteSubsetsOf(S)
  BY FS_Subset DEF FiniteSubsetsOf
<1>2. PICK U \in T : \A V \in T : ~(<<V, U>> \in R)
  <2>1. IsWellFoundedOn(R, FiniteSubsetsOf(S))
    BY FS_StrictSubsetOrderingWellFounded
  <2> HIDE DEF R
  <2> QED BY <1>1, <2>1, WFMin
<1> QED BY <1>2 DEF StrictSubsetOrdering

\* A chosen member is one.
LEMMA ChosenIn == ASSUME NEW s, s # {} PROVE Chosen(s) \in s
BY DEF Chosen

\* Two solutions agree where both are defined.
LEMMA SumsAgree ==
  ASSUME NEW f, NEW S, IsFiniteSet(S), NEW T \in SUBSET S,
         NEW g, g = SumStep(f, S, g), NEW h, h = SumStep(f, T, h)
  PROVE  \A s \in SUBSET T : g[s] = h[s]
<1> DEFINE Differ == {s \in SUBSET T : g[s] # h[s]}
<1> SUFFICES ASSUME Differ # {} PROVE FALSE
  OBVIOUS
<1>1. PICK U \in Differ : \A V \in Differ : V \subseteq U => V = U
  <2>1. Differ \in SUBSET SUBSET S
    OBVIOUS
  <2> HIDE DEF Differ
  <2> QED BY <2>1, LeastSubset
<1> DEFINE x == Chosen(U)
<1>2. CASE U = {}
  BY <1>1, <1>2 DEF SumStep
<1>3. CASE U # {}
  <2>1. x \in U
    BY <1>3, ChosenIn
  <2>2. g[U \ {x}] = h[U \ {x}]
    BY <1>1, <2>1
  <2>3. g[U] = f[x] + g[U \ {x}] /\ h[U] = f[x] + h[U \ {x}]
    BY <1>1, <1>3, <2>1 DEF SumStep
  <2> QED BY <1>1, <2>2, <2>3
<1> QED BY <1>2, <1>3

\* A solution for a set is one for its subsets too.
LEMMA SumsNarrow ==
  ASSUME NEW f, NEW S, NEW T \in SUBSET S, NEW g \in Sums(f, S)
  PROVE  [s \in SUBSET T |-> g[s]] \in Sums(f, T)
<1> DEFINE h == [s \in SUBSET T |-> g[s]]
<1>1. h \in [SUBSET T -> Nat]
  BY DEF Sums
<1>2. ASSUME NEW s \in SUBSET T
      PROVE  h[s] = IF s = {} THEN 0 ELSE f[Chosen(s)] + h[s \ {Chosen(s)}]
  BY DEF Sums, SumStep
<1>3. h = SumStep(f, T, h)
  <2> HIDE DEF h
  <2> QED BY <1>1, <1>2 DEF SumStep
<1> QED BY <1>1, <1>3 DEF Sums

\* Every finite set has a solution: the first set without one would get it from the
\* solutions of its parts.
LEMMA SumsExist ==
  ASSUME NEW S, IsFiniteSet(S), NEW f, \A x \in S : f[x] \in Nat
  PROVE  Sums(f, S) # {}
<1> DEFINE Without == {s \in SUBSET S : Sums(f, s) = {}}
<1> SUFFICES ASSUME Without # {} PROVE FALSE
  <2>1. ASSUME Sums(f, S) = {} PROVE S \in Without
    BY <2>1
  <2> QED BY <2>1
<1>1. PICK U \in Without : \A V \in Without : V \subseteq U => V = U
  <2>1. Without \in SUBSET SUBSET S
    OBVIOUS
  <2> HIDE DEF Without
  <2> QED BY <2>1, LeastSubset
<1>2. \A V \in SUBSET U : V # U => Sums(f, V) # {}
  BY <1>1
<1> DEFINE G(V) == (CHOOSE g : g \in Sums(f, V))[V]
           h == [s \in SUBSET U |-> IF s = {} THEN 0 ELSE f[Chosen(s)] + G(s \ {Chosen(s)})]
<1>3. \A V \in SUBSET U : V # U => \E g \in Sums(f, V) : G(V) = g[V]
  BY <1>2
<1>4. \A V \in SUBSET U : V # U => G(V) \in Nat
  BY <1>3 DEF Sums
<1>5. \A s \in SUBSET U : s # {} => /\ Chosen(s) \in s /\ f[Chosen(s)] \in Nat
                                    /\ s \ {Chosen(s)} \in SUBSET U /\ s \ {Chosen(s)} # U
  BY <1>1, ChosenIn
<1>6. h \in [SUBSET U -> Nat]
  <2> HIDE DEF G
  <2> QED BY <1>4, <1>5
<1>7. ASSUME NEW V \in SUBSET U, V # U PROVE h[V] = G(V)
  <2>1. PICK g \in Sums(f, V) : G(V) = g[V]
    BY <1>3, <1>7
  <2>2. g = SumStep(f, V, g)
    BY <2>1 DEF Sums
  <2>3. CASE V = {}
    BY <2>1, <2>2, <2>3 DEF SumStep
  <2>4. CASE V # {}
    <3> DEFINE W == V \ {Chosen(V)}
    <3>1. W \in SUBSET U /\ W # U /\ W \in SUBSET V /\ IsFiniteSet(V)
      BY <1>1, <1>5, <2>4, FS_Subset
    <3>2. PICK k \in Sums(f, W) : G(W) = k[W]
      BY <1>3, <3>1
    <3>3. g[W] = k[W]
      <4>1. k = SumStep(f, W, k)
        BY <3>2 DEF Sums
      <4> HIDE DEF W, G
      <4> QED BY <2>2, <3>1, <4>1, SumsAgree
    <3>4. g[V] = f[Chosen(V)] + g[W]
      BY <2>2, <2>4 DEF SumStep
    <3>5. h[V] = f[Chosen(V)] + G(W)
      BY <2>4
    <3> QED BY <2>1, <3>2, <3>3, <3>4, <3>5
  <2> QED BY <2>3, <2>4
<1>8. \A s \in SUBSET U : h[s] = IF s = {} THEN 0 ELSE f[Chosen(s)] + h[s \ {Chosen(s)}]
  <2> TAKE s \in SUBSET U
  <2>1. CASE s = {}
    BY <2>1
  <2>2. CASE s # {}
    <3>1. h[s] = f[Chosen(s)] + G(s \ {Chosen(s)})
      BY <2>2
    <3> HIDE DEF h, G
    <3> QED BY <1>5, <1>7, <2>2, <3>1
  <2> QED BY <2>1, <2>2
<1>9. h \in Sums(f, U)
  <2> HIDE DEF h
  <2> QED BY <1>6, <1>8 DEF Sums, SumStep
<1> QED BY <1>1, <1>9

\* The sum is what any solution says.
LEMMA SumIsSolution ==
  ASSUME NEW S, IsFiniteSet(S), NEW f, \A x \in S : f[x] \in Nat
  PROVE  /\ SumOf(f, S) \in Nat
         /\ \A g : g = SumStep(f, S, g) => SumOf(f, S) = g[S]
<1> DEFINE sum == CHOOSE g : g = SumStep(f, S, g)
<1>1. SumOf(f, S) = sum[S]
  BY DEF SumOf, MapThenSumSet, MapThenFoldSet, SumStep, Chosen
<1>2. PICK h \in [SUBSET S -> Nat] : h = SumStep(f, S, h)
  BY SumsExist DEF Sums
<1>3. sum = SumStep(f, S, sum)
  <2>1. \E g : g = SumStep(f, S, g)
    BY <1>2
  <2> QED BY <2>1, Zenon
<1>4. \A g : g = SumStep(f, S, g) => g[S] = sum[S]
  <2> HIDE DEF sum
  <2> QED BY <1>3, SumsAgree
<1> HIDE DEF sum
<1> QED BY <1>1, <1>2, <1>4

\* The sum over no members, and over some: the chosen one and the rest.
LEMMA SumTakesChosen ==
  ASSUME NEW S, IsFiniteSet(S), NEW f, \A x \in S : f[x] \in Nat
  PROVE  /\ S = {} => SumOf(f, S) = 0
         /\ S # {} => SumOf(f, S) = f[Chosen(S)] + SumOf(f, S \ {Chosen(S)})
<1>1. PICK g \in [SUBSET S -> Nat] : g = SumStep(f, S, g)
  BY SumsExist DEF Sums
<1>2. SumOf(f, S) = g[S]
  BY <1>1, SumIsSolution
<1>3. g[S] = IF S = {} THEN 0 ELSE f[Chosen(S)] + g[S \ {Chosen(S)}]
  BY <1>1 DEF SumStep
<1>4. ASSUME S # {} PROVE SumOf(f, S \ {Chosen(S)}) = g[S \ {Chosen(S)}]
  <2> DEFINE T == S \ {Chosen(S)}
             h == [s \in SUBSET T |-> g[s]]
  <2>1. T \in SUBSET S /\ IsFiniteSet(T)
    BY FS_Subset
  <2>2. h \in Sums(f, T)
    <3>1. g \in Sums(f, S)
      BY <1>1 DEF Sums
    <3> HIDE DEF T
    <3> QED BY <2>1, <3>1, SumsNarrow
  <2>3. h = SumStep(f, T, h) /\ h[T] = g[T]
    BY <2>2 DEF Sums
  <2>4. \A x \in T : f[x] \in Nat
    BY <2>1
  <2> HIDE DEF T, h
  <2>5. SumOf(f, T) = h[T]
    BY <2>1, <2>3, <2>4, SumIsSolution
  <2> QED BY <2>3, <2>5 DEF T
<1> QED BY <1>2, <1>3, <1>4

\* Any member may be taken first.
LEMMA SumTakesAny ==
  ASSUME NEW S, IsFiniteSet(S), NEW f, \A x \in S : f[x] \in Nat
  PROVE  \A x \in S : SumOf(f, S) = f[x] + SumOf(f, S \ {x})
<1> DEFINE Fails == {s \in SUBSET S : \E x \in s : SumOf(f, s) # f[x] + SumOf(f, s \ {x})}
<1> SUFFICES ASSUME Fails # {} PROVE FALSE
  <2>1. ASSUME NEW x \in S, SumOf(f, S) # f[x] + SumOf(f, S \ {x}) PROVE S \in Fails
    BY <2>1
  <2> QED BY <2>1
<1>1. PICK U \in Fails : \A V \in Fails : V \subseteq U => V = U
  <2>1. Fails \in SUBSET SUBSET S
    OBVIOUS
  <2> HIDE DEF Fails
  <2> QED BY <2>1, LeastSubset
<1>2. PICK x \in U : SumOf(f, U) # f[x] + SumOf(f, U \ {x})
  BY <1>1
<1>3. \A V \in SUBSET U : V # U => \A y \in V : SumOf(f, V) = f[y] + SumOf(f, V \ {y})
  BY <1>1
<1>4. \A V \in SUBSET U : IsFiniteSet(V) /\ \A y \in V : f[y] \in Nat
  BY <1>1, FS_Subset
<1> DEFINE y == Chosen(U)
<1>5. y \in U
  BY <1>2, ChosenIn
<1>6. SumOf(f, U) = f[y] + SumOf(f, U \ {y})
  BY <1>2, <1>4, SumTakesChosen
<1> HIDE DEF Fails, y
<1>7. x # y
  BY <1>2, <1>6
<1>8. SumOf(f, U \ {y}) = f[x] + SumOf(f, (U \ {y}) \ {x})
  BY <1>3, <1>5, <1>7
<1>9. SumOf(f, U \ {x}) = f[y] + SumOf(f, (U \ {x}) \ {y})
  BY <1>2, <1>3, <1>5, <1>7
<1>10. (U \ {y}) \ {x} = (U \ {x}) \ {y}
  OBVIOUS
<1>11. SumOf(f, (U \ {x}) \ {y}) \in Nat /\ f[x] \in Nat /\ f[y] \in Nat
  BY <1>2, <1>4, <1>5, SumIsSolution
<1> QED BY <1>2, <1>6, <1>8, <1>9, <1>10, <1>11

\* Two sets whose members correspond have the same sum.
LEMMA SumCorresponds ==
  ASSUME NEW S, IsFiniteSet(S), NEW f, NEW g, NEW b,
         \A x \in S : f[x] \in Nat /\ f[x] = g[b[x]],
         \A x, y \in S : b[x] = b[y] => x = y
  PROVE  SumOf(f, S) = SumOf(g, {b[x] : x \in S})
<1> DEFINE At(s) == {b[x] : x \in s}
           Fails == {s \in SUBSET S : SumOf(f, s) # SumOf(g, At(s))}
<1> SUFFICES ASSUME Fails # {} PROVE FALSE
  <2>1. ASSUME SumOf(f, S) # SumOf(g, At(S)) PROVE S \in Fails
    BY <2>1
  <2> QED BY <2>1
<1>1. PICK U \in Fails : \A V \in Fails : V \subseteq U => V = U
  <2>1. Fails \in SUBSET SUBSET S
    OBVIOUS
  <2> HIDE DEF Fails
  <2> QED BY <2>1, LeastSubset
<1>2. U \in SUBSET S /\ SumOf(f, U) # SumOf(g, At(U))
  BY <1>1
<1>3. \A V \in SUBSET U : V # U => SumOf(f, V) = SumOf(g, At(V))
  BY <1>1
<1>4. IsFiniteSet(U) /\ \A x \in U : f[x] \in Nat
  BY <1>2, FS_Subset
<1>5. IsFiniteSet(At(U)) /\ \A z \in At(U) : g[z] \in Nat
  <2>1. IsFiniteSet(At(U))
    <3>1. [x \in U |-> b[x]] \in Surjection(U, At(U))
      BY DEF Surjection
    <3> HIDE DEF At
    <3> QED BY <1>4, <3>1, FS_Surjection
  <2> QED BY <1>2, <2>1
<1>6. CASE U = {}
  <2>1. At(U) = {}
    BY <1>6
  <2> HIDE DEF At
  <2> QED BY <1>2, <1>4, <1>5, <1>6, <2>1, SumTakesChosen
<1>7. ASSUME NEW x \in U PROVE FALSE
  <2>1. At(U) \ {b[x]} = At(U \ {x})
    BY <1>2
  <2>2. b[x] \in At(U)
    OBVIOUS
  <2>3. f[x] = g[b[x]]
    BY <1>2
  <2>4. SumOf(f, U \ {x}) = SumOf(g, At(U \ {x}))
    BY <1>3
  <2> HIDE DEF At, Fails
  <2>5. SumOf(f, U) = f[x] + SumOf(f, U \ {x})
    BY <1>4, SumTakesAny
  <2>6. SumOf(g, At(U)) = g[b[x]] + SumOf(g, At(U) \ {b[x]})
    BY <1>5, <2>2, SumTakesAny
  <2> QED BY <1>2, <2>1, <2>3, <2>4, <2>5, <2>6
<1> QED BY <1>6, <1>7

--------------------------------------------------------------------------------
\* The invariants.

\* Ids are given out once, so a line that a receive has locked keeps the quantity it was
\* capped at, also when a clerk deletes it meanwhile.
IdsInUse ==
  /\ lines \subseteq 1..nextId - 1
  /\ \A r \in Receivers :
       recv[r].locked \cup recv[r].visited \cup recv[r].rows \cup recv[r].open \subseteq 1..nextId - 1
Capped == \A r \in Receivers : \A l \in recv[r].locked : recv[r].mine[l] <= line[l].qty
Typed == TypeOK /\ IdsInUse /\ Capped

Issued(s) == sheet[s].status \notin {"none", "draft"}

\* No line is from before its sheet was made, and on a sheet that nobody raced for no item
\* has two; ids not given out yet owe nothing; the estimate stored with such a sheet is that
\* of its lines; nobody has sent a sheet that is not.
RowsInOrder ==
  /\ \A l \in lines : sheet[line[l].sheet].status # "none"
  /\ \A k, l \in lines :
       line[k].sheet = line[l].sheet /\ line[k].item = line[l].item /\ line[l].sheet \notin raced
         => k = l
  /\ \A l \in Lines : l >= nextId => due[l] = 0
Estimates == \A s \in Sheets \ raced : sheet[s].status # "none" => sheet[s].total = EstimateOf(s)
UnsentByNobody == \A s \in Sheets : ~Issued(s) => sheet[s].by = "nobody"

\* What a request has read of its sheet is still so while nobody else has written it.
StillSo(c) ==
  \A s \in Sheets : s = clerk[c].sheet =>
    /\ clerk[c].pc \in {"budget", "mark", "snap", "replace"} => sheet[s].status = "draft"
    /\ clerk[c].pc = "replace" => clerk[c].doomed = LinesOf(s)
    /\ clerk[c].pc \in {"budget", "mark"} /\ ~clerk[c].admin => sheet[s].total <= Approval
    /\ clerk[c].pc = "mark" /\ ~clerk[c].admin => EstimateOf(s) <= Budget

\* A request works on a sheet that was made, and deletes no other's lines.
ReadHolds(c) ==
  /\ clerk[c].pc # "idle" => sheet[clerk[c].sheet].status # "none"
  /\ \A l \in clerk[c].doomed : l \in 1..nextId - 1 /\ line[l].sheet = clerk[c].sheet
  /\ clerk[c].current => StillSo(c)

\* What a receive works on belongs to sheets that were sent.
WorksOn(r) ==
  /\ recv[r].rows \subseteq recv[r].visited
  /\ \A l \in recv[r].visited : /\ Issued(line[l].sheet) /\ line[l].item = recv[r].item
                                /\ line[l].sheet \notin raced => l \in lines
  /\ recv[r].pc # "idle" => recv[r].qty > 0
  /\ recv[r].pc \in {"cover", "close"} => Issued(recv[r].at)
  /\ \A s \in recv[r].closing : Issued(s)

\* A line of a sheet nobody raced for is open until the receive has covered it; what the
\* receive locks it covers exactly once.
OpensOnce(r) ==
  /\ recv[r].open \subseteq recv[r].visited \ (recv[r].rows \cup recv[r].locked)
  /\ recv[r].open # {} => recv[r].left = recv[r].qty
  /\ \A l \in recv[r].open : line[l].qty - line[l].received <= recv[r].gap[l]
CoversOnce(r) ==
  /\ recv[r].open # {} => recv[r].pc = "cover"
  /\ \A l \in recv[r].open : line[l].sheet = recv[r].at
  /\ recv[r].at \notin raced => OpensOnce(r)
  /\ \A l \in recv[r].locked : line[l].sheet \notin raced =>
       /\ l \in recv[r].visited \ recv[r].rows
       /\ recv[r].mine[l] = Min({line[l].qty, line[l].received + recv[r].qty})
  /\ \A l \in recv[r].visited \ (recv[r].rows \cup recv[r].open) :
       line[l].sheet \notin raced => l \in recv[r].locked \/ line[l].received = line[l].qty

\* A sheet that a receive is to close is covered as the receive sees it.
ClosesCovered(r) ==
  \A s \in Sheets \ raced : s \in recv[r].closing \/ (recv[r].pc = "close" /\ s = recv[r].at) =>
    \A l \in LinesOf(s) : Seen(r, l) = line[l].qty

LocksApart == \A r, q \in Receivers : r # q => recv[r].locked \cap recv[q].locked = {}

\* The tables, the requests and the receives of the office.
Books == /\ CoverIsExact /\ ReceivedIsCovered /\ OnlyRacesEvadeApproval
         /\ RowsInOrder /\ Estimates /\ UnsentByNobody
Receives == /\ LocksApart
            /\ \A r \in Receivers : WorksOn(r) /\ CoversOnce(r) /\ ClosesCovered(r)
Orderly == Typed /\ Books /\ Receives /\ \A c \in Clerks : ReadHolds(c)

--------------------------------------------------------------------------------
\* Facts about the data.

\* A set of naturals has a least member.
LEMMA MinFacts ==
  ASSUME NEW S \in SUBSET Nat, S # {}
  PROVE  Min(S) \in S /\ \A y \in S : Min(S) <= y
<1> DEFINE R == OpToRel(<, Nat)
<1>1. \A m, n \in Nat : m < n => <<m, n>> \in R
  BY DEF OpToRel
<1>2. IsWellFoundedOn(R, Nat)
  BY NatLessThanWellFounded
<1> HIDE DEF R
<1>3. PICK x \in S : \A y \in S : ~(<<y, x>> \in R)
  BY <1>2, WFMin
<1>4. ASSUME NEW y \in S PROVE x <= y
  <2>1. x \in Nat /\ y \in Nat /\ ~(y < x)
    BY <1>1, <1>3
  <2> QED BY <2>1
<1> QED BY <1>4 DEF Min

\* The smaller of two.
LEMMA MinTwo ==
  ASSUME NEW a \in Int, NEW b \in Int
  PROVE  Min({a, b}) = IF a <= b THEN a ELSE b
<1> DEFINE S == {a, b}
<1>1. PICK x \in S : \A y \in S : x <= y
  BY DEF S
<1>2. Min(S) \in S /\ \A y \in S : Min(S) <= y
  <2> HIDE DEF S
  <2> QED BY <1>1 DEF Min
<1> QED BY <1>2 DEF S

\* An order is a quantity for each of finitely many items.
LEMMA OrderTypes ==
  ASSUME NEW order \in Orders
  PROVE  /\ DOMAIN order \subseteq Items /\ IsFiniteSet(DOMAIN order)
         /\ \A i \in DOMAIN order : order[i] \in Int
         /\ order = [i \in DOMAIN order |-> order[i]]
<1>1. PICK wanted \in SUBSET Items : order \in [wanted -> Ordered]
  BY DEF Orders
<1> QED BY <1>1, IdAssumption, QtyAssumption, FS_Subset

\* The lines of the office are finitely many.
LEMMA FiniteLines == IsFiniteSet(Lines) /\ Lines \subseteq Nat
BY QtyAssumption, FS_Interval DEF Lines

\* The ids an order's lines are given are new, within the bound, and different.
LEMMA IdsAreNew ==
  ASSUME NEW order \in Orders, nextId \in Nat
  PROVE  /\ Cardinality(DOMAIN order) \in Nat
         /\ \A i \in DOMAIN order :
              IdOf(order, i) \in nextId..nextId + Cardinality(DOMAIN order) - 1
         /\ \A i, j \in DOMAIN order : IdOf(order, i) = IdOf(order, j) => i = j
<1> DEFINE D == DOMAIN order
           Below(i) == {k \in D : k < i}
<1>1. IsFiniteSet(D) /\ Cardinality(D) \in Nat /\ D \subseteq Nat
  BY OrderTypes, IdAssumption, FS_CardinalityType
<1>2. \A i \in D : /\ IsFiniteSet(Below(i)) /\ Cardinality(Below(i)) \in Nat
                   /\ Below(i) \in SUBSET D /\ i \notin Below(i)
  <2> TAKE i \in D
  <2>1. Below(i) \in SUBSET D /\ i \notin Below(i)
    BY <1>1
  <2> HIDE DEF Below
  <2> QED BY <1>1, <2>1, FS_Subset, FS_CardinalityType
<1>3. \A i \in D : Cardinality(Below(i)) < Cardinality(D)
  <2> HIDE DEF Below, D
  <2> TAKE i \in D
  <2>1. Below(i) # D /\ Below(i) \in SUBSET D
    BY <1>2
  <2> QED BY <1>1, <1>2, <2>1, FS_Subset
<1>4. ASSUME NEW i \in D, NEW j \in D, i < j
      PROVE  Cardinality(Below(i)) < Cardinality(Below(j))
  <2>1. Below(i) \in SUBSET Below(j) /\ i \in Below(j)
    BY <1>1, <1>4
  <2> HIDE DEF Below, D
  <2>2. Below(i) # Below(j)
    BY <1>2, <2>1
  <2> QED BY <1>2, <2>1, <2>2, FS_Subset
<1>5. \A i \in D : IdOf(order, i) = nextId + Cardinality(Below(i))
  BY DEF IdOf
<1> HIDE DEF Below
<1>6. \A i, j \in D : i = j \/ i < j \/ j < i
  BY <1>1
<1>7. \A i \in D : IdOf(order, i) \in nextId..nextId + Cardinality(D) - 1
  BY <1>1, <1>2, <1>3, <1>5
<1>8. \A i, j \in D : IdOf(order, i) = IdOf(order, j) => i = j
  BY <1>2, <1>4, <1>5, <1>6
<1> QED BY <1>1, <1>7, <1>8

\* What insertDraftLines writes.
LEMMA InsertFacts ==
  ASSUME TypeOK, NEW order \in Orders, OrderAccepted(order), NEW s \in Sheets, NEW gone,
         InsertLines(s, order, gone)
  PROVE  /\ nextId' \in 1..MaxLines + 1 /\ nextId' >= nextId
         /\ Inserted(order) \subseteq nextId..nextId' - 1 /\ Inserted(order) \subseteq Lines
         /\ lines' = (lines \ gone) \cup Inserted(order)
         /\ line' \in [Lines -> Line]
         /\ \A l \in Lines \ Inserted(order) : line'[l] = line[l]
         /\ \A l \in Inserted(order) : line'[l].sheet = s /\ line'[l].received = 0
         /\ \A i \in DOMAIN order : /\ line'[IdOf(order, i)].qty = order[i]
                                    /\ line'[IdOf(order, i)].item = i
         /\ \A l \in Inserted(order) : \E i \in DOMAIN order : l = IdOf(order, i)
<1> DEFINE D == DOMAIN order
           Row(l) == LET i == CHOOSE j \in D : IdOf(order, j) = l
                     IN  [sheet |-> s, item |-> i, qty |-> order[i], received |-> 0]
<1>1. nextId \in Nat /\ nextId >= 1 /\ MaxLines \in Nat
  BY QtyAssumption DEF TypeOK
<1>2. Cardinality(D) \in Nat /\ nextId' = nextId + Cardinality(D) /\ nextId' <= MaxLines + 1
  BY <1>1, IdsAreNew DEF InsertLines
<1>3. Inserted(order) \subseteq nextId..nextId' - 1
  BY <1>1, <1>2, IdsAreNew DEF Inserted
<1>4. Inserted(order) \subseteq Lines
  BY <1>1, <1>2, <1>3 DEF Lines
<1>5. /\ lines' = (lines \ gone) \cup Inserted(order)
      /\ line' = [l \in Lines |-> IF l \in Inserted(order) THEN Row(l) ELSE line[l]]
  BY DEF InsertLines
<1>6. \A i \in D : /\ IdOf(order, i) \in Inserted(order)
                   /\ Row(IdOf(order, i)) = [sheet |-> s, item |-> i, qty |-> order[i], received |-> 0]
  <2> TAKE i \in D
  <2>1. (CHOOSE j \in D : IdOf(order, j) = IdOf(order, i)) = i
    BY <1>1, IdsAreNew
  <2> QED BY <2>1 DEF Inserted
<1>7. \A i \in D : i \in Items /\ order[i] \in Quantity
  BY OrderTypes, QtyAssumption DEF OrderAccepted, Quantity
<1>8. \A l \in Inserted(order) : \E i \in D : l = IdOf(order, i)
  BY DEF Inserted
<1> HIDE DEF Row
<1>9. \A l \in Inserted(order) : Row(l) \in Line /\ Row(l).sheet = s /\ Row(l).received = 0
  <2>1. 0 \in Quantity
    BY QtyAssumption DEF Quantity
  <2> QED BY <1>6, <1>7, <1>8, <2>1 DEF Line
<1>10. line' \in [Lines -> Line]
  BY <1>5, <1>9 DEF TypeOK
<1>11. \A i \in D : line'[IdOf(order, i)].qty = order[i] /\ line'[IdOf(order, i)].item = i
  BY <1>4, <1>5, <1>6
<1> QED BY <1>1, <1>2, <1>3, <1>4, <1>5, <1>8, <1>9, <1>10, <1>11

--------------------------------------------------------------------------------
\* Types.

\* The initial state.
LEMMA InitTyped == Init => Typed
<1> SUFFICES ASSUME Init PROVE Typed
  OBVIOUS
<1>1. Min(Sheets) \in Sheets /\ Min(Items) \in Items
  BY MinFacts, IdAssumption
<1>2. 0 \in Quantity /\ 1 \in 1..MaxLines + 1
  BY QtyAssumption DEF Quantity
<1>3. NoSheet \in Sheet /\ NoLine \in Line
  BY <1>1, <1>2 DEF NoSheet, Sheet, NoLine, Line
<1>4. AtRest \in Desk
  BY <1>1 DEF AtRest, Desk
<1>5. NoReceive \in Transaction
  BY <1>1, <1>2 DEF NoReceive, Transaction
<1>6. TypeOK
  BY <1>2, <1>3, <1>4, <1>5 DEF Init, TypeOK
<1> QED BY <1>6 DEF Init, Typed, IdsInUse, Capped, NoReceive

\* A step of a clerk that writes no table keeps the types.
LEMMA DeskTyped ==
  ASSUME Typed, UNCHANGED <<sheet, line, lines, nextId, recv, due, raced>>,
         clerk' \in [Clerks -> Desk]
  PROVE  Typed'
BY DEF Typed, TypeOK, IdsInUse, Capped

\* A step of a receive that writes no table keeps the types.
LEMMA ReceiveTyped ==
  ASSUME Typed, UNCHANGED <<sheet, line, lines, nextId, clerk, due, raced>>, NEW r \in Receivers,
         NEW t \in Transaction, recv' = [recv EXCEPT ![r] = t],
         t.locked \cup t.visited \cup t.rows \cup t.open \subseteq 1..nextId - 1,
         \A l \in t.locked : t.mine[l] <= line[l].qty
  PROVE  Typed'
<1>1. recv \in [Receivers -> Transaction]
  BY DEF Typed, TypeOK
<1>2. recv' \in [Receivers -> Transaction] /\ recv'[r] = t /\ \A q \in Receivers \ {r} : recv'[q] = recv[q]
  BY <1>1
<1>3. TypeOK'
  BY <1>2 DEF Typed, TypeOK
<1>4. IdsInUse' /\ Capped'
  BY <1>2 DEF Typed, IdsInUse, Capped
<1> QED BY <1>3, <1>4 DEF Typed

\* The lines of an order are written.
LEMMA InsertTyped ==
  ASSUME Typed, NEW s \in Sheets, NEW order \in Orders, OrderAccepted(order), NEW gone,
         InsertLines(s, order, gone), sheet' \in [Sheets -> Sheet],
         clerk' \in [Clerks -> Desk], raced' \subseteq Sheets, UNCHANGED <<recv, due>>
  PROVE  Typed'
<1>1. TypeOK
  BY DEF Typed
<1>2. /\ nextId' \in 1..MaxLines + 1 /\ nextId' >= nextId /\ nextId \in Nat
      /\ Inserted(order) \subseteq nextId..nextId' - 1 /\ Inserted(order) \subseteq Lines
      /\ lines' = (lines \ gone) \cup Inserted(order) /\ line' \in [Lines -> Line]
      /\ \A l \in Lines \ Inserted(order) : line'[l] = line[l]
      /\ \A l \in Inserted(order) : line'[l].received = 0
  BY <1>1, InsertFacts DEF TypeOK
<1>3. \A l \in Lines : line'[l].qty >= 0
  BY <1>2, QtyAssumption DEF Line, Quantity
<1>4. TypeOK'
  BY <1>1, <1>2, <1>3 DEF TypeOK
<1>5. IdsInUse'
  <2>1. 1..nextId - 1 \subseteq 1..nextId' - 1 /\ nextId..nextId' - 1 \subseteq 1..nextId' - 1
    <3>1. nextId \in Nat /\ nextId >= 1 /\ nextId' \in Nat /\ nextId' >= nextId
      BY <1>1, <1>2, QtyAssumption DEF TypeOK
    <3>2. \A m, n \in Nat : m >= 1 /\ n >= m =>
            1..m - 1 \subseteq 1..n - 1 /\ m..n - 1 \subseteq 1..n - 1
      OBVIOUS
    <3> QED BY <3>1, <3>2
  <2> QED BY <1>2, <2>1 DEF Typed, IdsInUse
<1>6. Capped'
  <2> SUFFICES ASSUME NEW r \in Receivers, NEW l \in recv[r].locked
               PROVE  recv[r].mine[l] <= line'[l].qty
    BY DEF Capped
  <2>1. l \in 1..nextId - 1 /\ l \in Lines
    BY <1>1 DEF Typed, IdsInUse, TypeOK, Transaction
  <2>2. l \notin Inserted(order)
    BY <1>2, <2>1
  <2> QED BY <1>2, <2>1, <2>2 DEF Typed, Capped
<1> QED BY <1>4, <1>5, <1>6 DEF Typed

\* The estimate of an order is a natural.
LEMMA TotalFacts ==
  ASSUME NEW order \in Orders, OrderAccepted(order)
  PROVE  TotalOf(order) \in Nat /\ TotalOf(order) = SumOf(order, DOMAIN order)
<1>1. TotalOf(order) = SumOf(order, DOMAIN order)
  BY DEF TotalOf, SumOf, MapThenSumSet, MapThenFoldSet
<1>2. IsFiniteSet(DOMAIN order) /\ \A i \in DOMAIN order : order[i] \in Nat
  BY OrderTypes, QtyAssumption DEF OrderAccepted
<1> QED BY <1>1, <1>2, SumIsSolution

\* A request that begins, and one that writes.
LEMMA DeskFacts ==
  /\ AtRest \in Desk /\ AtRest.pc = "idle" /\ AtRest.doomed = {} /\ ~AtRest.current
  /\ \A pc \in {"budget", "mark", "snap", "cancel"}, s \in Sheets, admin \in BOOLEAN :
       /\ Working(pc, s, admin) \in Desk
       /\ Working(pc, s, admin).pc = pc /\ Working(pc, s, admin).sheet = s
       /\ Working(pc, s, admin).admin = admin /\ Working(pc, s, admin).doomed = {}
BY MinFacts, IdAssumption DEF AtRest, Desk, Working

\* A write of clerk c to a sheet: others who have read it are out of date.
LEMMA WriteFacts ==
  ASSUME clerk \in [Clerks -> Desk], NEW c \in Clerks, NEW s \in Sheets, Write(c, s)
  PROVE  /\ clerk' \in [Clerks -> Desk] /\ clerk'[c] = AtRest
         /\ \A d \in Clerks \ {c} :
              /\ clerk'[d].pc = clerk[d].pc /\ clerk'[d].sheet = clerk[d].sheet
              /\ clerk'[d].admin = clerk[d].admin /\ clerk'[d].doomed = clerk[d].doomed
              /\ clerk'[d].current => clerk[d].current /\ clerk[d].sheet # s
         /\ raced \subseteq raced' /\ raced' \subseteq raced \cup {s}
         /\ s \in raced' \/ clerk[c].current
<1>1. AtRest \in Desk
  BY DeskFacts
<1>2. \A d \in Clerks : [clerk[d] EXCEPT !.current = FALSE] \in Desk
  BY DEF Desk
<1>3. clerk' \in [Clerks -> Desk] /\ clerk'[c] = AtRest
  BY <1>1, <1>2 DEF Write
<1>4. ASSUME NEW d \in Clerks \ {c}
      PROVE  /\ clerk'[d].pc = clerk[d].pc /\ clerk'[d].sheet = clerk[d].sheet
             /\ clerk'[d].admin = clerk[d].admin /\ clerk'[d].doomed = clerk[d].doomed
             /\ clerk'[d].current => clerk[d].current /\ clerk[d].sheet # s
  <2>1. clerk'[d] = IF clerk[d].sheet = s THEN [clerk[d] EXCEPT !.current = FALSE] ELSE clerk[d]
    BY DEF Write
  <2>2. clerk[d] \in Desk
    OBVIOUS
  <2> QED BY <2>1, <2>2 DEF Desk
<1> QED BY <1>3, <1>4 DEF Write

\* Every step of the office.
LEMMA OfficeTyped ==
  ASSUME Typed, NEW c \in Clerks, Office(c)
  PROVE  Typed'
<1>1. /\ AtRest \in Desk /\ \A x \in Desk : x.sheet \in Sheets
      /\ clerk \in [Clerks -> Desk] /\ sheet \in [Sheets -> Sheet] /\ raced \subseteq Sheets
  BY DeskFacts DEF Desk, Typed, TypeOK
<1>2. ASSUME NEW order \in Orders, Create(c, order) PROVE Typed'
  <2> DEFINE unused == {s \in Sheets : sheet[s].status = "none"}
             new == Min(unused)
  <2>1. new \in Sheets
    BY <1>2, MinFacts, IdAssumption DEF Create
  <2>2. /\ OrderAccepted(order) /\ InsertLines(new, order, {})
        /\ UNCHANGED <<clerk, recv, due, raced>>
    BY <1>2 DEF Create
  <2>3. sheet' = [sheet EXCEPT ![new] = [status |-> "draft", total |-> TotalOf(order), by |-> "nobody"]]
    BY <1>2 DEF Create
  <2>4. sheet' \in [Sheets -> Sheet]
    BY <1>1, <2>1, <2>2, <2>3, TotalFacts DEF Sheet
  <2> HIDE DEF new
  <2> QED BY <1>1, <2>1, <2>2, <2>4, InsertTyped
<1>3. ASSUME NEW s \in Sheets, NEW admin \in BOOLEAN,
             ReadForSend(c, s, admin) \/ ReadForReplace(c, s) \/ ReadForCancel(c, s)
      PROVE  Typed'
  <2>1. clerk' \in [Clerks -> Desk]
    <3>1. PICK pc \in {"budget", "snap", "cancel"}, adm \in BOOLEAN :
                 clerk' = [clerk EXCEPT ![c] = Working(pc, s, adm)]
      BY <1>3 DEF ReadForSend, ReadForReplace, ReadForCancel
    <3>2. Working(pc, s, adm) \in Desk
      BY DeskFacts
    <3> QED BY <1>1, <3>1, <3>2
  <2> QED BY <1>3, <2>1, DeskTyped DEF ReadForSend, ReadForReplace, ReadForCancel
<1>4. CASE CheckBudget(c)
  <2>1. clerk' = [clerk EXCEPT ![c] = [clerk[c] EXCEPT !.pc = "mark"]]
    BY <1>4 DEF CheckBudget
  <2>2. clerk' \in [Clerks -> Desk]
    BY <1>1, <2>1 DEF Desk
  <2> QED BY <1>4, <2>2, DeskTyped DEF CheckBudget
<1>5. CASE SnapLines(c)
  <2>1. LinesOf(clerk[c].sheet) \subseteq Lines
    BY DEF LinesOf, Typed, TypeOK
  <2>2. clerk' = [clerk EXCEPT ![c] = [clerk[c] EXCEPT !.pc = "replace",
                                                       !.doomed = LinesOf(clerk[c].sheet)]]
    BY <1>5 DEF SnapLines
  <2>3. clerk' \in [Clerks -> Desk]
    BY <1>1, <2>1, <2>2 DEF Desk
  <2> QED BY <1>5, <2>3, DeskTyped DEF SnapLines
<1>6. CASE GiveUp(c)
  <2>1. clerk' \in [Clerks -> Desk]
    BY <1>1, <1>6 DEF GiveUp
  <2> QED BY <1>6, <2>1, DeskTyped DEF GiveUp
<1>7. CASE MarkSent(c) \/ MarkCancelled(c)
  <2>1. Write(c, clerk[c].sheet) /\ clerk[c].sheet \in Sheets
    BY <1>1, <1>7 DEF MarkSent, MarkCancelled
  <2>2. clerk' \in [Clerks -> Desk] /\ raced' \subseteq Sheets
    BY <1>1, <2>1, WriteFacts
  <2>3. sheet' \in [Sheets -> Sheet]
    BY <1>1, <1>7 DEF MarkSent, MarkCancelled, Sheet
  <2>4. UNCHANGED <<line, lines, nextId, recv, due>>
    BY <1>7 DEF MarkSent, MarkCancelled
  <2> QED BY <2>2, <2>3, <2>4 DEF Typed, TypeOK, IdsInUse, Capped
<1>8. ASSUME NEW order \in Orders, ReplaceLines(c, order) PROVE Typed'
  <2> DEFINE s == clerk[c].sheet
  <2>1. s \in Sheets
    BY <1>1
  <2>2. /\ OrderAccepted(order) /\ InsertLines(s, order, clerk[c].doomed)
        /\ sheet' = [sheet EXCEPT ![s].total = TotalOf(order)]
        /\ Write(c, s) /\ UNCHANGED <<recv, due>>
    BY <1>8 DEF ReplaceLines
  <2> HIDE DEF s
  <2>3. sheet' \in [Sheets -> Sheet]
    BY <1>1, <2>1, <2>2, TotalFacts DEF Sheet
  <2>4. clerk' \in [Clerks -> Desk] /\ raced' \subseteq Sheets
    BY <1>1, <2>1, <2>2, WriteFacts
  <2> QED BY <2>1, <2>2, <2>3, <2>4, InsertTyped
<1> QED BY <1>2, <1>3, <1>4, <1>5, <1>6, <1>7, <1>8 DEF Office

\* What a receive sees of a line is a quantity, and no more than the line's own if it
\* was within it.
LEMMA SeenFacts ==
  ASSUME Typed, NEW r \in Receivers, NEW l \in Lines
  PROVE  /\ Seen(r, l) \in Quantity /\ line[l].qty \in Quantity /\ line[l].received \in Quantity
         /\ l \in lines => Seen(r, l) <= line[l].qty
<1>1. recv[r] \in Transaction /\ line[l] \in Line
  BY DEF Typed, TypeOK
<1>2. recv[r].mine \in [Lines -> Quantity] /\ line[l].received \in Quantity /\ line[l].qty \in Quantity
  BY <1>1 DEF Transaction, Line
<1>3. l \in recv[r].locked => recv[r].mine[l] <= line[l].qty
  BY DEF Typed, Capped
<1>4. l \in lines => line[l].received <= line[l].qty
  BY DEF Typed, TypeOK
<1> QED BY <1>2, <1>3, <1>4 DEF Seen

\* A receive that is not under way.
LEMMA NoReceiveFacts ==
  /\ NoReceive \in Transaction /\ NoReceive.pc = "idle"
  /\ NoReceive.locked = {} /\ NoReceive.rows = {} /\ NoReceive.visited = {}
  /\ NoReceive.open = {} /\ NoReceive.closing = {}
<1>1. Min(Sheets) \in Sheets /\ Min(Items) \in Items /\ 0 \in Quantity
  BY MinFacts, IdAssumption, QtyAssumption DEF Quantity
<1> QED BY <1>1 DEF NoReceive, Transaction

\* A receive begins.
LEMMA BeginTyped ==
  ASSUME Typed, NEW r \in Receivers, NEW i \in Items, NEW q \in Received, NEW rows,
         BeginReceive(r, i, q, rows)
  PROVE  Typed'
<1> DEFINE t == [NoReceive EXCEPT !.pc = "next", !.item = i, !.qty = q,
                                  !.rows = rows, !.visited = rows]
<1>1. Min(Sheets) \in Sheets /\ 0 \in Quantity /\ q \in Quantity
  BY MinFacts, IdAssumption, QtyAssumption DEF Quantity, BeginReceive
<1>2. rows \subseteq Lines /\ rows \subseteq 1..nextId - 1
  BY DEF Typed, TypeOK, IdsInUse, BeginReceive, Fetched, kSubset, OpenRows
<1>3. recv' = [recv EXCEPT ![r] = t] /\ UNCHANGED <<sheet, line, lines, nextId, clerk, due, raced>>
  BY DEF BeginReceive
<1>4. t \in Transaction /\ t.locked = {} /\ t.visited = rows /\ t.rows = rows /\ t.open = {}
  BY <1>1, <1>2, NoReceiveFacts DEF Transaction
<1> HIDE DEF t
<1> QED BY <1>2, <1>3, <1>4, ReceiveTyped

\* A receive reads the open lines of a sheet.
LEMMA VisitTyped ==
  ASSUME Typed, NEW r \in Receivers, NEW l \in Lines, VisitSheet(r, l)
  PROVE  Typed'
<1> DEFINE s == line[l].sheet
           open == {k \in LinesOf(s) : line[k].item = recv[r].item /\ Seen(r, k) < line[k].qty}
           gap == [k \in Lines |-> IF k \in open THEN line[k].qty - Seen(r, k) ELSE 0]
           t == [recv[r] EXCEPT !.pc = "cover", !.rows = @ \ {l}, !.at = s, !.open = open,
                                !.gap = gap, !.left = recv[r].qty]
<1>1. recv[r] \in Transaction /\ line \in [Lines -> Line]
  BY DEF Typed, TypeOK
<1>2. open \subseteq Lines /\ open \subseteq 1..nextId - 1 /\ s \in Sheets
  BY <1>1 DEF Typed, TypeOK, IdsInUse, LinesOf, Line
<1>3. gap \in [Lines -> Quantity]
  <2>1. ASSUME NEW k \in open PROVE line[k].qty - Seen(r, k) \in Quantity
    BY <1>2, SeenFacts, QtyAssumption DEF Quantity
  <2>2. 0 \in Quantity
    BY QtyAssumption DEF Quantity
  <2> HIDE DEF open
  <2> QED BY <2>1, <2>2
<1>4. recv' = [recv EXCEPT ![r] = t]
  BY DEF VisitSheet
<1>6. UNCHANGED <<sheet, line, lines, nextId, clerk, due, raced>>
  BY DEF VisitSheet
<1> HIDE DEF s, open, gap
<1>5. /\ t \in Transaction /\ t.locked = recv[r].locked /\ t.rows \subseteq recv[r].rows
      /\ t.visited = recv[r].visited
      /\ t.open = open /\ t.mine = recv[r].mine
  <2>1. recv[r].qty \in Int
    BY <1>1, QtyAssumption DEF Transaction, Quantity
  <2> QED BY <1>1, <1>2, <1>3, <2>1 DEF Transaction
<1> HIDE DEF t
<1> QED BY <1>2, <1>4, <1>5, <1>6, ReceiveTyped DEF Typed, IdsInUse, Capped

\* One line is covered: what is added to it, and what it becomes.
LEMMA CoverFacts ==
  ASSUME Typed, NEW r \in Receivers, NEW l \in Lines, recv[r].left \in Int, recv[r].left > 0
  PROVE  LET cover == Min({recv[r].left, recv[r].gap[l]})
             after == Covered(r, l, cover) IN
         /\ cover = IF recv[r].left <= recv[r].gap[l] THEN recv[r].left ELSE recv[r].gap[l]
         /\ cover \in Nat /\ recv[r].gap[l] \in Nat
         /\ after \in Quantity /\ after <= line[l].qty
         /\ after = IF line[l].qty <= Seen(r, l) + cover THEN line[l].qty ELSE Seen(r, l) + cover
<1> DEFINE cover == Min({recv[r].left, recv[r].gap[l]})
<1>1. recv[r].gap[l] \in Nat
  BY QtyAssumption DEF Typed, TypeOK, Transaction, Quantity
<1>2. cover = (IF recv[r].left <= recv[r].gap[l] THEN recv[r].left ELSE recv[r].gap[l])
  BY <1>1, MinTwo
<1>3. cover \in Nat
  BY <1>1, <1>2
<1>4. Seen(r, l) \in Nat /\ line[l].qty \in Quantity /\ line[l].qty \in Nat
  BY SeenFacts, QtyAssumption DEF Quantity
<1> HIDE DEF cover
<1>5. Covered(r, l, cover) = IF line[l].qty <= Seen(r, l) + cover
                               THEN line[l].qty ELSE Seen(r, l) + cover
  BY <1>3, <1>4, MinTwo DEF Covered
<1>6. Covered(r, l, cover) \in Quantity /\ Covered(r, l, cover) <= line[l].qty
  BY <1>3, <1>4, <1>5, QtyAssumption DEF Quantity
<1> QED BY <1>1, <1>2, <1>3, <1>5, <1>6 DEF cover

\* A receive covers a line.
LEMMA CoverTyped ==
  ASSUME Typed, NEW r \in Receivers, CoverLine(r)
  PROVE  Typed'
<1> DEFINE l == Min(recv[r].open)
           cover == Min({recv[r].left, recv[r].gap[l]})
           rest == [recv[r] EXCEPT !.open = @ \ {l}, !.left = @ - cover]
           t == IF l \in lines /\ Seen(r, l) < line[l].qty
                  THEN [rest EXCEPT !.locked = @ \cup {l}, !.mine[l] = Covered(r, l, cover)]
                  ELSE rest
<1>1. recv[r] \in Transaction /\ line \in [Lines -> Line]
  BY DEF Typed, TypeOK
<1>2. /\ recv[r].open # {} /\ recv[r].open \in SUBSET Lines
      /\ recv[r].left > 0 /\ recv[r].left \in Int
  BY <1>1 DEF CoverLine, Transaction
<1>3. l \in recv[r].open /\ l \in Lines /\ l \in 1..nextId - 1
  <2>1. l \in recv[r].open
    BY <1>2, FiniteLines, MinFacts
  <2> QED BY <1>2, <2>1 DEF Typed, IdsInUse
<1>4. recv' = [recv EXCEPT ![r] = t] /\ UNCHANGED <<sheet, line, lines, nextId, clerk, due, raced>>
  BY DEF CoverLine
<1> HIDE DEF l
<1>5. cover \in Nat /\ Covered(r, l, cover) \in Quantity /\ Covered(r, l, cover) <= line[l].qty
  BY <1>2, <1>3, CoverFacts
<1> HIDE DEF cover
<1>6. /\ rest \in Transaction /\ rest.locked = recv[r].locked /\ rest.rows = recv[r].rows
      /\ rest.visited = recv[r].visited
      /\ rest.open \subseteq recv[r].open /\ rest.mine = recv[r].mine
  <2>1. recv[r].left - cover \in Int
    BY <1>2, <1>5
  <2> QED BY <1>1, <2>1 DEF Transaction
<1> HIDE DEF rest
<1>7. /\ t \in Transaction /\ t.rows = recv[r].rows /\ t.visited = recv[r].visited
      /\ t.open \subseteq recv[r].open
      /\ t.locked \subseteq recv[r].locked \cup {l}
      /\ \A k \in t.locked : t.mine[k] <= line[k].qty
  <2>1. \A k \in recv[r].locked : k \in Lines /\ recv[r].mine[k] <= line[k].qty
    BY <1>1 DEF Typed, Capped, Transaction
  <2>2. CASE t = rest
    BY <1>6, <2>1, <2>2
  <2>3. CASE t = [rest EXCEPT !.locked = @ \cup {l}, !.mine[l] = Covered(r, l, cover)]
    <3>1. t \in Transaction /\ t.rows = rest.rows /\ t.visited = rest.visited /\ t.open = rest.open
      BY <1>3, <1>5, <1>6, <2>3 DEF Transaction
    <3>2. t.locked = recv[r].locked \cup {l} /\ t.mine = [recv[r].mine EXCEPT ![l] = Covered(r, l, cover)]
      BY <1>6, <2>3 DEF Transaction
    <3>3. recv[r].mine \in [Lines -> Quantity]
      BY <1>1 DEF Transaction
    <3> QED BY <1>3, <1>5, <1>6, <2>1, <3>1, <3>2, <3>3
  <2> QED BY <2>2, <2>3
<1> HIDE DEF t
<1> QED BY <1>3, <1>4, <1>7, ReceiveTyped DEF Typed, IdsInUse

\* A receive looks whether the sheet is covered, marks it, or is rolled back.
LEMMA CheckTyped ==
  ASSUME Typed, NEW r \in Receivers, CheckLines(r) \/ CloseSheet(r) \/ RollbackReceive(r)
  PROVE  Typed'
<1>1. recv[r] \in Transaction /\ recv[r].at \in Sheets
  BY DEF Typed, TypeOK, Transaction
<1>2. /\ NoReceive \in Transaction /\ NoReceive.locked = {} /\ NoReceive.visited = {}
      /\ NoReceive.rows = {} /\ NoReceive.open = {}
  BY NoReceiveFacts
<1>3. PICK t \in Transaction :
        /\ recv' = [recv EXCEPT ![r] = t]
        /\ t = NoReceive \/ (/\ t.locked = recv[r].locked /\ t.rows = recv[r].rows
                             /\ t.visited = recv[r].visited /\ t.open \subseteq recv[r].open
                             /\ t.mine = recv[r].mine)
  <2>1. CASE CheckLines(r)
    <3> DEFINE t(pc) == [recv[r] EXCEPT !.pc = pc, !.open = {}, !.gap = [l \in Lines |-> 0],
                                        !.left = 0]
    <3>1. PICK pc \in {"close", "next"} : recv' = [recv EXCEPT ![r] = t(pc)]
      BY <2>1 DEF CheckLines
    <3>2. t(pc) \in Transaction
      <4>1. [l \in Lines |-> 0] \in [Lines -> Quantity] /\ 0 \in Int
        BY QtyAssumption DEF Quantity
      <4> DEFINE zero == [l \in Lines |-> 0]
      <4> HIDE DEF zero
      <4> QED BY <1>1, <4>1 DEF Transaction
    <3>3. /\ t(pc).locked = recv[r].locked /\ t(pc).rows = recv[r].rows
          /\ t(pc).visited = recv[r].visited /\ t(pc).open = {} /\ t(pc).mine = recv[r].mine
      BY <1>1 DEF Transaction
    <3> HIDE DEF t
    <3> QED BY <3>1, <3>2, <3>3
  <2>2. CASE CloseSheet(r)
    <3> DEFINE t == [recv[r] EXCEPT !.pc = "next", !.closing = @ \cup {recv[r].at}]
    <3>1. recv' = [recv EXCEPT ![r] = t]
      BY <2>2 DEF CloseSheet
    <3>2. t \in Transaction
      BY <1>1 DEF Transaction
    <3>3. /\ t.locked = recv[r].locked /\ t.rows = recv[r].rows
          /\ t.visited = recv[r].visited /\ t.open = recv[r].open /\ t.mine = recv[r].mine
      BY <1>1 DEF Transaction
    <3> HIDE DEF t
    <3> QED BY <3>1, <3>2, <3>3
  <2>3. CASE RollbackReceive(r)
    BY <1>2, <2>3 DEF RollbackReceive
  <2> QED BY <2>1, <2>2, <2>3
<1>4. UNCHANGED <<sheet, line, lines, nextId, clerk, due, raced>>
  BY DEF CheckLines, CloseSheet, RollbackReceive
<1> QED BY <1>2, <1>3, <1>4, ReceiveTyped DEF Typed, IdsInUse, Capped

\* A receive commits.
LEMMA CommitTyped ==
  ASSUME Typed, NEW r \in Receivers, CommitReceive(r)
  PROVE  Typed'
<1>1. /\ recv \in [Receivers -> Transaction] /\ line \in [Lines -> Line]
      /\ sheet \in [Sheets -> Sheet] /\ lines \subseteq Lines /\ due \in [Lines -> Quantity]
  BY DEF Typed, TypeOK
<1>2. /\ NoReceive \in Transaction /\ NoReceive.locked = {} /\ NoReceive.visited = {}
      /\ NoReceive.rows = {} /\ NoReceive.open = {}
  BY NoReceiveFacts
<1>3. recv' = [recv EXCEPT ![r] = NoReceive] /\ UNCHANGED <<lines, nextId, clerk, raced>>
  BY DEF CommitReceive
<1>4. recv' \in [Receivers -> Transaction] /\ recv'[r] = NoReceive /\ \A q \in Receivers \ {r} : recv'[q] = recv[q]
  BY <1>1, <1>2, <1>3
<1>5. \A l \in Lines : line'[l] = [line[l] EXCEPT !.received = Seen(r, l)]
  BY DEF CommitReceive
<1>6. \A l \in Lines : /\ line'[l] \in Line /\ line'[l].qty = line[l].qty
                       /\ line'[l].received = Seen(r, l)
  <2> TAKE l \in Lines
  <2>1. Seen(r, l) \in Quantity /\ line[l] \in Line
    BY <1>1, SeenFacts
  <2> QED BY <1>5, <2>1 DEF Line
<1>7. line' \in [Lines -> Line]
  <2>1. line' = [l \in Lines |-> line'[l]]
    BY DEF CommitReceive
  <2> QED BY <1>6, <2>1
<1>8. sheet' \in [Sheets -> Sheet]
  BY <1>1 DEF CommitReceive, Sheet
<1>9. due' \in [Lines -> Quantity]
  <2>1. ASSUME NEW l \in Lines PROVE Min({line[l].qty, due[l] + recv[r].qty}) \in Quantity
    <3>1. line[l].qty \in Quantity /\ due[l] \in Quantity /\ recv[r].qty \in Quantity
      BY <1>1 DEF Line, Transaction
    <3> QED BY <3>1, MinTwo, QtyAssumption DEF Quantity
  <2>2. due' = [l \in Lines |-> IF l \in recv[r].visited
                                  THEN Min({line[l].qty, due[l] + recv[r].qty}) ELSE due[l]]
    BY DEF CommitReceive
  <2> QED BY <1>1, <2>1, <2>2
<1>10. \A l \in lines : line'[l].received <= line'[l].qty
  BY <1>1, <1>6, SeenFacts
<1>11. TypeOK'
  BY <1>3, <1>4, <1>7, <1>8, <1>9, <1>10 DEF Typed, TypeOK
<1>12. IdsInUse'
  BY <1>2, <1>3, <1>4 DEF Typed, IdsInUse
<1>13. Capped'
  <2>1. \A q \in Receivers : recv[q].locked \subseteq Lines
    BY <1>1 DEF Transaction
  <2> QED BY <1>2, <1>4, <1>6, <2>1 DEF Typed, Capped
<1> QED BY <1>11, <1>12, <1>13 DEF Typed

\* Every step keeps the types.
LEMMA StepTyped == Typed /\ [Next]_vars => Typed'
<1> SUFFICES ASSUME Typed, [Next]_vars PROVE Typed'
  OBVIOUS
<1>1. ASSUME NEW r \in Receivers, Receive(r) PROVE Typed'
  BY <1>1, BeginTyped, VisitTyped, CoverTyped, CheckTyped, CommitTyped DEF Receive
<1>2. CASE UNCHANGED vars
  BY <1>2 DEF vars, Typed, TypeOK, IdsInUse, Capped
<1> QED BY <1>1, <1>2, OfficeTyped DEF Next

\* Rows hold what their columns allow and no line is ever
\* covered beyond its quantity, also while others insert and delete lines.
THEOREM TypeInvariant == Spec => []TypeOK
<1>1. Typed => TypeOK
  BY DEF Typed
<1> QED BY <1>1, InitTyped, StepTyped, PTL DEF Spec

--------------------------------------------------------------------------------
\* Estimates.

Qtys == [l \in Lines |-> line[l].qty]

\* What the types say of lines, sheets and receives.
LEMMA TypeFacts ==
  ASSUME Typed
  PROVE  /\ sheet \in [Sheets -> Sheet] /\ line \in [Lines -> Line] /\ lines \subseteq Lines
         /\ recv \in [Receivers -> Transaction] /\ clerk \in [Clerks -> Desk]
         /\ nextId \in Nat /\ lines \subseteq 1..nextId - 1
         /\ \A l \in Lines : /\ line[l].sheet \in Sheets /\ line[l].qty \in Nat
                             /\ line[l].received \in Nat /\ due[l] \in Nat
         /\ \A l \in lines : line[l].received <= line[l].qty
         /\ \A r \in Receivers :
              /\ recv[r].locked \subseteq Lines /\ recv[r].visited \subseteq Lines
              /\ recv[r].open \subseteq Lines /\ recv[r].closing \subseteq Sheets
              /\ recv[r].at \in Sheets /\ recv[r].qty \in Nat /\ recv[r].left \in Int
              /\ recv[r].mine \in [Lines -> Nat] /\ recv[r].gap \in [Lines -> Nat]
<1>1. TypeOK /\ IdsInUse
  BY DEF Typed
<1>2. Quantity \subseteq Nat /\ MaxLines \in Nat
  BY QtyAssumption DEF Quantity
<1>3. nextId \in Nat /\ lines \subseteq 1..nextId - 1
  BY <1>1, <1>2 DEF TypeOK, IdsInUse
<1>4. \A l \in Lines : /\ line[l].sheet \in Sheets /\ line[l].qty \in Nat
                       /\ line[l].received \in Nat /\ due[l] \in Nat
  BY <1>1, <1>2 DEF TypeOK, Line
<1>5. \A r \in Receivers :
        /\ recv[r].locked \subseteq Lines /\ recv[r].visited \subseteq Lines
        /\ recv[r].open \subseteq Lines /\ recv[r].closing \subseteq Sheets
        /\ recv[r].at \in Sheets /\ recv[r].qty \in Nat /\ recv[r].left \in Int
        /\ recv[r].mine \in [Lines -> Nat] /\ recv[r].gap \in [Lines -> Nat]
  BY <1>1, <1>2 DEF TypeOK, Transaction
<1> QED BY <1>1, <1>3, <1>4, <1>5 DEF TypeOK

EstimatesAreSums ==
  \A s \in Sheets : /\ EstimateOf(s) = SumOf(Qtys, LinesOf(s))
                    /\ IsFiniteSet(LinesOf(s)) /\ LinesOf(s) \subseteq Lines
                    /\ \A l \in LinesOf(s) : Qtys[l] \in Nat

\* The estimate of a sheet is the sum of its lines' quantities.
LEMMA EstimateIs == Typed => EstimatesAreSums
<1> SUFFICES ASSUME Typed, NEW s \in Sheets
             PROVE  /\ EstimateOf(s) = SumOf(Qtys, LinesOf(s))
                    /\ IsFiniteSet(LinesOf(s)) /\ LinesOf(s) \subseteq Lines
                    /\ \A l \in LinesOf(s) : Qtys[l] \in Nat
  BY DEF EstimatesAreSums
<1> DEFINE T == LinesOf(s)
<1>1. T \subseteq Lines /\ IsFiniteSet(T)
  <2>1. T \subseteq Lines
    BY TypeFacts DEF LinesOf
  <2> QED BY <2>1, FiniteLines, FS_Subset
<1>2. \A l \in T : Qtys[l] \in Nat /\ Qtys[l] = line[l].qty
  BY <1>1, TypeFacts DEF Qtys
<1> DEFINE Step(g) == [x \in SUBSET T |-> IF x = {} THEN 0
                                          ELSE line[Chosen(x)].qty + g[x \ {Chosen(x)}]]
           sum == CHOOSE g : g = Step(g)
<1>3. EstimateOf(s) = sum[T]
  BY DEF EstimateOf, MapThenSumSet, MapThenFoldSet, Chosen
<1>4. \A g : Step(g) = SumStep(Qtys, T, g)
  <2> TAKE g
  <2>1. \A x \in SUBSET T : x # {} => Qtys[Chosen(x)] = line[Chosen(x)].qty
    BY <1>2, ChosenIn
  <2> HIDE DEF T
  <2> QED BY <2>1 DEF SumStep
<1>5. PICK h : h = SumStep(Qtys, T, h)
  <2> HIDE DEF T
  <2> QED BY <1>1, <1>2, SumsExist DEF Sums
<1>6. sum = Step(sum)
  <2>1. \E g : g = Step(g)
    BY <1>4, <1>5
  <2> QED BY <2>1, Zenon
<1>7. sum = SumStep(Qtys, T, sum)
  BY <1>4, <1>6
<1> HIDE DEF sum, T
<1>8. SumOf(Qtys, T) = sum[T]
  BY <1>1, <1>2, <1>7, SumIsSolution
<1> QED BY <1>1, <1>2, <1>3, <1>8 DEF T

\* A sheet that keeps its lines and their quantities keeps its estimate.
LEMMA EstimateSame ==
  ASSUME Typed, Typed', NEW s \in Sheets, LinesOf(s)' = LinesOf(s),
         \A l \in LinesOf(s) : line'[l].qty = line[l].qty
  PROVE  EstimateOf(s)' = EstimateOf(s)
<1> DEFINE b == [l \in Lines |-> l]
           T == LinesOf(s)
           f == Qtys
           g == Qtys'
<1>1. EstimateOf(s) = SumOf(f, T) /\ IsFiniteSet(T) /\ T \subseteq Lines /\ \A l \in T : f[l] \in Nat
  BY EstimateIs DEF EstimatesAreSums
<1>2. EstimateOf(s)' = SumOf(g, T)
  <2>1. EstimatesAreSums'
    BY EstimateIs, PTL
  <2> QED BY <2>1 DEF EstimatesAreSums
<1>3. \A l \in T : f[l] \in Nat /\ f[l] = g[b[l]]
  BY <1>1 DEF Qtys
<1>4. {b[l] : l \in T} = T /\ \A k, l \in T : b[k] = b[l] => k = l
  BY <1>1
<1> HIDE DEF b, T, f, g
<1>5. SumOf(f, T) = SumOf(g, {b[l] : l \in T})
  BY <1>1, <1>3, <1>4, SumCorresponds
<1> QED BY <1>1, <1>2, <1>4, <1>5

\* A sheet whose lines are those of an order is estimated at the order's total.
LEMMA EstimateInserted ==
  ASSUME Typed, Typed', NEW s \in Sheets, NEW order \in Orders, OrderAccepted(order),
         LinesOf(s)' = Inserted(order), Inserted(order) \subseteq Lines,
         \A i \in DOMAIN order : line'[IdOf(order, i)].qty = order[i]
  PROVE  EstimateOf(s)' = TotalOf(order)
<1> DEFINE D == DOMAIN order
           b == [i \in D |-> IdOf(order, i)]
           g == Qtys'
<1>1. IsFiniteSet(D) /\ TotalOf(order) = SumOf(order, D) /\ \A i \in D : order[i] \in Nat
  BY TotalFacts, OrderTypes, QtyAssumption DEF OrderAccepted
<1>2. EstimateOf(s)' = SumOf(g, Inserted(order))
  <2>1. EstimatesAreSums'
    BY EstimateIs, PTL
  <2> QED BY <2>1 DEF EstimatesAreSums
<1>3. Inserted(order) = {b[i] : i \in D}
  BY DEF Inserted
<1>4. \A i \in D : order[i] = g[b[i]]
  BY <1>3 DEF Qtys
<1>5. \A i, j \in D : b[i] = b[j] => i = j
  BY TypeFacts, IdsAreNew
<1> HIDE DEF b, D, g
<1>6. SumOf(order, D) = SumOf(g, {b[i] : i \in D})
  BY <1>1, <1>4, <1>5, SumCorresponds
<1> QED BY <1>1, <1>2, <1>3, <1>6

--------------------------------------------------------------------------------
\* What stays in order.

\* The initial state.
LEMMA InitOrderly == Init => Orderly
<1> SUFFICES ASSUME Init PROVE Orderly
  OBVIOUS
<1>1. Typed
  BY InitTyped
<1>2. lines = {} /\ \A s \in Sheets : sheet[s].status = "none" /\ sheet[s].by = "nobody"
  BY DEF Init, NoSheet
<1>3. \A l \in Lines : due[l] = 0
  BY DEF Init
<1>4. Books
  BY <1>1, <1>2, <1>3, TypeFacts
     DEF Books, CoverIsExact, ReceivedIsCovered, OnlyRacesEvadeApproval, Approved, RowsInOrder,
         Estimates, UnsentByNobody, Issued
<1>5. \A c \in Clerks : ReadHolds(c)
  BY DeskFacts DEF Init, ReadHolds
<1>6. \A r \in Receivers : recv[r] = NoReceive
  BY DEF Init
<1>7. Receives
  BY <1>6, NoReceiveFacts
     DEF Receives, LocksApart, WorksOn, CoversOnce, OpensOnce, ClosesCovered
<1> QED BY <1>1, <1>4, <1>5, <1>7 DEF Orderly

\* The books stay in order while nothing is written to them.
LEMMA BooksSame ==
  ASSUME Typed, Typed', Books, UNCHANGED <<sheet, line, lines, nextId, due, raced>>
  PROVE  Books' /\ \A s \in Sheets : LinesOf(s)' = LinesOf(s) /\ EstimateOf(s)' = EstimateOf(s)
<1>1. \A s \in Sheets : LinesOf(s)' = LinesOf(s)
  BY DEF LinesOf
<1>2. \A s \in Sheets : EstimateOf(s)' = EstimateOf(s)
  BY <1>1, EstimateSame
<1>3. CoverIsExact' /\ RowsInOrder' /\ UnsentByNobody'
  BY DEF Books, CoverIsExact, RowsInOrder, UnsentByNobody, Issued
<1>4. ReceivedIsCovered' /\ OnlyRacesEvadeApproval' /\ Estimates'
  BY <1>1, <1>2 DEF Books, ReceivedIsCovered, OnlyRacesEvadeApproval, Approved, Estimates
<1> QED BY <1>1, <1>2, <1>3, <1>4 DEF Books

\* The receives stay in order while nothing they work with is written.
LEMMA ReceivesSame ==
  ASSUME Receives, UNCHANGED <<sheet, line, lines, recv, raced>>
  PROVE  Receives'
<1>1. \A s \in Sheets : LinesOf(s)' = LinesOf(s)
  BY DEF LinesOf
<1>2. \A r \in Receivers : \A l : Seen(r, l)' = Seen(r, l)
  BY DEF Seen
<1>3. \A r \in Receivers : WorksOn(r)' /\ CoversOnce(r)'
  BY DEF Receives, WorksOn, CoversOnce, OpensOnce, Issued
<1>4. \A r \in Receivers : ClosesCovered(r)'
  BY <1>1, <1>2 DEF Receives, ClosesCovered
<1> QED BY <1>3, <1>4 DEF Receives, LocksApart

\* What a request has read holds while neither it nor its sheet changes.
LEMMA ReadsSame ==
  ASSUME Orderly, NEW c \in Clerks, UNCHANGED <<line, nextId>>,
         clerk'[c] = clerk[c], clerk[c].sheet \in Sheets,
         LinesOf(clerk[c].sheet)' = LinesOf(clerk[c].sheet),
         EstimateOf(clerk[c].sheet)' = EstimateOf(clerk[c].sheet),
         sheet'[clerk[c].sheet] = sheet[clerk[c].sheet]
  PROVE  ReadHolds(c)'
BY DEF Orderly, ReadHolds, StillSo

\* A step of a clerk that writes no table: what it has read must hold.
LEMMA ClerkReads ==
  ASSUME Orderly, Typed', UNCHANGED <<sheet, line, lines, nextId, recv, due, raced>>,
         NEW c \in Clerks, ReadHolds(c)', \A d \in Clerks \ {c} : clerk'[d] = clerk[d]
  PROVE  Orderly'
<1>1. /\ Books' /\ Receives'
      /\ \A s \in Sheets : LinesOf(s)' = LinesOf(s) /\ EstimateOf(s)' = EstimateOf(s)
  BY BooksSame, ReceivesSame DEF Orderly
<1>2. \A d \in Clerks : clerk[d].sheet \in Sheets
  BY TypeFacts DEF Orderly, Desk
<1>3. \A d \in Clerks \ {c} : ReadHolds(d)'
  BY <1>1, <1>2, ReadsSame
<1> QED BY <1>1, <1>3 DEF Orderly

\* A step of a receive that writes no table.
LEMMA ReceiveMoves ==
  ASSUME Orderly, Typed', UNCHANGED <<sheet, line, lines, nextId, clerk, due, raced>>,
         NEW r \in Receivers, \A q \in Receivers \ {r} : recv'[q] = recv[q],
         \A q \in Receivers \ {r} : recv'[r].locked \cap recv[q].locked = {},
         WorksOn(r)', CoversOnce(r)', ClosesCovered(r)'
  PROVE  Orderly'
<1>1. /\ Books'
      /\ \A s \in Sheets : LinesOf(s)' = LinesOf(s) /\ EstimateOf(s)' = EstimateOf(s)
  BY BooksSame DEF Orderly
<1>2. ASSUME NEW q \in Receivers \ {r} PROVE WorksOn(q)' /\ CoversOnce(q)' /\ ClosesCovered(q)'
  <2>1. recv'[q] = recv[q] /\ WorksOn(q) /\ CoversOnce(q) /\ ClosesCovered(q)
    BY DEF Orderly, Receives
  <2>2. \A l : Seen(q, l)' = Seen(q, l)
    BY <2>1 DEF Seen
  <2>3. WorksOn(q)'
    BY <2>1 DEF WorksOn, Issued
  <2>4. CoversOnce(q)'
    BY <2>1 DEF CoversOnce, OpensOnce
  <2>5. ClosesCovered(q)'
    BY <1>1, <2>1, <2>2 DEF ClosesCovered
  <2> QED BY <2>3, <2>4, <2>5
<1>3. LocksApart'
  BY DEF Orderly, Receives, LocksApart
<1>4. \A c \in Clerks : ReadHolds(c)'
  <2>1. \A c \in Clerks : clerk[c].sheet \in Sheets
    BY TypeFacts DEF Orderly, Desk
  <2> QED BY <1>1, <2>1, ReadsSame
<1> QED BY <1>1, <1>2, <1>3, <1>4 DEF Orderly, Receives

\* A receive begins.
LEMMA BeginOrderly ==
  ASSUME Orderly, Typed', NEW r \in Receivers, NEW i \in Items, NEW q \in Received, NEW rows,
         BeginReceive(r, i, q, rows)
  PROVE  Orderly'
<1> DEFINE t == [NoReceive EXCEPT !.pc = "next", !.item = i, !.qty = q,
                                  !.rows = rows, !.visited = rows]
<1>1. /\ recv' = [recv EXCEPT ![r] = t] /\ q > 0
      /\ UNCHANGED <<sheet, line, lines, nextId, clerk, due, raced>>
  BY DEF BeginReceive
<1>2. recv'[r] = t /\ \A p \in Receivers \ {r} : recv'[p] = recv[p]
  BY <1>1, TypeFacts DEF Orderly
<1>3. /\ t.pc = "next" /\ t.item = i /\ t.qty = q /\ t.rows = rows /\ t.visited = rows
      /\ t.locked = {} /\ t.open = {} /\ t.closing = {}
  BY NoReceiveFacts DEF NoReceive
<1>4. \A l \in rows : /\ l \in lines /\ line[l].item = i
                      /\ sheet[line[l].sheet].status = "sent"
  BY DEF BeginReceive, Fetched, kSubset, OpenRows
<1> HIDE DEF t
<1>5. WorksOn(r)'
  BY <1>1, <1>2, <1>3, <1>4 DEF WorksOn, Issued
<1>6. CoversOnce(r)'
  BY <1>2, <1>3 DEF CoversOnce, OpensOnce
<1>7. ClosesCovered(r)'
  BY <1>2, <1>3 DEF ClosesCovered
<1> QED BY <1>1, <1>2, <1>3, <1>5, <1>6, <1>7, ReceiveMoves

\* A receive reads the open lines of a sheet: of its item there is one line, unless the
\* sheet was raced for.
LEMMA VisitOrderly ==
  ASSUME Orderly, Typed', NEW r \in Receivers, NEW l \in Lines, VisitSheet(r, l)
  PROVE  Orderly'
<1> DEFINE s == line[l].sheet
           open == {k \in LinesOf(s) : line[k].item = recv[r].item /\ Seen(r, k) < line[k].qty}
           gap == [k \in Lines |-> IF k \in open THEN line[k].qty - Seen(r, k) ELSE 0]
           t == [recv[r] EXCEPT !.pc = "cover", !.rows = @ \ {l}, !.at = s, !.open = open,
                                !.gap = gap, !.left = recv[r].qty]
<1>1. /\ recv' = [recv EXCEPT ![r] = t]
      /\ UNCHANGED <<sheet, line, lines, nextId, clerk, due, raced>>
      /\ recv[r].pc = "next" /\ l \in recv[r].rows
  BY DEF VisitSheet
<1>2. /\ recv'[r] = t /\ \A p \in Receivers \ {r} : recv'[p] = recv[p]
      /\ recv[r] \in Transaction
  BY <1>1, TypeFacts DEF Orderly
<1>3. /\ t.pc = "cover" /\ t.item = recv[r].item /\ t.qty = recv[r].qty /\ t.rows = recv[r].rows \ {l}
      /\ t.visited = recv[r].visited /\ t.locked = recv[r].locked /\ t.open = open
      /\ t.closing = recv[r].closing /\ t.mine = recv[r].mine /\ t.at = s
      /\ t.gap = gap /\ t.left = recv[r].qty
  BY <1>2 DEF Transaction
<1>4. WorksOn(r) /\ CoversOnce(r) /\ ClosesCovered(r) /\ RowsInOrder
  BY DEF Orderly, Receives, Books
<1>5. /\ l \in recv[r].visited /\ line[l].item = recv[r].item /\ Issued(s) /\ recv[r].qty > 0
      /\ recv[r].open = {} /\ \A k \in open : line[k].sheet = s
  BY <1>1, <1>4 DEF WorksOn, CoversOnce, LinesOf, Issued
<1>6. ASSUME s \notin raced
      PROVE  /\ l \in lines /\ open \subseteq {l} /\ l \notin recv[r].locked
             /\ l \in open => gap[l] = line[l].qty - line[l].received
             /\ l \notin open => line[l].received = line[l].qty
  <2>1. l \in lines /\ l \notin recv[r].locked
    BY <1>1, <1>4, <1>5, <1>6 DEF WorksOn, CoversOnce
  <2>2. Seen(r, l) = line[l].received
    BY <2>1 DEF Seen
  <2>3. open \subseteq {l}
    BY <1>4, <1>5, <1>6, <2>1 DEF RowsInOrder, LinesOf
  <2>4. /\ line[l].qty \in Nat /\ line[l].received \in Nat /\ line[l].received <= line[l].qty
        /\ l \in LinesOf(s)
    BY <2>1, TypeFacts DEF Orderly, LinesOf
  <2> QED BY <1>5, <2>1, <2>2, <2>3, <2>4
<1> HIDE DEF t, open, gap
<1>7. WorksOn(r)'
  BY <1>1, <1>2, <1>3, <1>4, <1>5 DEF WorksOn, Issued
<1>8. CoversOnce(r)'
  <2>1. OpensOnce(r)' \/ s \in raced
    <3> SUFFICES ASSUME s \notin raced PROVE OpensOnce(r)'
      OBVIOUS
    <3>1. recv'[r].open \subseteq recv'[r].visited \ (recv'[r].rows \cup recv'[r].locked)
      BY <1>2, <1>3, <1>5, <1>6
    <3>2. line[l].qty \in Nat /\ line[l].received \in Nat
      BY TypeFacts DEF Orderly
    <3>3. \A k \in recv'[r].open : line'[k].qty - line'[k].received <= recv'[r].gap[k]
      BY <1>1, <1>2, <1>3, <1>6, <3>2
    <3>4. recv'[r].left = recv'[r].qty
      BY <1>2, <1>3
    <3> QED BY <3>1, <3>3, <3>4 DEF OpensOnce
  <2>2. \A k \in recv'[r].locked : line'[k].sheet \notin raced' =>
          /\ k \in recv'[r].visited \ recv'[r].rows
          /\ recv'[r].mine[k] = Min({line'[k].qty, line'[k].received + recv'[r].qty})
    BY <1>1, <1>2, <1>3, <1>4 DEF CoversOnce
  <2>3. ASSUME NEW k \in recv'[r].visited \ (recv'[r].rows \cup recv'[r].open),
               line'[k].sheet \notin raced'
        PROVE  k \in recv'[r].locked \/ line'[k].received = line'[k].qty
    <3>1. CASE k = l
      BY <1>1, <1>2, <1>3, <1>6, <2>3, <3>1
    <3>2. CASE k # l
      BY <1>1, <1>2, <1>3, <1>4, <1>5, <2>3, <3>2 DEF CoversOnce
    <3> QED BY <3>1, <3>2
  <2> QED BY <1>1, <1>2, <1>3, <1>5, <2>1, <2>2, <2>3 DEF CoversOnce
<1>9. ClosesCovered(r)'
  <2>1. \A u \in Sheets : LinesOf(u)' = LinesOf(u)
    BY <1>1 DEF LinesOf
  <2>2. \A k : Seen(r, k)' = Seen(r, k)
    BY <1>1, <1>2, <1>3 DEF Seen
  <2> QED BY <1>1, <1>2, <1>3, <1>4, <2>1, <2>2 DEF ClosesCovered
<1>10. \A q \in Receivers \ {r} : recv'[r].locked \cap recv[q].locked = {}
  BY <1>2, <1>3 DEF Orderly, Receives, LocksApart
<1> QED BY <1>1, <1>2, <1>7, <1>8, <1>9, <1>10, ReceiveMoves

\* A receive covers a line, with all it has for it, and only once unless the sheet was
\* raced for.
LEMMA CoverOrderly ==
  ASSUME Orderly, Typed', NEW r \in Receivers, CoverLine(r)
  PROVE  Orderly'
<1> DEFINE l == Min(recv[r].open)
           cover == Min({recv[r].left, recv[r].gap[l]})
           rest == [recv[r] EXCEPT !.open = @ \ {l}, !.left = @ - cover]
           takes == l \in lines /\ Seen(r, l) < line[l].qty
           t == IF takes
                  THEN [rest EXCEPT !.locked = @ \cup {l}, !.mine[l] = Covered(r, l, cover)]
                  ELSE rest
<1>1. /\ recv' = [recv EXCEPT ![r] = t]
      /\ UNCHANGED <<sheet, line, lines, nextId, clerk, due, raced>>
      /\ recv[r].pc = "cover" /\ recv[r].open # {} /\ recv[r].left > 0
      /\ LineFree(l, Others(r))
  BY DEF CoverLine
<1>2. /\ recv'[r] = t /\ \A p \in Receivers \ {r} : recv'[p] = recv[p]
      /\ recv[r] \in Transaction /\ Typed
  BY <1>1, TypeFacts DEF Orderly
<1>3. WorksOn(r) /\ CoversOnce(r) /\ ClosesCovered(r) /\ RowsInOrder
  BY DEF Orderly, Receives, Books
<1>4. recv[r].open \subseteq Lines /\ l \in recv[r].open /\ l \in Lines
  BY <1>1, <1>2, TypeFacts, FiniteLines, MinFacts
<1> HIDE DEF l
<1>5. line[l].sheet = recv[r].at /\ \A k \in recv[r].open : line[k].sheet = recv[r].at
  BY <1>3, <1>4 DEF CoversOnce
<1>6. /\ t.pc = "cover" /\ t.item = recv[r].item /\ t.qty = recv[r].qty /\ t.rows = recv[r].rows
      /\ t.visited = recv[r].visited /\ t.closing = recv[r].closing /\ t.at = recv[r].at
      /\ t.open = recv[r].open \ {l}
      /\ takes => /\ t.locked = recv[r].locked \cup {l}
                  /\ t.mine = [recv[r].mine EXCEPT ![l] = Covered(r, l, cover)]
      /\ ~takes => t.locked = recv[r].locked /\ t.mine = recv[r].mine
  <2> HIDE DEF cover, takes
  <2> QED BY <1>1, <1>2 DEF Transaction
<1>7. /\ recv[r].mine \in [Lines -> Nat] /\ recv[r].locked \subseteq Lines /\ line[l].qty \in Nat
      /\ line[l].received \in Nat /\ recv[r].gap[l] \in Nat /\ recv[r].qty \in Nat
  BY <1>2, <1>4, TypeFacts
<1>8. ASSUME recv[r].at \notin raced
      PROVE  /\ l \in lines /\ l \in recv[r].visited \ recv[r].rows /\ l \notin recv[r].locked
             /\ recv[r].open = {l} /\ Seen(r, l) = line[l].received
             /\ takes => Covered(r, l, cover) = Min({line[l].qty, line[l].received + recv[r].qty})
             /\ ~takes => line[l].received = line[l].qty
  <2>1. OpensOnce(r)
    BY <1>3, <1>8 DEF CoversOnce
  <2>2. \A k \in recv[r].open : k \in recv[r].visited \ (recv[r].rows \cup recv[r].locked)
    BY <2>1 DEF OpensOnce
  <2>3. \A k \in recv[r].open : k \in lines /\ line[k].item = line[l].item
    BY <1>3, <1>4, <1>5, <1>8, <2>2 DEF WorksOn, Issued
  <2>4. recv[r].open = {l}
    BY <1>3, <1>4, <1>5, <1>8, <2>3 DEF RowsInOrder
  <2>5. Seen(r, l) = line[l].received
    BY <1>4, <2>2 DEF Seen
  <2>6. recv[r].left = recv[r].qty /\ line[l].qty - line[l].received <= recv[r].gap[l]
    BY <1>1, <1>4, <2>1 DEF OpensOnce
  <2>7. /\ cover = IF recv[r].left <= recv[r].gap[l] THEN recv[r].left ELSE recv[r].gap[l]
        /\ Covered(r, l, cover) = IF line[l].qty <= Seen(r, l) + cover
                                    THEN line[l].qty ELSE Seen(r, l) + cover
    BY <1>1, <1>2, <1>4, TypeFacts, CoverFacts
  <2>8. Min({line[l].qty, line[l].received + recv[r].qty}) =
          IF line[l].qty <= line[l].received + recv[r].qty
            THEN line[l].qty ELSE line[l].received + recv[r].qty
    BY <1>7, MinTwo
  <2>9. line[l].received <= line[l].qty
    BY <1>2, <1>4, <2>3, TypeFacts
  <2> HIDE DEF cover
  <2>10. Covered(r, l, cover) = Min({line[l].qty, line[l].received + recv[r].qty})
    BY <1>7, <2>5, <2>6, <2>7, <2>8
  <2>11. ~takes => line[l].received = line[l].qty
    BY <1>4, <1>7, <2>3, <2>5, <2>9
  <2> QED BY <1>4, <2>2, <2>3, <2>4, <2>5, <2>10, <2>11
<1> HIDE DEF t, cover
<1>9. \A k \in recv[r].locked : k # l => t.mine[k] = recv[r].mine[k]
  BY <1>6, <1>7
<1>10. takes => /\ t.mine[l] = Covered(r, l, cover) /\ Seen(r, l) < line[l].qty
  BY <1>4, <1>6, <1>7 DEF takes
<1> HIDE DEF takes
<1>11. WorksOn(r)'
  BY <1>1, <1>2, <1>3, <1>6 DEF WorksOn, Issued
<1>12. CoversOnce(r)'
  <2>1. recv'[r].at \notin raced' => OpensOnce(r)'
    BY <1>1, <1>2, <1>6, <1>8 DEF OpensOnce
  <2>2. ASSUME NEW k \in recv'[r].locked, line'[k].sheet \notin raced'
        PROVE  /\ k \in recv'[r].visited \ recv'[r].rows
               /\ recv'[r].mine[k] = Min({line'[k].qty, line'[k].received + recv'[r].qty})
    <3>1. CASE k = l
      <4>1. recv[r].at \notin raced /\ l \in t.locked
        BY <1>1, <1>2, <1>5, <2>2, <3>1
      <4>2. takes
        BY <1>6, <1>8, <4>1
      <4> QED BY <1>1, <1>2, <1>6, <1>8, <1>10, <3>1, <4>1, <4>2
    <3>2. CASE k # l
      <4>1. k \in recv[r].locked /\ line[k].sheet \notin raced
        BY <1>1, <1>2, <1>6, <2>2, <3>2
      <4> QED BY <1>1, <1>2, <1>3, <1>6, <1>9, <3>2, <4>1 DEF CoversOnce
    <3> QED BY <3>1, <3>2
  <2>3. ASSUME NEW k \in recv'[r].visited \ (recv'[r].rows \cup recv'[r].open),
               line'[k].sheet \notin raced'
        PROVE  k \in recv'[r].locked \/ line'[k].received = line'[k].qty
    <3>1. CASE k = l
      BY <1>1, <1>2, <1>5, <1>6, <1>8, <2>3, <3>1
    <3>2. CASE k # l
      BY <1>1, <1>2, <1>3, <1>6, <2>3, <3>2 DEF CoversOnce
    <3> QED BY <3>1, <3>2
  <2> QED BY <1>1, <1>2, <1>5, <1>6, <2>1, <2>2, <2>3 DEF CoversOnce
<1>13. ClosesCovered(r)'
  <2> SUFFICES ASSUME NEW s \in Sheets \ raced, s \in recv[r].closing, NEW k \in LinesOf(s)
               PROVE  Seen(r, k)' = line[k].qty
    BY <1>1, <1>2, <1>6 DEF ClosesCovered, LinesOf
  <2>1. Seen(r, k) = line[k].qty /\ line[k].sheet = s
    BY <1>3 DEF ClosesCovered, LinesOf
  <2>2. takes => k # l
    BY <1>7, <1>10, <2>1
  <2>3. k \in recv'[r].locked <=> k \in recv[r].locked
    BY <1>2, <1>6, <2>2
  <2>4. k \in recv[r].locked => recv'[r].mine[k] = recv[r].mine[k]
    BY <1>2, <1>6, <1>9, <2>2
  <2> QED BY <1>1, <2>1, <2>3, <2>4 DEF Seen
<1>14. \A q \in Receivers \ {r} : recv'[r].locked \cap recv[q].locked = {}
  BY <1>1, <1>2, <1>6 DEF Orderly, Receives, LocksApart, LineFree, Others
<1> QED BY <1>1, <1>2, <1>11, <1>12, <1>13, <1>14, ReceiveMoves

\* A receive looks whether the sheet is covered, marks it, or is rolled back.
LEMMA CheckOrderly ==
  ASSUME Orderly, Typed', NEW r \in Receivers,
         CheckLines(r) \/ CloseSheet(r) \/ RollbackReceive(r)
  PROVE  Orderly'
<1>1. UNCHANGED <<sheet, line, lines, nextId, clerk, due, raced>>
  BY DEF CheckLines, CloseSheet, RollbackReceive
<1>2. \A p \in Receivers \ {r} : recv'[p] = recv[p]
  BY TypeFacts DEF Orderly, CheckLines, CloseSheet, RollbackReceive
<1>3. WorksOn(r) /\ CoversOnce(r) /\ ClosesCovered(r) /\ recv \in [Receivers -> Transaction]
  BY TypeFacts DEF Orderly, Receives
<1>4. \A u \in Sheets : LinesOf(u)' = LinesOf(u)
  BY <1>1 DEF LinesOf
<1>5. CASE CheckLines(r)
  <2>1. \A l \in recv[r].open : line[l].sheet \in raced
    <3>1. recv[r].pc = "cover" /\ (recv[r].open = {} \/ recv[r].left = 0)
      BY <1>5 DEF CheckLines
    <3>2. recv[r].qty > 0
      BY <1>3, <3>1 DEF WorksOn
    <3> QED BY <1>3, <3>1, <3>2 DEF CoversOnce, OpensOnce
  <2>2. /\ recv'[r] = [recv[r] EXCEPT
                          !.pc = IF AllLinesReceived(r, recv[r].at) THEN "close" ELSE "next",
                          !.open = {}, !.gap = [l \in Lines |-> 0], !.left = 0]
        /\ recv[r].pc = "cover"
    BY <1>3, <1>5 DEF CheckLines
  <2>3. /\ recv'[r].pc \in {"close", "next"}
        /\ recv'[r].pc = "close" => AllLinesReceived(r, recv[r].at)
        /\ recv'[r].item = recv[r].item /\ recv'[r].qty = recv[r].qty
        /\ recv'[r].rows = recv[r].rows /\ recv'[r].visited = recv[r].visited
        /\ recv'[r].locked = recv[r].locked /\ recv'[r].open = {}
        /\ recv'[r].closing = recv[r].closing /\ recv'[r].mine = recv[r].mine
        /\ recv'[r].at = recv[r].at
    BY <1>3, <2>2 DEF Transaction
  <2>4. WorksOn(r)'
    BY <1>1, <1>3, <2>2, <2>3 DEF WorksOn, Issued
  <2>5. CoversOnce(r)'
    BY <1>1, <1>3, <2>1, <2>3 DEF CoversOnce, OpensOnce
  <2>6. \A k : Seen(r, k)' = Seen(r, k)
    BY <1>1, <2>3 DEF Seen
  <2>7. ClosesCovered(r)'
    BY <1>1, <1>3, <1>4, <2>2, <2>3, <2>6 DEF ClosesCovered, AllLinesReceived
  <2>8. \A q \in Receivers \ {r} : recv'[r].locked \cap recv[q].locked = {}
    BY <2>3 DEF Orderly, Receives, LocksApart
  <2> QED BY <1>1, <1>2, <2>4, <2>5, <2>7, <2>8, ReceiveMoves
<1>6. CASE CloseSheet(r)
  <2>1. /\ recv'[r] = [recv[r] EXCEPT !.pc = "next", !.closing = @ \cup {recv[r].at}]
        /\ recv[r].pc = "close"
    BY <1>3, <1>6 DEF CloseSheet
  <2>2. /\ recv'[r].pc = "next" /\ recv'[r].open = recv[r].open /\ recv[r].open = {}
        /\ recv'[r].item = recv[r].item /\ recv'[r].qty = recv[r].qty
        /\ recv'[r].rows = recv[r].rows /\ recv'[r].visited = recv[r].visited
        /\ recv'[r].locked = recv[r].locked /\ recv'[r].mine = recv[r].mine
        /\ recv'[r].closing = recv[r].closing \cup {recv[r].at}
    BY <1>3, <2>1 DEF Transaction, CoversOnce
  <2>3. WorksOn(r)'
    BY <1>1, <1>3, <2>1, <2>2 DEF WorksOn, Issued
  <2>4. CoversOnce(r)'
    BY <1>1, <1>3, <2>2 DEF CoversOnce, OpensOnce
  <2>5. \A k : Seen(r, k)' = Seen(r, k)
    BY <1>1, <2>2 DEF Seen
  <2>6. ClosesCovered(r)'
    BY <1>1, <1>3, <1>4, <2>1, <2>2, <2>5 DEF ClosesCovered
  <2>7. \A q \in Receivers \ {r} : recv'[r].locked \cap recv[q].locked = {}
    BY <2>2 DEF Orderly, Receives, LocksApart
  <2> QED BY <1>1, <1>2, <2>3, <2>4, <2>6, <2>7, ReceiveMoves
<1>7. CASE RollbackReceive(r)
  <2>1. recv'[r] = NoReceive
    BY <1>3, <1>7 DEF RollbackReceive
  <2>2. WorksOn(r)' /\ CoversOnce(r)' /\ ClosesCovered(r)'
    BY <2>1, NoReceiveFacts DEF WorksOn, CoversOnce, OpensOnce, ClosesCovered
  <2>3. \A q \in Receivers \ {r} : recv'[r].locked \cap recv[q].locked = {}
    BY <2>1, NoReceiveFacts
  <2> QED BY <1>1, <1>2, <2>2, <2>3, ReceiveMoves
<1> QED BY <1>5, <1>6, <1>7

\* Of a line that is there, on a sheet nobody raced for, a receive sees what others see or
\* more, and what it has covered stays covered.
LEMMA SeenGrows ==
  ASSUME Orderly, NEW r \in Receivers, NEW l \in lines, line[l].sheet \notin raced
  PROVE  /\ line[l].received <= Seen(r, l)
         /\ line[l].received = line[l].qty => Seen(r, l) = line[l].qty
         /\ l \notin recv[r].locked => Seen(r, l) = line[l].received
<1>1. /\ l \in Lines /\ line[l].qty \in Nat /\ line[l].received \in Nat
      /\ line[l].received <= line[l].qty /\ recv[r].qty \in Nat
  BY TypeFacts DEF Orderly
<1>2. l \in recv[r].locked => Seen(r, l) = Min({line[l].qty, line[l].received + recv[r].qty})
  BY DEF Orderly, Receives, CoversOnce, Seen
<1>3. Min({line[l].qty, line[l].received + recv[r].qty}) =
        IF line[l].qty <= line[l].received + recv[r].qty
          THEN line[l].qty ELSE line[l].received + recv[r].qty
  BY <1>1, MinTwo
<1> QED BY <1>1, <1>2, <1>3 DEF Seen

\* What a commit makes of lines and sheets: others' locks, what they see of a covered line,
\* and what clerks may change are left alone.
LEMMA CommitFacts ==
  ASSUME Orderly, Typed', NEW r \in Receivers, CommitReceive(r)
  PROVE  /\ recv[r].rows = {} /\ recv[r].open = {} /\ recv[r].pc = "next"
         /\ UNCHANGED <<lines, nextId, clerk, raced>>
         /\ recv'[r] = NoReceive /\ \A q \in Receivers \ {r} : recv'[q] = recv[q]
         /\ \A l \in Lines : /\ line'[l].sheet = line[l].sheet /\ line'[l].item = line[l].item
                             /\ line'[l].qty = line[l].qty /\ line'[l].received = Seen(r, l)
         /\ \A s \in Sheets : /\ sheet'[s].total = sheet[s].total /\ sheet'[s].by = sheet[s].by
                              /\ sheet'[s].status = IF s \in recv[r].closing
                                                      THEN "received" ELSE sheet[s].status
                              /\ s \in recv[r].closing => Issued(s)
                              /\ LinesOf(s)' = LinesOf(s) /\ EstimateOf(s)' = EstimateOf(s)
<1>1. /\ sheet \in [Sheets -> Sheet] /\ line \in [Lines -> Line] /\ lines \subseteq Lines
      /\ recv \in [Receivers -> Transaction]
  BY TypeFacts DEF Orderly
<1>2. WorksOn(r) /\ CoversOnce(r)
  BY DEF Orderly, Receives
<1>3. /\ recv[r].rows = {} /\ recv[r].open = {} /\ recv[r].pc = "next"
      /\ UNCHANGED <<lines, nextId, clerk, raced>>
      /\ recv'[r] = NoReceive /\ \A q \in Receivers \ {r} : recv'[q] = recv[q]
  BY <1>1, <1>2 DEF CommitReceive, CoversOnce
<1>4. \A l \in Lines : /\ line'[l].sheet = line[l].sheet /\ line'[l].item = line[l].item
                       /\ line'[l].qty = line[l].qty /\ line'[l].received = Seen(r, l)
  <2>1. \A l \in Lines : line'[l] = [line[l] EXCEPT !.received = Seen(r, l)]
    BY DEF CommitReceive
  <2> QED BY <1>1, <2>1 DEF Line
<1>5. \A s \in Sheets : LinesOf(s)' = LinesOf(s)
  BY <1>1, <1>3, <1>4 DEF LinesOf
<1>6. \A s \in Sheets : EstimateOf(s)' = EstimateOf(s)
  <2> TAKE s \in Sheets
  <2>1. \A l \in LinesOf(s) : line'[l].qty = line[l].qty
    BY <1>1, <1>4 DEF LinesOf
  <2> QED BY <1>5, <2>1, EstimateSame DEF Orderly
<1>7. \A s \in Sheets : /\ sheet'[s].total = sheet[s].total /\ sheet'[s].by = sheet[s].by
                        /\ sheet'[s].status = IF s \in recv[r].closing
                                                THEN "received" ELSE sheet[s].status
  BY <1>1 DEF CommitReceive, Sheet
<1> QED BY <1>2, <1>3, <1>4, <1>5, <1>6, <1>7 DEF WorksOn

\* A commit: the line of every sheet it visited is covered by the receive's quantity.
LEMMA CommitOrderly ==
  ASSUME Orderly, Typed', NEW r \in Receivers, CommitReceive(r)
  PROVE  Orderly'
<1>1. /\ \A l \in Lines : /\ line[l].sheet \in Sheets /\ line[l].qty \in Nat
                          /\ line[l].received \in Nat /\ due[l] \in Nat
      /\ lines \subseteq Lines /\ lines \subseteq 1..nextId - 1 /\ nextId \in Nat
      /\ \A l \in lines : line[l].received <= line[l].qty
      /\ recv[r].qty \in Nat
  BY TypeFacts DEF Orderly
<1>2. WorksOn(r) /\ CoversOnce(r) /\ ClosesCovered(r) /\ Books
  BY DEF Orderly, Receives
<1>3. recv[r].visited \subseteq 1..nextId - 1
  BY DEF Orderly, Typed, IdsInUse
<1>4. CoverIsExact'
  <2> SUFFICES ASSUME NEW l \in lines, line[l].sheet \notin raced PROVE line'[l].received = due'[l]
    <3>1. UNCHANGED <<lines, raced>> /\ \A k \in Lines : line'[k].sheet = line[k].sheet
      BY CommitFacts
    <3> QED BY <1>1, <3>1 DEF CoverIsExact
  <2>1. line'[l].received = Seen(r, l) /\ due[l] = line[l].received
    BY <1>1, <1>2, CommitFacts DEF Books, CoverIsExact
  <2>2. due'[l] = IF l \in recv[r].visited
                    THEN Min({line[l].qty, due[l] + recv[r].qty}) ELSE due[l]
    BY <1>1 DEF CommitReceive
  <2>3. CASE l \notin recv[r].visited
    <3>1. l \notin recv[r].locked
      BY <1>2, <2>3 DEF CoversOnce
    <3> QED BY <2>1, <2>2, <2>3, <3>1, SeenGrows
  <2>4. CASE l \in recv[r].locked
    BY <1>2, <2>1, <2>2, <2>3, <2>4 DEF CoversOnce, Seen
  <2>5. CASE l \in recv[r].visited /\ l \notin recv[r].locked
    <3>1. line[l].received = line[l].qty
      BY <1>2, <2>5, CommitFacts DEF CoversOnce
    <3>2. Min({line[l].qty, due[l] + recv[r].qty}) = line[l].qty
      <4>1. due[l] = line[l].qty /\ line[l].qty \in Nat /\ recv[r].qty \in Nat
        BY <1>1, <2>1, <3>1
      <4> QED BY <4>1, MinTwo
    <3> QED BY <2>1, <2>2, <2>5, <3>1, <3>2, SeenGrows
  <2> QED BY <2>3, <2>4, <2>5
<1>5. RowsInOrder'
  <2>1. \A l \in Lines : l >= nextId => l \notin recv[r].visited
    BY <1>1, <1>3
  <2>2. \A l \in Lines : l \notin recv[r].visited => due'[l] = due[l]
    BY DEF CommitReceive
  <2>3. \A l \in Lines : l >= nextId => due'[l] = 0
    BY <1>2, <2>1, <2>2 DEF Books, RowsInOrder
  <2>4. \A s \in Sheets : sheet[s].status # "none" => sheet'[s].status # "none"
    BY CommitFacts
  <2>5. \A l \in lines : sheet'[line'[l].sheet].status # "none"
    BY <1>1, <1>2, <2>4, CommitFacts DEF Books, RowsInOrder
  <2>6. \A k, l \in lines : line'[k].sheet = line'[l].sheet /\ line'[k].item = line'[l].item
                            /\ line'[l].sheet \notin raced => k = l
    BY <1>1, <1>2, CommitFacts DEF Books, RowsInOrder
  <2> QED BY <2>3, <2>5, <2>6, CommitFacts DEF RowsInOrder
<1>6. Estimates' /\ UnsentByNobody' /\ OnlyRacesEvadeApproval'
  BY <1>2, CommitFacts
     DEF Books, Estimates, UnsentByNobody, OnlyRacesEvadeApproval, Approved, Issued
<1>7. ReceivedIsCovered'
  <2> SUFFICES ASSUME NEW s \in Sheets \ raced, sheet'[s].status = "received", NEW l \in LinesOf(s)
               PROVE  line'[l].received = line'[l].qty
    BY CommitFacts DEF ReceivedIsCovered
  <2>1. /\ l \in lines /\ line[l].sheet = s
        /\ line'[l].received = Seen(r, l) /\ line'[l].qty = line[l].qty
    BY <1>1, CommitFacts DEF LinesOf
  <2>2. CASE s \in recv[r].closing
    BY <1>2, <2>1, <2>2 DEF ClosesCovered
  <2>3. CASE s \notin recv[r].closing
    BY <1>2, <2>1, <2>3, CommitFacts, SeenGrows DEF Books, ReceivedIsCovered
  <2> QED BY <2>2, <2>3
<1>8. \A c \in Clerks : ReadHolds(c)'
  <2> SUFFICES ASSUME NEW c \in Clerks PROVE ReadHolds(c)'
    OBVIOUS
  <2>1. clerk[c].sheet \in Sheets /\ clerk[c].doomed \subseteq Lines /\ ReadHolds(c)
    BY TypeFacts DEF Orderly, Desk
  <2>2. \A s \in Sheets : ~Issued(s) => sheet'[s].status = sheet[s].status
    BY CommitFacts
  <2>3. clerk[c].current => StillSo(c)'
    BY <2>1, <2>2, CommitFacts DEF ReadHolds, StillSo, Issued
  <2>4. sheet[clerk[c].sheet].status # "none" => sheet'[clerk[c].sheet].status # "none"
    BY <2>1, CommitFacts
  <2>5. \A l \in clerk[c].doomed : line'[l].sheet = line[l].sheet
    BY <2>1, CommitFacts
  <2> QED BY <2>1, <2>3, <2>4, <2>5, CommitFacts DEF ReadHolds
<1>9. \A s \in Sheets : Issued(s) => Issued(s)'
  BY CommitFacts DEF Issued
<1>10. WorksOn(r)' /\ CoversOnce(r)' /\ ClosesCovered(r)'
  BY CommitFacts, NoReceiveFacts DEF WorksOn, CoversOnce, OpensOnce, ClosesCovered
<1>11. ASSUME NEW q \in Receivers \ {r} PROVE WorksOn(q)' /\ CoversOnce(q)' /\ ClosesCovered(q)'
  <2>1. /\ recv'[q] = recv[q] /\ WorksOn(q) /\ CoversOnce(q) /\ ClosesCovered(q)
        /\ UNCHANGED <<lines, raced>>
    BY CommitFacts DEF Orderly, Receives
  <2>2. /\ recv[q].closing \subseteq Sheets /\ recv[q].at \in Sheets
        /\ recv[q].visited \subseteq Lines /\ recv[q].locked \subseteq Lines
        /\ recv[q].open \subseteq Lines
    BY TypeFacts DEF Orderly
  <2>3. \A l \in Lines : /\ line'[l].sheet = line[l].sheet /\ line'[l].item = line[l].item
                         /\ line'[l].qty = line[l].qty /\ line'[l].received = Seen(r, l)
    BY CommitFacts
  <2>4. WorksOn(q)'
    <3>1. \A l \in recv[q].visited : Issued(line[l].sheet)'
      BY <1>1, <1>9, <2>1, <2>2, <2>3 DEF WorksOn, Issued
    <3> QED BY <1>9, <2>1, <2>2, <2>3, <3>1 DEF WorksOn, Issued
  <2>5. \A l \in recv[q].visited : line[l].sheet \notin raced =>
          /\ line[l].received <= line'[l].received /\ line'[l].received \in Nat
          /\ line[l].received = line[l].qty => line'[l].received = line[l].qty
          /\ l \notin recv[r].locked => line'[l].received = line[l].received
    <3>1. \A l \in Lines : line'[l].received \in Nat
      BY QtyAssumption DEF Typed, TypeOK, Line, Quantity
    <3> QED BY <2>1, <2>2, <2>3, <3>1, SeenGrows DEF WorksOn, Issued
  <2>6. CoversOnce(q)'
    <3>1. recv[q].at \notin raced => OpensOnce(q)'
      <4> SUFFICES ASSUME recv[q].at \notin raced PROVE OpensOnce(q)'
        OBVIOUS
      <4>1. OpensOnce(q) /\ \A l \in recv[q].open : line[l].sheet = recv[q].at
        BY <2>1 DEF CoversOnce
      <4>2. ASSUME NEW l \in recv[q].open
            PROVE  line'[l].qty - line'[l].received <= recv[q].gap[l]
        <5>1. line[l].qty - line[l].received <= recv[q].gap[l] /\ l \in recv[q].visited
          BY <4>1 DEF OpensOnce
        <5>2. /\ recv[q].gap[l] \in Nat /\ line[l].qty \in Nat /\ line[l].received \in Nat
              /\ line'[l].qty = line[l].qty
          BY <1>1, <2>2, <2>3, TypeFacts DEF Orderly
        <5>3. line'[l].received \in Nat /\ line[l].received <= line'[l].received
          BY <2>5, <4>1, <5>1
        <5> QED BY <5>1, <5>2, <5>3
      <4> QED BY <2>1, <4>1, <4>2 DEF OpensOnce
    <3>2. ASSUME NEW l \in recv[q].locked, line[l].sheet \notin raced
          PROVE  /\ l \in recv[q].visited \ recv[q].rows
                 /\ recv[q].mine[l] = Min({line'[l].qty, line'[l].received + recv[q].qty})
      <4>1. l \notin recv[r].locked
        BY DEF Orderly, Receives, LocksApart
      <4>2. /\ l \in recv[q].visited \ recv[q].rows
            /\ recv[q].mine[l] = Min({line[l].qty, line[l].received + recv[q].qty})
        BY <2>1, <3>2 DEF CoversOnce
      <4>3. line'[l].qty = line[l].qty /\ line'[l].received = line[l].received
        BY <2>2, <2>3, <2>5, <3>2, <4>1, <4>2
      <4> QED BY <4>2, <4>3
    <3>3. \A l \in recv[q].visited \ (recv[q].rows \cup recv[q].open) :
            line[l].sheet \notin raced => l \in recv[q].locked \/ line'[l].received = line'[l].qty
      BY <2>1, <2>2, <2>3, <2>5 DEF CoversOnce
    <3>4. \A l \in recv[q].open : line'[l].sheet = recv[q].at
      BY <2>1, <2>2, <2>3 DEF CoversOnce
    <3> QED BY <2>1, <2>2, <2>3, <3>1, <3>2, <3>3, <3>4 DEF CoversOnce
  <2>7. ClosesCovered(q)'
    <3> SUFFICES ASSUME NEW s \in Sheets \ raced,
                        s \in recv[q].closing \/ (recv[q].pc = "close" /\ s = recv[q].at),
                        NEW l \in LinesOf(s)
                 PROVE  Seen(q, l)' = line'[l].qty
      BY <2>1, CommitFacts DEF ClosesCovered
    <3>1. /\ Seen(q, l) = line[l].qty /\ l \in lines /\ line[l].sheet = s
          /\ line'[l].qty = line[l].qty
      BY <1>1, <2>1, CommitFacts DEF ClosesCovered, LinesOf
    <3>2. line'[l].received = Seen(r, l)
      BY <1>1, <3>1, CommitFacts
    <3> QED BY <2>1, <3>1, <3>2, SeenGrows DEF Seen
  <2> QED BY <2>4, <2>6, <2>7
<1>12. LocksApart'
  BY CommitFacts, NoReceiveFacts DEF Orderly, Receives, LocksApart
<1> QED BY <1>4, <1>5, <1>6, <1>7, <1>8, <1>10, <1>11, <1>12 DEF Orderly, Books, Receives

\* The lines of an order are written, and lines of the sheet deleted: other sheets keep theirs.
LEMMA InsertKeeps ==
  ASSUME Orderly, NEW s \in Sheets, NEW order \in Orders, OrderAccepted(order),
         NEW gone, lines \cap gone \subseteq LinesOf(s), InsertLines(s, order, gone)
  PROVE  /\ nextId' >= nextId /\ nextId' \in Nat
         /\ lines' = (lines \ gone) \cup Inserted(order)
         /\ Inserted(order) \subseteq Lines
         /\ \A l \in Inserted(order) : l >= nextId /\ line'[l].sheet = s /\ line'[l].received = 0
         /\ \A k, l \in Inserted(order) : line'[k].item = line'[l].item => k = l
         /\ \A i \in DOMAIN order : line'[IdOf(order, i)].qty = order[i]
         /\ \A l \in 1..nextId - 1 : l \in Lines /\ line'[l] = line[l] /\ l \notin Inserted(order)
         /\ LinesOf(s) \subseteq gone => LinesOf(s)' = Inserted(order)
         /\ \A u \in Sheets \ {s} : LinesOf(u)' = LinesOf(u)
<1>1. /\ lines \subseteq Lines /\ nextId \in Nat /\ lines \subseteq 1..nextId - 1
      /\ line \in [Lines -> Line] /\ TypeOK /\ nextId \in 1..MaxLines + 1
  BY TypeFacts DEF Orderly, Typed, TypeOK
<1>2. /\ nextId' \in 1..MaxLines + 1 /\ nextId' >= nextId
      /\ Inserted(order) \subseteq nextId..nextId' - 1 /\ Inserted(order) \subseteq Lines
      /\ lines' = (lines \ gone) \cup Inserted(order)
      /\ \A l \in Lines \ Inserted(order) : line'[l] = line[l]
      /\ \A l \in Inserted(order) : line'[l].sheet = s /\ line'[l].received = 0
      /\ \A i \in DOMAIN order : /\ line'[IdOf(order, i)].qty = order[i]
                                 /\ line'[IdOf(order, i)].item = i
      /\ \A l \in Inserted(order) : \E i \in DOMAIN order : l = IdOf(order, i)
  BY <1>1, InsertFacts
<1>3. nextId' \in Nat /\ \A l \in Inserted(order) : l >= nextId
  BY <1>1, <1>2, QtyAssumption
<1>4. \A l \in 1..nextId - 1 : l \in Lines /\ line'[l] = line[l] /\ l \notin Inserted(order)
  BY <1>1, <1>2, <1>3, QtyAssumption DEF Lines
<1>5. \A k, l \in Inserted(order) : line'[k].item = line'[l].item => k = l
  BY <1>2
<1>6. LinesOf(s) \subseteq gone => LinesOf(s)' = Inserted(order)
  BY <1>1, <1>2, <1>4 DEF LinesOf
<1>7. ASSUME NEW u \in Sheets \ {s} PROVE LinesOf(u)' = LinesOf(u)
  <2>1. \A l \in LinesOf(u) : l \in lines' /\ line'[l].sheet = u
    BY <1>1, <1>2, <1>4 DEF LinesOf
  <2>2. \A l \in lines' : line'[l].sheet = u => l \in lines /\ line[l].sheet = u
    BY <1>1, <1>2, <1>4
  <2> QED BY <2>1, <2>2 DEF LinesOf
<1> QED BY <1>2, <1>3, <1>4, <1>5, <1>6, <1>7

\* What is written to a sheet: either somebody raced for it, or it is a draft with the lines
\* of the order and no others.
IsTheOrder(s, order, gone) ==
  /\ LinesOf(s) \subseteq gone /\ ~Issued(s)
  /\ sheet'[s] = [status |-> "draft", total |-> TotalOf(order), by |-> "nobody"]

\* The books after the lines of an order are written.
LEMMA InsertedBooks ==
  ASSUME Orderly, Typed', NEW s \in Sheets, NEW order \in Orders, OrderAccepted(order),
         NEW gone, lines \cap gone \subseteq LinesOf(s), InsertLines(s, order, gone), UNCHANGED due,
         raced \subseteq raced', s \in raced' \/ IsTheOrder(s, order, gone),
         sheet'[s].status # "none", ~Issued(s)' => sheet'[s].by = "nobody",
         \A u \in Sheets \ {s} : sheet'[u] = sheet[u]
  PROVE  Books' /\ \A u \in Sheets \ {s} : EstimateOf(u)' = EstimateOf(u)
<1> DEFINE new == Inserted(order)
<1>1. /\ \A l \in lines : l \in Lines /\ line'[l] = line[l] /\ line[l].sheet \in Sheets
      /\ Typed /\ nextId \in Nat
  <2>1. lines \subseteq 1..nextId - 1 /\ nextId \in Nat
    BY TypeFacts DEF Orderly
  <2> QED BY <2>1, InsertKeeps, TypeFacts DEF Orderly
<1>2. /\ lines' = (lines \ gone) \cup new /\ new \subseteq Lines
      /\ nextId' >= nextId /\ nextId' \in Nat
      /\ \A l \in new : l >= nextId /\ line'[l].sheet = s /\ line'[l].received = 0
      /\ \A k, l \in new : line'[k].item = line'[l].item => k = l
      /\ LinesOf(s) \subseteq gone => LinesOf(s)' = new
      /\ \A u \in Sheets \ {s} : LinesOf(u)' = LinesOf(u)
  BY InsertKeeps
<1>3. \A u \in Sheets \ {s} : \A l \in LinesOf(u) : l \in lines /\ line'[l] = line[l]
  BY <1>1 DEF LinesOf
<1>4. \A u \in Sheets \ {s} : EstimateOf(u)' = EstimateOf(u)
  BY <1>1, <1>2, <1>3, EstimateSame
<1>5. IsTheOrder(s, order, gone) => EstimateOf(s)' = TotalOf(order)
  BY <1>1, <1>2, InsertKeeps, EstimateInserted DEF IsTheOrder
<1> HIDE DEF new
<1>6. Books
  BY DEF Orderly
<1>7. CoverIsExact'
  <2>1. \A l \in new : due[l] = 0
    BY <1>2, <1>6 DEF Books, RowsInOrder
  <2> QED BY <1>1, <1>2, <1>6, <2>1 DEF Books, CoverIsExact
<1>8. RowsInOrder'
  <2>1. \A l \in lines' : sheet'[line'[l].sheet].status # "none"
    BY <1>1, <1>2, <1>6 DEF Books, RowsInOrder
  <2>2. ASSUME NEW k \in lines', NEW l \in lines', line'[k].sheet = line'[l].sheet,
               line'[k].item = line'[l].item, line'[l].sheet \notin raced'
        PROVE  k = l
    <3>1. line'[l].sheet = s => k \in new /\ l \in new
      BY <1>1, <1>2, <2>2 DEF IsTheOrder, LinesOf
    <3>2. CASE line'[l].sheet = s
      BY <1>2, <2>2, <3>1, <3>2
    <3>3. CASE line'[l].sheet # s
      BY <1>1, <1>2, <1>6, <2>2, <3>3 DEF Books, RowsInOrder
    <3> QED BY <3>2, <3>3
  <2>3. \A l \in Lines : l >= nextId' => due'[l] = 0
    <3>1. \A l \in Lines : l \in Nat /\ (l >= nextId' => l >= nextId)
      BY <1>1, <1>2, FiniteLines
    <3> QED BY <1>6, <3>1 DEF Books, RowsInOrder
  <2> QED BY <2>1, <2>2, <2>3 DEF RowsInOrder
<1>9. Estimates'
  <2>1. ASSUME s \notin raced' PROVE sheet'[s].total = EstimateOf(s)'
    BY <1>5, <2>1 DEF IsTheOrder
  <2> QED BY <1>4, <1>6, <2>1 DEF Books, Estimates
<1>10. UnsentByNobody' /\ OnlyRacesEvadeApproval'
  BY <1>4, <1>6
     DEF Books, UnsentByNobody, OnlyRacesEvadeApproval, Approved, Issued, IsTheOrder
<1>11. ReceivedIsCovered'
  BY <1>2, <1>3, <1>6 DEF Books, ReceivedIsCovered, IsTheOrder
<1> QED BY <1>4, <1>7, <1>8, <1>9, <1>10, <1>11 DEF Books

\* Receives work on sheets that were sent, so the lines they work on stay, unless somebody
\* raced for the sheet.
LEMMA InsertedReceives ==
  ASSUME Orderly, NEW s \in Sheets, NEW order \in Orders, OrderAccepted(order),
         NEW gone, lines \cap gone \subseteq LinesOf(s), InsertLines(s, order, gone),
         raced \subseteq raced', s \in raced' \/ ~Issued(s), Issued(s) => Issued(s)',
         UNCHANGED recv, \A u \in Sheets \ {s} : sheet'[u] = sheet[u]
  PROVE  Receives'
<1> SUFFICES ASSUME NEW r \in Receivers
             PROVE  WorksOn(r)' /\ CoversOnce(r)' /\ ClosesCovered(r)'
  BY DEF Orderly, Receives, LocksApart
<1>1. WorksOn(r) /\ CoversOnce(r) /\ ClosesCovered(r)
  BY DEF Orderly, Receives
<1>2. /\ recv[r].closing \subseteq Sheets /\ recv[r].at \in Sheets
      /\ recv[r].visited \cup recv[r].locked \cup recv[r].open \subseteq 1..nextId - 1
      /\ lines \subseteq 1..nextId - 1
  BY TypeFacts DEF Orderly, Typed, IdsInUse
<1>3. \A u \in Sheets : Issued(u) => Issued(u)'
  BY DEF Issued
<1>4. \A u \in Sheets \ raced' : Issued(u) => u # s /\ LinesOf(u)' = LinesOf(u)
  BY InsertKeeps
<1>5. \A l \in 1..nextId - 1 : line'[l] = line[l] /\ line[l].sheet \in Sheets
  BY InsertKeeps, TypeFacts DEF Orderly
<1>6. WorksOn(r)'
  <2>1. \A l \in recv[r].visited : /\ Issued(line[l].sheet) /\ Issued(line[l].sheet)'
                                   /\ line'[l] = line[l] /\ line[l].sheet \in Sheets
    BY <1>1, <1>2, <1>3, <1>5 DEF WorksOn, Issued
  <2>2. \A l \in recv[r].visited : line[l].sheet \notin raced' => l \in lines'
    <3> SUFFICES ASSUME NEW l \in recv[r].visited, line[l].sheet \notin raced' PROVE l \in lines'
      OBVIOUS
    <3>1. l \in lines /\ l \in LinesOf(line[l].sheet)
      BY <1>1 DEF WorksOn, LinesOf, Issued
    <3>2. l \in LinesOf(line[l].sheet)'
      BY <1>4, <2>1, <3>1
    <3> QED BY <3>2 DEF LinesOf
  <2> QED BY <1>1, <1>2, <1>3, <2>1, <2>2 DEF WorksOn, Issued
<1>7. CoversOnce(r)'
  BY <1>1, <1>2, <1>5 DEF CoversOnce, OpensOnce
<1>8. ClosesCovered(r)'
  <2> SUFFICES ASSUME NEW u \in Sheets \ raced',
                      u \in recv[r].closing \/ (recv[r].pc = "close" /\ u = recv[r].at),
                      NEW l \in LinesOf(u)'
               PROVE  Seen(r, l)' = line'[l].qty
    BY DEF ClosesCovered
  <2>1. Issued(u)
    BY <1>1 DEF WorksOn
  <2>2. l \in LinesOf(u) /\ l \in lines
    BY <1>4, <2>1 DEF LinesOf
  <2>3. Seen(r, l) = line[l].qty
    BY <1>1, <2>2 DEF ClosesCovered
  <2> QED BY <1>2, <1>5, <2>2, <2>3 DEF Seen
<1> QED BY <1>6, <1>7, <1>8

\* A sheet is sent or cancelled.
LEMMA SheetMoves ==
  ASSUME Orderly, Typed', NEW s \in Sheets, UNCHANGED <<line, lines, nextId, recv, due>>,
         raced \subseteq raced',
         sheet'[s].status \in {"sent", "cancelled"}, sheet'[s].total = sheet[s].total,
         s \in raced' \/ (sheet'[s].by = "office" => EstimateOf(s) <= Approval /\ EstimateOf(s) <= Budget),
         sheet[s].status # "none",
         \A u \in Sheets \ {s} : sheet'[u] = sheet[u]
  PROVE  /\ Books' /\ Receives'
         /\ \A u \in Sheets : LinesOf(u)' = LinesOf(u) /\ EstimateOf(u)' = EstimateOf(u)
<1>1. Books /\ Receives /\ Typed
  BY DEF Orderly
<1>2. \A u \in Sheets : LinesOf(u)' = LinesOf(u)
  BY DEF LinesOf
<1>3. \A u \in Sheets : EstimateOf(u)' = EstimateOf(u)
  BY <1>1, <1>2, EstimateSame
<1>4. /\ \A u \in Sheets : Issued(u) => Issued(u)'
      /\ \A u \in Sheets : sheet[u].status # "none" => sheet'[u].status # "none"
  BY DEF Issued
<1>5. \A l \in lines : line[l].sheet \in Sheets
  BY <1>1, TypeFacts
<1>6. CoverIsExact' /\ RowsInOrder'
  BY <1>1, <1>4, <1>5 DEF Books, CoverIsExact, RowsInOrder
<1>7. ReceivedIsCovered' /\ OnlyRacesEvadeApproval' /\ Estimates' /\ UnsentByNobody'
  BY <1>1, <1>2, <1>3
     DEF Books, ReceivedIsCovered, OnlyRacesEvadeApproval, Approved, Estimates, UnsentByNobody,
         Issued
<1>8. ASSUME NEW r \in Receivers PROVE WorksOn(r)' /\ CoversOnce(r)' /\ ClosesCovered(r)'
  <2>1. WorksOn(r) /\ CoversOnce(r) /\ ClosesCovered(r)
    BY <1>1 DEF Receives
  <2>2. /\ recv[r].closing \subseteq Sheets /\ recv[r].at \in Sheets
        /\ \A l \in recv[r].visited : line[l].sheet \in Sheets
    BY <1>1, TypeFacts
  <2>3. WorksOn(r)'
    <3>1. \A l \in recv[r].visited : Issued(line[l].sheet)'
      BY <1>4, <2>1, <2>2 DEF WorksOn, Issued
    <3> QED BY <1>4, <2>1, <2>2, <3>1 DEF WorksOn, Issued
  <2>4. CoversOnce(r)'
    BY <2>1 DEF CoversOnce, OpensOnce
  <2>5. \A k : Seen(r, k)' = Seen(r, k)
    BY DEF Seen
  <2>6. ClosesCovered(r)'
    BY <1>2, <2>1, <2>5 DEF ClosesCovered
  <2> QED BY <2>3, <2>4, <2>6
<1>9. LocksApart'
  BY <1>1 DEF Receives, LocksApart
<1> QED BY <1>2, <1>3, <1>6, <1>7, <1>8, <1>9 DEF Books, Receives

\* A clerk reads, thinks and gives up: what was read holds until somebody writes.
LEMMA DeskOrderly ==
  ASSUME Orderly, Typed', NEW c \in Clerks, NEW s \in Sheets,
         \/ \E admin \in BOOLEAN : ReadForSend(c, s, admin)
         \/ ReadForReplace(c, s) \/ ReadForCancel(c, s)
         \/ CheckBudget(c) \/ SnapLines(c) \/ GiveUp(c)
  PROVE  Orderly'
<1>1. /\ clerk \in [Clerks -> Desk] /\ ReadHolds(c) /\ Books
      /\ clerk[c].sheet \in Sheets /\ lines \subseteq 1..nextId - 1
  BY TypeFacts DEF Orderly, Desk
<1>2. /\ UNCHANGED <<sheet, line, lines, nextId, recv, due, raced>>
      /\ \A d \in Clerks \ {c} : clerk'[d] = clerk[d]
  BY <1>1 DEF ReadForSend, ReadForReplace, ReadForCancel, CheckBudget, SnapLines, GiveUp
<1>3. \A u \in Sheets : LinesOf(u)' = LinesOf(u) /\ EstimateOf(u)' = EstimateOf(u)
  BY <1>2, BooksSame DEF Orderly
<1>4. ASSUME NEW admin \in BOOLEAN, ReadForSend(c, s, admin) PROVE ReadHolds(c)'
  <2>1. /\ clerk'[c] = Working("budget", s, admin)
        /\ sheet[s].status = "draft" /\ (sheet[s].total > Approval => admin)
    BY <1>1, <1>4 DEF ReadForSend
  <2>2. sheet[s].total \in Nat
    BY TypeFacts DEF Orderly, Sheet
  <2> QED BY <1>2, <2>1, <2>2, DeskFacts, QtyAssumption DEF ReadHolds, StillSo
<1>5. ASSUME ReadForReplace(c, s) PROVE ReadHolds(c)'
  <2>1. clerk'[c] = Working("snap", s, FALSE) /\ sheet[s].status = "draft"
    BY <1>1, <1>5 DEF ReadForReplace
  <2>2. clerk'[c].pc = "snap" /\ clerk'[c].sheet = s /\ clerk'[c].doomed = {}
    BY <2>1 DEF Working, AtRest
  <2> QED BY <1>2, <2>1, <2>2 DEF ReadHolds, StillSo
<1>6. ASSUME ReadForCancel(c, s) PROVE ReadHolds(c)'
  <2>1. clerk'[c] = Working("cancel", s, FALSE) /\ sheet[s].status \in {"draft", "sent"}
    BY <1>1, <1>6 DEF ReadForCancel
  <2>2. clerk'[c].pc = "cancel" /\ clerk'[c].sheet = s /\ clerk'[c].doomed = {}
    BY <2>1 DEF Working, AtRest
  <2> QED BY <1>2, <2>1, <2>2 DEF ReadHolds, StillSo
<1>7. ASSUME CheckBudget(c) PROVE ReadHolds(c)'
  <2>1. /\ clerk'[c] = [clerk[c] EXCEPT !.pc = "mark"] /\ clerk[c].pc = "budget"
        /\ EstimateOf(clerk[c].sheet) > Budget => clerk[c].admin
    BY <1>1, <1>7 DEF CheckBudget
  <2>2. /\ clerk'[c].pc = "mark" /\ clerk'[c].sheet = clerk[c].sheet
        /\ clerk'[c].admin = clerk[c].admin /\ clerk'[c].doomed = clerk[c].doomed
        /\ clerk'[c].current = clerk[c].current
    BY <1>1, <2>1 DEF Desk
  <2>3. EstimateOf(clerk[c].sheet) \in Nat
    BY <1>1, EstimateIs, SumIsSolution DEF Orderly, EstimatesAreSums
  <2>4. ~clerk[c].admin => EstimateOf(clerk[c].sheet) <= Budget
    BY <2>1, <2>3, QtyAssumption
  <2> QED BY <1>1, <1>2, <1>3, <2>1, <2>2, <2>4 DEF ReadHolds, StillSo
<1>8. ASSUME SnapLines(c) PROVE ReadHolds(c)'
  <2>1. /\ clerk'[c] = [clerk[c] EXCEPT !.pc = "replace", !.doomed = LinesOf(clerk[c].sheet)]
        /\ clerk[c].pc = "snap"
    BY <1>1, <1>8 DEF SnapLines
  <2>2. /\ clerk'[c].pc = "replace" /\ clerk'[c].sheet = clerk[c].sheet
        /\ clerk'[c].doomed = LinesOf(clerk[c].sheet) /\ clerk'[c].current = clerk[c].current
    BY <1>1, <2>1 DEF Desk
  <2>3. \A l \in LinesOf(clerk[c].sheet) : l \in 1..nextId - 1 /\ line[l].sheet = clerk[c].sheet
    BY <1>1 DEF LinesOf
  <2> QED BY <1>1, <1>2, <1>3, <2>1, <2>2, <2>3 DEF ReadHolds, StillSo
<1>9. ASSUME GiveUp(c) PROVE ReadHolds(c)'
  <2>1. clerk'[c] = AtRest
    BY <1>1, <1>9 DEF GiveUp
  <2> QED BY <2>1, DeskFacts DEF ReadHolds
<1> QED BY <1>2, <1>4, <1>5, <1>6, <1>7, <1>8, <1>9, ClerkReads

\* A larger counter keeps the numbers below the smaller one.
LEMMA BelowStays ==
  ASSUME NEW n \in Nat, NEW m \in Nat, m >= n
  PROVE  \A l \in 1..n - 1 : l \in 1..m - 1
OBVIOUS

\* What the other clerks have read holds, or is out of date, when a clerk writes a sheet.
LEMMA OthersRead ==
  ASSUME Orderly, NEW c \in Clerks, NEW s \in Sheets, Write(c, s),
         nextId \in Nat, nextId' \in Nat, nextId' >= nextId, sheet'[s].status # "none",
         \A l \in 1..nextId - 1 : line'[l] = line[l],
         \A u \in Sheets \ {s} : /\ sheet'[u] = sheet[u] /\ LinesOf(u)' = LinesOf(u)
                                  /\ EstimateOf(u)' = EstimateOf(u)
  PROVE  \A d \in Clerks : ReadHolds(d)'
<1>1. clerk \in [Clerks -> Desk]
  BY TypeFacts DEF Orderly
<1>2. ReadHolds(c)'
  BY <1>1, WriteFacts, DeskFacts DEF ReadHolds
<1>3. ASSUME NEW d \in Clerks \ {c} PROVE ReadHolds(d)'
  <2>1. ReadHolds(d) /\ clerk[d].sheet \in Sheets
    BY <1>1 DEF Orderly, Desk
  <2>2. /\ clerk'[d].pc = clerk[d].pc /\ clerk'[d].sheet = clerk[d].sheet
        /\ clerk'[d].admin = clerk[d].admin /\ clerk'[d].doomed = clerk[d].doomed
        /\ clerk'[d].current => clerk[d].current /\ clerk[d].sheet # s
    BY <1>1, WriteFacts
  <2>3. \A l \in clerk[d].doomed : l \in 1..nextId' - 1 /\ line'[l].sheet = clerk[d].sheet
    <3>1. \A l \in 1..nextId - 1 : l \in 1..nextId' - 1
      BY BelowStays
    <3> QED BY <2>1, <3>1 DEF ReadHolds
  <2>4. clerk'[d].current => StillSo(d)'
    BY <2>1, <2>2 DEF ReadHolds, StillSo
  <2> QED BY <2>1, <2>2, <2>3, <2>4 DEF ReadHolds
<1> QED BY <1>2, <1>3

\* A sheet is made, or the lines of one are replaced.
LEMMA InsertOrderly ==
  ASSUME Orderly, Typed', NEW c \in Clerks, NEW order \in Orders,
         Create(c, order) \/ ReplaceLines(c, order)
  PROVE  Orderly'
<1>1. /\ clerk \in [Clerks -> Desk] /\ sheet \in [Sheets -> Sheet] /\ ReadHolds(c) /\ Books
      /\ \A d \in Clerks : clerk[d].sheet \in Sheets /\ ReadHolds(d)
      /\ nextId \in Nat
  BY TypeFacts DEF Orderly, Desk
<1>2. CASE Create(c, order)
  <2> DEFINE s == Min({u \in Sheets : sheet[u].status = "none"})
  <2>1. s \in Sheets /\ sheet[s].status = "none"
    BY <1>2, MinFacts, IdAssumption DEF Create
  <2>2. /\ OrderAccepted(order) /\ InsertLines(s, order, {})
        /\ UNCHANGED <<clerk, recv, due, raced>>
        /\ sheet' = [sheet EXCEPT ![s] = [status |-> "draft", total |-> TotalOf(order), by |-> "nobody"]]
    BY <1>2 DEF Create
  <2> HIDE DEF s
  <2>3. LinesOf(s) = {} /\ ~Issued(s)
    BY <1>1, <2>1 DEF Books, RowsInOrder, LinesOf, Issued
  <2>4. /\ sheet'[s] = [status |-> "draft", total |-> TotalOf(order), by |-> "nobody"]
        /\ \A u \in Sheets \ {s} : sheet'[u] = sheet[u]
    BY <1>1, <2>1, <2>2
  <2>5. /\ IsTheOrder(s, order, {}) /\ sheet'[s].status = "draft" /\ sheet'[s].by = "nobody"
        /\ lines \cap {} \subseteq LinesOf(s)
    BY <2>3, <2>4 DEF IsTheOrder
  <2>6. Books' /\ \A u \in Sheets \ {s} : EstimateOf(u)' = EstimateOf(u)
    BY <2>1, <2>2, <2>4, <2>5, InsertedBooks
  <2>7. Receives'
    BY <2>1, <2>2, <2>3, <2>4, <2>5, InsertedReceives
  <2>8. /\ \A u \in Sheets \ {s} : LinesOf(u)' = LinesOf(u)
        /\ \A l \in 1..nextId - 1 : line'[l] = line[l]
        /\ nextId' \in Nat /\ nextId' >= nextId
    BY <2>1, <2>2, <2>5, InsertKeeps
  <2>9. ASSUME NEW d \in Clerks PROVE ReadHolds(d)'
    <3>1. \A l \in 1..nextId - 1 : l \in 1..nextId' - 1
      BY <1>1, <2>8, BelowStays
    <3>2. \A l \in clerk[d].doomed : l \in 1..nextId' - 1 /\ line'[l].sheet = clerk[d].sheet
      BY <1>1, <2>8, <3>1 DEF ReadHolds
    <3>3. CASE clerk[d].pc = "idle"
      BY <1>1, <2>2, <3>2, <3>3 DEF ReadHolds, StillSo
    <3>4. CASE clerk[d].pc # "idle"
      <4>1. clerk[d].sheet # s
        BY <1>1, <2>1, <3>4 DEF ReadHolds
      <4>2. clerk[d].current => StillSo(d)'
        BY <1>1, <2>2, <2>4, <2>6, <2>8, <4>1 DEF ReadHolds, StillSo
      <4> QED BY <1>1, <2>2, <2>4, <3>2, <4>1, <4>2 DEF ReadHolds
    <3> QED BY <3>3, <3>4
  <2> QED BY <2>6, <2>7, <2>9 DEF Orderly
<1>3. CASE ReplaceLines(c, order)
  <2> PICK s \in Sheets : s = clerk[c].sheet
    BY <1>1
  <2> PICK gone : gone = clerk[c].doomed
    OBVIOUS
  <2>1. /\ OrderAccepted(order) /\ InsertLines(s, order, gone) /\ UNCHANGED <<recv, due>>
        /\ sheet' = [sheet EXCEPT ![s].total = TotalOf(order)]
        /\ Write(c, s) /\ clerk[c].pc = "replace"
    BY <1>3 DEF ReplaceLines
  <2>2. /\ lines \cap gone \subseteq LinesOf(s) /\ sheet[s].status # "none" /\ s \in Sheets
        /\ clerk[c].current => sheet[s].status = "draft" /\ gone = LinesOf(s)
    BY <1>1, <2>1 DEF ReadHolds, StillSo, LinesOf
  <2>3. raced \subseteq raced' /\ (s \in raced' \/ clerk[c].current)
    BY <1>1, <2>1, <2>2, WriteFacts
  <2>4. /\ sheet'[s] = [sheet[s] EXCEPT !.total = TotalOf(order)]
        /\ \A u \in Sheets \ {s} : sheet'[u] = sheet[u]
    BY <1>1, <2>1, <2>2
  <2>5. /\ sheet'[s].status = sheet[s].status /\ sheet'[s].by = sheet[s].by
        /\ ~Issued(s) => sheet[s].by = "nobody"
        /\ Issued(s)' <=> Issued(s)
    BY <1>1, <2>2, <2>4 DEF Sheet, Issued, Books, UnsentByNobody
  <2>6. clerk[c].current => IsTheOrder(s, order, gone)
    <3> SUFFICES ASSUME clerk[c].current PROVE IsTheOrder(s, order, gone)
      OBVIOUS
    <3>1. ~Issued(s) /\ sheet[s].status = "draft" /\ sheet[s].by = "nobody"
      BY <2>2, <2>5 DEF Issued
    <3>2. sheet'[s] = [status |-> "draft", total |-> TotalOf(order), by |-> "nobody"]
      BY <1>1, <2>2, <2>4, <3>1 DEF Sheet
    <3> QED BY <2>2, <3>1, <3>2 DEF IsTheOrder
  <2>7. Books' /\ \A u \in Sheets \ {s} : EstimateOf(u)' = EstimateOf(u)
    BY <2>1, <2>2, <2>3, <2>4, <2>5, <2>6, InsertedBooks
  <2>8. Receives'
    <3>1. s \in raced' \/ ~Issued(s)
      BY <2>3, <2>6 DEF IsTheOrder
    <3> QED BY <2>1, <2>2, <2>3, <2>4, <2>5, <3>1, InsertedReceives
  <2>9. /\ \A u \in Sheets \ {s} : LinesOf(u)' = LinesOf(u)
        /\ \A l \in 1..nextId - 1 : line'[l] = line[l]
        /\ nextId' \in Nat /\ nextId' >= nextId
    BY <2>1, <2>2, InsertKeeps
  <2>10. \A d \in Clerks : ReadHolds(d)'
    BY <1>1, <2>1, <2>2, <2>4, <2>5, <2>7, <2>9, OthersRead
  <2> QED BY <2>7, <2>8, <2>10 DEF Orderly
<1> QED BY <1>2, <1>3

\* A sheet is sent as it was checked, or cancelled.
LEMMA MarkOrderly ==
  ASSUME Orderly, Typed', NEW c \in Clerks, MarkSent(c) \/ MarkCancelled(c)
  PROVE  Orderly'
<1> DEFINE s == clerk[c].sheet
<1>1. /\ clerk \in [Clerks -> Desk] /\ sheet \in [Sheets -> Sheet] /\ ReadHolds(c) /\ Books
      /\ s \in Sheets /\ nextId \in Nat
  BY TypeFacts DEF Orderly, Desk
<1>2. UNCHANGED <<line, lines, nextId, recv, due>> /\ Write(c, s)
  BY DEF MarkSent, MarkCancelled
<1>3. raced \subseteq raced' /\ (s \in raced' \/ clerk[c].current)
  BY <1>1, <1>2, WriteFacts
<1>4. \A u \in Sheets \ {s} : sheet'[u] = sheet[u]
  BY <1>1 DEF MarkSent, MarkCancelled
<1>5. /\ sheet'[s].status \in {"sent", "cancelled"} /\ sheet'[s].total = sheet[s].total
      /\ sheet[s].status # "none"
  BY <1>1 DEF MarkSent, MarkCancelled, Sheet, ReadHolds
<1>6. s \in raced' \/ (sheet'[s].by = "office" => EstimateOf(s) <= Approval /\ EstimateOf(s) <= Budget)
  <2> SUFFICES ASSUME s \notin raced', sheet'[s].by = "office"
               PROVE  EstimateOf(s) <= Approval /\ EstimateOf(s) <= Budget
    OBVIOUS
  <2>1. StillSo(c) /\ s \notin raced
    BY <1>1, <1>3 DEF ReadHolds
  <2>2. CASE MarkSent(c)
    <3>1. ~clerk[c].admin /\ clerk[c].pc = "mark"
      BY <1>1, <2>2 DEF MarkSent, Sheet
    <3> QED BY <1>1, <1>5, <2>1, <3>1 DEF StillSo, Books, Estimates
  <2>3. CASE MarkCancelled(c)
    <3>1. sheet[s].by = "office"
      BY <1>1, <2>3 DEF MarkCancelled, Sheet
    <3> QED BY <1>1, <2>1, <3>1 DEF Books, OnlyRacesEvadeApproval, Approved
  <2> QED BY <2>2, <2>3
<1> HIDE DEF s
<1>7. /\ Books' /\ Receives'
      /\ \A u \in Sheets : LinesOf(u)' = LinesOf(u) /\ EstimateOf(u)' = EstimateOf(u)
  BY <1>1, <1>2, <1>3, <1>4, <1>5, <1>6, SheetMoves
<1>8. \A d \in Clerks : ReadHolds(d)'
  BY <1>1, <1>2, <1>4, <1>5, <1>7, OthersRead
<1> QED BY <1>7, <1>8 DEF Orderly

\* Every step keeps the office in order.
LEMMA StepOrderly == Orderly /\ [Next]_vars => Orderly'
<1> SUFFICES ASSUME Orderly, [Next]_vars PROVE Orderly'
  OBVIOUS
<1>1. Typed'
  BY StepTyped DEF Orderly
<1>2. ASSUME NEW c \in Clerks, Office(c) PROVE Orderly'
  <2>1. Sheets # {}
    BY IdAssumption
  <2> QED BY <1>1, <1>2, <2>1, DeskOrderly, InsertOrderly, MarkOrderly DEF Office
<1>3. ASSUME NEW r \in Receivers, Receive(r) PROVE Orderly'
  BY <1>1, <1>3, BeginOrderly, VisitOrderly, CoverOrderly, CheckOrderly, CommitOrderly DEF Receive
<1>4. CASE UNCHANGED vars
  <2>1. Books' /\ \A s \in Sheets : LinesOf(s)' = LinesOf(s) /\ EstimateOf(s)' = EstimateOf(s)
    BY <1>1, <1>4, BooksSame DEF vars, Orderly
  <2>2. Receives'
    BY <1>4, ReceivesSame DEF vars, Orderly
  <2>3. \A c \in Clerks : ReadHolds(c)'
    <3>1. \A c \in Clerks : clerk[c].sheet \in Sheets
      BY TypeFacts DEF Orderly, Desk
    <3> QED BY <1>4, <2>1, <3>1, ReadsSame DEF vars
  <2> QED BY <1>1, <2>1, <2>2, <2>3 DEF Orderly
<1> QED BY <1>2, <1>3, <1>4 DEF Next

--------------------------------------------------------------------------------
\* Theorems.

\* The inductive invariant.
THEOREM Inductive == Spec => []Orderly
BY InitOrderly, StepOrderly, PTL DEF Spec

\* Every receive that saw a line's sheet as sent counts for the line, once and in full,
\* whatever other receives and the clerks do meanwhile, unless a clerk wrote the sheet on an
\* out-of-date reading (decrementLine).
THEOREM CoverInvariant == Spec => []SheetsInv
<1>1. Orderly => SheetsInv
  BY DEF Orderly, Typed, Books, SheetsInv
<1> QED BY <1>1, Inductive, PTL

\* A sheet that no two clerks raced for is received only when all its lines are
\* (applyReceive).
THEOREM ClosesWhenCovered == Spec => []ReceivedIsCovered
<1>1. Orderly => ReceivedIsCovered
  BY DEF Orderly, Books
<1> QED BY <1>1, Inductive, PTL

\* With any clerks, what is sent without an app admin is within the approval threshold and
\* the budget, unless a clerk wrote the sheet on an out-of-date reading: that is the only way
\* past the two checks (send, enforceBudgetCycle).
THEOREM SendsWithinApproval == Spec => []OnlyRacesEvadeApproval
<1>1. Orderly => OnlyRacesEvadeApproval
  BY DEF Orderly, Books
<1> QED BY <1>1, Inductive, PTL

\* What OnlyRacesTouchSent says of one step.
SentStay == \A s \in Sheets \ raced' : sheet[s].status \in {"sent", "received"} => LinesStay(s)

\* No step of any actor touches the lines of a sheet that is sent, but that of a clerk whose
\* reading is out of date.
LEMMA StepKeepsLines == Orderly /\ [Next]_vars => SentStay
<1> SUFFICES ASSUME Orderly, [Next]_vars, NEW s \in Sheets \ raced',
                    sheet[s].status \in {"sent", "received"}
             PROVE  LinesStay(s)
  BY DEF SentStay
<1>1. CASE UNCHANGED <<line, lines>>
  BY <1>1 DEF LinesOf, LinesStay
<1>2. ASSUME NEW u \in Sheets, u # s, NEW order \in Orders, OrderAccepted(order),
             NEW gone, lines \cap gone \subseteq LinesOf(u), InsertLines(u, order, gone)
      PROVE  LinesStay(s)
  <2>1. LinesOf(s)' = LinesOf(s) /\ \A l \in 1..nextId - 1 : line'[l] = line[l]
    BY <1>2, InsertKeeps
  <2>2. LinesOf(s) \subseteq 1..nextId - 1
    BY TypeFacts DEF Orderly, LinesOf
  <2> QED BY <2>1, <2>2 DEF LinesStay
<1>3. ASSUME NEW c \in Clerks, NEW order \in Orders, Create(c, order) PROVE LinesStay(s)
  <2> DEFINE u == Min({v \in Sheets : sheet[v].status = "none"})
  <2>1. u \in Sheets /\ sheet[u].status = "none"
    BY <1>3, MinFacts, IdAssumption DEF Create
  <2>2. OrderAccepted(order) /\ InsertLines(u, order, {})
    BY <1>3 DEF Create
  <2> HIDE DEF u
  <2>3. u # s
    BY <2>1
  <2> QED BY <1>2, <2>1, <2>2, <2>3
<1>4. ASSUME NEW c \in Clerks, NEW order \in Orders, ReplaceLines(c, order) PROVE LinesStay(s)
  <2> DEFINE u == clerk[c].sheet
  <2>1. u \in Sheets /\ clerk \in [Clerks -> Desk] /\ ReadHolds(c)
    BY TypeFacts DEF Orderly, Desk
  <2>2. /\ OrderAccepted(order) /\ InsertLines(u, order, clerk[c].doomed)
        /\ clerk[c].pc = "replace" /\ Write(c, u)
    BY <1>4 DEF ReplaceLines
  <2>3. lines \cap clerk[c].doomed \subseteq LinesOf(u)
    BY <2>1 DEF ReadHolds, LinesOf
  <2>4. u # s
    <3>1. clerk[c].current => sheet[u].status = "draft"
      BY <2>1, <2>2 DEF ReadHolds, StillSo
    <3>2. u \in raced' \/ clerk[c].current
      BY <2>1, <2>2, WriteFacts
    <3> QED BY <3>1, <3>2
  <2> HIDE DEF u
  <2> QED BY <1>2, <2>1, <2>2, <2>3, <2>4
<1>5. ASSUME NEW r \in Receivers, CommitReceive(r) PROVE LinesStay(s)
  <2>1. Typed' /\ lines \subseteq Lines
    BY StepTyped, TypeFacts DEF Orderly
  <2> QED BY <1>5, <2>1, CommitFacts DEF LinesOf, LinesStay
<1>6. ASSUME NEW c \in Clerks, Office(c)
      PROVE  \/ UNCHANGED <<line, lines>>
             \/ \E order \in Orders : Create(c, order) \/ ReplaceLines(c, order)
  BY <1>6 DEF Office, ReadForSend, ReadForReplace, ReadForCancel, CheckBudget, MarkSent,
              SnapLines, MarkCancelled, GiveUp
<1>7. ASSUME NEW r \in Receivers, Receive(r)
      PROVE  UNCHANGED <<line, lines>> \/ CommitReceive(r)
  BY <1>7 DEF Receive, BeginReceive, VisitSheet, CoverLine, CheckLines, CloseSheet, RollbackReceive
<1>8. CASE UNCHANGED vars
  BY <1>1, <1>8 DEF vars
<1> QED BY <1>1, <1>3, <1>4, <1>5, <1>6, <1>7, <1>8 DEF Next

\* With any clerks, once a sheet is sent no row is added to it, taken from it or given
\* another quantity, but by a replace that read it before somebody else wrote it
\* (replaceLines: sent sheets are immutable snapshots).
THEOREM SentStays == Spec => OnlyRacesTouchSent
<1>1. Orderly /\ [Next]_vars => SentStay
  BY StepKeepsLines
<1>2. Spec => [][SentStay]_vars
  BY <1>1, Inductive, PTL DEF Spec
<1> QED BY <1>2 DEF OnlyRacesTouchSent, SentStay

\* With one clerk nobody races, so all of this holds of every sheet.
THEOREM OneClerkNeverRaces == (\A c, d \in Clerks : c = d) => (Spec => [](raced = {}))
<1> SUFFICES ASSUME \A c, d \in Clerks : c = d PROVE Spec => [](raced = {})
  OBVIOUS
<1> DEFINE Alone == raced = {} /\ \A c \in Clerks : clerk[c].pc # "idle" => clerk[c].current
<1>1. Init => Alone
  BY DeskFacts DEF Init
<1>2. Orderly /\ Alone /\ [Next]_vars => Alone'
  <2> SUFFICES ASSUME Orderly, Alone, [Next]_vars PROVE Alone'
    OBVIOUS
  <2>1. clerk \in [Clerks -> Desk]
    BY TypeFacts DEF Orderly
  <2>2. ASSUME NEW c \in Clerks, NEW s \in Sheets, Write(c, s), clerk[c].pc # "idle" PROVE Alone'
    <3>1. clerk'[c] = AtRest
      BY <2>1, <2>2, WriteFacts
    <3> QED BY <2>2, <3>1, DeskFacts DEF Write
  <2>3. ASSUME NEW c \in Clerks, Office(c) PROVE Alone'
    <3>1. clerk[c].sheet \in Sheets /\ \A d \in Clerks : d = c
      BY <2>1 DEF Desk
    <3>2. CASE MarkSent(c) \/ MarkCancelled(c) \/ \E order \in Orders : ReplaceLines(c, order)
      BY <2>2, <3>1, <3>2 DEF MarkSent, MarkCancelled, ReplaceLines
    <3>3. CASE \E s \in Sheets, admin \in BOOLEAN :
                 ReadForSend(c, s, admin) \/ ReadForReplace(c, s) \/ ReadForCancel(c, s)
      <4>1. \A pc, s, admin : Working(pc, s, admin).current
        BY DEF Working, AtRest
      <4>2. PICK pc, s, admin : /\ clerk' = [clerk EXCEPT ![c] = Working(pc, s, admin)]
                                /\ UNCHANGED raced
        BY <3>3 DEF ReadForSend, ReadForReplace, ReadForCancel
      <4> QED BY <2>1, <3>1, <4>1, <4>2
    <3>4. CASE CheckBudget(c) \/ SnapLines(c)
      <4>1. clerk'[c].current = clerk[c].current /\ clerk[c].pc # "idle" /\ UNCHANGED raced
        BY <2>1, <3>4 DEF CheckBudget, SnapLines, Desk
      <4> QED BY <3>1, <4>1
    <3>5. CASE GiveUp(c)
      <4>1. clerk'[c] = AtRest /\ UNCHANGED raced
        BY <2>1, <3>5 DEF GiveUp
      <4> QED BY <3>1, <4>1, DeskFacts
    <3>6. CASE \E order \in Orders : Create(c, order)
      BY <3>6 DEF Create
    <3> QED BY <2>3, <3>2, <3>3, <3>4, <3>5, <3>6 DEF Office
  <2>4. ASSUME NEW r \in Receivers, Receive(r) PROVE Alone'
    BY <2>4 DEF Receive, BeginReceive, VisitSheet, CoverLine, CheckLines, CloseSheet,
                CommitReceive, RollbackReceive
  <2>5. CASE UNCHANGED vars
    BY <2>5 DEF vars
  <2> QED BY <2>3, <2>4, <2>5 DEF Next
<1>3. Alone => raced = {}
  OBVIOUS
<1> HIDE DEF Alone
<1> QED BY <1>1, <1>2, <1>3, Inductive, PTL DEF Spec
================================================================================
