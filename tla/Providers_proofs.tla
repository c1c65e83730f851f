--------------------------- MODULE Providers_proofs ---------------------------
(***************************************************************************)
(* Proofs about Providers, for any services, dependencies, documents and   *)
(* number of failed calls.                                                 *)
(***************************************************************************)
EXTENDS Providers, FiniteSetTheorems, SequenceTheorems, WellFoundedInduction, TLAPS

-----------------------------------------------------------------------------
(* The inductive invariant.                                                *)

Makers == {"apply", "create", "replace", "install", "runinit"}
Removers == {"delete", "uninstall"}

\* The condition a Provision means to leave an object of engine e in.
Right(e, o) ==
    IF e = "docker" /\ o \in Services /\ RoleOf[o] = "init" THEN "done" ELSE "up"

\* The calls of a Provision: each leaves its object right, or records the rest,
\* and none has its error dropped.
Building(e) ==
    {c \in [do: Makers, obj: ObjectsOf(e), error: {"abort"}] :
        c.do = "runinit" <=> Right(e, c.obj) = "done"}
    \cup {Do("track", None)}

\* The calls of a Deprovision.
Clearing(e) ==
    [do: Removers, obj: ObjectsOf(e), error: {"abort", "ignore", "both"}]
    \cup {Do("untrack", None)}

\* What is whole when a Provision ends: all of one of these.
Goals ==
    CASE engine \in Kubernetes  -> {{"config", engine, "service"}}
      [] engine = "manifests"   -> {docs}
      [] engine = "helm"        -> {{"release"}, {"elsewhere"}}
      [] OTHER                  -> {ObjectsOf(engine)}

\* A verb under way has not answered.
Unanswered == call /= None => answer = None

\* The call on o is still to come, and is one of kinds.
ToCome(kinds, o) ==
    \E c \in Range(call.todo) : c.do \in kinds /\ c.obj = o

\* What a Provision under way has not made right yet it still has to call for.
BuildingOn ==
    call /= None /\ call.verb = "Provision" =>
        /\ call.todo \in Seq(Building(engine))
        /\ \E goal \in Goals : \A o \in goal : objs[o] = Right(engine, o) \/ ToCome(Makers, o)
        /\ engine = "manifests" => tracked = docs \/ ToCome({"track"}, None)

\* What a Deprovision under way still finds there it has passed over, or has
\* still to delete.
ClearingOn ==
    call /= None /\ call.verb = "Deprovision" =>
        /\ call.todo \in Seq(Clearing(engine))
        /\ \A o \in DOMAIN objs : Present(o) => o \in escaped \/ ToCome(Removers, o)

IInv ==
    TypeOK /\ Unanswered /\ BuildingOn /\ ClearingOn /\ ProvisionIsWhole /\ DeprovisionIsClean
-----------------------------------------------------------------------------
(* The order docker starts services in.                                    *)
(*                                                                         *)
(* ListedAs and sortByDeps are recursive functions; that such functions    *)
(* exist, and what they return, is by induction on the length of the list. *)

LEMMA Induction ==
  ASSUME NEW S, 0 \in S, \A n \in Nat : n \in S => n + 1 \in S
  PROVE  Nat \subseteq S
<1> SUFFICES ASSUME NEW m \in Nat, m \notin S PROVE FALSE
  OBVIOUS
<1> DEFINE T == Nat \ S
<1>1. T \subseteq Nat /\ T # {}
  OBVIOUS
<1>2. PICK x \in T : \A y \in T : ~(<<y, x>> \in OpToRel(<, Nat))
  <2> HIDE DEF T
  <2> QED BY <1>1, WFMin, NatLessThanWellFounded
<1>3. \A y \in T : ~(y < x)
  BY <1>2 DEF OpToRel
<1>4. x \in Nat /\ x # 0
  OBVIOUS
<1>5. x - 1 \in Nat /\ x - 1 < x /\ (x - 1) + 1 = x
  BY <1>4
<1>6. x - 1 \in S
  BY <1>3, <1>5
<1> QED BY <1>5, <1>6

Advances(G, X, N) == G \in [X \X (1 .. N) -> X]
Follows(f, X, N, start, G) ==
    f \in [0 .. N -> X] /\ f[0] = start /\ \A n \in 1 .. N : f[n] = G[<<f[n - 1], n>>]

\* A list is gone through element by element.
LEMMA RunExists ==
  ASSUME NEW X, NEW start \in X, NEW N \in Nat, NEW G, Advances(G, X, N)
  PROVE  \E f : Follows(f, X, N, start, G)
<1> USE DEF Advances
<1> DEFINE Run(m, f) == f[0] = start /\ \A n \in 1 .. m : f[n] = G[<<f[n - 1], n>>]
           S == {m \in Nat : m <= N => \E f \in [0 .. m -> X] : Run(m, f)}
<1>1. 0 \in S
  <2>1. [n \in 0 .. 0 |-> start] \in [0 .. 0 -> X] /\ Run(0, [n \in 0 .. 0 |-> start])
    OBVIOUS
  <2> QED BY <2>1
<1>2. ASSUME NEW m \in Nat, m \in S PROVE m + 1 \in S
  <2> SUFFICES ASSUME m + 1 <= N PROVE \E f \in [0 .. m + 1 -> X] : Run(m + 1, f)
    OBVIOUS
  <2>1. PICK f \in [0 .. m -> X] : Run(m, f)
    BY <1>2
  <2>2. PICK x : x = G[<<f[m], m + 1>>]
    OBVIOUS
  <2>3. x \in X
    BY <2>1, <2>2
  <2>4. PICK g : g = [n \in 0 .. m + 1 |-> IF n <= m THEN f[n] ELSE x]
    OBVIOUS
  <2>5. g \in [0 .. m + 1 -> X]
    BY <2>1, <2>3, <2>4
  <2>6. \A n \in 0 .. m : g[n] = f[n]
    BY <2>4
  <2>7. g[m + 1] = x
    BY <2>4
  <2>8. ASSUME NEW n \in 1 .. m + 1 PROVE g[n] = G[<<g[n - 1], n>>]
    <3>1. CASE n \in 1 .. m
      <4>1. n \in 0 .. m /\ n - 1 \in 0 .. m
        BY <3>1
      <4> QED BY <2>1, <2>6, <3>1, <4>1
    <3>2. CASE n = m + 1
      <4>1. n - 1 = m /\ m \in 0 .. m
        BY <3>2
      <4> QED BY <2>2, <2>6, <2>7, <3>2, <4>1
    <3> QED BY <3>1, <3>2
  <2>9. g[0] = start
    BY <2>1, <2>6
  <2> QED BY <2>5, <2>8, <2>9
<1>3. N \in S
  <2> HIDE DEF S
  <2> QED BY <1>1, <1>2, Induction
<1> QED BY <1>3 DEF Follows

\* The services of one list, in one order, that are on it and in role r.
LEMMA ListedAsStep ==
  ASSUME NEW list \in Seq(Services), NEW r
  PROVE  \E f \in [0 .. Len(list) -> Seq(Services)] :
            /\ f[0] = <<>>
            /\ \A n \in 1 .. Len(list) :
                  f[n] = IF RoleOf[list[n]] = r THEN Append(f[n - 1], list[n]) ELSE f[n - 1]
            /\ ListedAs(list, r) = f[Len(list)]
<1> DEFINE N == Len(list)
           P(f) == f = [n \in 0 .. N |->
                          IF n = 0 THEN <<>>
                          ELSE IF RoleOf[list[n]] = r THEN Append(f[n - 1], list[n])
                          ELSE f[n - 1]]
<1>1. PICK G : G = [p \in Seq(Services) \X (1 .. N) |->
                      IF RoleOf[list[p[2]]] = r THEN Append(p[1], list[p[2]]) ELSE p[1]]
  OBVIOUS
<1>2. G \in [Seq(Services) \X (1 .. N) -> Seq(Services)]
  BY <1>1
<1>3. PICK f \in [0 .. N -> Seq(Services)] :
         f[0] = <<>> /\ \A n \in 1 .. N : f[n] = G[<<f[n - 1], n>>]
  <2>1. N \in Nat /\ <<>> \in Seq(Services)
    OBVIOUS
  <2>2. Advances(G, Seq(Services), N)
    BY <1>2 DEF Advances
  <2>3. \E f : Follows(f, Seq(Services), N, <<>>, G)
    <3> HIDE DEF N
    <3> QED BY <2>1, <2>2, RunExists
  <2> QED BY <2>3 DEF Follows
<1>4. ASSUME NEW n \in 1 .. N
      PROVE  f[n] = IF RoleOf[list[n]] = r THEN Append(f[n - 1], list[n]) ELSE f[n - 1]
  <2>1. <<f[n - 1], n>> \in Seq(Services) \X (1 .. N)
    <3>1. n - 1 \in 0 .. N
      OBVIOUS
    <3> QED BY <3>1
  <2> QED BY <1>1, <1>3, <2>1
<1> DEFINE next(g, n) == IF n = 0 THEN <<>>
                         ELSE IF RoleOf[list[n]] = r THEN Append(g[n - 1], list[n])
                         ELSE g[n - 1]
<1>5. P(f)
  <2>1. \A n \in 0 .. N : n = 0 \/ n \in 1 .. N
    OBVIOUS
  <2>2. \A n \in 0 .. N : f[n] = next(f, n)
    BY <1>3, <1>4, <2>1
  <2> HIDE DEF next, N
  <2>3. f = [n \in 0 .. N |-> next(f, n)]
    BY <1>3, <2>2
  <2> QED BY <2>3 DEF next
<1>6. ASSUME NEW g, P(g) PROVE g = f
  <2> DEFINE S == {n \in Nat : n <= N => g[n] = f[n]}
  <2>1. 0 \in S
    BY <1>3, <1>6
  <2>2. ASSUME NEW n \in Nat, n \in S PROVE n + 1 \in S
    <3> SUFFICES ASSUME n + 1 <= N PROVE g[n + 1] = f[n + 1]
      OBVIOUS
    <3>1. n + 1 \in 1 .. N /\ (n + 1) - 1 = n /\ n + 1 # 0 /\ n + 1 \in 0 .. N
      OBVIOUS
    <3>2. g[n] = f[n]
      BY <2>2
    <3>3. g[n + 1] = next(g, n + 1)
      <4>1. g = [k \in 0 .. N |-> next(g, k)]
        BY <1>6
      <4> HIDE DEF next
      <4> QED BY <3>1, <4>1
    <3> QED BY <1>4, <3>1, <3>2, <3>3
  <2>3. Nat \subseteq S
    <3> HIDE DEF S
    <3> QED BY <2>1, <2>2, Induction
  <2>4. \A n \in 0 .. N : g[n] = f[n]
    BY <2>3
  <2> QED BY <1>3, <1>6, <2>4
<1>7. ListedAs(list, r) = (CHOOSE f1 : P(f1))[N]
  BY Zenon DEF ListedAs
<1>8. (CHOOSE f1 : P(f1)) = f
  <2> HIDE DEF P
  <2> QED BY <1>5, <1>6
<1>9. QED
  BY <1>3, <1>4, <1>7, <1>8

\* The sorted services, one more at a time.
LEMMA SortStep ==
  ASSUME NEW X, X \subseteq Services, NEW list \in Seq(X), NEW deps,
         \A s \in Seq(X), x \in X : Sift(s, x, deps) \in Seq(X)
  PROVE  \E f \in [0 .. Len(list) -> Seq(X)] :
            /\ f[0] = <<>>
            /\ \A n \in 1 .. Len(list) : f[n] = Sift(f[n - 1], list[n], deps)
            /\ sortByDeps(list, deps) = f[Len(list)]
<1> DEFINE N == Len(list)
           next(g, n) == IF n = 0 THEN <<>> ELSE Sift(g[n - 1], list[n], deps)
           P(f) == f = [n \in 0 .. N |->
                          IF n = 0 THEN <<>> ELSE Sift(f[n - 1], list[n], deps)]
<1>1. PICK G : G = [p \in Seq(X) \X (1 .. N) |-> Sift(p[1], list[p[2]], deps)]
  OBVIOUS
<1>2. G \in [Seq(X) \X (1 .. N) -> Seq(X)]
  <2>1. \A s \in Seq(X), n \in 1 .. N : Sift(s, list[n], deps) \in Seq(X)
    OBVIOUS
  <2>2. \A p \in Seq(X) \X (1 .. N) : p[1] \in Seq(X) /\ p[2] \in 1 .. N
    OBVIOUS
  <2> HIDE DEF N
  <2> QED BY <1>1, <2>1, <2>2
<1>3. PICK f \in [0 .. N -> Seq(X)] :
         f[0] = <<>> /\ \A n \in 1 .. N : f[n] = G[<<f[n - 1], n>>]
  <2>1. N \in Nat /\ <<>> \in Seq(X)
    OBVIOUS
  <2>2. Advances(G, Seq(X), N)
    BY <1>2 DEF Advances
  <2>3. \E f : Follows(f, Seq(X), N, <<>>, G)
    <3> HIDE DEF N
    <3> QED BY <2>1, <2>2, RunExists
  <2> QED BY <2>3 DEF Follows
<1>4. ASSUME NEW n \in 1 .. N
      PROVE  f[n] = Sift(f[n - 1], list[n], deps)
  <2>1. <<f[n - 1], n>> \in Seq(X) \X (1 .. N)
    <3>1. n - 1 \in 0 .. N
      OBVIOUS
    <3> QED BY <3>1
  <2> QED BY <1>1, <1>3, <2>1
<1>5. P(f)
  <2>1. \A n \in 0 .. N : n = 0 \/ n \in 1 .. N
    OBVIOUS
  <2>2. \A n \in 0 .. N : f[n] = next(f, n)
    BY <1>3, <1>4, <2>1
  <2> HIDE DEF next, N
  <2>3. f = [n \in 0 .. N |-> next(f, n)]
    BY <1>3, <2>2
  <2> QED BY <2>3 DEF next
<1>6. ASSUME NEW g, P(g) PROVE g = f
  <2> DEFINE S == {n \in Nat : n <= N => g[n] = f[n]}
  <2>1. 0 \in S
    BY <1>3, <1>6
  <2>2. ASSUME NEW n \in Nat, n \in S PROVE n + 1 \in S
    <3> SUFFICES ASSUME n + 1 <= N PROVE g[n + 1] = f[n + 1]
      OBVIOUS
    <3>1. n + 1 \in 1 .. N /\ (n + 1) - 1 = n /\ n + 1 # 0 /\ n + 1 \in 0 .. N
      OBVIOUS
    <3>2. g[n] = f[n]
      BY <2>2
    <3>3. g[n + 1] = next(g, n + 1)
      <4>1. g = [k \in 0 .. N |-> next(g, k)]
        BY <1>6
      <4> HIDE DEF next
      <4> QED BY <3>1, <4>1
    <3> QED BY <1>4, <3>1, <3>2, <3>3
  <2>3. Nat \subseteq S
    <3> HIDE DEF S
    <3> QED BY <2>1, <2>2, Induction
  <2>4. \A n \in 0 .. N : g[n] = f[n]
    BY <2>3
  <2> QED BY <1>3, <1>6, <2>4
<1>7. sortByDeps(list, deps) = (CHOOSE f1 : P(f1))[N]
  BY Zenon DEF sortByDeps
<1>8. (CHOOSE f1 : P(f1)) = f
  <2> HIDE DEF P
  <2> QED BY <1>5, <1>6
<1>9. QED
  BY <1>3, <1>4, <1>7, <1>8

LEMMA LargestOf ==
  ASSUME NEW N \in Nat, NEW S, S \subseteq 0 .. N, S # {}
  PROVE  Max(S) \in S /\ \A m \in S : m <= Max(S)
<1> DEFINE T == {N - j : j \in S}
<1>1. T \subseteq Nat /\ T # {}
  <2>1. \A j \in S : N - j \in Nat
    OBVIOUS
  <2>2. PICK j : j \in S
    OBVIOUS
  <2>3. N - j \in T
    BY <2>2
  <2> QED BY <2>1, <2>3
<1>2. PICK x \in T : \A y \in T : ~(<<y, x>> \in OpToRel(<, Nat))
  <2> HIDE DEF T
  <2> QED BY <1>1, WFMin, NatLessThanWellFounded
<1>3. \A y \in T : ~(y < x)
  <2> HIDE DEF T
  <2> QED BY <1>1, <1>2 DEF OpToRel
<1>4. PICK k \in S : x = N - k
  OBVIOUS
<1>5. \A m \in S : k >= m
  <2> SUFFICES ASSUME NEW m \in S PROVE k >= m
    OBVIOUS
  <2>1. N - m \in T /\ ~(N - m < N - k)
    BY <1>3, <1>4
  <2> QED BY <2>1
<1>6. Max(S) \in S /\ \A m \in S : Max(S) >= m
  BY <1>5 DEF Max
<1> QED BY <1>6

\* Where x goes among the services s: past it, all depend on x; before it, one
\* that does not.
LEMMA SiftIs ==
  ASSUME NEW X, NEW s \in Seq(X), NEW x \in X, NEW deps
  PROVE  \E k \in 0 .. Len(s) :
            /\ \A j \in k + 1 .. Len(s) : x \in deps[s[j]]
            /\ k # 0 => x \notin deps[s[k]]
            /\ Sift(s, x, deps) \in Seq(X)
            /\ Len(Sift(s, x, deps)) = Len(s) + 1
            /\ \A i \in 1 .. k : Sift(s, x, deps)[i] = s[i]
            /\ Sift(s, x, deps)[k + 1] = x
            /\ \A i \in k + 2 .. Len(s) + 1 : Sift(s, x, deps)[i] = s[i - 1]
<1> DEFINE S == {0} \cup {j \in DOMAIN s : x \notin deps[s[j]]}
<1>1. Len(s) \in Nat /\ S \subseteq 0 .. Len(s) /\ S # {}
  OBVIOUS
<1>2. PICK k : k = Max(S)
  OBVIOUS
<1>3. k \in S /\ \A m \in S : m <= k
  <2> HIDE DEF S
  <2> QED BY <1>1, <1>2, LargestOf
<1>4. k \in 0 .. Len(s)
  BY <1>1, <1>3
<1>5. Sift(s, x, deps) = SubSeq(s, 1, k) \o <<x>> \o SubSeq(s, k + 1, Len(s))
  <2>1. S = {0} \cup {j \in DOMAIN s : x \notin deps[s[j]]}
    OBVIOUS
  <2> HIDE DEF S
  <2> QED BY <1>2, <2>1 DEF Sift
<1>6. \A j \in k + 1 .. Len(s) : x \in deps[s[j]]
  <2> SUFFICES ASSUME NEW j \in k + 1 .. Len(s), x \notin deps[s[j]] PROVE FALSE
    OBVIOUS
  <2>1. j \in S /\ j > k
    BY <1>4
  <2> QED BY <1>3, <1>4, <2>1
<1>7. k # 0 => x \notin deps[s[k]]
  BY <1>3
<1>8. PICK a, b : a = SubSeq(s, 1, k) /\ b = SubSeq(s, k + 1, Len(s))
  OBVIOUS
<1>9. a \in Seq(X) /\ Len(a) = k /\ \A i \in 1 .. k : a[i] = s[i]
  BY <1>4, <1>8
<1>10. b \in Seq(X) /\ Len(b) = Len(s) - k /\ \A i \in 1 .. Len(s) - k : b[i] = s[i + k]
  BY <1>4, <1>8
<1>11. PICK t : t = a \o <<x>> \o b
  OBVIOUS
<1>12. /\ t \in Seq(X) /\ Len(t) = Len(s) + 1
       /\ \A i \in 1 .. k : t[i] = s[i]
       /\ t[k + 1] = x
       /\ \A i \in k + 2 .. Len(s) + 1 : t[i] = s[i - 1]
  <2>1. PICK u : u = a \o <<x>>
    OBVIOUS
  <2>2. u \in Seq(X) /\ Len(u) = k + 1 /\ u[k + 1] = x /\ \A i \in 1 .. k : u[i] = a[i]
    BY <1>4, <1>9, <2>1
  <2>3. t = u \o b
    BY <1>11, <2>1
  <2>4. t \in Seq(X) /\ Len(t) = Len(s) + 1
    <3>1. t \in Seq(X) /\ Len(t) = Len(u) + Len(b)
      <4>1. u \in Seq(X) /\ b \in Seq(X)
        BY <1>10, <2>2
      <4>2. t \in Seq(X)
        BY <2>3, <4>1
      <4>3. Len(t) = Len(u) + Len(b)
        BY <2>3, <4>1
      <4> QED BY <4>2, <4>3
    <3>2. Len(u) = k + 1 /\ Len(b) = Len(s) - k /\ Len(s) \in Nat /\ k \in Nat
      BY <1>4, <1>10, <2>2
    <3> QED BY <3>1, <3>2
  <2>5. \A i \in 1 .. k + 1 : t[i] = u[i]
    BY <1>4, <1>10, <2>2, <2>3
  <2>6. ASSUME NEW i \in k + 2 .. Len(s) + 1 PROVE t[i] = s[i - 1]
    <3>1. i - (k + 1) \in 1 .. Len(s) - k /\ (i - (k + 1)) + k = i - 1
      BY <1>4
    <3>2. t[i] = b[i - (k + 1)]
      <4>1. i \in 1 .. Len(u) + Len(b) /\ ~(i <= Len(u)) /\ Len(u) = k + 1
        BY <1>4, <1>10, <2>2
      <4>2. u \in Seq(X) /\ b \in Seq(X)
        BY <1>10, <2>2
      <4>3. \A j \in 1 .. Len(u) + Len(b) :
               t[j] = IF j <= Len(u) THEN u[j] ELSE b[j - Len(u)]
        BY <2>3, <4>2, ConcatProperties
      <4> QED BY <4>1, <4>3
    <3> QED BY <1>10, <3>1, <3>2
  <2>7. \A i \in 1 .. k : t[i] = s[i]
    BY <1>4, <1>9, <2>2, <2>5
  <2>8. t[k + 1] = x
    BY <1>4, <2>2, <2>5
  <2> QED BY <2>4, <2>6, <2>7, <2>8
<1> QED BY <1>4, <1>5, <1>6, <1>7, <1>8, <1>11, <1>12, ZenonT(60)

\* No element before one it depends on.
InOrder(s, deps) == \A i, j \in 1 .. Len(s) : i < j => s[j] \notin deps[s[i]]

\* No element right before one it depends on, unless each depends on the other.
Adjacent(s, deps) ==
    \A i \in 1 .. Len(s) : i + 1 <= Len(s) /\ s[i + 1] \in deps[s[i]] => s[i] \in deps[s[i + 1]]

LEMMA SiftElements ==
  ASSUME NEW X, NEW s \in Seq(X), NEW x \in X, NEW deps
  PROVE  Range(Sift(s, x, deps)) = Range(s) \cup {x}
<1>1. PICK k \in 0 .. Len(s) :
         /\ Sift(s, x, deps) \in Seq(X)
         /\ Len(Sift(s, x, deps)) = Len(s) + 1
         /\ \A i \in 1 .. k : Sift(s, x, deps)[i] = s[i]
         /\ Sift(s, x, deps)[k + 1] = x
         /\ \A i \in k + 2 .. Len(s) + 1 : Sift(s, x, deps)[i] = s[i - 1]
  BY SiftIs
<1>2. PICK t : t = Sift(s, x, deps)
  OBVIOUS
<1>3. DOMAIN t = 1 .. Len(s) + 1 /\ DOMAIN s = 1 .. Len(s) /\ Len(s) \in Nat /\ k \in Nat
      /\ k <= Len(s)
  BY <1>1, <1>2
<1>4. ASSUME NEW y \in Range(t) PROVE y \in Range(s) \cup {x}
  <2>1. PICK i \in 1 .. Len(s) + 1 : y = t[i]
    BY <1>3 DEF Range
  <2>2. CASE i \in 1 .. k
    BY <1>1, <1>2, <1>3, <2>1, <2>2 DEF Range
  <2>3. CASE i = k + 1
    BY <1>1, <1>2, <2>1, <2>3
  <2>4. CASE i \in k + 2 .. Len(s) + 1
    <3>1. i - 1 \in 1 .. Len(s) /\ t[i] = s[i - 1]
      BY <1>1, <1>2, <1>3, <2>4
    <3> QED BY <1>3, <2>1, <3>1 DEF Range
  <2> QED BY <1>3, <2>2, <2>3, <2>4
<1>5. ASSUME NEW i \in 1 .. Len(s) PROVE s[i] \in Range(t)
  <2>1. CASE i <= k
    <3>1. i \in 1 .. k /\ i \in DOMAIN t
      BY <1>3, <2>1
    <3>2. t[i] = s[i]
      BY <1>1, <1>2, <3>1
    <3> QED BY <3>1, <3>2 DEF Range
  <2>2. CASE i > k
    <3>1. i + 1 \in k + 2 .. Len(s) + 1 /\ i + 1 \in DOMAIN t /\ (i + 1) - 1 = i
      BY <1>3, <2>2
    <3>2. t[i + 1] = s[i]
      BY <1>1, <1>2, <3>1
    <3> QED BY <3>1, <3>2 DEF Range
  <2> QED BY <1>3, <2>1, <2>2
<1>6. x \in Range(t)
  <2>1. k + 1 \in DOMAIN t /\ t[k + 1] = x
    BY <1>1, <1>2, <1>3
  <2> QED BY <2>1 DEF Range
<1>7. Range(s) = {s[i] : i \in 1 .. Len(s)}
  BY <1>3 DEF Range
<1> QED BY <1>2, <1>4, <1>5, <1>6, <1>7

LEMMA SiftAdjacent ==
  ASSUME NEW X, NEW s \in Seq(X), NEW x \in X, NEW deps, Adjacent(s, deps)
  PROVE  Adjacent(Sift(s, x, deps), deps)
<1>1. PICK k \in 0 .. Len(s) :
         /\ \A j \in k + 1 .. Len(s) : x \in deps[s[j]]
         /\ k # 0 => x \notin deps[s[k]]
         /\ Sift(s, x, deps) \in Seq(X)
         /\ Len(Sift(s, x, deps)) = Len(s) + 1
         /\ \A i \in 1 .. k : Sift(s, x, deps)[i] = s[i]
         /\ Sift(s, x, deps)[k + 1] = x
         /\ \A i \in k + 2 .. Len(s) + 1 : Sift(s, x, deps)[i] = s[i - 1]
  BY SiftIs
<1>2. PICK t : t = Sift(s, x, deps)
  OBVIOUS
<1>3. Len(t) = Len(s) + 1 /\ Len(s) \in Nat /\ k \in Nat /\ k <= Len(s)
  BY <1>1, <1>2
<1>4. ASSUME NEW i \in 1 .. Len(s), t[i + 1] \in deps[t[i]]
      PROVE  t[i] \in deps[t[i + 1]]
  <2>1. CASE i < k
    <3>1. i \in 1 .. k /\ i + 1 \in 1 .. k /\ i + 1 <= Len(s)
      BY <1>3, <2>1
    <3>2. t[i] = s[i] /\ t[i + 1] = s[i + 1]
      BY <1>1, <1>2, <3>1
    <3> QED BY <1>4, <3>1, <3>2 DEF Adjacent
  <2>2. CASE i = k
    <3>1. i \in 1 .. k /\ k # 0
      BY <1>3, <2>2
    <3>2. t[i] = s[k] /\ t[i + 1] = x
      BY <1>1, <1>2, <2>2, <3>1
    <3> QED BY <1>1, <1>4, <3>1, <3>2
  <2>3. CASE i = k + 1
    <3>1. i \in k + 1 .. Len(s) /\ i + 1 \in k + 2 .. Len(s) + 1 /\ (i + 1) - 1 = i
      BY <1>3, <2>3
    <3>2. t[i] = x /\ t[i + 1] = s[i]
      BY <1>1, <1>2, <2>3, <3>1
    <3> QED BY <1>1, <3>1, <3>2
  <2>4. CASE i > k + 1
    <3>1. /\ i \in k + 2 .. Len(s) + 1 /\ i + 1 \in k + 2 .. Len(s) + 1
          /\ (i + 1) - 1 = i /\ i - 1 \in 1 .. Len(s) /\ (i - 1) + 1 = i /\ i <= Len(s)
      BY <1>3, <2>4
    <3>2. t[i] = s[i - 1] /\ t[i + 1] = s[i]
      BY <1>1, <1>2, <3>1
    <3>3. s[i] \in deps[s[i - 1]] => s[i - 1] \in deps[s[i]]
      BY <3>1 DEF Adjacent
    <3> QED BY <1>4, <3>2, <3>3
  <2> QED BY <1>3, <2>1, <2>2, <2>3, <2>4
<1>5. ASSUME NEW i \in 1 .. Len(t), i + 1 <= Len(t) PROVE i \in 1 .. Len(s)
  BY <1>3, <1>5
<1> QED BY <1>2, <1>4, <1>5 DEF Adjacent

\* One that none of the others depends on goes behind them.
LEMMA SiftInOrder ==
  ASSUME NEW X, NEW s \in Seq(X), NEW x \in X, NEW deps, InOrder(s, deps),
         \A i \in 1 .. Len(s) : x \notin deps[s[i]]
  PROVE  InOrder(Sift(s, x, deps), deps)
<1>1. PICK k \in 0 .. Len(s) :
         /\ \A j \in k + 1 .. Len(s) : x \in deps[s[j]]
         /\ Len(Sift(s, x, deps)) = Len(s) + 1
         /\ \A i \in 1 .. k : Sift(s, x, deps)[i] = s[i]
         /\ Sift(s, x, deps)[k + 1] = x
  BY SiftIs
<1>2. k = Len(s)
  <2> SUFFICES ASSUME k < Len(s) PROVE FALSE
    BY <1>1
  <2>1. Len(s) \in k + 1 .. Len(s) /\ Len(s) \in 1 .. Len(s)
    BY <1>1
  <2> QED BY <1>1, <2>1
<1>3. PICK t : t = Sift(s, x, deps)
  OBVIOUS
<1>4. ASSUME NEW i \in 1 .. Len(t), NEW j \in 1 .. Len(t), i < j
      PROVE  t[j] \notin deps[t[i]]
  <2>1. i \in 1 .. Len(s) /\ t[i] = s[i]
    BY <1>1, <1>2, <1>3, <1>4
  <2>2. CASE j <= Len(s)
    <3>1. j \in 1 .. Len(s) /\ t[j] = s[j]
      BY <1>1, <1>2, <1>3, <1>4, <2>2
    <3> QED BY <1>4, <2>1, <3>1 DEF InOrder
  <2>3. CASE j = Len(s) + 1
    <3>1. t[j] = x
      BY <1>1, <1>2, <1>3, <2>3
    <3> QED BY <2>1, <3>1
  <2> QED BY <1>1, <1>3, <2>2, <2>3
<1> QED BY <1>3, <1>4 DEF InOrder

(* sortByDeps keeps the services it is given, has no two neighbours the     *)
(* wrong way round, and leaves a list in order as it is, in order.         *)
LEMMA SortIs ==
  ASSUME NEW X, X \subseteq Services, NEW list \in Seq(X), NEW deps
  PROVE  /\ sortByDeps(list, deps) \in Seq(X)
         /\ Range(sortByDeps(list, deps)) = Range(list)
         /\ Adjacent(sortByDeps(list, deps), deps)
         /\ InOrder(list, deps) => InOrder(sortByDeps(list, deps), deps)
<1>1. \A s \in Seq(X), x \in X : Sift(s, x, deps) \in Seq(X)
  <2> SUFFICES ASSUME NEW s \in Seq(X), NEW x \in X PROVE Sift(s, x, deps) \in Seq(X)
    OBVIOUS
  <2> QED BY SiftIs
<1>2. PICK f \in [0 .. Len(list) -> Seq(X)] :
         /\ f[0] = <<>>
         /\ \A n \in 1 .. Len(list) : f[n] = Sift(f[n - 1], list[n], deps)
         /\ sortByDeps(list, deps) = f[Len(list)]
  BY <1>1, SortStep, ZenonT(30)
<1> DEFINE Upto(n) == {list[i] : i \in 1 .. n}
           S == {n \in Nat : n <= Len(list) =>
                    /\ Range(f[n]) = Upto(n)
                    /\ Adjacent(f[n], deps)
                    /\ InOrder(list, deps) => InOrder(f[n], deps)}
<1>3. 0 \in S
  <2>1. Range(f[0]) = {} /\ Adjacent(f[0], deps) /\ InOrder(f[0], deps)
    BY <1>2 DEF Range, Adjacent, InOrder
  <2>2. Upto(0) = {}
    OBVIOUS
  <2> HIDE DEF Upto
  <2> QED BY <2>1, <2>2
<1>4. ASSUME NEW n \in Nat, n \in S PROVE n + 1 \in S
  <2> SUFFICES ASSUME n + 1 <= Len(list)
               PROVE  /\ Range(f[n + 1]) = Upto(n + 1)
                      /\ Adjacent(f[n + 1], deps)
                      /\ InOrder(list, deps) => InOrder(f[n + 1], deps)
    OBVIOUS
  <2>1. n + 1 \in 1 .. Len(list) /\ n \in 0 .. Len(list) /\ (n + 1) - 1 = n
    OBVIOUS
  <2>2. f[n] \in Seq(X) /\ list[n + 1] \in X /\ f[n + 1] = Sift(f[n], list[n + 1], deps)
    BY <1>2, <2>1
  <2>3. /\ Range(f[n]) = Upto(n)
        /\ Adjacent(f[n], deps)
        /\ InOrder(list, deps) => InOrder(f[n], deps)
    <3> HIDE DEF Upto
    <3>1. n <= Len(list)
      BY <2>1
    <3> QED BY <1>4, <3>1, Zenon
  <2>4. Upto(n + 1) = Upto(n) \cup {list[n + 1]}
    <3>1. 1 .. n + 1 = (1 .. n) \cup {n + 1}
      OBVIOUS
    <3> QED BY <3>1
  <2>5. InOrder(list, deps) => \A y \in Upto(n) : list[n + 1] \notin deps[y]
    BY <2>1 DEF InOrder
  <2> HIDE DEF Upto, S
  <2>6. Range(f[n + 1]) = Upto(n + 1)
    <3>1. PICK s, x : s = f[n] /\ x = list[n + 1]
      OBVIOUS
    <3>2. s \in Seq(X) /\ x \in X
      BY <2>2, <3>1
    <3>3. Range(Sift(s, x, deps)) = Range(s) \cup {x}
      BY <3>2, SiftElements
    <3> QED BY <2>2, <2>3, <2>4, <3>1, <3>3
  <2>7. Adjacent(f[n + 1], deps)
    BY <2>2, <2>3, SiftAdjacent
  <2>8. ASSUME InOrder(list, deps) PROVE InOrder(f[n + 1], deps)
    <3>1. PICK s, x : s = f[n] /\ x = list[n + 1]
      OBVIOUS
    <3>2. s \in Seq(X) /\ x \in X /\ InOrder(s, deps)
      BY <2>2, <2>3, <2>8, <3>1
    <3>3. \A i \in 1 .. Len(s) : s[i] \in Range(s)
      BY <3>2 DEF Range
    <3>4. \A i \in 1 .. Len(s) : x \notin deps[s[i]]
      BY <2>3, <2>5, <2>8, <3>1, <3>3
    <3>5. InOrder(Sift(s, x, deps), deps)
      BY <3>2, <3>4, SiftInOrder
    <3> QED BY <2>2, <3>1, <3>5
  <2> QED BY <2>6, <2>7, <2>8
<1>5. Len(list) \in S
  <2>1. Len(list) \in Nat
    OBVIOUS
  <2> HIDE DEF S
  <2> QED BY <1>3, <1>4, <2>1, Induction
<1>6. Range(list) = Upto(Len(list))
  BY DEF Range
<1>7. f[Len(list)] \in Seq(X)
  BY <1>2
<1> QED BY <1>2, <1>5, <1>6, <1>7

LEMMA AppendElements ==
  ASSUME NEW X, NEW s \in Seq(X), NEW x \in X
  PROVE  Range(Append(s, x)) = Range(s) \cup {x}
<1>1. PICK t : t = Append(s, x)
  OBVIOUS
<1>2. DOMAIN t = 1 .. Len(s) + 1 /\ DOMAIN s = 1 .. Len(s) /\ Len(s) \in Nat
      /\ t[Len(s) + 1] = x /\ \A i \in 1 .. Len(s) : t[i] = s[i]
  BY <1>1
<1>3. 1 .. Len(s) + 1 = (1 .. Len(s)) \cup {Len(s) + 1}
  BY <1>2
<1>4. Range(t) = {t[i] : i \in 1 .. Len(s)} \cup {t[Len(s) + 1]}
  BY <1>2, <1>3 DEF Range
<1>5. Range(s) = {s[i] : i \in 1 .. Len(s)}
  BY <1>2 DEF Range
<1> QED BY <1>1, <1>2, <1>4, <1>5

LEMMA ListedAsIs ==
  ASSUME NEW list \in Seq(Services), NEW r
  PROVE  /\ ListedAs(list, r) \in Seq({s \in Services : RoleOf[s] = r})
         /\ Range(ListedAs(list, r)) = {s \in Range(list) : RoleOf[s] = r}
<1> DEFINE X == {s \in Services : RoleOf[s] = r}
           Upto(n) == {list[i] : i \in {k \in 1 .. n : RoleOf[list[k]] = r}}
<1>1. PICK f \in [0 .. Len(list) -> Seq(Services)] :
         /\ f[0] = <<>>
         /\ \A n \in 1 .. Len(list) :
               f[n] = IF RoleOf[list[n]] = r THEN Append(f[n - 1], list[n]) ELSE f[n - 1]
         /\ ListedAs(list, r) = f[Len(list)]
  BY ListedAsStep
<1> DEFINE S == {n \in Nat : n <= Len(list) => f[n] \in Seq(X) /\ Range(f[n]) = Upto(n)}
<1>2. 0 \in S
  <2>1. f[0] \in Seq(X) /\ Range(f[0]) = {}
    BY <1>1 DEF Range
  <2>2. Upto(0) = {}
    OBVIOUS
  <2> HIDE DEF Upto, X
  <2> QED BY <2>1, <2>2
<1>3. ASSUME NEW n \in Nat, n \in S PROVE n + 1 \in S
  <2> SUFFICES ASSUME n + 1 <= Len(list)
               PROVE  f[n + 1] \in Seq(X) /\ Range(f[n + 1]) = Upto(n + 1)
    OBVIOUS
  <2>1. n + 1 \in 1 .. Len(list) /\ n \in 0 .. Len(list) /\ (n + 1) - 1 = n
    OBVIOUS
  <2>2. f[n] \in Seq(X) /\ Range(f[n]) = Upto(n)
    BY <1>3, <2>1
  <2>3. list[n + 1] \in Services
    BY <2>1
  <2>4. 1 .. n + 1 = (1 .. n) \cup {n + 1}
    OBVIOUS
  <2>5. CASE RoleOf[list[n + 1]] = r
    <3>1. Upto(n + 1) = Upto(n) \cup {list[n + 1]}
      <4>1. {k \in 1 .. n + 1 : RoleOf[list[k]] = r} =
            {k \in 1 .. n : RoleOf[list[k]] = r} \cup {n + 1}
        BY <2>4, <2>5
      <4> QED BY <4>1
    <3>2. list[n + 1] \in X
      BY <2>3, <2>5
    <3> HIDE DEF Upto, X, S
    <3>3. f[n + 1] = Append(f[n], list[n + 1])
      BY <1>1, <2>1, <2>5
    <3>4. PICK s, x : s = f[n] /\ x = list[n + 1]
      OBVIOUS
    <3>5. s \in Seq(X) /\ x \in X
      BY <2>2, <3>2, <3>4
    <3>6. Range(Append(s, x)) = Range(s) \cup {x}
      BY <3>5, AppendElements
    <3>7. Append(s, x) \in Seq(X)
      BY <3>5
    <3> QED BY <2>2, <3>1, <3>3, <3>4, <3>6, <3>7
  <2>6. CASE RoleOf[list[n + 1]] # r
    <3>1. Upto(n + 1) = Upto(n)
      <4>1. {k \in 1 .. n + 1 : RoleOf[list[k]] = r} = {k \in 1 .. n : RoleOf[list[k]] = r}
        BY <2>4, <2>6
      <4> QED BY <4>1
    <3>2. f[n + 1] = f[n]
      BY <1>1, <2>1, <2>6
    <3> HIDE DEF Upto, X, S
    <3> QED BY <2>2, <3>1, <3>2
  <2> QED BY <2>5, <2>6
<1>4. Len(list) \in S
  <2>1. Len(list) \in Nat
    OBVIOUS
  <2> HIDE DEF S
  <2> QED BY <1>2, <1>3, <2>1, Induction
<1>5. Upto(Len(list)) = {s \in Range(list) : RoleOf[s] = r}
  BY DEF Range
<1> QED BY <1>1, <1>4, <1>5

\* The services of a role keep the order they are listed in.
LEMMA ListedAsInOrder ==
  ASSUME NEW list \in Seq(Services), NEW r, NEW deps,
         \A i, j \in 1 .. Len(list) :
            i < j /\ RoleOf[list[i]] = r /\ RoleOf[list[j]] = r => list[j] \notin deps[list[i]]
  PROVE  InOrder(ListedAs(list, r), deps)
<1> DEFINE Upto(n) == {list[i] : i \in {k \in 1 .. n : RoleOf[list[k]] = r}}
<1>1. PICK f \in [0 .. Len(list) -> Seq(Services)] :
         /\ f[0] = <<>>
         /\ \A n \in 1 .. Len(list) :
               f[n] = IF RoleOf[list[n]] = r THEN Append(f[n - 1], list[n]) ELSE f[n - 1]
         /\ ListedAs(list, r) = f[Len(list)]
  BY ListedAsStep
<1> DEFINE S == {n \in Nat : n <= Len(list) => InOrder(f[n], deps) /\ Range(f[n]) \subseteq Upto(n)}
<1>2. 0 \in S
  <2>1. InOrder(f[0], deps) /\ Range(f[0]) = {}
    BY <1>1 DEF Range, InOrder
  <2> HIDE DEF Upto
  <2> QED BY <2>1
<1>3. ASSUME NEW n \in Nat, n \in S PROVE n + 1 \in S
  <2> SUFFICES ASSUME n + 1 <= Len(list)
               PROVE  InOrder(f[n + 1], deps) /\ Range(f[n + 1]) \subseteq Upto(n + 1)
    OBVIOUS
  <2>1. n + 1 \in 1 .. Len(list) /\ n \in 0 .. Len(list) /\ (n + 1) - 1 = n
    OBVIOUS
  <2>2. InOrder(f[n], deps) /\ Range(f[n]) \subseteq Upto(n)
    <3> HIDE DEF Upto
    <3>1. n <= Len(list)
      BY <2>1
    <3> QED BY <1>3, <3>1, Zenon
  <2>3. Upto(n) \subseteq Upto(n + 1)
    OBVIOUS
  <2>4. CASE RoleOf[list[n + 1]] = r
    <3>1. list[n + 1] \in Upto(n + 1)
      BY <2>1, <2>4
    <3>2. \A y \in Upto(n) : list[n + 1] \notin deps[y]
      BY <2>1, <2>4, SMTT(30)
    <3> HIDE DEF Upto, S
    <3>3. f[n + 1] = Append(f[n], list[n + 1])
      BY <1>1, <2>1, <2>4
    <3>4. PICK s, x : s = f[n] /\ x = list[n + 1]
      OBVIOUS
    <3>5. s \in Seq(Services) /\ x \in Services
      BY <2>1, <3>4
    <3>6. Range(Append(s, x)) = Range(s) \cup {x}
      BY <3>5, AppendElements
    <3>7. \A i \in 1 .. Len(s) : x \notin deps[s[i]]
      <4>1. \A i \in 1 .. Len(s) : s[i] \in Range(s)
        BY <3>5 DEF Range
      <4> QED BY <2>2, <3>2, <3>4, <4>1
    <3>8. InOrder(Append(s, x), deps)
      <4>1. PICK u : u = Append(s, x)
        OBVIOUS
      <4>2. Len(u) = Len(s) + 1 /\ Len(s) \in Nat /\ u[Len(s) + 1] = x
            /\ \A i \in 1 .. Len(s) : u[i] = s[i]
        BY <3>5, <4>1
      <4>3. ASSUME NEW i \in 1 .. Len(u), NEW j \in 1 .. Len(u), i < j
            PROVE  u[j] \notin deps[u[i]]
        <5>1. i \in 1 .. Len(s) /\ u[i] = s[i]
          BY <4>2, <4>3
        <5>2. CASE j <= Len(s)
          <6>1. j \in 1 .. Len(s) /\ u[j] = s[j]
            BY <4>2, <5>2
          <6> QED BY <2>2, <3>4, <4>3, <5>1, <6>1 DEF InOrder
        <5>3. CASE j = Len(s) + 1
          BY <3>7, <4>2, <5>1, <5>3
        <5> QED BY <4>2, <5>2, <5>3
      <4> QED BY <4>1, <4>3 DEF InOrder
    <3> QED BY <2>2, <2>3, <3>1, <3>3, <3>4, <3>6, <3>8
  <2>5. CASE RoleOf[list[n + 1]] # r
    <3>1. f[n + 1] = f[n]
      BY <1>1, <2>1, <2>5
    <3> HIDE DEF Upto, S
    <3> QED BY <2>2, <2>3, <3>1
  <2> QED BY <2>4, <2>5
<1>4. Len(list) \in S
  <2>1. Len(list) \in Nat
    OBVIOUS
  <2> HIDE DEF S
  <2> QED BY <1>2, <1>3, <2>1, Induction
<1> QED BY <1>1, <1>4

-----------------------------------------------------------------------------
(* The lists of calls.                                                     *)

\* A finite set in some order.
LEMMA SetToSeqIs ==
  ASSUME NEW S, IsFiniteSet(S)
  PROVE  SetToSeq(S) \in Seq(S) /\ Range(SetToSeq(S)) = S
<1> DEFINE n == Cardinality(S)
           P(f) == f \in [1 .. n -> S] /\ IsInjective(f)
<1>1. n \in Nat /\ ExistsBijection(1 .. n, S)
  BY FS_CardinalityType
<1>2. PICK f : P(f)
  BY <1>1 DEF ExistsBijection, Bijection, Injection
<1>3. PICK g : g = SetToSeq(S)
  OBVIOUS
<1>4. P(g)
  BY <1>2, <1>3 DEF SetToSeq
<1>5. g \in Injection(1 .. n, S)
  BY <1>4 DEF Injection
<1>6. IsFiniteSet(1 .. n) /\ Cardinality(1 .. n) = n
  BY <1>1, FS_Interval
<1>7. g \in Surjection(1 .. n, S)
  <2> HIDE DEF P
  <2> QED BY <1>5, <1>6, FS_Injection
<1>8. Range(g) = S
  BY <1>7 DEF Surjection, Range
<1>9. g \in Seq(S)
  BY <1>1, <1>4
<1> QED BY <1>3, <1>8, <1>9

LEMMA DoEachIs ==
  ASSUME NEW S, NEW os \in Seq(S), NEW what
  PROVE  /\ DoEach(what, os) \in Seq({Do(what, o) : o \in S})
         /\ Len(DoEach(what, os)) = Len(os)
         /\ \A i \in 1 .. Len(os) : DoEach(what, os)[i] = Do(what, os[i])
<1>1. DOMAIN os = 1 .. Len(os) /\ Len(os) \in Nat /\ \A i \in 1 .. Len(os) : os[i] \in S
  OBVIOUS
<1>2. PICK T : T = {Do(what, o) : o \in S}
  OBVIOUS
<1>3. \A i \in 1 .. Len(os) : Do(what, os[i]) \in T
  BY <1>1, <1>2
<1>4. PICK t : t = [i \in 1 .. Len(os) |-> Do(what, os[i])]
  OBVIOUS
<1>5. t = DoEach(what, os)
  BY <1>1, <1>4 DEF DoEach
<1>6. t \in Seq(T) /\ Len(t) = Len(os)
  BY <1>1, <1>3, <1>4
<1>7. \A i \in 1 .. Len(os) : t[i] = Do(what, os[i])
  BY <1>4
<1> QED BY <1>2, <1>5, <1>6, <1>7

LEMMA DoEachIn ==
  ASSUME NEW S, NEW os \in Seq(S), NEW what, NEW C, \A o \in S : Do(what, o) \in C
  PROVE  DoEach(what, os) \in Seq(C)
<1>1. DOMAIN os = 1 .. Len(os) /\ Len(os) \in Nat /\ \A i \in 1 .. Len(os) : os[i] \in S
  OBVIOUS
<1>2. \A i \in 1 .. Len(os) : Do(what, os[i]) \in C
  BY <1>1
<1>3. DoEach(what, os) = [i \in 1 .. Len(os) |-> Do(what, os[i])]
  BY <1>1 DEF DoEach
<1> QED BY <1>1, <1>2, <1>3

LEMMA DoEachRange ==
  ASSUME NEW S, NEW os \in Seq(S), NEW what
  PROVE  Range(DoEach(what, os)) = {Do(what, o) : o \in Range(os)}
BY DEF Range, DoEach

LEMMA ConcatRange ==
  ASSUME NEW S, NEW s \in Seq(S), NEW t \in Seq(S)
  PROVE  s \o t \in Seq(S) /\ Range(s \o t) = Range(s) \cup Range(t)
<1>1. PICK u : u = s \o t
  OBVIOUS
<1>2. u \in Seq(S) /\ Len(u) = Len(s) + Len(t)
      /\ \A i \in 1 .. Len(s) + Len(t) : u[i] = IF i <= Len(s) THEN s[i] ELSE t[i - Len(s)]
  BY <1>1, ConcatProperties
<1>3. DOMAIN s = 1 .. Len(s) /\ DOMAIN t = 1 .. Len(t) /\ DOMAIN u = 1 .. Len(s) + Len(t)
      /\ Len(s) \in Nat /\ Len(t) \in Nat
  BY <1>2
<1>4. ASSUME NEW i \in 1 .. Len(s) PROVE i \in DOMAIN u /\ u[i] = s[i]
  <2>1. i \in 1 .. Len(s) + Len(t) /\ i <= Len(s)
    BY <1>3
  <2> QED BY <1>2, <1>3, <2>1
<1>5. ASSUME NEW i \in 1 .. Len(t) PROVE i + Len(s) \in DOMAIN u /\ u[i + Len(s)] = t[i]
  <2>1. i + Len(s) \in 1 .. Len(s) + Len(t) /\ ~(i + Len(s) <= Len(s))
        /\ (i + Len(s)) - Len(s) = i
    BY <1>3
  <2> QED BY <1>2, <1>3, <2>1
<1>6. Range(s) \subseteq Range(u) /\ Range(t) \subseteq Range(u)
  BY <1>3, <1>4, <1>5 DEF Range
<1>7. ASSUME NEW i \in DOMAIN u PROVE u[i] \in Range(s) \cup Range(t)
  <2>1. CASE i <= Len(s)
    BY <1>2, <1>3, <2>1 DEF Range
  <2>2. CASE i > Len(s)
    <3>1. i - Len(s) \in DOMAIN t /\ u[i] = t[i - Len(s)]
      BY <1>2, <1>3, <2>2
    <3> QED BY <3>1 DEF Range
  <2> QED BY <1>3, <2>1, <2>2
<1>8. Range(u) \subseteq Range(s) \cup Range(t)
  BY <1>7 DEF Range
<1> QED BY <1>1, <1>2, <1>6, <1>8

Mine(r) == {s \in Services : RoleOf[s] = r}

\* The services of a role: all of them, no two neighbours the wrong way round, and
\* in order if they are listed so.
LEMMA OfRoleIs ==
  ASSUME TypeOK, NEW r
  PROVE  /\ OfRole(r) \in Seq(Mine(r))
         /\ Range(OfRole(r)) = Mine(r)
         /\ Adjacent(OfRole(r), spec.deps)
         /\ ListedInOrder => InOrder(OfRole(r), spec.deps)
<1>1. spec.list \in Seq(Services) /\ Range(spec.list) = Services
  BY ProvidersAssumption DEF TypeOK
<1>2. PICK list, X : list = ListedAs(spec.list, r) /\ X = Mine(r)
  OBVIOUS
<1>3. list \in Seq(X) /\ Range(list) = X /\ X \subseteq Services
  BY <1>1, <1>2, ListedAsIs DEF Mine
<1>4. PICK deps : deps = spec.deps
  OBVIOUS
<1>5. /\ sortByDeps(list, deps) \in Seq(X)
      /\ Range(sortByDeps(list, deps)) = Range(list)
      /\ Adjacent(sortByDeps(list, deps), deps)
      /\ InOrder(list, deps) => InOrder(sortByDeps(list, deps), deps)
  BY <1>3, SortIs
<1>6. ListedInOrder => InOrder(list, deps)
  <2>1. PICK all : all = spec.list
    OBVIOUS
  <2>2. all \in Seq(Services) /\ DOMAIN all = 1 .. Len(all)
    BY <1>1, <2>1
  <2> SUFFICES ASSUME ListedInOrder PROVE InOrder(ListedAs(all, r), deps)
    BY <1>2, <2>1
  <2>3. \A i, j \in 1 .. Len(all) :
           i < j /\ RoleOf[all[i]] = r /\ RoleOf[all[j]] = r => all[j] \notin deps[all[i]]
    BY <1>4, <2>1, <2>2 DEF ListedInOrder
  <2> QED BY <2>2, <2>3, ListedAsInOrder
<1> QED BY <1>2, <1>3, <1>4, <1>5, <1>6 DEF OfRole

\* b is started after a, right after it if next holds.
After(a, b, next) ==
    /\ Phase[RoleOf[a]] <= Phase[RoleOf[b]]
    /\ RoleOf[a] = RoleOf[b] /\ b \in spec.deps[a] =>
          ~ ListedInOrder /\ (next => a \in spec.deps[b])

Started(s) == \A i, j \in 1 .. Len(s) : i < j => After(s[i], s[j], j = i + 1)

\* One list behind another, of services of a later phase.
LEMMA ConcatStarted ==
  ASSUME NEW X, NEW Y, NEW s \in Seq(X), NEW t \in Seq(Y), Started(s), Started(t),
         \A x \in X, y \in Y :
            RoleOf[x] # RoleOf[y] /\ Phase[RoleOf[x]] <= Phase[RoleOf[y]]
  PROVE  Started(s \o t)
<1>1. PICK u : u = s \o t
  OBVIOUS
<1>2. s \in Seq(X \cup Y) /\ t \in Seq(X \cup Y)
  OBVIOUS
<1>3. u \in Seq(X \cup Y) /\ Len(u) = Len(s) + Len(t)
      /\ \A i \in 1 .. Len(s) + Len(t) : u[i] = IF i <= Len(s) THEN s[i] ELSE t[i - Len(s)]
  BY <1>1, <1>2, ConcatProperties
<1>4. Len(s) \in Nat /\ Len(t) \in Nat
  OBVIOUS
<1>5. ASSUME NEW i \in 1 .. Len(u), NEW j \in 1 .. Len(u), i < j
      PROVE  After(u[i], u[j], j = i + 1)
  <2>1. CASE j <= Len(s)
    <3>1. i \in 1 .. Len(s) /\ j \in 1 .. Len(s) /\ u[i] = s[i] /\ u[j] = s[j]
      BY <1>3, <1>4, <1>5, <2>1
    <3> QED BY <1>5, <3>1 DEF Started
  <2>2. CASE i <= Len(s) /\ j > Len(s)
    <3>1. i \in 1 .. Len(s) /\ j - Len(s) \in 1 .. Len(t)
      BY <1>3, <1>4, <2>2
    <3>2. u[i] = s[i] /\ u[j] = t[j - Len(s)]
      BY <1>3, <1>4, <2>2
    <3>3. s[i] \in X /\ t[j - Len(s)] \in Y
      BY <3>1
    <3> QED BY <3>2, <3>3 DEF After
  <2>3. CASE i > Len(s)
    <3>1. i - Len(s) \in 1 .. Len(t) /\ j - Len(s) \in 1 .. Len(t)
          /\ i - Len(s) < j - Len(s) /\ j > Len(s)
          /\ (j = i + 1) = (j - Len(s) = (i - Len(s)) + 1)
      BY <1>3, <1>4, <1>5, <2>3
    <3>2. u[i] = t[i - Len(s)] /\ u[j] = t[j - Len(s)]
      BY <1>3, <1>4, <2>3, <3>1
    <3>3. After(t[i - Len(s)], t[j - Len(s)], j - Len(s) = (i - Len(s)) + 1)
      BY <3>1 DEF Started
    <3> QED BY <3>1, <3>2, <3>3
  <2> QED BY <1>3, <1>4, <2>1, <2>2, <2>3
<1> QED BY <1>1, <1>5 DEF Started

LEMMA OfRoleStarted ==
  ASSUME TypeOK, NEW r \in {"init", "main", "sidecar"}
  PROVE  OfRole(r) \in Seq(Mine(r)) /\ Started(OfRole(r))
<1>1. PICK s, X : s = OfRole(r) /\ X = Mine(r)
  OBVIOUS
<1>2. s \in Seq(X) /\ Adjacent(s, spec.deps) /\ (ListedInOrder => InOrder(s, spec.deps))
  BY <1>1, OfRoleIs
<1>3. \A x \in X : RoleOf[x] = r
  BY <1>1 DEF Mine
<1>4. Phase[r] <= Phase[r]
  BY DEF Phase
<1>5. ASSUME NEW i \in 1 .. Len(s), NEW j \in 1 .. Len(s), i < j
      PROVE  After(s[i], s[j], j = i + 1)
  <2>1. PICK a, b : a = s[i] /\ b = s[j]
    OBVIOUS
  <2>2. RoleOf[a] = r /\ RoleOf[b] = r
    BY <1>2, <1>3, <2>1
  <2>3. ListedInOrder => b \notin spec.deps[a]
    BY <1>2, <1>5, <2>1 DEF InOrder
  <2>4. ASSUME j = i + 1, b \in spec.deps[a] PROVE a \in spec.deps[b]
    BY <1>2, <2>1, <2>4 DEF Adjacent
  <2> QED BY <1>4, <2>1, <2>2, <2>3, <2>4 DEF After
<1> QED BY <1>1, <1>2, <1>5 DEF Started

-----------------------------------------------------------------------------
(* What a Provision and a Deprovision begin with.                          *)

Made(todo, o) == \E c \in Range(todo) : c.do \in Makers /\ c.obj = o
Removed(todo, o) == \E c \in Range(todo) : c.do \in Removers /\ c.obj = o

LEMMA Builds ==
  ASSUME NEW e, NEW what \in Makers, NEW o \in ObjectsOf(e),
         what = "runinit" <=> Right(e, o) = "done"
  PROVE  Do(what, o) \in Building(e)
BY DEF Building, Do

LEMMA MadeBy ==
  ASSUME NEW todo, NEW what \in Makers, NEW o, Do(what, o) \in Range(todo)
  PROVE  Made(todo, o)
<1>1. Do(what, o).do = what /\ Do(what, o).obj = o
  BY DEF Do
<1> QED BY <1>1 DEF Made

\* The same call on every service of a list.
LEMMA EachBuilds ==
  ASSUME NEW e, NEW S, NEW os \in Seq(S), NEW what \in Makers,
         \A o \in S : o \in ObjectsOf(e) /\ (what = "runinit" <=> Right(e, o) = "done")
  PROVE  DoEach(what, os) \in Seq(Building(e))
<1>1. PICK B : B = Building(e)
  OBVIOUS
<1>2. \A o \in S : Do(what, o) \in B
  BY <1>1, Builds
<1> QED BY <1>1, <1>2, DoEachIn

LEMMA DockerBuilds ==
  ASSUME TypeOK, engine = "docker"
  PROVE  /\ DockerProvision \in Seq(Building(engine))
         /\ \A o \in ObjectsOf(engine) : Made(DockerProvision, o)
<1>1. PICK I, M, L : I = OfRole("init") /\ M = OfRole("main") /\ L = OfRole("sidecar")
  OBVIOUS
<1>2. PICK R, B, Y : R = M \o L /\ B = Building(engine) /\ Y = Services \ Mine("init")
  OBVIOUS
<1>3. /\ I \in Seq(Mine("init")) /\ Range(I) = Mine("init")
      /\ M \in Seq(Mine("main")) /\ Range(M) = Mine("main")
      /\ L \in Seq(Mine("sidecar")) /\ Range(L) = Mine("sidecar")
  BY <1>1, OfRoleIs
<1>4. Mine("main") \cup Mine("sidecar") = Y
  BY <1>2, ProvidersAssumption DEF Mine
<1>5. M \in Seq(Y) /\ L \in Seq(Y)
  BY <1>3, <1>4
<1>6. R \in Seq(Y) /\ Range(R) = Y
  BY <1>2, <1>3, <1>4, <1>5, ConcatRange
<1>7. ObjectsOf(engine) = Services \cup {"network"}
  BY DEF ObjectsOf, Kubernetes
<1>8. PICK net, init, rest : /\ net = <<Do("apply", "network")>>
                             /\ init = DoEach("runinit", I)
                             /\ rest = DoEach("replace", R)
  OBVIOUS
<1>9. {"apply", "runinit", "replace"} \subseteq Makers
  BY DEF Makers
<1>10. net \in Seq(B) /\ Range(net) = {Do("apply", "network")}
  <2>1. Right(engine, "network") = "up"
    BY ProvidersAssumption DEF Right
  <2>2. Do("apply", "network") \in B
    BY <1>2, <1>7, <1>9, <2>1, Builds
  <2>3. PICK x : x = Do("apply", "network")
    OBVIOUS
  <2>4. <<x>> \in Seq(B) /\ Range(<<x>>) = {x}
    BY <2>2, <2>3 DEF Range
  <2> QED BY <1>8, <2>3, <2>4
<1>11. init \in Seq(B)
  <2>1. \A o \in Mine("init") : o \in ObjectsOf(engine) /\ Right(engine, o) = "done"
    BY <1>7 DEF Mine, Right
  <2> QED BY <1>2, <1>3, <1>8, <1>9, <2>1, EachBuilds
<1>12. rest \in Seq(B)
  <2>1. \A o \in Y : o \in ObjectsOf(engine) /\ Right(engine, o) # "done"
    BY <1>2, <1>7 DEF Mine, Right
  <2> QED BY <1>2, <1>6, <1>8, <1>9, <2>1, EachBuilds
<1>13. Range(init) = {Do("runinit", o) : o \in Mine("init")}
  BY <1>3, <1>8, DoEachRange
<1>14. Range(rest) = {Do("replace", o) : o \in Y}
  BY <1>6, <1>8, DoEachRange
<1>15. PICK front, all : front = net \o init /\ all = front \o rest
  OBVIOUS
<1>16. front \in Seq(B) /\ Range(front) = Range(net) \cup Range(init)
  BY <1>10, <1>11, <1>15, ConcatRange
<1>17. all \in Seq(B) /\ Range(all) = Range(net) \cup Range(init) \cup Range(rest)
  <2>1. front \in Seq(B) /\ rest \in Seq(B) /\ all = front \o rest
    BY <1>12, <1>15, <1>16
  <2>2. all \in Seq(B) /\ Range(all) = Range(front) \cup Range(rest)
    BY <2>1, ConcatRange
  <2> QED BY <1>16, <2>2
<1>18. all = DockerProvision
  BY <1>1, <1>2, <1>8, <1>15 DEF DockerProvision
<1>19. ASSUME NEW o \in ObjectsOf(engine) PROVE Made(all, o)
  <2>1. o = "network" \/ o \in Mine("init") \/ o \in Y
    BY <1>2, <1>7
  <2>2. CASE o = "network"
    <3>1. Do("apply", o) \in Range(all)
      BY <1>10, <1>17, <2>2
    <3> QED BY <1>9, <3>1, MadeBy
  <2>3. CASE o \in Mine("init")
    <3>1. Do("runinit", o) \in Range(all)
      BY <1>13, <1>17, <2>3
    <3> QED BY <1>9, <3>1, MadeBy
  <2>4. CASE o \in Y
    <3>1. Do("replace", o) \in Range(all)
      BY <1>14, <1>17, <2>4
    <3> QED BY <1>9, <3>1, MadeBy
  <2> QED BY <2>1, <2>2, <2>3, <2>4
<1> QED BY <1>2, <1>17, <1>18, <1>19

LEMMA OneCall ==
  ASSUME NEW S, NEW x \in S
  PROVE  <<x>> \in Seq(S) /\ Range(<<x>>) = {x}
BY DEF Range

LEMMA ThreeCalls ==
  ASSUME NEW S, NEW x \in S, NEW y \in S, NEW z \in S
  PROVE  <<x, y, z>> \in Seq(S) /\ Range(<<x, y, z>>) = {x, y, z}
<1>1. PICK t : t = <<x, y, z>>
  OBVIOUS
<1>2. t \in Seq(S) /\ DOMAIN t = {1, 2, 3} /\ t[1] = x /\ t[2] = y /\ t[3] = z
  BY <1>1
<1>3. Range(t) = {t[1], t[2], t[3]}
  BY <1>2 DEF Range
<1> QED BY <1>1, <1>2, <1>3

LEMMA FourCalls ==
  ASSUME NEW S, NEW x \in S, NEW y \in S, NEW z \in S, NEW u \in S
  PROVE  <<x, y, z, u>> \in Seq(S) /\ Range(<<x, y, z, u>>) = {x, y, z, u}
<1>1. PICK t : t = <<x, y, z, u>>
  OBVIOUS
<1>2. t \in Seq(S) /\ DOMAIN t = {1, 2, 3, 4} /\ t[1] = x /\ t[2] = y /\ t[3] = z /\ t[4] = u
  BY <1>1
<1>3. Range(t) = {t[1], t[2], t[3], t[4]}
  BY <1>2 DEF Range
<1> QED BY <1>1, <1>2, <1>3

\* A Provision of one call: nomad's, argo's, helm's.
LEMMA OneBuilds ==
  ASSUME NEW e \in {"helm", "argo", "nomad"}, NEW what \in Makers, what # "runinit",
         NEW o \in ObjectsOf(e)
  PROVE  <<Do(what, o)>> \in Seq(Building(e)) /\ Made(<<Do(what, o)>>, o)
<1>1. PICK x : x = Do(what, o)
  OBVIOUS
<1>2. Right(e, o) = "up"
  BY DEF Right
<1>3. x \in Building(e)
  BY <1>1, <1>2, Builds
<1>4. <<x>> \in Seq(Building(e)) /\ Range(<<x>>) = {x}
  BY <1>3, OneCall
<1>5. Do(what, o) \in Range(<<x>>)
  BY <1>1, <1>4
<1>6. Made(<<x>>, o)
  BY <1>5, MadeBy
<1> QED BY <1>1, <1>4, <1>6

LEMMA KubeBuilds ==
  ASSUME NEW e \in Kubernetes
  PROVE  /\ KubeProvision(e) \in Seq(Building(e))
         /\ \A o \in {"config", e, "service"} : Made(KubeProvision(e), o)
<1>1. PICK x, y, z : x = Do("create", "config") /\ y = Do("create", e) /\ z = Do("create", "service")
  OBVIOUS
<1>2. ObjectsOf(e) = {"config", "deployment", "statefulset", "service"} /\ \A o : Right(e, o) = "up"
  BY DEF ObjectsOf, Kubernetes, Right
<1>3. "create" \in Makers /\ e \in ObjectsOf(e)
  BY <1>2 DEF Makers, Kubernetes
<1>4. x \in Building(e) /\ y \in Building(e) /\ z \in Building(e)
  BY <1>1, <1>2, <1>3, Builds
<1>5. PICK t : t = <<x, y, z>>
  OBVIOUS
<1>6. t \in Seq(Building(e)) /\ Range(t) = {x, y, z}
  BY <1>4, <1>5, ThreeCalls
<1>7. ASSUME NEW o \in {"config", e, "service"} PROVE Made(t, o)
  <2>1. Do("create", o) \in Range(t)
    BY <1>1, <1>6
  <2> QED BY <1>3, <2>1, MadeBy
<1>8. t = KubeProvision(e)
  BY <1>1, <1>5 DEF KubeProvision
<1> QED BY <1>6, <1>7, <1>8

LEMMA ManifestsBuild ==
  ASSUME NEW request \in SUBSET Docs
  PROVE  /\ ManifestVerb("Provision", request) \in Seq(Building("manifests"))
         /\ \A o \in request : Made(ManifestVerb("Provision", request), o)
         /\ \E c \in Range(ManifestVerb("Provision", request)) : c.do = "track" /\ c.obj = None
<1>1. PICK os, x, B : os = SetToSeq(request) /\ x = Do("track", None) /\ B = Building("manifests")
  OBVIOUS
<1>2. IsFiniteSet(request)
  BY ProvidersAssumption, FS_Subset
<1>3. os \in Seq(request) /\ Range(os) = request
  BY <1>1, <1>2, SetToSeqIs
<1>4. "apply" \in Makers /\ \A o \in request : o \in ObjectsOf("manifests") /\ Right("manifests", o) = "up"
  BY DEF Makers, ObjectsOf, Kubernetes, Right
<1>5. PICK each, t : each = DoEach("apply", os) /\ t = each \o <<x>>
  OBVIOUS
<1>6. each \in Seq(B)
  BY <1>1, <1>3, <1>4, <1>5, EachBuilds
<1>7. Range(each) = {Do("apply", o) : o \in request}
  BY <1>3, <1>5, DoEachRange
<1>8. x \in B
  BY <1>1 DEF Building
<1>9. <<x>> \in Seq(B) /\ Range(<<x>>) = {x}
  BY <1>8, OneCall
<1>10. PICK last : last = <<x>>
  OBVIOUS
<1>11. t \in Seq(B) /\ Range(t) = Range(each) \cup Range(last)
  <2>1. each \in Seq(B) /\ last \in Seq(B) /\ t = each \o last
    BY <1>5, <1>6, <1>9, <1>10
  <2> QED BY <2>1, ConcatRange
<1>12. ASSUME NEW o \in request PROVE Made(t, o)
  <2>1. Do("apply", o) \in Range(t)
    BY <1>7, <1>11
  <2> QED BY <1>4, <2>1, MadeBy
<1>13. x \in Range(t) /\ x.do = "track" /\ x.obj = None
  BY <1>1, <1>9, <1>10, <1>11 DEF Do
<1>14. t = ManifestVerb("Provision", request)
  BY <1>1, <1>5 DEF ManifestVerb
<1> QED BY <1>1, <1>11, <1>12, <1>13, <1>14

LEMMA ProvisionBegins ==
  ASSUME TypeOK, NEW request \in Requests("Provision"), engine' = engine,
         docs' = IF engine = "manifests" THEN request ELSE docs
  PROVE  /\ Calls("Provision", request) \in Seq(Building(engine))
         /\ \E goal \in Goals' : \A o \in goal : Made(Calls("Provision", request), o)
         /\ engine = "manifests" =>
               \E c \in Range(Calls("Provision", request)) : c.do = "track" /\ c.obj = None
<1>1. PICK todo : todo = Calls("Provision", request)
  OBVIOUS
<1>2. CASE engine = "docker"
  <2>1. todo = DockerProvision
    BY <1>1, <1>2 DEF Calls, DockerVerb, Kubernetes
  <2>2. Goals' = {ObjectsOf(engine)}
    BY <1>2 DEF Goals, Kubernetes
  <2> QED BY <1>1, <1>2, <2>1, <2>2, DockerBuilds
<1>3. CASE engine \in Kubernetes
  <2>1. todo = KubeProvision(engine)
    BY <1>1, <1>3 DEF Calls, KubeVerb, Kubernetes
  <2>2. Goals' = {{"config", engine, "service"}}
    BY <1>3 DEF Goals, Kubernetes
  <2>3. engine # "manifests"
    BY <1>3 DEF Kubernetes
  <2> QED BY <1>1, <1>3, <2>1, <2>2, <2>3, KubeBuilds
<1>4. CASE engine = "manifests"
  <2>1. todo = ManifestVerb("Provision", request)
    BY <1>1, <1>4 DEF Calls, Kubernetes
  <2>2. Goals' = {request}
    BY <1>4 DEF Goals, Kubernetes
  <2>3. request \in SUBSET Docs
    BY <1>4 DEF Requests
  <2> QED BY <1>1, <1>4, <2>1, <2>2, <2>3, ManifestsBuild
<1>5. CASE engine = "helm"
  <2>1. todo = <<Do("install", request)>>
    BY <1>1, <1>5 DEF Calls, HelmVerb, Kubernetes
  <2>2. Goals' = {{"release"}, {"elsewhere"}}
    BY <1>5 DEF Goals, Kubernetes
  <2>3. request \in {"release", "elsewhere"} /\ request \in ObjectsOf(engine)
    BY <1>5 DEF Requests, ObjectsOf, Kubernetes
  <2>4. "install" \in Makers
    BY DEF Makers
  <2>5. todo \in Seq(Building(engine)) /\ Made(todo, request)
    BY <1>5, <2>1, <2>3, <2>4, OneBuilds
  <2>6. {request} \in Goals'
    BY <2>2, <2>3
  <2>7. \E goal \in Goals' : \A o \in goal : Made(todo, o)
    BY <2>5, <2>6
  <2> QED BY <1>1, <1>5, <2>5, <2>7
<1>6. CASE engine = "argo" \/ engine = "nomad"
  <2>1. PICK o : ObjectsOf(engine) = {o} /\ todo = <<Do("apply", o)>>
    <3>1. CASE engine = "argo"
      BY <1>1, <3>1 DEF Calls, ArgoVerb, ObjectsOf, Kubernetes
    <3>2. CASE engine = "nomad"
      BY <1>1, <3>2 DEF Calls, NomadVerb, ObjectsOf, Kubernetes
    <3> QED BY <1>6, <3>1, <3>2
  <2>2. Goals' = {ObjectsOf(engine)}
    BY <1>6 DEF Goals, Kubernetes
  <2>3. "apply" \in Makers
    BY DEF Makers
  <2>4. todo \in Seq(Building(engine)) /\ Made(todo, o)
    BY <1>6, <2>1, <2>3, OneBuilds
  <2> QED BY <1>1, <1>6, <2>1, <2>2, <2>4
<1> QED BY <1>2, <1>3, <1>4, <1>5, <1>6 DEF TypeOK, Engines, Kubernetes

LEMMA Clears ==
  ASSUME NEW e, NEW what \in Removers, NEW o \in ObjectsOf(e)
  PROVE  Do(what, o) \in Clearing(e) /\ Try(what, o) \in Clearing(e)
         /\ [Do(what, o) EXCEPT !.error = "both"] \in Clearing(e)
BY DEF Clearing, Do, Try

LEMMA RemovedBy ==
  ASSUME NEW todo, NEW c \in Range(todo), c.do \in Removers
  PROVE  Removed(todo, c.obj)
BY DEF Removed

\* A delete of everything on a list, and one call more.
LEMMA EachClears ==
  ASSUME NEW e, NEW S, S \subseteq ObjectsOf(e), NEW os \in Seq(S), Range(os) = S,
         NEW x \in Clearing(e)
  PROVE  /\ DoEach("delete", os) \o <<x>> \in Seq(Clearing(e))
         /\ \A o \in S : Removed(DoEach("delete", os) \o <<x>>, o)
         /\ x \in Range(DoEach("delete", os) \o <<x>>)
<1>1. PICK C, each, last, t : /\ C = Clearing(e)
                              /\ each = DoEach("delete", os)
                              /\ last = <<x>>
                              /\ t = each \o last
  OBVIOUS
<1>2. "delete" \in Removers
  BY DEF Removers
<1>3. each \in Seq(C)
  <2>1. each \in Seq({Do("delete", o) : o \in S})
    BY <1>1, DoEachIs
  <2>2. \A o \in S : Do("delete", o) \in C
    BY <1>1, <1>2, Clears
  <2>3. {Do("delete", o) : o \in S} \subseteq C
    BY <2>2
  <2> QED BY <2>1, <2>3
<1>4. Range(each) = {Do("delete", o) : o \in S}
  BY <1>1, DoEachRange
<1>5. last \in Seq(C) /\ Range(last) = {x}
  BY <1>1, OneCall
<1>6. t \in Seq(C) /\ Range(t) = Range(each) \cup Range(last)
  BY <1>1, <1>3, <1>5, ConcatRange
<1>7. ASSUME NEW o \in S PROVE Removed(t, o)
  <2>1. PICK c : c = Do("delete", o)
    OBVIOUS
  <2>2. c \in Range(t) /\ c.do \in Removers /\ c.obj = o
    <3>1. c \in Range(t)
      BY <1>4, <1>6, <2>1
    <3>2. c.do = "delete" /\ c.obj = o
      BY <2>1 DEF Do
    <3> QED BY <1>2, <3>1, <3>2
  <2> QED BY <2>2, RemovedBy
<1>8. x \in Range(t)
  BY <1>5, <1>6
<1> QED BY <1>1, <1>6, <1>7, <1>8

LEMMA DockerClears ==
  ASSUME TypeOK, engine = "docker"
  PROVE  /\ DockerDeprovision \in Seq(Clearing(engine))
         /\ \A o \in DOMAIN objs : Present(o) => Removed(DockerDeprovision, o)
<1>1. PICK S, os, x : /\ S = {s \in Services : Present(s)}
                      /\ os = Listed
                      /\ x = Do("delete", "network")
  OBVIOUS
<1>2. IsFiniteSet(S)
  BY <1>1, ProvidersAssumption, FS_Subset
<1>3. os \in Seq(S) /\ Range(os) = S
  BY <1>1, <1>2, SetToSeqIs DEF Listed
<1>4. ObjectsOf(engine) = Services \cup {"network"} /\ DOMAIN objs = ObjectsOf(engine)
  BY DEF ObjectsOf, Kubernetes, TypeOK
<1>5. "delete" \in Removers /\ S \subseteq ObjectsOf(engine)
  BY <1>1, <1>4 DEF Removers
<1>6. x \in Clearing(engine)
  BY <1>1, <1>4, <1>5, Clears
<1>7. PICK t : t = DoEach("delete", os) \o <<x>>
  OBVIOUS
<1>8. t \in Seq(Clearing(engine)) /\ (\A o \in S : Removed(t, o)) /\ x \in Range(t)
  BY <1>3, <1>5, <1>6, <1>7, EachClears
<1>9. x.do = "delete" /\ x.obj = "network"
  BY <1>1 DEF Do
<1>10. Removed(t, "network")
  BY <1>5, <1>8, <1>9, RemovedBy
<1>11. t = DockerDeprovision
  BY <1>1, <1>7 DEF DockerDeprovision
<1> QED BY <1>1, <1>4, <1>8, <1>10, <1>11

LEMMA KubeClears ==
  ASSUME NEW e \in Kubernetes
  PROVE  /\ KubeDeprovision \in Seq(Clearing(e))
         /\ \A o \in ObjectsOf(e) : Removed(KubeDeprovision, o)
<1>1. PICK x, y, z, u : /\ x = Try("delete", "deployment")
                        /\ y = [Do("delete", "statefulset") EXCEPT !.error = "both"]
                        /\ z = Try("delete", "service")
                        /\ u = Try("delete", "config")
  OBVIOUS
<1>2. ObjectsOf(e) = {"config", "deployment", "statefulset", "service"}
  BY DEF ObjectsOf, Kubernetes
<1>3. "delete" \in Removers
  BY DEF Removers
<1>4. x \in Clearing(e) /\ y \in Clearing(e) /\ z \in Clearing(e) /\ u \in Clearing(e)
  BY <1>1, <1>2, <1>3, Clears
<1>5. PICK t : t = <<x, y, z, u>>
  OBVIOUS
<1>6. t \in Seq(Clearing(e)) /\ Range(t) = {x, y, z, u}
  BY <1>4, <1>5, FourCalls
<1>7. /\ x.do = "delete" /\ x.obj = "deployment" /\ y.do = "delete" /\ y.obj = "statefulset"
      /\ z.do = "delete" /\ z.obj = "service" /\ u.do = "delete" /\ u.obj = "config"
  BY <1>1 DEF Do, Try
<1>8. Removed(t, x.obj) /\ Removed(t, y.obj) /\ Removed(t, z.obj) /\ Removed(t, u.obj)
  BY <1>3, <1>6, <1>7, RemovedBy
<1>9. t = KubeDeprovision
  BY <1>1, <1>5 DEF KubeDeprovision
<1> QED BY <1>2, <1>6, <1>7, <1>8, <1>9

LEMMA ManifestsClear ==
  ASSUME TypeOK, engine = "manifests", NEW request
  PROVE  /\ ManifestVerb("Deprovision", request) \in Seq(Clearing(engine))
         /\ \A o \in Docs : o \in Unreachable \/ Removed(ManifestVerb("Deprovision", request), o)
<1>1. CASE tracked = None
  <2>1. ManifestVerb("Deprovision", request) = <<>> /\ Unreachable = Docs
    BY <1>1 DEF ManifestVerb, Unreachable
  <2>2. PICK C, t : C = Clearing(engine) /\ t = ManifestVerb("Deprovision", request)
    OBVIOUS
  <2>3. t \in Seq(C)
    <3>1. t = <<>>
      BY <2>1, <2>2, Zenon
    <3> HIDE <2>2
    <3> QED BY <3>1
  <2> QED BY <2>1, <2>2, <2>3
<1>2. CASE tracked # None
  <2>1. tracked \in SUBSET Docs /\ IsFiniteSet(tracked)
    <3>1. tracked \in SUBSET Docs
      BY <1>2 DEF TypeOK
    <3>2. IsFiniteSet(Docs)
      BY ProvidersAssumption
    <3> QED BY <3>1, <3>2, FS_Subset
  <2>2. PICK os, x, t : /\ os = SetToSeq(tracked)
                        /\ x = Do("untrack", None)
                        /\ t = DoEach("delete", os) \o <<x>>
    OBVIOUS
  <2>3. os \in Seq(tracked) /\ Range(os) = tracked
    BY <2>1, <2>2, SetToSeqIs
  <2>4. tracked \subseteq ObjectsOf(engine) /\ x \in Clearing(engine)
    BY <2>1, <2>2 DEF ObjectsOf, Kubernetes, Clearing
  <2>5. t \in Seq(Clearing(engine)) /\ \A o \in tracked : Removed(t, o)
    BY <2>2, <2>3, <2>4, EachClears
  <2>6. t = ManifestVerb("Deprovision", request)
    BY <1>2, <2>2 DEF ManifestVerb
  <2>7. Unreachable = Docs \ tracked
    BY <1>2 DEF Unreachable
  <2> QED BY <2>5, <2>6, <2>7
<1> QED BY <1>1, <1>2

LEMMA OneClears ==
  ASSUME NEW e, NEW what \in Removers, NEW o \in ObjectsOf(e)
  PROVE  <<Do(what, o)>> \in Seq(Clearing(e)) /\ Removed(<<Do(what, o)>>, o)
<1>1. PICK x : x = Do(what, o)
  OBVIOUS
<1>2. x \in Clearing(e)
  BY <1>1, Clears
<1>3. <<x>> \in Seq(Clearing(e)) /\ Range(<<x>>) = {x}
  BY <1>2, OneCall
<1>4. x.do = what /\ x.obj = o
  BY <1>1 DEF Do
<1>5. Removed(<<x>>, o)
  BY <1>3, <1>4 DEF Removed
<1> QED BY <1>1, <1>3, <1>5

LEMMA DeprovisionBegins ==
  ASSUME TypeOK, NEW request
  PROVE  /\ Calls("Deprovision", request) \in Seq(Clearing(engine))
         /\ \A o \in DOMAIN objs :
               Present(o) => o \in Unreachable \/ Removed(Calls("Deprovision", request), o)
<1>1. PICK todo : todo = Calls("Deprovision", request)
  OBVIOUS
<1>2. DOMAIN objs = ObjectsOf(engine)
  BY DEF TypeOK
<1>3. CASE engine = "docker"
  <2>1. todo = DockerDeprovision
    BY <1>1, <1>3 DEF Calls, DockerVerb, Kubernetes
  <2> QED BY <1>1, <1>3, <2>1, DockerClears
<1>4. CASE engine \in Kubernetes
  <2>1. todo = KubeDeprovision
    BY <1>1, <1>4 DEF Calls, KubeVerb, Kubernetes
  <2> QED BY <1>1, <1>2, <1>4, <2>1, KubeClears
<1>5. CASE engine = "manifests"
  <2>1. todo = ManifestVerb("Deprovision", request)
    BY <1>1, <1>5 DEF Calls, Kubernetes
  <2>2. ObjectsOf(engine) = Docs
    BY <1>5 DEF ObjectsOf, Kubernetes
  <2> QED BY <1>1, <1>2, <1>5, <2>1, <2>2, ManifestsClear
<1>6. CASE engine = "helm"
  <2>1. todo = <<Do("uninstall", "release")>>
    BY <1>1, <1>6 DEF Calls, HelmVerb, Kubernetes
  <2>2. ObjectsOf(engine) = {"release", "elsewhere"} /\ Unreachable = {"elsewhere"}
    BY <1>6 DEF ObjectsOf, Kubernetes, Unreachable
  <2>3. "uninstall" \in Removers
    BY DEF Removers
  <2>4. todo \in Seq(Clearing(engine)) /\ Removed(todo, "release")
    BY <2>1, <2>2, <2>3, OneClears
  <2> QED BY <1>1, <1>2, <2>2, <2>4
<1>7. CASE engine = "argo" \/ engine = "nomad"
  <2>1. PICK o : ObjectsOf(engine) = {o} /\ todo = <<Do("delete", o)>>
    <3>1. CASE engine = "argo"
      BY <1>1, <3>1 DEF Calls, ArgoVerb, ObjectsOf, Kubernetes
    <3>2. CASE engine = "nomad"
      BY <1>1, <3>2 DEF Calls, NomadVerb, ObjectsOf, Kubernetes
    <3> QED BY <1>7, <3>1, <3>2
  <2>2. "delete" \in Removers
    BY DEF Removers
  <2>3. todo \in Seq(Clearing(engine)) /\ Removed(todo, o)
    BY <2>1, <2>2, OneClears
  <2> QED BY <1>1, <1>2, <2>1, <2>3
<1> QED BY <1>3, <1>4, <1>5, <1>6, <1>7 DEF TypeOK, Engines, Kubernetes

-----------------------------------------------------------------------------
(* One API call.                                                           *)

LEMMA TailRange ==
  ASSUME NEW S, NEW t \in Seq(S), t # <<>>
  PROVE  /\ Head(t) \in S /\ Tail(t) \in Seq(S)
         /\ Range(t) = {Head(t)} \cup Range(Tail(t))
<1>1. PICK h, u : h = Head(t) /\ u = Tail(t)
  OBVIOUS
<1>2. /\ h \in S /\ u \in Seq(S) /\ h = t[1]
      /\ Len(t) \in Nat /\ Len(t) >= 1 /\ Len(u) = Len(t) - 1
      /\ DOMAIN t = 1 .. Len(t) /\ DOMAIN u = 1 .. Len(t) - 1
      /\ \A i \in 1 .. Len(t) - 1 : u[i] = t[i + 1]
  BY <1>1
<1>3. ASSUME NEW i \in DOMAIN t PROVE t[i] \in {h} \cup Range(u)
  <2>1. CASE i = 1
    BY <1>2, <2>1
  <2>2. CASE i # 1
    <3>1. i - 1 \in 1 .. Len(t) - 1 /\ (i - 1) + 1 = i
      BY <1>2, <2>2
    <3>2. u[i - 1] = t[i] /\ i - 1 \in DOMAIN u
      BY <1>2, <3>1
    <3> QED BY <3>2 DEF Range
  <2> QED BY <2>1, <2>2
<1>4. ASSUME NEW i \in DOMAIN u PROVE u[i] \in Range(t)
  <2>1. i + 1 \in DOMAIN t /\ u[i] = t[i + 1]
    BY <1>2
  <2> QED BY <2>1 DEF Range
<1>5. h \in Range(t)
  <2>1. 1 \in DOMAIN t
    BY <1>2
  <2> QED BY <1>2, <2>1 DEF Range
<1>6. Range(t) \subseteq {h} \cup Range(u) /\ Range(u) \subseteq Range(t)
  BY <1>3, <1>4 DEF Range
<1> QED BY <1>1, <1>2, <1>5, <1>6

LEMMA EffectTyped ==
  ASSUME TypeOK, NEW c
  PROVE  /\ Effect(c) \in [ObjectsOf(engine) -> Conditions]
         /\ Leftovers(c) \subseteq [ObjectsOf(engine) -> Conditions]
         /\ Record(c) \in (SUBSET Docs) \cup {None}
<1>1. objs \in [ObjectsOf(engine) -> Conditions]
  BY DEF TypeOK
<1>2. \A x \in Conditions : [objs EXCEPT ![c.obj] = x] \in [ObjectsOf(engine) -> Conditions]
  BY <1>1
<1>3. "up" \in Conditions /\ "done" \in Conditions /\ "down" \in Conditions /\ "absent" \in Conditions
  BY DEF Conditions
<1>4. Effect(c) \in {objs} \cup {[objs EXCEPT ![c.obj] = x] : x \in Conditions}
  BY <1>3 DEF Effect
<1>5. Effect(c) \in [ObjectsOf(engine) -> Conditions]
  BY <1>1, <1>2, <1>4
<1>6. Leftovers(c) \subseteq {objs, Effect(c)} \cup {[objs EXCEPT ![c.obj] = x] : x \in Conditions}
  BY <1>3 DEF Leftovers
<1>7. Leftovers(c) \subseteq [ObjectsOf(engine) -> Conditions]
  BY <1>1, <1>2, <1>5, <1>6
<1>8. Record(c) \in (SUBSET Docs) \cup {None}
  BY DEF TypeOK, Record
<1> QED BY <1>5, <1>7, <1>8

\* The outcomes of the first call left: the verb ends with an error, or goes on.
LEMMA PerformParts ==
  ASSUME TypeOK, NEW bad \in BOOLEAN, Perform(bad)
  PROVE  \E c, error :
            /\ call # None /\ call.todo # <<>> /\ c = Head(call.todo)
            /\ \/ error /\ Fatal(c) /\ call' = None
                  /\ answer' = [verb |-> call.verb, ok |-> FALSE]
               \/ ~(error /\ Fatal(c)) /\ answer' = answer
                  /\ call' = [verb |-> call.verb, todo |-> Tail(call.todo), failed |-> error]
            /\ \/ error /\ objs' \in Leftovers(c) /\ tracked' \in {tracked, Record(c)}
               \/ ~error /\ objs' = Effect(c) /\ tracked' = Record(c)
            /\ escaped' = IF error /\ c.error /= "abort" THEN escaped \cup {c.obj} ELSE escaped
            /\ UNCHANGED <<engine, spec, docs, aim>>
<1>1. PICK c : c = Head(call.todo)
  OBVIOUS
<1>2. PICK error : error = (bad \/ ~ Accepted(c))
  OBVIOUS
<1>3. call # None /\ call.todo # <<>>
  BY DEF Perform
<1>4. call = [verb |-> call.verb, todo |-> call.todo, failed |-> call.failed]
  BY <1>3 DEF TypeOK
<1>5. /\ IF error
         THEN /\ objs' \in IF bad /\ Accepted(c) THEN Leftovers(c) ELSE {objs}
              /\ tracked' \in IF bad THEN {tracked, Record(c)} ELSE {tracked}
         ELSE objs' = Effect(c) /\ tracked' = Record(c)
      /\ escaped' = IF error /\ c.error /= "abort" THEN escaped \cup {c.obj} ELSE escaped
      /\ IF error /\ Fatal(c) THEN Ended(FALSE)
         ELSE /\ call' = [call EXCEPT !.todo = Tail(@), !.failed = error]
              /\ UNCHANGED answer
      /\ UNCHANGED <<engine, spec, docs, aim>>
  BY <1>1, <1>2, Zenon DEF Perform
<1>6. [call EXCEPT !.todo = Tail(@), !.failed = error] =
      [verb |-> call.verb, todo |-> Tail(call.todo), failed |-> error]
  <2>1. PICK verb, todo, failed, rest :
           /\ verb = call.verb /\ todo = call.todo /\ failed = call.failed
           /\ rest = Tail(call.todo)
    OBVIOUS
  <2>2. call = [verb |-> verb, todo |-> todo, failed |-> failed]
    BY <1>4, <2>1
  <2>3. PICK y : y = [call EXCEPT !.todo = rest]
    OBVIOUS
  <2>4. y = [verb |-> verb, todo |-> rest, failed |-> failed]
    BY <2>2, <2>3
  <2>5. [y EXCEPT !.failed = error] = [verb |-> verb, todo |-> rest, failed |-> error]
    BY <2>4
  <2> QED BY <2>1, <2>3, <2>5
<1>7. \/ error /\ Fatal(c) /\ call' = None /\ answer' = [verb |-> call.verb, ok |-> FALSE]
      \/ ~(error /\ Fatal(c)) /\ answer' = answer
         /\ call' = [verb |-> call.verb, todo |-> Tail(call.todo), failed |-> error]
  BY <1>5, <1>6, Zenon DEF Ended
<1>8. \/ error /\ objs' \in Leftovers(c) /\ tracked' \in {tracked, Record(c)}
      \/ ~error /\ objs' = Effect(c) /\ tracked' = Record(c)
  <2>1. objs \in Leftovers(c)
    BY DEF Leftovers
  <2> QED BY <1>5, <2>1
<1> QED BY <1>1, <1>2, <1>3, <1>5, <1>7, <1>8

LEMMA PerformType ==
  ASSUME TypeOK, NEW bad \in BOOLEAN, Perform(bad)
  PROVE  TypeOK'
<1>1. PICK c, error :
         /\ \/ call' = None
            \/ call' = [verb |-> call.verb, todo |-> Tail(call.todo), failed |-> error]
         /\ objs' \in Leftovers(c) \/ objs' = Effect(c)
         /\ tracked' = tracked \/ tracked' = Record(c)
         /\ UNCHANGED <<engine, spec, docs>>
  BY PerformParts
<1>2. objs' \in [ObjectsOf(engine) -> Conditions] /\ tracked' \in (SUBSET Docs) \cup {None}
  BY <1>1, EffectTyped DEF TypeOK
<1>3. call' # None => call' = [verb |-> call'.verb, todo |-> call'.todo, failed |-> call'.failed]
  BY <1>1
<1> QED BY <1>1, <1>2, <1>3 DEF TypeOK

\* A call of a Provision that worked.
LEMMA MakerWorks ==
  ASSUME TypeOK, NEW c \in Building(engine)
  PROVE  /\ c.error = "abort"
         /\ \/ /\ c.do = "track" /\ Effect(c) = objs /\ Record(c) = docs
            \/ /\ c.do \in Makers /\ c.do # "track" /\ c.obj \in ObjectsOf(engine)
               /\ Effect(c) = [objs EXCEPT ![c.obj] = Right(engine, c.obj)]
               /\ Record(c) = tracked
<1>1. CASE c = Do("track", None)
  <2>1. c.do = "track" /\ c.error = "abort"
    BY <1>1 DEF Do
  <2> QED BY <2>1 DEF Effect, Record
<1>2. CASE c # Do("track", None)
  <2>1. /\ c.do \in Makers /\ c.obj \in ObjectsOf(engine) /\ c.error = "abort"
        /\ c.do = "runinit" <=> Right(engine, c.obj) = "done"
    BY <1>2 DEF Building
  <2>2. Right(engine, c.obj) \in {"up", "done"}
    BY DEF Right
  <2>3. Effect(c) = [objs EXCEPT ![c.obj] = Right(engine, c.obj)]
    BY <2>1, <2>2 DEF Effect, Makers
  <2>4. c.do # "track" /\ Record(c) = tracked
    BY <2>1 DEF Makers, Record
  <2> QED BY <2>1, <2>3, <2>4
<1> QED BY <1>1, <1>2

LEMMA PerformBuilds ==
  ASSUME TypeOK, BuildingOn, NEW bad \in BOOLEAN, Perform(bad)
  PROVE  BuildingOn'
<1>1. PICK c, error :
         /\ call # None /\ call.todo # <<>> /\ c = Head(call.todo)
         /\ \/ error /\ Fatal(c) /\ call' = None
            \/ ~(error /\ Fatal(c))
               /\ call' = [verb |-> call.verb, todo |-> Tail(call.todo), failed |-> error]
         /\ ~error => objs' = Effect(c) /\ tracked' = Record(c)
         /\ engine' = engine /\ docs' = docs
  BY PerformParts
<1> SUFFICES ASSUME call' # None, call'.verb = "Provision" PROVE BuildingOn'
  BY DEF BuildingOn
<1>2. call.verb = "Provision" /\ call'.todo = Tail(call.todo) /\ ~(error /\ Fatal(c))
  <2>1. /\ ~(error /\ Fatal(c))
        /\ call' = [verb |-> call.verb, todo |-> Tail(call.todo), failed |-> error]
    BY <1>1, Zenon
  <2>2. call'.verb = call.verb /\ call'.todo = Tail(call.todo)
    BY <2>1
  <2> QED BY <2>1, <2>2
<1>3. PICK t, u : t = call.todo /\ u = Tail(t)
  OBVIOUS
<1>4. t \in Seq(Building(engine)) /\ t # <<>>
  BY <1>1, <1>2, <1>3 DEF BuildingOn
<1>5. /\ c \in Building(engine) /\ u \in Seq(Building(engine))
      /\ Range(t) = {c} \cup Range(u)
  BY <1>1, <1>3, <1>4, TailRange
<1>6. c.error = "abort"
  BY <1>5, MakerWorks
<1>7. objs' = Effect(c) /\ tracked' = Record(c)
  BY <1>1, <1>2, <1>6 DEF Fatal
<1>8. ASSUME NEW kinds, NEW o, ToCome(kinds, o)
      PROVE  ToCome(kinds, o)' \/ (c.do \in kinds /\ c.obj = o)
  <2>1. PICK x \in Range(t) : x.do \in kinds /\ x.obj = o
    BY <1>3, <1>8 DEF ToCome
  <2>2. x = c \/ x \in Range(call'.todo)
    BY <1>2, <1>3, <1>5, <2>1
  <2> QED BY <2>1, <2>2 DEF ToCome
<1>9. Goals' = Goals
  BY <1>1 DEF Goals
<1>10. PICK goal \in Goals : \A o \in goal : objs[o] = Right(engine, o) \/ ToCome(Makers, o)
  BY <1>1, <1>2 DEF BuildingOn
<1>11. ASSUME NEW o \in goal PROVE objs'[o] = Right(engine, o) \/ ToCome(Makers, o)'
  <2>1. CASE c.do = "track"
    <3>1. objs' = objs /\ c.do \notin Makers
      BY <1>5, <1>7, <2>1, MakerWorks DEF Makers
    <3> QED BY <1>8, <1>10, <3>1
  <2>2. CASE c.do # "track"
    <3>1. c.obj \in ObjectsOf(engine) /\ objs' = [objs EXCEPT ![c.obj] = Right(engine, c.obj)]
      BY <1>5, <1>7, <2>2, MakerWorks
    <3>2. DOMAIN objs = ObjectsOf(engine)
      BY DEF TypeOK
    <3>3. CASE o = c.obj
      BY <3>1, <3>2, <3>3
    <3>4. CASE o # c.obj
      <4>1. objs'[o] = objs[o]
        BY <3>1, <3>4
      <4> QED BY <1>8, <1>10, <3>4, <4>1
    <3> QED BY <3>3, <3>4
  <2> QED BY <2>1, <2>2
<1>12. engine = "manifests" => tracked' = docs \/ ToCome({"track"}, None)'
  <2>1. CASE c.do = "track"
    BY <1>5, <1>7, <2>1, MakerWorks DEF Makers
  <2>2. CASE c.do # "track"
    <3>1. tracked' = tracked
      BY <1>5, <1>7, <2>2, MakerWorks
    <3>2. engine = "manifests" => tracked = docs \/ ToCome({"track"}, None)
      BY <1>1, <1>2 DEF BuildingOn
    <3>3. c.do \notin {"track"}
      BY <2>2
    <3> QED BY <1>8, <3>1, <3>2, <3>3
  <2> QED BY <2>1, <2>2
<1>13. call'.todo \in Seq(Building(engine))
  BY <1>2, <1>3, <1>5
<1> QED BY <1>1, <1>9, <1>10, <1>11, <1>12, <1>13 DEF BuildingOn

LEMMA PerformClears ==
  ASSUME TypeOK, ClearingOn, NEW bad \in BOOLEAN, Perform(bad)
  PROVE  ClearingOn'
<1>1. PICK c, error :
         /\ call # None /\ call.todo # <<>> /\ c = Head(call.todo)
         /\ \/ error /\ Fatal(c) /\ call' = None
            \/ ~(error /\ Fatal(c))
               /\ call' = [verb |-> call.verb, todo |-> Tail(call.todo), failed |-> error]
         /\ \/ error /\ objs' \in Leftovers(c)
            \/ ~error /\ objs' = Effect(c)
         /\ escaped' = IF error /\ c.error /= "abort" THEN escaped \cup {c.obj} ELSE escaped
         /\ engine' = engine
  BY PerformParts
<1> SUFFICES ASSUME call' # None, call'.verb = "Deprovision" PROVE ClearingOn'
  BY DEF ClearingOn
<1>2. call.verb = "Deprovision" /\ call'.todo = Tail(call.todo) /\ ~(error /\ Fatal(c))
  <2>1. /\ ~(error /\ Fatal(c))
        /\ call' = [verb |-> call.verb, todo |-> Tail(call.todo), failed |-> error]
    BY <1>1, Zenon
  <2>2. call'.verb = call.verb /\ call'.todo = Tail(call.todo)
    BY <2>1
  <2> QED BY <2>1, <2>2
<1>3. PICK t, u : t = call.todo /\ u = Tail(t)
  OBVIOUS
<1>4. t \in Seq(Clearing(engine)) /\ t # <<>>
  BY <1>1, <1>2, <1>3 DEF ClearingOn
<1>5. /\ c \in Clearing(engine) /\ u \in Seq(Clearing(engine))
      /\ Range(t) = {c} \cup Range(u)
  BY <1>1, <1>3, <1>4, TailRange
<1>6. \/ c.do = "untrack"
      \/ c.do \in Removers /\ c.obj \in ObjectsOf(engine)
  BY <1>5 DEF Clearing, Do
<1>7. DOMAIN objs = ObjectsOf(engine) /\ DOMAIN objs' = ObjectsOf(engine)
  BY <1>1, PerformType DEF TypeOK
<1>8. objs' = objs \/ objs' = Effect(c)
  BY <1>1, <1>6 DEF Leftovers, Removers
<1>9. Effect(c) = IF c.do \in Removers THEN [objs EXCEPT ![c.obj] = "absent"] ELSE objs
  BY <1>6 DEF Effect, Removers
<1>10. ASSUME NEW o \in ObjectsOf(engine), objs'[o] # "absent"
       PROVE  o \in escaped' \/ ToCome(Removers, o)'
  <2>1. objs[o] # "absent"
    BY <1>7, <1>8, <1>9, <1>10
  <2>2. o \in escaped \/ ToCome(Removers, o)
    BY <1>1, <1>2, <1>7, <2>1 DEF ClearingOn, Present
  <2>3. escaped \subseteq escaped'
    BY <1>1
  <2>4. CASE ToCome(Removers, o)
    <3>1. PICK x \in Range(t) : x.do \in Removers /\ x.obj = o
      BY <1>3, <2>4 DEF ToCome
    <3>2. CASE x \in Range(u)
      BY <1>2, <1>3, <3>1, <3>2 DEF ToCome
    <3>3. CASE x = c
      <4>1. error
        BY <1>1, <1>7, <1>9, <1>10, <3>1, <3>3
      <4>2. c.error # "abort"
        BY <1>2, <4>1 DEF Fatal
      <4> QED BY <1>1, <3>1, <3>3, <4>1, <4>2
    <3> QED BY <1>5, <3>1, <3>2, <3>3
  <2> QED BY <2>2, <2>3, <2>4
<1>11. call'.todo \in Seq(Clearing(engine))
  BY <1>2, <1>3, <1>5
<1> QED BY <1>1, <1>7, <1>10, <1>11 DEF ClearingOn, Present

-----------------------------------------------------------------------------
(* A success is what it says.                                              *)

\* With no call left, what was to be built stands.
LEMMA BuiltWhole ==
  ASSUME TypeOK, BuildingOn, call # None, call.verb = "Provision", call.todo = <<>>
  PROVE  Whole
<1>1. \A kinds, o : ~ToCome(kinds, o)
  <2>1. Range(<<>>) = {}
    BY DEF Range
  <2> QED BY <2>1 DEF ToCome
<1>2. PICK goal \in Goals : \A o \in goal : objs[o] = Right(engine, o)
  BY <1>1 DEF BuildingOn
<1>3. engine = "manifests" => tracked = docs
  BY <1>1 DEF BuildingOn
<1>4. DOMAIN objs = ObjectsOf(engine)
  BY DEF TypeOK
<1>5. CASE engine = "docker"
  <2>1. goal = Services \cup {"network"}
    BY <1>2, <1>5 DEF Goals, Kubernetes, ObjectsOf
  <2>2. objs["network"] = "up"
    BY <1>2, <2>1, ProvidersAssumption DEF Right
  <2>3. \A s \in Services : objs[s] = IF RoleOf[s] = "init" THEN "done" ELSE "up"
    BY <1>2, <1>5, <2>1 DEF Right
  <2> QED BY <1>5, <2>2, <2>3 DEF Whole, Kubernetes
<1>6. CASE engine \in Kubernetes
  <2>1. goal = {"config", engine, "service"}
    BY <1>2, <1>6 DEF Goals, Kubernetes
  <2>2. \A o \in goal : objs[o] = "up"
    BY <1>2, <1>6 DEF Right, Kubernetes
  <2> QED BY <1>6, <2>1, <2>2 DEF Whole, Kubernetes
<1>7. CASE engine = "manifests"
  BY <1>2, <1>3, <1>7 DEF Goals, Kubernetes, Right, Whole
<1>8. CASE engine = "helm"
  <2>1. goal = {"release"} \/ goal = {"elsewhere"}
    BY <1>2, <1>8 DEF Goals, Kubernetes
  <2>2. \A o \in goal : objs[o] = "up"
    BY <1>2, <1>8 DEF Right
  <2> QED BY <1>8, <2>1, <2>2 DEF Whole, Kubernetes
<1>9. CASE engine \in {"argo", "nomad"}
  <2>1. goal = ObjectsOf(engine)
    BY <1>2, <1>9 DEF Goals, Kubernetes
  <2>2. \A o \in goal : objs[o] = "up"
    BY <1>2, <1>9 DEF Right
  <2> QED BY <1>4, <1>9, <2>1, <2>2 DEF Whole, Kubernetes
<1> QED BY <1>5, <1>6, <1>7, <1>8, <1>9 DEF TypeOK, Engines, Kubernetes

\* No answer is no success.
LEMMA NoneIsNoAnswer == \A v \in Verbs, ok \in BOOLEAN : None # [verb |-> v, ok |-> ok]
BY ProvidersAssumption

\* While nothing answers a success, nothing is claimed.
LEMMA Unclaimed ==
  ASSUME answer' = None \/ answer'.ok = FALSE
  PROVE  ProvisionIsWhole' /\ DeprovisionIsClean'
<1>1. answer' # [verb |-> "Provision", ok |-> TRUE] /\ answer' # [verb |-> "Deprovision", ok |-> TRUE]
  <2>1. "Provision" \in Verbs /\ "Deprovision" \in Verbs /\ TRUE \in BOOLEAN
    BY DEF Verbs
  <2>2. None # [verb |-> "Provision", ok |-> TRUE] /\ None # [verb |-> "Deprovision", ok |-> TRUE]
    BY <2>1, NoneIsNoAnswer
  <2> QED BY <2>2
<1> QED BY <1>1 DEF ProvisionIsWhole, DeprovisionIsClean

LEMMA PerformKeeps ==
  ASSUME IInv, NEW bad \in BOOLEAN, Perform(bad)
  PROVE  IInv'
<1>1. PICK c, error :
         /\ call # None
         /\ \/ error /\ Fatal(c) /\ call' = None /\ answer' = [verb |-> call.verb, ok |-> FALSE]
            \/ answer' = answer
  BY PerformParts DEF IInv
<1>2. answer = None
  BY <1>1 DEF IInv, Unanswered
<1>3. answer' = None \/ (call' = None /\ answer'.ok = FALSE)
  BY <1>1, <1>2
<1>4. Unanswered'
  BY <1>3 DEF Unanswered
<1>5. ProvisionIsWhole' /\ DeprovisionIsClean'
  BY <1>3, Unclaimed
<1>6. TypeOK' /\ BuildingOn' /\ ClearingOn'
  BY PerformType, PerformBuilds, PerformClears DEF IInv
<1> QED BY <1>4, <1>5, <1>6 DEF IInv

LEMMA ReturnKeeps ==
  ASSUME IInv, Return
  PROVE  IInv'
<1>1. /\ call # None /\ call.todo = <<>> /\ call' = None
      /\ answer' = [verb |-> call.verb, ok |-> TRUE]
      /\ UNCHANGED <<engine, spec, docs, objs, tracked, escaped, aim, mishaps>>
  BY DEF Return, Ended
<1>2. TypeOK' /\ Unanswered' /\ BuildingOn' /\ ClearingOn'
  BY <1>1 DEF IInv, TypeOK, Unanswered, BuildingOn, ClearingOn
<1>3. answer'.verb = call.verb
  BY <1>1
<1>4. ProvisionIsWhole'
  <2> SUFFICES ASSUME answer' = [verb |-> "Provision", ok |-> TRUE] PROVE Whole'
    BY DEF ProvisionIsWhole
  <2>1. call.verb = "Provision"
    BY <1>3
  <2>2. Whole
    BY <1>1, <2>1, BuiltWhole DEF IInv
  <2> QED BY <1>1, <2>2 DEF Whole
<1>5. DeprovisionIsClean'
  <2> SUFFICES ASSUME answer' = [verb |-> "Deprovision", ok |-> TRUE],
                      NEW o \in DOMAIN objs, objs[o] # "absent"
               PROVE  o \in escaped
    BY <1>1 DEF DeprovisionIsClean, Present
  <2>1. call.verb = "Deprovision"
    BY <1>3
  <2>2. Range(call.todo) = {}
    BY <1>1 DEF Range
  <2> QED BY <1>1, <2>1, <2>2 DEF IInv, ClearingOn, ToCome, Present
<1> QED BY <1>2, <1>4, <1>5 DEF IInv

LEMMA BeginKeepsAll ==
  ASSUME IInv, NEW v \in Verbs, Begin(v)
  PROVE  IInv'
<1>1. PICK request \in Requests(v) :
         /\ docs' = IF engine = "manifests" THEN request ELSE docs
         /\ call' = [verb |-> v, todo |-> Calls(v, request), failed |-> FALSE]
  BY DEF Begin
<1>2. /\ answer' = None
      /\ escaped' = IF v = "Deprovision" THEN Unreachable ELSE {}
      /\ UNCHANGED <<engine, spec, objs, tracked, aim, mishaps>>
      /\ v \in VerbsOf(engine)
  BY DEF Begin
<1>3. TypeOK /\ TypeOK'
  <2>1. TypeOK
    BY DEF IInv
  <2>2. docs' \in SUBSET Docs
    <3>1. CASE engine = "manifests" /\ v = "Provision"
      BY <1>1, <3>1 DEF Requests
    <3>2. CASE ~(engine = "manifests" /\ v = "Provision")
      <4>1. engine = "manifests" => request = docs
        BY <3>2 DEF Requests
      <4> QED BY <1>1, <2>1, <4>1 DEF TypeOK
    <3> QED BY <3>1, <3>2
  <2>3. call' = [verb |-> call'.verb, todo |-> call'.todo, failed |-> call'.failed]
    BY <1>1
  <2> QED BY <1>2, <2>1, <2>2, <2>3 DEF TypeOK
<1>4. call'.verb = v /\ call'.todo = Calls(v, request)
  BY <1>1
<1>5. BuildingOn'
  <2> SUFFICES ASSUME v = "Provision" PROVE BuildingOn'
    BY <1>4 DEF BuildingOn
  <2>1. PICK todo : todo = Calls(v, request)
    OBVIOUS
  <2>2. /\ todo \in Seq(Building(engine))
        /\ \E goal \in Goals' : \A o \in goal : Made(todo, o)
        /\ engine = "manifests" => \E c \in Range(todo) : c.do = "track" /\ c.obj = None
    BY <1>1, <1>2, <1>3, <2>1, ProvisionBegins
  <2>3. call'.todo = todo
    BY <1>4, <2>1
  <2>4. \A o : Made(todo, o) => ToCome(Makers, o)'
    BY <2>3 DEF Made, ToCome
  <2>5. \E goal \in Goals' : \A o \in goal : objs'[o] = Right(engine, o) \/ ToCome(Makers, o)'
    BY <2>2, <2>4
  <2>6. engine = "manifests" => ToCome({"track"}, None)'
    BY <2>2, <2>3 DEF ToCome
  <2> QED BY <1>2, <2>2, <2>3, <2>5, <2>6 DEF BuildingOn
<1>6. ClearingOn'
  <2> SUFFICES ASSUME v = "Deprovision" PROVE ClearingOn'
    BY <1>4 DEF ClearingOn
  <2>1. PICK todo : todo = Calls(v, request)
    OBVIOUS
  <2>2. /\ todo \in Seq(Clearing(engine))
        /\ \A o \in DOMAIN objs : Present(o) => o \in Unreachable \/ Removed(todo, o)
    BY <1>3, <2>1, DeprovisionBegins
  <2>3. call'.todo = todo /\ escaped' = Unreachable
    BY <1>2, <1>4, <2>1
  <2>4. \A o : Removed(todo, o) => ToCome(Removers, o)'
    BY <2>3 DEF Removed, ToCome
  <2>5. \A o \in DOMAIN objs : Present(o) => o \in escaped' \/ ToCome(Removers, o)'
    BY <2>2, <2>3, <2>4
  <2> QED BY <1>2, <2>2, <2>3, <2>5 DEF ClearingOn, Present
<1>7. Unanswered' /\ ProvisionIsWhole' /\ DeprovisionIsClean'
  BY <1>2, Unclaimed DEF Unanswered
<1> QED BY <1>3, <1>5, <1>6, <1>7 DEF IInv

LEMMA InitIInv == Init => IInv
<1> SUFFICES ASSUME Init PROVE IInv
  OBVIOUS
<1>1. call = None /\ answer = None
  BY DEF Init
<1>2. TypeOK
  <2>1. objs \in [ObjectsOf(engine) -> Conditions]
    BY DEF Init, Conditions
  <2> QED BY <2>1 DEF Init, TypeOK
<1>3. "Provision" \in Verbs /\ "Deprovision" \in Verbs /\ TRUE \in BOOLEAN
  BY DEF Verbs
<1>4. ProvisionIsWhole /\ DeprovisionIsClean
  BY <1>1, <1>3, NoneIsNoAnswer DEF ProvisionIsWhole, DeprovisionIsClean
<1> QED BY <1>1, <1>2, <1>4 DEF IInv, Unanswered, BuildingOn, ClearingOn

LEMMA IInvNext == IInv /\ [Next]_vars => IInv'
<1> SUFFICES ASSUME IInv, [Next]_vars PROVE IInv'
  OBVIOUS
<1>1. CASE \E v \in Verbs : Begin(v)
  BY <1>1, BeginKeepsAll
<1>2. CASE Step
  BY <1>2, ReturnKeeps, PerformKeeps DEF Step
<1>3. CASE Crash \/ \E v \in {"Provision", "Deprovision"} : Insist(v)
  <2>1. call' = None /\ answer' = None
    BY <1>3 DEF Crash, Insist
  <2>2. UNCHANGED <<engine, spec, docs, objs, tracked>>
    BY <1>3 DEF Crash, Insist
  <2>3. ProvisionIsWhole' /\ DeprovisionIsClean'
    BY <2>1, Unclaimed
  <2>4. TypeOK' /\ Unanswered' /\ BuildingOn' /\ ClearingOn'
    BY <2>1, <2>2 DEF IInv, TypeOK, Unanswered, BuildingOn, ClearingOn
  <2> QED BY <2>3, <2>4 DEF IInv
<1>4. CASE UNCHANGED vars
  <2>1. UNCHANGED <<engine, spec, docs, objs, tracked, call, answer, escaped>>
    BY <1>4 DEF vars
  <2>2. TypeOK' /\ Unanswered'
    BY <2>1 DEF IInv, TypeOK, Unanswered
  <2>3. BuildingOn'
    BY <2>1 DEF IInv, BuildingOn, Goals, ToCome
  <2>4. ClearingOn'
    BY <2>1 DEF IInv, ClearingOn, ToCome, Present
  <2>5. ProvisionIsWhole'
    BY <2>1 DEF IInv, ProvisionIsWhole, Whole
  <2>6. DeprovisionIsClean'
    BY <2>1 DEF IInv, DeprovisionIsClean, Present
  <2> QED BY <2>2, <2>3, <2>4, <2>5, <2>6 DEF IInv
<1> QED BY <1>1, <1>2, <1>3, <1>4 DEF Next, Rest

(* What the engine keeps of the instance, the tracking record and the call *)
(* under way stay within their types, on each engine.                      *)
THEOREM TypeCorrect == Spec => []TypeOK
<1>1. IInv => TypeOK
  BY DEF IInv
<1> QED BY <1>1, InitIInv, IInvNext, PTL DEF Spec

(* A Provision that answers success left nothing out: each object that the *)
(* list of calls has dealt with is right, and the list deals with them     *)
(* all (provisionProject, Provision, ApplyManifests, HelmInstall).         *)
THEOREM ProvisionsAreWhole == Spec => []ProvisionIsWhole
<1>1. IInv => ProvisionIsWhole
  BY DEF IInv
<1> QED BY <1>1, InitIInv, IInvNext, PTL DEF Spec

(* A Deprovision that answers success left nothing but what it passed      *)
(* over: kubernetes' dropped errors, untracked documents, and releases in  *)
(* a namespace of the request's own (Deprovision, DeleteManifests).        *)
THEOREM DeprovisionsAreClean == Spec => []DeprovisionIsClean
<1>1. IInv => DeprovisionIsClean
  BY DEF IInv
<1> QED BY <1>1, InitIInv, IInvNext, PTL DEF Spec

-----------------------------------------------------------------------------
(* docker starts the services in order.                                    *)

\* The init services, the main ones and the sidecars, one list behind the other.
LEMMA RolesStarted ==
  ASSUME TypeOK
  PROVE  Started(OfRole("init") \o (OfRole("main") \o OfRole("sidecar")))
<1>1. PICK I, M, L, R :
         /\ I = OfRole("init") /\ M = OfRole("main") /\ L = OfRole("sidecar")
         /\ R = M \o L
  OBVIOUS
<1>2. PICK X, Y, Z : X = Mine("init") /\ Y = Mine("main") /\ Z = Mine("sidecar")
  OBVIOUS
<1>3. /\ I \in Seq(X) /\ Started(I)
      /\ M \in Seq(Y) /\ Started(M)
      /\ L \in Seq(Z) /\ Started(L)
  BY <1>1, <1>2, OfRoleStarted
<1>4. /\ \A a \in X : RoleOf[a] = "init"
      /\ \A a \in Y : RoleOf[a] = "main"
      /\ \A a \in Z : RoleOf[a] = "sidecar"
  BY <1>2 DEF Mine
<1>5. Phase["init"] = 1 /\ Phase["main"] = 2 /\ Phase["sidecar"] = 3
  BY DEF Phase
<1>6. /\ \A a \in Y, b \in Z : RoleOf[a] # RoleOf[b] /\ Phase[RoleOf[a]] <= Phase[RoleOf[b]]
      /\ \A a \in X, b \in Y \cup Z :
            RoleOf[a] # RoleOf[b] /\ Phase[RoleOf[a]] <= Phase[RoleOf[b]]
  BY <1>4, <1>5
<1>7. Started(R)
  <2>1. Started(M \o L)
    BY <1>3, <1>6, ConcatStarted
  <2> QED BY <1>1, <2>1
<1>8. R \in Seq(Y \cup Z)
  <2>1. M \in Seq(Y \cup Z) /\ L \in Seq(Y \cup Z)
    BY <1>3
  <2> QED BY <1>1, <2>1, ConcatRange
<1>9. Started(I \o R)
  <2>1. PICK W : W = Y \cup Z
    OBVIOUS
  <2>2. R \in Seq(W)
        /\ \A a \in X, b \in W : RoleOf[a] # RoleOf[b] /\ Phase[RoleOf[a]] <= Phase[RoleOf[b]]
    BY <1>6, <1>8, <2>1
  <2> QED BY <1>3, <1>7, <2>2, ConcatStarted
<1> QED BY <1>1, <1>9

LEMMA DockerOrders ==
  ASSUME TypeOK, NEW i \in DOMAIN DockerProvision, NEW j \in DOMAIN DockerProvision,
         i < j, DockerProvision[i].obj \in Services
  PROVE  /\ DockerProvision[j].obj \in Services
         /\ After(DockerProvision[i].obj, DockerProvision[j].obj, j = i + 1)
<1>1. PICK I, R, net, init, rest, front, all, w :
         /\ I = OfRole("init") /\ R = OfRole("main") \o OfRole("sidecar")
         /\ net = Do("apply", "network")
         /\ init = DoEach("runinit", I)
         /\ rest = DoEach("replace", R)
         /\ front = <<net>> \o init
         /\ all = front \o rest
         /\ w = I \o R
  OBVIOUS
<1>2. all = DockerProvision
  BY <1>1 DEF DockerProvision
<1>3. I \in Seq(Services) /\ R \in Seq(Services)
  <2>1. \A r : Mine(r) \subseteq Services
    BY DEF Mine
  <2>2. \A r : OfRole(r) \in Seq(Services)
    BY <2>1, OfRoleIs
  <2>3. PICK M, L : M = OfRole("main") /\ L = OfRole("sidecar")
    OBVIOUS
  <2>4. M \o L \in Seq(Services)
    BY <2>2, <2>3, ConcatRange
  <2> QED BY <1>1, <2>2, <2>3, <2>4
<1>4. PICK n, m : n = Len(I) /\ m = Len(R)
  OBVIOUS
<1>5. n \in Nat /\ m \in Nat
  BY <1>3, <1>4
<1>6. PICK C : C = {net} \cup {Do("runinit", s) : s \in Services} \cup {Do("replace", s) : s \in Services}
  OBVIOUS
<1>7. init \in Seq(C) /\ Len(init) = n /\ \A k \in 1 .. n : init[k].obj = I[k]
  <2>0. DoEach("runinit", I) = init /\ I \in Seq(Services)
    BY <1>1, <1>3
  <2>1. /\ Len(init) = n
        /\ \A k \in 1 .. n : init[k] = Do("runinit", I[k])
    BY <1>4, <2>0, DoEachIs
  <2>2. init \in Seq(C)
    <3>1. \A o \in Services : Do("runinit", o) \in C
      BY <1>6
    <3> QED BY <2>0, <3>1, DoEachIn
  <2> QED BY <2>1, <2>2 DEF Do
<1>8. rest \in Seq(C) /\ Len(rest) = m /\ \A k \in 1 .. m : rest[k].obj = R[k]
  <2>0. DoEach("replace", R) = rest /\ R \in Seq(Services)
    BY <1>1, <1>3
  <2>1. /\ Len(rest) = m
        /\ \A k \in 1 .. m : rest[k] = Do("replace", R[k])
    BY <1>4, <2>0, DoEachIs
  <2>2. rest \in Seq(C)
    <3>1. \A o \in Services : Do("replace", o) \in C
      BY <1>6
    <3> QED BY <2>0, <3>1, DoEachIn
  <2> QED BY <2>1, <2>2 DEF Do
<1>9. /\ front \in Seq(C) /\ Len(front) = n + 1 /\ front[1] = net
      /\ \A k \in 2 .. n + 1 : front[k] = init[k - 1]
  <2>1. PICK one : one = <<net>>
    OBVIOUS
  <2>2. one \in Seq(C) /\ Len(one) = 1 /\ one[1] = net
    BY <1>6, <2>1
  <2>3. /\ front \in Seq(C) /\ Len(front) = Len(one) + Len(init)
        /\ \A k \in 1 .. Len(one) + Len(init) :
              front[k] = IF k <= Len(one) THEN one[k] ELSE init[k - Len(one)]
    <3>1. front = one \o init
      BY <1>1, <2>1
    <3> QED BY <1>7, <2>2, <3>1, ConcatProperties
  <2> QED BY <1>5, <1>7, <2>2, <2>3
<1>10. /\ all \in Seq(C) /\ Len(all) = n + 1 + m
       /\ \A k \in 1 .. n + 1 + m :
             all[k] = IF k <= n + 1 THEN front[k] ELSE rest[k - (n + 1)]
  <2>1. /\ all \in Seq(C) /\ Len(all) = Len(front) + Len(rest)
        /\ \A k \in 1 .. Len(front) + Len(rest) :
              all[k] = IF k <= Len(front) THEN front[k] ELSE rest[k - Len(front)]
    BY <1>1, <1>8, <1>9, ConcatProperties
  <2> QED BY <1>5, <1>8, <1>9, <2>1
<1>11. /\ w \in Seq(Services) /\ Len(w) = n + m
       /\ \A k \in 1 .. n + m : w[k] = IF k <= n THEN I[k] ELSE R[k - n]
  BY <1>1, <1>3, <1>4, ConcatProperties
<1>12. ASSUME NEW k \in 2 .. n + 1 + m PROVE all[k].obj = w[k - 1] /\ k - 1 \in 1 .. n + m
  <2>1. k \in 1 .. n + 1 + m /\ k - 1 \in 1 .. n + m
    BY <1>5
  <2>2. CASE k <= n + 1
    <3>1. k \in 2 .. n + 1 /\ k - 1 \in 1 .. n /\ k - 1 <= n
      BY <1>5, <2>2
    <3>2. all[k] = init[k - 1] /\ w[k - 1] = I[k - 1]
      BY <1>9, <1>10, <1>11, <2>1, <3>1
    <3> QED BY <1>7, <2>1, <3>1, <3>2
  <2>3. CASE ~(k <= n + 1)
    <3>1. k - (n + 1) \in 1 .. m /\ ~(k - 1 <= n) /\ (k - 1) - n = k - (n + 1)
      BY <1>5, <2>3
    <3>2. all[k] = rest[k - (n + 1)] /\ w[k - 1] = R[k - (n + 1)]
      BY <1>10, <1>11, <2>1, <2>3, <3>1
    <3> QED BY <1>8, <2>1, <3>1, <3>2
  <2> QED BY <2>2, <2>3
<1>13. DOMAIN all = 1 .. n + 1 + m /\ DOMAIN w = 1 .. n + m
  BY <1>10, <1>11
<1>14. i # 1
  <2>1. all[1].obj = "network"
    <3>1. all[1] = net
      BY <1>5, <1>9, <1>10
    <3> QED BY <1>1, <3>1 DEF Do
  <2> QED BY <1>2, <2>1, ProvidersAssumption
<1>15. i \in 2 .. n + 1 + m /\ j \in 2 .. n + 1 + m
  <2>1. i \in 1 .. n + 1 + m /\ j \in 1 .. n + 1 + m
    BY <1>2, <1>13
  <2> QED BY <1>5, <1>14, <2>1
<1>16. /\ all[i].obj = w[i - 1] /\ i - 1 \in 1 .. Len(w)
       /\ all[j].obj = w[j - 1] /\ j - 1 \in 1 .. Len(w)
  BY <1>11, <1>12, <1>15
<1>17. Started(w)
  BY <1>1, RolesStarted
<1>18. After(w[i - 1], w[j - 1], j = i + 1)
  <2>1. i - 1 < j - 1 /\ (j - 1 = (i - 1) + 1) = (j = i + 1)
    BY <1>5, <1>15
  <2>2. After(w[i - 1], w[j - 1], j - 1 = (i - 1) + 1)
    BY <1>16, <1>17, <2>1 DEF Started
  <2> QED BY <2>1, <2>2
<1>19. w[j - 1] \in Services
  BY <1>11, <1>16
<1> QED BY <1>2, <1>16, <1>18, <1>19

OrderInv == IInv /\ StartsInOrder

LEMMA OrderNext ==
  ASSUME OrderInv, [Next]_vars
  PROVE  OrderInv'
<1>1. IInv /\ IInv'
  BY IInvNext DEF OrderInv
<1>9. spec' = spec => ListedInOrder' = ListedInOrder
  BY DEF ListedInOrder
<1>2. ASSUME NEW v \in Verbs, Begin(v) PROVE StartsInOrder'
  <2>1. PICK request \in Requests(v) :
           call' = [verb |-> v, todo |-> Calls(v, request), failed |-> FALSE]
    BY <1>2 DEF Begin
  <2>2. call'.verb = v /\ call'.todo = Calls(v, request) /\ UNCHANGED <<engine, spec>>
    BY <1>2, <2>1 DEF Begin
  <2> SUFFICES ASSUME engine = "docker", v = "Provision" PROVE StartsInOrder'
    BY <2>2 DEF StartsInOrder
  <2>3. call'.todo = DockerProvision
    BY <2>2 DEF Calls, DockerVerb, Kubernetes
  <2>4. \A i, j \in DOMAIN DockerProvision :
           i < j /\ DockerProvision[i].obj \in Services =>
              /\ DockerProvision[j].obj \in Services
              /\ After(DockerProvision[i].obj, DockerProvision[j].obj, j = i + 1)
    BY <1>1, DockerOrders DEF IInv
  <2>5. PICK t : t = DockerProvision
    OBVIOUS
  <2>6. \A i, j \in DOMAIN t : i < j /\ t[i].obj \in Services =>
           t[j].obj \in Services /\ After(t[i].obj, t[j].obj, j = i + 1)
    BY <2>4, <2>5, Zenon
  <2> QED BY <1>9, <2>2, <2>3, <2>5, <2>6 DEF StartsInOrder, After
<1>3. ASSUME NEW bad \in BOOLEAN, Perform(bad) PROVE StartsInOrder'
  <2>1. PICK error :
           /\ call # None /\ call.todo # <<>>
           /\ \/ call' = None
              \/ call' = [verb |-> call.verb, todo |-> Tail(call.todo), failed |-> error]
           /\ UNCHANGED <<engine, spec>>
    BY <1>1, <1>3, PerformParts DEF IInv
  <2> SUFFICES ASSUME engine = "docker", call' # None, call'.verb = "Provision"
               PROVE StartsInOrder'
    BY <2>1 DEF StartsInOrder
  <2>2. call.verb = "Provision" /\ call'.todo = Tail(call.todo)
    <3>1. call' = [verb |-> call.verb, todo |-> Tail(call.todo), failed |-> error]
      BY <2>1, Zenon
    <3> QED BY <3>1
  <2>3. PICK t, u : t = call.todo /\ u = Tail(t)
    OBVIOUS
  <2>4. t \in Seq(Building(engine)) /\ t # <<>>
    BY <1>1, <2>1, <2>2, <2>3 DEF IInv, BuildingOn
  <2>5. ASSUME NEW i \in DOMAIN u
        PROVE  i \in Int /\ i + 1 \in DOMAIN t /\ u[i] = t[i + 1]
    BY <2>3, <2>4
  <2>6. ASSUME NEW i \in DOMAIN u, NEW j \in DOMAIN u, i < j, u[i].obj \in Services
        PROVE  u[j].obj \in Services /\ After(u[i].obj, u[j].obj, j = i + 1)
    <3>1. i + 1 < j + 1 /\ i + 1 \in DOMAIN t /\ j + 1 \in DOMAIN t
          /\ (j + 1 = (i + 1) + 1) = (j = i + 1)
      BY <2>5, <2>6
    <3>2. u[i] = t[i + 1] /\ u[j] = t[j + 1]
      BY <2>5
    <3>3. t[i + 1].obj \in Services =>
             t[j + 1].obj \in Services /\ After(t[i + 1].obj, t[j + 1].obj, j + 1 = (i + 1) + 1)
      BY <2>1, <2>2, <2>3, <3>1 DEF OrderInv, StartsInOrder, After
    <3> QED BY <2>6, <3>1, <3>2, <3>3
  <2> QED BY <1>9, <2>1, <2>2, <2>3, <2>6 DEF StartsInOrder, After
<1>4. call' = None => StartsInOrder'
  BY DEF StartsInOrder
<1>5. engine' = engine /\ spec' = spec /\ call' = call => StartsInOrder'
  <2> SUFFICES ASSUME engine' = engine, spec' = spec, call' = call PROVE StartsInOrder'
    OBVIOUS
  <2>1. StartsInOrder
    BY DEF OrderInv
  <2> QED BY <1>9, <2>1 DEF StartsInOrder
<1>6. ASSUME Return \/ Crash \/ \E v \in {"Provision", "Deprovision"} : Insist(v)
      PROVE  StartsInOrder'
  <2>1. call' = None \/ (engine' = engine /\ spec' = spec /\ call' = call)
    BY <1>6, Zenon DEF Return, Ended, Crash, Insist
  <2> QED BY <1>4, <1>5, <2>1, Zenon
<1>7. UNCHANGED vars => StartsInOrder'
  BY <1>5, Zenon DEF vars
<1>8. StartsInOrder'
  <2>1. \/ \E v \in Verbs : Begin(v)
        \/ \E bad \in BOOLEAN : Perform(bad)
        \/ Return \/ Crash \/ \E v \in {"Provision", "Deprovision"} : Insist(v)
        \/ UNCHANGED vars
    BY Zenon DEF Next, Step, Rest
  <2> QED BY <1>2, <1>3, <1>6, <1>7, <2>1, Zenon
<1> QED BY <1>1, <1>8 DEF OrderInv

(* For any services and dependencies docker starts the roles one after the *)
(* other, keeps an order of the request's own that is right, and leaves no *)
(* neighbour right before one it depends on that does not depend on it     *)
(* (provisionProject, classifyServices, sortByDeps).                       *)
THEOREM ServicesStartInOrder == Spec => []StartsInOrder
<1>1. Init => OrderInv
  BY InitIInv DEF Init, OrderInv, StartsInOrder
<1>2. OrderInv /\ [Next]_vars => OrderInv'
  BY OrderNext
<1>3. OrderInv => StartsInOrder
  BY DEF OrderInv
<1> QED BY <1>1, <1>2, <1>3, PTL DEF Spec
=============================================================================
