------------------------------ MODULE ListsProofs ------------------------------
(***************************************************************************)
(* What the code sorts, filters and joins.  The first part is about lists: *)
(* one that is built an element at a time, the concatenation of a list of  *)
(* lists, and the sorted list of a finite set.  On these rest the proofs   *)
(* about a search of the vector stores (Search), about the assembly of an  *)
(* agent from the plugins (Assembly), about what the model is sent of the  *)
(* history of a session (History), and about what a client shows of a      *)
(* reply (Reply).                                                          *)
(***************************************************************************)
EXTENDS Lists, Integers, FiniteSetTheorems, TLAPS

CONSTANTS
    Bases, Scores, SearchedChunks,
    Plugins, ToolNames, HookList, SkillPaths, Skills, ToolLists, MaxBuilds,
    MaxRows, HistoryCalls, MaxSteps, HistoryLimit, PageLimit,
    MaxPieces, ReplyCalls, MaxDropped

VARIABLES
    index, lost,
    harnessDisk, builds, built, toolPool, hooks, found, enabled, offered,
    agent, ran,
    histRows, called,
    sent, reply, partOf, stage, events, read, message, dropped

Retrieval == INSTANCE Search WITH MaxChunks <- SearchedChunks
Harness == INSTANCE Assembly WITH Paths <- SkillPaths, disk <- harnessDisk
Context == INSTANCE History WITH MaxCalls <- HistoryCalls, rows <- histRows
Rendering == INSTANCE Reply WITH MaxCalls <- ReplyCalls

-----------------------------------------------------------------------------
(* Induction, and lists that are made one element at a time.               *)

LEMMA LeastNatural ==
  ASSUME NEW T \in SUBSET Nat, T # {}
  PROVE  \E x \in T : \A y \in T : x <= y
<1>1. IsWellFoundedOn({r \in Nat \X Nat : r[1] < r[2]}, Nat)
  BY NatLessThanWellFounded DEF OpToRel
<1>2. PICK x \in T : \A y \in T : <<y, x>> \notin {r \in Nat \X Nat : r[1] < r[2]}
  BY <1>1, WFMin
<1>3. ASSUME NEW y \in T PROVE x <= y
  <2>1. <<y, x>> \in Nat \X Nat /\ x \in Nat /\ y \in Nat
    OBVIOUS
  <2>2. ~(y < x)
    BY <1>2, <2>1
  <2>3. QED
    BY <2>1, <2>2
<1>4. QED
  BY <1>3

(* A set that has zero and the successor of each of its numbers has all.   *)
LEMMA Induction ==
  ASSUME NEW T, 0 \in T, \A k \in Nat : k \in T => k + 1 \in T
  PROVE  \A k \in Nat : k \in T
<1> DEFINE U == {k \in Nat : k \notin T}
<1> SUFFICES ASSUME U # {} PROVE FALSE
  OBVIOUS
<1>1. PICK x \in U : \A y \in U : x <= y
  BY LeastNatural
<1>2. x \in Nat /\ x # 0
  OBVIOUS
<1>3. x - 1 \in Nat /\ x - 1 \notin U
  BY <1>1, <1>2
<1>4. (x - 1) + 1 \in T
  BY <1>2, <1>3
<1>5. QED
  BY <1>2, <1>4

LEMMA FunctionIsList ==
  ASSUME NEW S, NEW n \in Nat, NEW f \in [1 .. n -> S]
  PROVE  f \in Seq(S) /\ Len(f) = n
OBVIOUS

(* A function that is defined by recursion over 0 .. n exists.             *)
StepOf(G, n, S) == G \in [(1 .. n) \X S -> S]
IsRecursive(f, S, e, n, G) ==
    /\ f \in [0 .. n -> S]
    /\ f[0] = e /\ \A k \in 1 .. n : f[k] = G[<<k, f[k - 1]>>]

LEMMA Recursion ==
  ASSUME NEW S, NEW e \in S, NEW n \in Nat, NEW G, StepOf(G, n, S)
  PROVE  \E f : IsRecursive(f, S, e, n, G)
<1> DEFINE Upto(m) == \E f \in [0 .. m -> S] :
              f[0] = e /\ \A k \in 1 .. m : f[k] = G[<<k, f[k - 1]>>]
           T == {m \in Nat : m <= n => Upto(m)}
<1>1. 0 \in T
  <2>1. PICK f \in [0 .. 0 -> S] : f = [k \in 0 .. 0 |-> e]
    OBVIOUS
  <2>2. f[0] = e /\ \A k \in 1 .. 0 : FALSE
    BY <2>1
  <2>3. Upto(0)
    BY <2>2
  <2>4. QED
    BY <2>3
<1>2. ASSUME NEW m \in Nat, m \in T PROVE m + 1 \in T
  <2> SUFFICES ASSUME m + 1 <= n PROVE Upto(m + 1)
    OBVIOUS
  <2>1. PICK f \in [0 .. m -> S] :
              f[0] = e /\ \A k \in 1 .. m : f[k] = G[<<k, f[k - 1]>>]
    BY <1>2
  <2>2. m + 1 \in 1 .. n /\ m \in 0 .. m
    OBVIOUS
  <2>3. PICK x \in S : x = G[<<m + 1, f[m]>>]
    BY <2>2 DEF StepOf
  <2>4. PICK g : g = [k \in 0 .. m + 1 |-> IF k = m + 1 THEN x ELSE f[k]]
    OBVIOUS
  <2>5. g \in [0 .. m + 1 -> S]
    BY <2>4
  <2>6. g[0] = e
    BY <2>1, <2>4
  <2>7. ASSUME NEW k \in 1 .. m + 1 PROVE g[k] = G[<<k, g[k - 1]>>]
    <3>1. k - 1 \in 0 .. m /\ g[k - 1] = f[k - 1]
      BY <2>4
    <3>2. CASE k = m + 1
      <4>1. g[k] = x /\ k - 1 = m
        BY <2>4, <3>2
      <4>2. QED
        BY <2>3, <3>1, <3>2, <4>1
    <3>3. CASE k # m + 1
      <4>1. k \in 1 .. m /\ g[k] = f[k]
        BY <2>4, <3>3
      <4>2. QED
        BY <2>1, <3>1, <4>1
    <3>4. QED
      BY <3>2, <3>3
  <2>8. QED
    BY <2>5, <2>6, <2>7
<1>3. n \in T
  BY <1>1, <1>2, Induction
<1>4. Upto(n)
  BY <1>3
<1>5. QED
  BY <1>4 DEF IsRecursive

(* Lists of lists, put one behind the other.                               *)
Joins(f, ss) ==
    /\ f = [k \in 0 .. Len(ss) |-> f[k]]
    /\ f[0] = <<>>
    /\ \A k \in 1 .. Len(ss) : f[k] = f[k - 1] \o ss[k]

LEMMA JoinsExists ==
  ASSUME NEW S, NEW ss \in Seq(Seq(S))
  PROVE  \E f \in [0 .. Len(ss) -> Seq(S)] : Joins(f, ss)
<1>1. PICK Q, e, n : Q = Seq(S) /\ e = <<>> /\ n = Len(ss)
  OBVIOUS
<1>2. e \in Q /\ n \in Nat
  BY <1>1
<1>3. PICK G : G = [p \in (1 .. n) \X Q |-> p[2] \o ss[p[1]]]
  OBVIOUS
<1>4. ASSUME NEW p \in (1 .. n) \X Q PROVE p[2] \o ss[p[1]] \in Q
  <2>1. p[1] \in 1 .. n /\ p[2] \in Seq(S)
    BY <1>1
  <2>2. ss[p[1]] \in Seq(S)
    BY <1>1, <2>1
  <2>3. QED
    BY <1>1, <2>1, <2>2
<1>5. StepOf(G, n, Q)
  BY <1>3, <1>4 DEF StepOf
<1>6. PICK f \in [0 .. n -> Q] : f[0] = e /\ \A k \in 1 .. n : f[k] = G[<<k, f[k - 1]>>]
  <2>1. PICK f : IsRecursive(f, Q, e, n, G)
    BY <1>2, <1>5, Recursion
  <2>2. QED
    BY <2>1 DEF IsRecursive
<1>7. ASSUME NEW k \in 1 .. n PROVE f[k] = f[k - 1] \o ss[k]
  <2>1. k - 1 \in 0 .. n
    BY <1>2
  <2>2. <<k, f[k - 1]>> \in (1 .. n) \X Q
    BY <2>1
  <2>3. QED
    BY <1>3, <1>6, <2>2
<1>8. f = [k \in 0 .. n |-> f[k]]
  OBVIOUS
<1>9. Joins(f, ss)
  BY <1>1, <1>6, <1>7, <1>8 DEF Joins
<1>10. QED
  BY <1>1, <1>9

(* The same as the operator of the community modules.                      *)
LEMMA FlattenIsJoin ==
  ASSUME NEW S, NEW ss \in Seq(Seq(S))
  PROVE  \E f \in [0 .. Len(ss) -> Seq(S)] : Joins(f, ss) /\ FlattenSeq(ss) = f[Len(ss)]
<1>1. PICK f \in [0 .. Len(ss) -> Seq(S)] : Joins(f, ss)
  BY JoinsExists
<1>2. Len(ss) \in Nat
  OBVIOUS
<1>3. CASE Len(ss) = 0
  <2>1. FlattenSeq(ss) = <<>>
    BY <1>3 DEF FlattenSeq
  <2>2. QED
    BY <1>1, <1>3, <2>1 DEF Joins
<1>4. CASE Len(ss) # 0
  <2>1. PICK g : g = [k \in 1 .. Len(ss) |-> f[k]]
    OBVIOUS
  <2>2. ASSUME NEW k \in 1 .. Len(ss)
        PROVE  g[k] = IF k = 1 THEN ss[k] ELSE g[k - 1] \o ss[k]
    <3>0. ss[k] \in Seq(S)
      OBVIOUS
    <3>1. f[k] = f[k - 1] \o ss[k] /\ ss[k] \in Seq(S)
      BY <1>1, <3>0 DEF Joins
    <3>2. CASE k = 1
      <4>1. f[k - 1] = <<>>
        BY <1>1, <3>2 DEF Joins
      <4>2. <<>> \o ss[k] = ss[k]
        BY <3>1
      <4>3. QED
        BY <2>1, <3>1, <3>2, <4>1, <4>2
    <3>3. CASE k # 1
      <4>1. k - 1 \in 1 .. Len(ss)
        BY <3>3
      <4>2. QED
        BY <2>1, <3>1, <3>3, <4>1
    <3>4. QED
      BY <3>2, <3>3
  <2>3. g = [k \in 1 .. Len(ss) |-> IF k = 1 THEN ss[k] ELSE g[k - 1] \o ss[k]]
    BY <2>1, <2>2
  <2>4. PICK h : /\ h = [k \in 1 .. Len(ss) |-> IF k = 1 THEN ss[k] ELSE h[k - 1] \o ss[k]]
                 /\ FlattenSeq(ss) = h[Len(ss)]
    BY <1>4, <2>3 DEF FlattenSeq
  <2> DEFINE U == {k \in Nat : k + 1 <= Len(ss) => h[k + 1] = f[k + 1]}
  <2>5. 0 \in U
    <3>1. 1 \in 1 .. Len(ss)
      BY <1>2, <1>4
    <3>2. h[1] = ss[1]
      BY <2>4, <3>1
    <3>3. g[1] = ss[1] /\ g[1] = f[1]
      BY <2>1, <2>2, <3>1
    <3>4. QED
      BY <3>2, <3>3
  <2>6. ASSUME NEW k \in Nat, k \in U PROVE k + 1 \in U
    <3> SUFFICES ASSUME (k + 1) + 1 <= Len(ss) PROVE h[(k + 1) + 1] = f[(k + 1) + 1]
      OBVIOUS
    <3>1. PICK m \in 1 .. Len(ss) : m = (k + 1) + 1 /\ m # 1 /\ m - 1 = k + 1
      BY <1>2
    <3>2. h[m] = h[m - 1] \o ss[m]
      BY <2>4, <3>1
    <3>3. f[m] = f[m - 1] \o ss[m]
      BY <1>1 DEF Joins
    <3>4. h[m - 1] = f[m - 1]
      BY <1>2, <2>6, <3>1
    <3>5. QED
      BY <3>1, <3>2, <3>3, <3>4
  <2>7. \A k \in Nat : k \in U
    BY <2>5, <2>6, Induction
  <2>8. PICK k \in Nat : k + 1 = Len(ss)
    <3>1. Len(ss) - 1 \in Nat /\ (Len(ss) - 1) + 1 = Len(ss)
      BY <1>2, <1>4
    <3>2. QED
      BY <3>1
  <2>9. h[Len(ss)] = f[Len(ss)]
    BY <2>7, <2>8
  <2>10. QED
    BY <1>1, <2>4, <2>9
<1>5. QED
  BY <1>3, <1>4

(* f[n] is what the first n lists come to, put one behind the other.       *)
JoinedUpTo(f, ss, S) ==
    /\ f[0] = <<>> /\ f[Len(ss)] = FlattenSeq(ss)
    /\ f[Len(ss)] \in Seq(S)
    /\ \A k \in Nat : k + 1 <= Len(ss) =>
          /\ f[k] \in Seq(S) /\ ss[k + 1] \in Seq(S)
          /\ f[k + 1] = f[k] \o ss[k + 1]
          /\ k + 1 \in 1 .. Len(ss)

LEMMA JoinedExists ==
  ASSUME NEW S, NEW ss \in Seq(Seq(S))
  PROVE  \E f : JoinedUpTo(f, ss, S)
<1>1. PICK f \in [0 .. Len(ss) -> Seq(S)] : Joins(f, ss) /\ FlattenSeq(ss) = f[Len(ss)]
  BY FlattenIsJoin
<1>2. Len(ss) \in 0 .. Len(ss)
  OBVIOUS
<1>3. ASSUME NEW k \in Nat, k + 1 <= Len(ss)
      PROVE  /\ f[k] \in Seq(S) /\ ss[k + 1] \in Seq(S)
             /\ f[k + 1] = f[k] \o ss[k + 1]
             /\ k + 1 \in 1 .. Len(ss)
  <2>1. PICK m : m = k + 1
    OBVIOUS
  <2>2. m \in 1 .. Len(ss) /\ k \in 0 .. Len(ss) /\ m - 1 = k
    BY <1>3, <2>1
  <2>3. f[m] = f[m - 1] \o ss[m]
    BY <1>1, <2>2 DEF Joins
  <2>4. f[k] \in Seq(S)
    BY <2>2
  <2>5. ss[m] \in Seq(S)
    BY <2>2
  <2>6. QED
    BY <2>1, <2>2, <2>3, <2>4, <2>5
<1>4. f[0] = <<>>
  BY <1>1 DEF Joins
<1>5. f[Len(ss)] \in Seq(S)
  BY <1>2
<1>6. QED
  BY <1>1, <1>3, <1>4, <1>5 DEF JoinedUpTo

LEMMA FlattenType ==
  ASSUME NEW S, NEW ss \in Seq(Seq(S))
  PROVE  FlattenSeq(ss) \in Seq(S)
BY JoinedExists DEF JoinedUpTo

(* The elements of a list.                                                 *)
ElementsOf(s) == {s[j] : j \in 1 .. Len(s)}

LEMMA ConcatHas ==
  ASSUME NEW S, NEW p \in Seq(S), NEW q \in Seq(S)
  PROVE  ElementsOf(p \o q) = ElementsOf(p) \cup ElementsOf(q)
<1>1. PICK r : r = p \o q
  OBVIOUS
<1>2. /\ Len(r) = Len(p) + Len(q) /\ Len(p) \in Nat /\ Len(q) \in Nat
      /\ \A j \in 1 .. Len(p) : r[j] = p[j]
      /\ \A j \in 1 .. Len(q) : r[Len(p) + j] = q[j]
  BY <1>1
<1>3. ASSUME NEW x \in ElementsOf(r) PROVE x \in ElementsOf(p) \cup ElementsOf(q)
  <2>1. PICK j \in 1 .. Len(r) : x = r[j]
    BY DEF ElementsOf
  <2>2. CASE j <= Len(p)
    <3>1. j \in 1 .. Len(p)
      BY <1>2, <2>2
    <3>2. QED
      BY <1>2, <2>1, <3>1 DEF ElementsOf
  <2>3. CASE ~(j <= Len(p))
    <3>1. PICK i : i = j - Len(p)
      OBVIOUS
    <3>2. i \in 1 .. Len(q) /\ j = Len(p) + i
      BY <1>2, <2>3, <3>1
    <3>3. QED
      BY <1>2, <2>1, <3>2 DEF ElementsOf
  <2>4. QED
    BY <2>2, <2>3
<1>4. ASSUME NEW x \in ElementsOf(p) PROVE x \in ElementsOf(r)
  <2>1. PICK j \in 1 .. Len(p) : x = p[j]
    BY DEF ElementsOf
  <2>2. j \in 1 .. Len(r) /\ r[j] = x
    BY <1>2, <2>1
  <2>3. QED
    BY <2>2 DEF ElementsOf
<1>5. ASSUME NEW x \in ElementsOf(q) PROVE x \in ElementsOf(r)
  <2>1. PICK j \in 1 .. Len(q) : x = q[j]
    BY DEF ElementsOf
  <2>2. Len(p) + j \in 1 .. Len(r) /\ r[Len(p) + j] = x
    BY <1>2, <2>1
  <2>3. QED
    BY <2>2 DEF ElementsOf
<1>6. QED
  BY <1>1, <1>3, <1>4, <1>5

LEMMA FlattenHas ==
  ASSUME NEW S, NEW ss \in Seq(Seq(S))
  PROVE  ElementsOf(FlattenSeq(ss)) = UNION {ElementsOf(ss[k]) : k \in 1 .. Len(ss)}
<1>1. PICK f : JoinedUpTo(f, ss, S)
  BY JoinedExists
<1> DEFINE First(n) == UNION {ElementsOf(ss[k]) : k \in 1 .. n}
           U == {n \in Nat : n <= Len(ss) => ElementsOf(f[n]) = First(n)}
<1>2. ElementsOf(f[0]) = {}
  <2>1. PICK e : e = f[0] /\ e = <<>>
    BY <1>1 DEF JoinedUpTo
  <2>2. ElementsOf(e) = {}
    BY <2>1 DEF ElementsOf
  <2>3. QED
    BY <2>1, <2>2
<1>3. First(0) = {}
  OBVIOUS
<1>4. ASSUME NEW n \in Nat PROVE First(n + 1) = First(n) \cup ElementsOf(ss[n + 1])
  <2>1. 1 .. n + 1 = (1 .. n) \cup {n + 1}
    OBVIOUS
  <2>2. QED
    BY <2>1
<1> HIDE DEF First
<1>5. 0 \in U
  BY <1>2, <1>3
<1>6. \A k \in Nat : k + 1 <= Len(ss) =>
         f[k] \in Seq(S) /\ ss[k + 1] \in Seq(S) /\ f[k + 1] = f[k] \o ss[k + 1]
  BY <1>1 DEF JoinedUpTo
<1>7. ASSUME NEW n \in Nat, n \in U, n + 1 <= Len(ss)
      PROVE  ElementsOf(f[n + 1]) = First(n + 1)
  <2>1. Len(ss) \in Nat
    OBVIOUS
  <2>2. n <= Len(ss)
    BY <1>7, <2>1
  <2>3. ElementsOf(f[n]) = First(n)
    BY <1>7, <2>2
  <2>4. /\ f[n] \in Seq(S) /\ ss[n + 1] \in Seq(S)
        /\ f[n + 1] = f[n] \o ss[n + 1]
    BY <1>6, <1>7
  <2>5. ElementsOf(f[n + 1]) = ElementsOf(f[n]) \cup ElementsOf(ss[n + 1])
    BY <2>4, ConcatHas
  <2>6. QED
    BY <1>4, <2>3, <2>5
<1>8. ASSUME NEW n \in Nat, n \in U PROVE n + 1 \in U
  BY <1>7, <1>8
<1>9. \A n \in Nat : n \in U
  <2> HIDE DEF U
  <2>1. QED
    BY <1>5, <1>8, Induction
<1>10. Len(ss) \in Nat /\ Len(ss) <= Len(ss)
  OBVIOUS
<1>11. ElementsOf(f[Len(ss)]) = First(Len(ss))
  BY <1>9, <1>10
<1>12. QED
  BY <1>1, <1>11 DEF First, JoinedUpTo

LEMMA FlattenConcat ==
  ASSUME NEW S, NEW u \in Seq(Seq(S)), NEW v \in Seq(Seq(S))
  PROVE  FlattenSeq(u \o v) = FlattenSeq(u) \o FlattenSeq(v)
<1>1. PICK w : w = u \o v
  OBVIOUS
<1>2. /\ w \in Seq(Seq(S)) /\ Len(w) = Len(u) + Len(v)
      /\ Len(u) \in Nat /\ Len(v) \in Nat
      /\ \A k \in 1 .. Len(u) : w[k] = u[k]
      /\ \A k \in 1 .. Len(v) : w[Len(u) + k] = v[k]
  BY <1>1
<1>3. PICK f : JoinedUpTo(f, u, S)
  BY JoinedExists
<1>4. PICK g : JoinedUpTo(g, v, S)
  BY JoinedExists
<1>5. PICK h : JoinedUpTo(h, w, S)
  BY <1>2, JoinedExists
<1>6. f[0] = <<>> /\ g[0] = <<>> /\ h[0] = <<>>
  BY <1>3, <1>4, <1>5 DEF JoinedUpTo
<1>7. \A k \in Nat : k + 1 <= Len(u) =>
          f[k + 1] = f[k] \o u[k + 1] /\ k + 1 \in 1 .. Len(u)
  BY <1>3 DEF JoinedUpTo
<1>8. \A k \in Nat : k + 1 <= Len(v) =>
          /\ g[k] \in Seq(S) /\ v[k + 1] \in Seq(S)
          /\ g[k + 1] = g[k] \o v[k + 1] /\ k + 1 \in 1 .. Len(v)
  BY <1>4 DEF JoinedUpTo
<1>9. \A k \in Nat : k + 1 <= Len(w) => h[k + 1] = h[k] \o w[k + 1]
  BY <1>5 DEF JoinedUpTo
<1> DEFINE U == {n \in Nat : n <= Len(u) => h[n] = f[n]}
<1>10. 0 \in U
  BY <1>6
<1>11. ASSUME NEW n \in Nat, n \in U, n + 1 <= Len(u) PROVE h[n + 1] = f[n + 1]
  <2>1. f[n + 1] = f[n] \o u[n + 1] /\ n + 1 \in 1 .. Len(u)
    BY <1>11, <1>7
  <2>2. n + 1 <= Len(w) /\ n <= Len(u)
    BY <1>2, <1>11
  <2>3. h[n + 1] = h[n] \o w[n + 1]
    BY <1>9, <2>2
  <2>4. h[n] = f[n]
    BY <1>11, <2>2
  <2>5. w[n + 1] = u[n + 1]
    BY <1>2, <2>1
  <2>6. QED
    BY <2>1, <2>3, <2>4, <2>5
<1>12. ASSUME NEW n \in Nat, n \in U PROVE n + 1 \in U
  BY <1>11, <1>12
<1>13. \A n \in Nat : n \in U
  <2> HIDE DEF U
  <2>1. QED
    BY <1>10, <1>12, Induction
<1>14. h[Len(u)] = f[Len(u)] /\ f[Len(u)] \in Seq(S)
  <2>1. Len(u) <= Len(u) /\ Len(u) \in 0 .. Len(u)
    BY <1>2
  <2>2. h[Len(u)] = f[Len(u)]
    BY <1>2, <1>13, <2>1
  <2>3. QED
    BY <1>3, <2>1, <2>2 DEF JoinedUpTo
<1> HIDE DEF U
<1>15. PICK a \in Nat, p \in Seq(S) : a = Len(u) /\ p = f[Len(u)]
  BY <1>2, <1>14
<1> DEFINE Right(n) == h[a + n] = p \o g[n]
           V == {n \in Nat : n <= Len(v) => Right(n)}
<1>16. Right(0)
  <2>1. a + 0 = a /\ p \o <<>> = p
    OBVIOUS
  <2>2. QED
    BY <1>6, <1>14, <1>15, <2>1
<1>17. ASSUME NEW n \in Nat, n \in V, n + 1 <= Len(v)
       PROVE  Right(n + 1)
  <2>1. /\ g[n] \in Seq(S) /\ v[n + 1] \in Seq(S)
        /\ g[n + 1] = g[n] \o v[n + 1] /\ n + 1 \in 1 .. Len(v)
    BY <1>17, <1>8
  <2>2. PICK m \in Nat : m = a + n
    OBVIOUS
  <2>3. m + 1 = a + (n + 1) /\ m + 1 <= Len(w)
    BY <1>2, <1>17, <1>15, <2>2
  <2>4. h[m + 1] = h[m] \o w[m + 1]
    BY <1>9, <2>3
  <2>5. w[m + 1] = v[n + 1]
    BY <1>2, <1>15, <2>1, <2>3
  <2>6. h[m] = p \o g[n]
    <3>1. n <= Len(v)
      BY <1>2, <1>17
    <3>2. QED
      BY <1>17, <2>2, <3>1
  <2>7. PICK b, c : b = g[n] /\ c = v[n + 1]
    OBVIOUS
  <2>8. b \in Seq(S) /\ c \in Seq(S)
    BY <2>1, <2>7
  <2>9. (p \o b) \o c = p \o (b \o c)
    BY <2>8
  <2>10. QED
    BY <2>1, <2>3, <2>4, <2>5, <2>6, <2>7, <2>9
<1> HIDE DEF Right
<1>18. ASSUME NEW n \in Nat, n \in V PROVE n + 1 \in V
  BY <1>17, <1>18
<1>19. 0 \in V
  BY <1>16
<1>20. \A n \in Nat : n \in V
  <2> HIDE DEF V
  <2>1. QED
    BY <1>18, <1>19, Induction
<1>21. Len(v) \in Nat /\ Len(v) <= Len(v)
  BY <1>2
<1>22. h[Len(u) + Len(v)] = f[Len(u)] \o g[Len(v)]
  BY <1>15, <1>20, <1>21 DEF Right
<1>23. QED
  BY <1>1, <1>2, <1>3, <1>4, <1>5, <1>22 DEF JoinedUpTo

LEMMA FlattenOne ==
  ASSUME NEW S, NEW p \in Seq(S)
  PROVE  FlattenSeq(<<p>>) = p
<1>1. PICK ss : ss = <<p>>
  OBVIOUS
<1>2. ss \in Seq(Seq(S)) /\ Len(ss) = 1 /\ ss[1] = p /\ <<>> \o p = p
  BY <1>1
<1>3. PICK f : JoinedUpTo(f, ss, S)
  BY <1>2, JoinedExists
<1>4. f[0] = <<>> /\ f[1] = FlattenSeq(ss)
  BY <1>2, <1>3 DEF JoinedUpTo
<1>5. 0 \in Nat /\ 0 + 1 = 1 /\ 0 + 1 <= Len(ss)
  BY <1>2
<1>6. f[0 + 1] = f[0] \o ss[0 + 1]
  BY <1>3, <1>5 DEF JoinedUpTo
<1>7. QED
  BY <1>1, <1>2, <1>4, <1>5, <1>6

(* Two lists of one length, each element of one related to that of the     *)
(* other at its place.                                                     *)
Alike(s, t, R) == Len(s) = Len(t) /\ \A k \in 1 .. Len(s) : <<s[k], t[k]>> \in R

LEMMA ConcatAlike ==
  ASSUME NEW S, NEW T, NEW R, NEW p \in Seq(S), NEW q \in Seq(S),
         NEW x \in Seq(T), NEW y \in Seq(T), Alike(p, x, R), Alike(q, y, R)
  PROVE  Alike(p \o q, x \o y, R)
<1>1. PICK r, z : r = p \o q /\ z = x \o y
  OBVIOUS
<1>2. /\ Len(r) = Len(p) + Len(q) /\ Len(p) \in Nat /\ Len(q) \in Nat
      /\ \A j \in 1 .. Len(p) : r[j] = p[j]
      /\ \A j \in 1 .. Len(q) : r[Len(p) + j] = q[j]
  BY <1>1
<1>3. /\ Len(z) = Len(p) + Len(q)
      /\ \A j \in 1 .. Len(p) : z[j] = x[j]
      /\ \A j \in 1 .. Len(q) : z[Len(p) + j] = y[j]
  BY <1>1 DEF Alike
<1>4. ASSUME NEW k \in 1 .. Len(r) PROVE <<r[k], z[k]>> \in R
  <2>1. CASE k <= Len(p)
    <3>1. k \in 1 .. Len(p)
      BY <1>2, <2>1
    <3>2. QED
      BY <1>2, <1>3, <3>1 DEF Alike
  <2>2. CASE ~(k <= Len(p))
    <3>1. PICK j : j = k - Len(p)
      OBVIOUS
    <3>2. j \in 1 .. Len(q) /\ k = Len(p) + j
      BY <1>2, <2>2, <3>1
    <3>3. QED
      BY <1>2, <1>3, <3>2 DEF Alike
  <2>3. QED
    BY <2>1, <2>2
<1>5. QED
  BY <1>1, <1>2, <1>3, <1>4 DEF Alike

LEMMA FlattenAlike ==
  ASSUME NEW S, NEW T, NEW R, NEW ss \in Seq(Seq(S)), NEW tt \in Seq(Seq(T)),
         Len(ss) = Len(tt), \A k \in 1 .. Len(ss) : Alike(ss[k], tt[k], R)
  PROVE  Alike(FlattenSeq(ss), FlattenSeq(tt), R)
<1>1. PICK f : JoinedUpTo(f, ss, S)
  BY JoinedExists
<1>2. PICK g : JoinedUpTo(g, tt, T)
  BY JoinedExists
<1> DEFINE U == {n \in Nat : n <= Len(ss) => Alike(f[n], g[n], R)}
<1>3. Alike(f[0], g[0], R)
  <2>1. PICK e, d : e = f[0] /\ d = g[0] /\ e = <<>> /\ d = <<>>
    BY <1>1, <1>2 DEF JoinedUpTo
  <2>2. Alike(e, d, R)
    BY <2>1 DEF Alike
  <2>3. QED
    BY <2>1, <2>2
<1>4. 0 \in U
  BY <1>3
<1>5. ASSUME NEW n \in Nat, n \in U, n + 1 <= Len(ss) PROVE Alike(f[n + 1], g[n + 1], R)
  <2>1. /\ f[n] \in Seq(S) /\ ss[n + 1] \in Seq(S)
        /\ f[n + 1] = f[n] \o ss[n + 1] /\ n + 1 \in 1 .. Len(ss)
    BY <1>1, <1>5 DEF JoinedUpTo
  <2>2. /\ g[n] \in Seq(T) /\ tt[n + 1] \in Seq(T)
        /\ g[n + 1] = g[n] \o tt[n + 1]
    BY <1>2, <1>5 DEF JoinedUpTo
  <2>3. n <= Len(ss)
    BY <2>1
  <2>4. Alike(f[n], g[n], R)
    BY <1>5, <2>3
  <2>5. Alike(ss[n + 1], tt[n + 1], R)
    BY <2>1
  <2>6. Alike(f[n] \o ss[n + 1], g[n] \o tt[n + 1], R)
    BY <2>1, <2>2, <2>4, <2>5, ConcatAlike
  <2>7. QED
    BY <2>1, <2>2, <2>6
<1>6. ASSUME NEW n \in Nat, n \in U PROVE n + 1 \in U
  BY <1>5, <1>6
<1>7. \A n \in Nat : n \in U
  <2> HIDE DEF U
  <2>1. QED
    BY <1>4, <1>6, Induction
<1>8. Len(ss) \in Nat /\ Len(ss) <= Len(ss)
  OBVIOUS
<1>9. Alike(f[Len(ss)], g[Len(ss)], R)
  BY <1>7, <1>8
<1>10. QED
  BY <1>1, <1>2, <1>9 DEF JoinedUpTo

LEMMA AlikeEqual ==
  ASSUME NEW S, NEW s \in Seq(S), NEW T, NEW t \in Seq(T), NEW R, Alike(s, t, R),
         \A x, y : <<x, y>> \in R => x = y
  PROVE  s = t
<1>1. Len(s) = Len(t) /\ \A k \in 1 .. Len(s) : s[k] = t[k]
  BY DEF Alike
<1>2. s = [k \in 1 .. Len(s) |-> s[k]] /\ t = [k \in 1 .. Len(t) |-> t[k]]
  OBVIOUS
<1>3. QED
  BY <1>1, <1>2

(* The elements of a list that are in T.                                   *)
Only(s, T) == FlattenSeq([k \in DOMAIN s |-> IF s[k] \in T THEN <<s[k]>> ELSE <<>>])

LEMMA OnlyLists ==
  ASSUME NEW S, NEW s \in Seq(S), NEW T
  PROVE  /\ [k \in DOMAIN s |-> IF s[k] \in T THEN <<s[k]>> ELSE <<>>] \in Seq(Seq(S \cap T))
         /\ Len([k \in DOMAIN s |-> IF s[k] \in T THEN <<s[k]>> ELSE <<>>]) = Len(s)
<1>1. DOMAIN s = 1 .. Len(s) /\ Len(s) \in Nat
  OBVIOUS
<1>2. ASSUME NEW k \in 1 .. Len(s)
      PROVE  (IF s[k] \in T THEN <<s[k]>> ELSE <<>>) \in Seq(S \cap T)
  <2>1. s[k] \in S
    OBVIOUS
  <2>2. CASE s[k] \in T
    <3>1. PICK x \in S \cap T : x = s[k]
      BY <2>1, <2>2
    <3>2. <<x>> \in Seq(S \cap T)
      OBVIOUS
    <3>3. QED
      BY <2>2, <3>1, <3>2
  <2>3. CASE s[k] \notin T
    BY <2>3
  <2>4. QED
    BY <2>2, <2>3
<1>3. PICK ss : ss = [k \in 1 .. Len(s) |-> IF s[k] \in T THEN <<s[k]>> ELSE <<>>]
  OBVIOUS
<1>4. ss \in [1 .. Len(s) -> Seq(S \cap T)]
  BY <1>2, <1>3
<1>5. ss \in Seq(Seq(S \cap T)) /\ Len(ss) = Len(s)
  BY <1>1, <1>4
<1>6. QED
  BY <1>1, <1>3, <1>5

LEMMA OnlyType ==
  ASSUME NEW S, NEW s \in Seq(S), NEW T
  PROVE  Only(s, T) \in Seq(S \cap T) /\ Only(s, T) \in Seq(S)
<1>1. Only(s, T) \in Seq(S \cap T)
  BY OnlyLists, FlattenType DEF Only
<1>2. QED
  BY <1>1

LEMMA OnlyHas ==
  ASSUME NEW S, NEW s \in Seq(S), NEW T
  PROVE  ElementsOf(Only(s, T)) = ElementsOf(s) \cap T
<1>1. PICK ss : ss = [k \in DOMAIN s |-> IF s[k] \in T THEN <<s[k]>> ELSE <<>>]
  OBVIOUS
<1>2. /\ ss \in Seq(Seq(S \cap T)) /\ Only(s, T) = FlattenSeq(ss)
      /\ Len(ss) = Len(s) /\ DOMAIN s = 1 .. Len(s)
  <2>1. ss \in Seq(Seq(S \cap T)) /\ Len(ss) = Len(s)
    BY <1>1, OnlyLists
  <2>2. Only(s, T) = FlattenSeq(ss)
    BY <1>1 DEF Only
  <2>3. QED
    BY <2>1, <2>2
<1>3. ElementsOf(Only(s, T)) = UNION {ElementsOf(ss[k]) : k \in 1 .. Len(ss)}
  BY <1>2, FlattenHas
<1>4. ASSUME NEW k \in 1 .. Len(s)
      PROVE  ElementsOf(ss[k]) = IF s[k] \in T THEN {s[k]} ELSE {}
  <2>1. CASE s[k] \in T
    <3>1. PICK x, l : x = s[k] /\ l = ss[k]
      OBVIOUS
    <3>2. l = <<x>> /\ Len(l) = 1 /\ l[1] = x
      BY <1>1, <1>2, <2>1, <3>1
    <3>3. ElementsOf(l) = {x}
      BY <3>2 DEF ElementsOf
    <3>4. QED
      BY <2>1, <3>1, <3>3
  <2>2. CASE s[k] \notin T
    <3>1. PICK l : l = ss[k]
      OBVIOUS
    <3>2. l = <<>> /\ Len(l) = 0
      BY <1>1, <1>2, <2>2, <3>1
    <3>3. ElementsOf(l) = {}
      BY <3>2 DEF ElementsOf
    <3>4. QED
      BY <2>2, <3>1, <3>3
  <2>3. QED
    BY <2>1, <2>2
<1>5. ASSUME NEW x \in ElementsOf(s) \cap T PROVE x \in ElementsOf(Only(s, T))
  <2>1. PICK k \in 1 .. Len(s) : x = s[k]
    BY DEF ElementsOf
  <2>2. x \in ElementsOf(ss[k])
    BY <1>4, <2>1
  <2>3. QED
    BY <1>2, <1>3, <2>2
<1>6. ASSUME NEW x \in ElementsOf(Only(s, T)) PROVE x \in ElementsOf(s) \cap T
  <2>1. PICK k \in 1 .. Len(s) : x \in ElementsOf(ss[k])
    BY <1>2, <1>3
  <2>2. x = s[k] /\ x \in T
    BY <1>4, <2>1
  <2>3. QED
    BY <2>2 DEF ElementsOf
<1>7. QED
  BY <1>5, <1>6

LEMMA OnlyAll ==
  ASSUME NEW S, NEW s \in Seq(S)
  PROVE  Only(s, S) = s
<1>1. PICK n \in Nat : n = Len(s) /\ DOMAIN s = 1 .. n /\ \A k \in 1 .. n : s[k] \in S
  OBVIOUS
<1>2. PICK ss : ss = [k \in DOMAIN s |-> IF s[k] \in S THEN <<s[k]>> ELSE <<>>]
  OBVIOUS
<1>3. ss \in Seq(Seq(S \cap S)) /\ Len(ss) = n
  BY <1>1, <1>2, OnlyLists
<1>4. S \cap S = S
  OBVIOUS
<1>5. ss \in Seq(Seq(S))
  BY <1>3, <1>4
<1>6. PICK f : JoinedUpTo(f, ss, S)
  BY <1>5, JoinedExists
<1>7. /\ f[0] = <<>> /\ f[n] = FlattenSeq(ss) /\ f[n] \in Seq(S)
      /\ \A k \in Nat : k + 1 <= n => f[k] \in Seq(S) /\ f[k + 1] = f[k] \o ss[k + 1]
  BY <1>3, <1>6 DEF JoinedUpTo
<1> DEFINE U == {m \in Nat : m <= n => Len(f[m]) = m /\ \A j \in 1 .. m : f[m][j] = s[j]}
<1>8. 0 \in U
  <2>1. PICK e : e = f[0] /\ e = <<>>
    BY <1>7
  <2>2. Len(e) = 0 /\ \A j \in 1 .. 0 : e[j] = s[j]
    BY <2>1
  <2>3. Len(f[0]) = 0 /\ \A j \in 1 .. 0 : f[0][j] = s[j]
    BY <2>1, <2>2
  <2>4. QED
    BY <2>3
<1>9. ASSUME NEW m \in Nat, m \in U, m + 1 <= n
      PROVE  Len(f[m + 1]) = m + 1 /\ \A j \in 1 .. m + 1 : f[m + 1][j] = s[j]
  <2>1. m + 1 \in 1 .. n /\ m <= n
    BY <1>9
  <2>2. PICK x \in S : x = s[m + 1]
    BY <1>1, <2>1
  <2>3. PICK q : q = <<x>>
    OBVIOUS
  <2>4. ss[m + 1] = q
    BY <1>1, <1>2, <2>1, <2>2, <2>3
  <2>5. PICK p \in Seq(S) : p = f[m]
    BY <1>7, <1>9
  <2>6. Len(p) = m /\ \A j \in 1 .. m : p[j] = s[j]
    BY <1>9, <2>1, <2>5
  <2>7. PICK r : r = f[m + 1] /\ r = p \o q
    BY <1>7, <1>9, <2>4, <2>5
  <2>8. q \in Seq(S) /\ Len(q) = 1 /\ q[1] = x
    BY <2>3
  <2>9. /\ Len(r) = Len(p) + Len(q)
        /\ \A j \in 1 .. Len(p) : r[j] = p[j]
        /\ \A j \in 1 .. Len(q) : r[Len(p) + j] = q[j]
    <3>1. p \in Seq(S) /\ q \in Seq(S) /\ r = p \o q
      BY <2>5, <2>7, <2>8
    <3>2. QED
      BY <3>1
  <2>10. Len(r) = m + 1 /\ r[m + 1] = x /\ \A j \in 1 .. m : r[j] = s[j]
    BY <2>6, <2>8, <2>9
  <2>11. \A j \in 1 .. m + 1 : r[j] = s[j]
    BY <2>2, <2>10
  <2>12. QED
    BY <2>7, <2>10, <2>11
<1>10. ASSUME NEW m \in Nat, m \in U PROVE m + 1 \in U
  BY <1>9, <1>10
<1>11. \A m \in Nat : m \in U
  <2> HIDE DEF U
  <2>1. QED
    BY <1>8, <1>10, Induction
<1>12. PICK z \in Seq(S) : z = f[n]
  BY <1>7
<1>13. Len(z) = n /\ \A j \in 1 .. n : z[j] = s[j]
  BY <1>11, <1>12
<1>14. z = s
  BY <1>1, <1>12, <1>13
<1>15. QED
  BY <1>2, <1>7, <1>12, <1>14 DEF Only

LEMMA OnlyOfEmpty ==
  ASSUME NEW T PROVE Only(<<>>, T) = <<>>
<1>1. <<>> \in Seq({})
  OBVIOUS
<1>2. PICK l : l = Only(<<>>, T)
  OBVIOUS
<1>3. l \in Seq({} \cap T)
  BY <1>1, <1>2, OnlyType
<1>4. Len(l) = 0
  <2>1. Len(l) \in Nat /\ \A k \in 1 .. Len(l) : l[k] \in {}
    BY <1>3
  <2>2. 1 \notin 1 .. Len(l)
    BY <2>1
  <2>3. QED
    BY <2>1, <2>2
<1>5. QED
  BY <1>2, <1>3, <1>4

LEMMA OnlyOfOne ==
  ASSUME NEW x, NEW T
  PROVE  Only(<<x>>, T) = IF x \in T THEN <<x>> ELSE <<>>
<1>1. PICK l, s : s = <<x>> /\ l = IF x \in T THEN <<x>> ELSE <<>>
  OBVIOUS
<1>2. PICK ss : ss = [k \in DOMAIN s |-> IF s[k] \in T THEN <<s[k]>> ELSE <<>>]
  OBVIOUS
<1>3. DOMAIN s = {1} /\ s[1] = x
  BY <1>1
<1>4. ss = [k \in {1} |-> l]
  BY <1>1, <1>2, <1>3
<1>5. <<l>> = [k \in {1} |-> l]
  OBVIOUS
<1>6. l \in Seq({x})
  <2>1. <<x>> \in Seq({x}) /\ <<>> \in Seq({x})
    OBVIOUS
  <2>2. QED
    BY <1>1, <2>1
<1>7. FlattenSeq(<<l>>) = l
  BY <1>6, FlattenOne
<1>8. QED
  BY <1>1, <1>2, <1>4, <1>5, <1>7 DEF Only

TwoInTurn(r, p, q) == r = p \o q

LEMMA OnlyJoins ==
  ASSUME NEW S, NEW p \in Seq(S), NEW q \in Seq(S), NEW r, TwoInTurn(r, p, q), NEW T
  PROVE  TwoInTurn(Only(r, T), Only(p, T), Only(q, T))
<1>1. r = p \o q
  BY DEF TwoInTurn
<1>2. /\ r \in Seq(S) /\ Len(r) = Len(p) + Len(q) /\ Len(p) \in Nat /\ Len(q) \in Nat
      /\ DOMAIN p = 1 .. Len(p) /\ DOMAIN q = 1 .. Len(q) /\ DOMAIN r = 1 .. Len(r)
      /\ \A j \in 1 .. Len(p) : r[j] = p[j]
      /\ \A j \in 1 .. Len(q) : r[Len(p) + j] = q[j]
  BY <1>1
<1>3. PICK u, v, w :
        /\ u = [k \in DOMAIN p |-> IF p[k] \in T THEN <<p[k]>> ELSE <<>>]
        /\ v = [k \in DOMAIN q |-> IF q[k] \in T THEN <<q[k]>> ELSE <<>>]
        /\ w = [k \in DOMAIN r |-> IF r[k] \in T THEN <<r[k]>> ELSE <<>>]
  OBVIOUS
<1>4. PICK Q : Q = Seq(S \cap T)
  OBVIOUS
<1>5. /\ u \in Seq(Q) /\ v \in Seq(Q) /\ w \in Seq(Q)
      /\ Len(u) = Len(p) /\ Len(v) = Len(q) /\ Len(w) = Len(r)
  <2>1. u \in Seq(Q) /\ Len(u) = Len(p)
    BY <1>3, <1>4, OnlyLists, ZenonT(30)
  <2>2. v \in Seq(Q) /\ Len(v) = Len(q)
    BY <1>3, <1>4, OnlyLists, ZenonT(30)
  <2>3. w \in Seq(Q) /\ Len(w) = Len(r)
    <3>1. r \in Seq(S)
      BY <1>2
    <3>2. QED
      BY <1>3, <1>4, <3>1, OnlyLists, ZenonT(30)
  <2>4. QED
    BY <2>1, <2>2, <2>3
<1>6. PICK z : z = u \o v
  OBVIOUS
<1>7. /\ z \in Seq(Q) /\ Len(z) = Len(p) + Len(q)
      /\ \A j \in 1 .. Len(p) : z[j] = u[j]
      /\ \A j \in 1 .. Len(q) : z[Len(p) + j] = v[j]
  <2>1. /\ z \in Seq(Q) /\ Len(z) = Len(u) + Len(v)
        /\ \A j \in 1 .. Len(u) : z[j] = u[j]
        /\ \A j \in 1 .. Len(v) : z[Len(u) + j] = v[j]
    <3>1. u \in Seq(Q) /\ v \in Seq(Q)
      BY <1>5
    <3>2. QED
      BY <1>6, <3>1
  <2>2. Len(u) = Len(p) /\ Len(v) = Len(q)
    BY <1>5
  <2>3. QED
    BY <2>1, <2>2, Zenon
<1>8. ASSUME NEW k \in 1 .. Len(r) PROVE w[k] = z[k]
  <2>1. CASE k <= Len(p)
    <3>1. k \in 1 .. Len(p)
      BY <1>2, <2>1
    <3>2. QED
      BY <1>2, <1>3, <1>7, <3>1
  <2>2. CASE ~(k <= Len(p))
    <3>1. PICK j : j = k - Len(p)
      OBVIOUS
    <3>2. j \in 1 .. Len(q) /\ k = Len(p) + j
      BY <1>2, <2>2, <3>1
    <3>3. w[k] = IF q[j] \in T THEN <<q[j]>> ELSE <<>>
      BY <1>2, <1>3, <3>2
    <3>4. z[k] = v[j] /\ v[j] = IF q[j] \in T THEN <<q[j]>> ELSE <<>>
      BY <1>2, <1>3, <1>7, <3>2
    <3>5. QED
      BY <3>3, <3>4
  <2>3. QED
    BY <2>1, <2>2
<1>9. w = z
  BY <1>2, <1>5, <1>7, <1>8
<1>10. FlattenSeq(z) = FlattenSeq(u) \o FlattenSeq(v)
  BY <1>4, <1>5, <1>6, FlattenConcat
<1>11. QED
  BY <1>1, <1>3, <1>9, <1>10 DEF Only, TwoInTurn

LEMMA OnlyConcat ==
  ASSUME NEW S, NEW p \in Seq(S), NEW q \in Seq(S), NEW T
  PROVE  Only(p \o q, T) = Only(p, T) \o Only(q, T)
<1>1. PICK r : TwoInTurn(r, p, q) /\ r = p \o q
  BY Zenon DEF TwoInTurn
<1>2. TwoInTurn(Only(r, T), Only(p, T), Only(q, T))
  BY <1>1, OnlyJoins
<1>3. QED
  BY <1>1, <1>2, Zenon DEF TwoInTurn

(* What is left of lists that are joined is what is left of each, joined.  *)
LEMMA OnlyFlatten ==
  ASSUME NEW S, NEW ss \in Seq(Seq(S)), NEW T
  PROVE  Only(FlattenSeq(ss), T) = FlattenSeq([k \in 1 .. Len(ss) |-> Only(ss[k], T)])
<1>1. PICK tt : tt = [k \in 1 .. Len(ss) |-> Only(ss[k], T)]
  OBVIOUS
<1>2. Len(ss) \in Nat
  OBVIOUS
<1>3. tt \in Seq(Seq(S)) /\ Len(tt) = Len(ss)
  <2>1. ASSUME NEW k \in 1 .. Len(ss) PROVE Only(ss[k], T) \in Seq(S)
    <3>1. ss[k] \in Seq(S)
      OBVIOUS
    <3>2. QED
      BY <3>1, OnlyType
  <2>2. tt \in [1 .. Len(ss) -> Seq(S)]
    BY <1>1, <2>1
  <2>3. Len(ss) \in Nat
    OBVIOUS
  <2>4. QED
    BY <2>2, <2>3, FunctionIsList
<1>4. PICK f : JoinedUpTo(f, ss, S)
  BY JoinedExists
<1>5. PICK g : JoinedUpTo(g, tt, S)
  BY <1>3, JoinedExists
<1> DEFINE Right(n) == Only(f[n], T) = g[n]
           U == {n \in Nat : n <= Len(ss) => Right(n)}
<1>6. Right(0)
  BY <1>4, <1>5, OnlyOfEmpty DEF JoinedUpTo
<1>7. ASSUME NEW n \in Nat, n \in U, n + 1 <= Len(ss) PROVE Right(n + 1)
  <2>1. /\ f[n] \in Seq(S) /\ ss[n + 1] \in Seq(S)
        /\ f[n + 1] = f[n] \o ss[n + 1] /\ n + 1 \in 1 .. Len(ss)
    BY <1>4, <1>7 DEF JoinedUpTo
  <2>2. g[n + 1] = g[n] \o tt[n + 1]
    BY <1>3, <1>5, <1>7 DEF JoinedUpTo
  <2>3. n <= Len(ss)
    BY <2>1
  <2>4. Only(f[n], T) = g[n]
    BY <1>7, <2>3
  <2>5. tt[n + 1] = Only(ss[n + 1], T)
    BY <1>1, <2>1
  <2>6. Only(f[n] \o ss[n + 1], T) = Only(f[n], T) \o Only(ss[n + 1], T)
    <3>1. PICK a, b : a = f[n] /\ b = ss[n + 1]
      OBVIOUS
    <3>2. a \in Seq(S) /\ b \in Seq(S)
      BY <2>1, <3>1
    <3>3. Only(a \o b, T) = Only(a, T) \o Only(b, T)
      BY <3>2, OnlyConcat
    <3>4. QED
      BY <3>1, <3>3
  <2>7. QED
    BY <2>1, <2>2, <2>4, <2>5, <2>6
<1> HIDE DEF Right
<1>8. ASSUME NEW n \in Nat, n \in U PROVE n + 1 \in U
  BY <1>7, <1>8
<1>9. 0 \in U
  BY <1>6
<1>10. \A n \in Nat : n \in U
  <2> HIDE DEF U
  <2>1. QED
    BY <1>8, <1>9, Induction
<1>11. Right(Len(ss))
  BY <1>2, <1>10
<1>12. Only(f[Len(ss)], T) = g[Len(tt)]
  BY <1>3, <1>11 DEF Right
<1>13. QED
  BY <1>1, <1>4, <1>5, <1>12 DEF JoinedUpTo

(* Leaving out twice is leaving out once.                                  *)
LEMMA OnlyOnly ==
  ASSUME NEW S, NEW s \in Seq(S), NEW V, NEW T \in SUBSET V
  PROVE  Only(Only(s, V), T) = Only(s, T)
<1>1. PICK n \in Nat : n = Len(s) /\ DOMAIN s = 1 .. n
  OBVIOUS
<1>2. PICK ss, tt : /\ ss = [k \in DOMAIN s |-> IF s[k] \in V THEN <<s[k]>> ELSE <<>>]
                    /\ tt = [k \in DOMAIN s |-> IF s[k] \in T THEN <<s[k]>> ELSE <<>>]
  OBVIOUS
<1>3. ss \in Seq(Seq(S \cap V)) /\ Len(ss) = n
  BY <1>1, <1>2, OnlyLists
<1>4. Only(FlattenSeq(ss), T) = FlattenSeq([k \in 1 .. Len(ss) |-> Only(ss[k], T)])
  BY <1>3, OnlyFlatten
<1>5. ASSUME NEW k \in 1 .. n PROVE Only(ss[k], T) = tt[k]
  <2>1. PICK x : x = s[k]
    OBVIOUS
  <2>2. ss[k] = IF x \in V THEN <<x>> ELSE <<>>
    BY <1>1, <1>2, <2>1
  <2>3. tt[k] = IF x \in T THEN <<x>> ELSE <<>>
    BY <1>1, <1>2, <2>1
  <2>4. Only(<<x>>, T) = IF x \in T THEN <<x>> ELSE <<>>
    BY OnlyOfOne
  <2>5. Only(<<>>, T) = <<>>
    BY OnlyOfEmpty
  <2>6. QED
    BY <2>2, <2>3, <2>4, <2>5
<1>6. [k \in 1 .. Len(ss) |-> Only(ss[k], T)] = tt
  <2>1. [k \in 1 .. Len(ss) |-> Only(ss[k], T)] = [k \in 1 .. n |-> tt[k]]
    BY <1>3, <1>5
  <2>2. tt = [k \in 1 .. n |-> tt[k]]
    BY <1>1, <1>2
  <2>3. QED
    BY <2>1, <2>2
<1>7. QED
  BY <1>2, <1>4, <1>6 DEF Only

(* Lists that are alike in what is left of them.                           *)
LEMMA OnlyAlike ==
  ASSUME NEW S, NEW s \in Seq(S), NEW T, NEW V, NEW t \in Seq(V), NEW W, NEW R,
         Alike(s, t, R), \A x, y : <<x, y>> \in R => (x \in T <=> y \in W)
  PROVE  Alike(Only(s, T), Only(t, W), R)
<1>1. PICK u, v :
        /\ u = [k \in DOMAIN s |-> IF s[k] \in T THEN <<s[k]>> ELSE <<>>]
        /\ v = [k \in DOMAIN t |-> IF t[k] \in W THEN <<t[k]>> ELSE <<>>]
  OBVIOUS
<1>2. /\ u \in Seq(Seq(S \cap T)) /\ v \in Seq(Seq(V \cap W))
      /\ Len(u) = Len(s) /\ Len(v) = Len(t)
  BY <1>1, OnlyLists
<1>3. /\ DOMAIN s = 1 .. Len(s) /\ DOMAIN t = 1 .. Len(s) /\ Len(s) \in Nat
      /\ Len(u) = Len(s) /\ Len(v) = Len(s)
  BY <1>2 DEF Alike
<1>4. ASSUME NEW k \in 1 .. Len(u) PROVE Alike(u[k], v[k], R)
  <2>1. PICK x, y, l, m : x = s[k] /\ y = t[k] /\ l = u[k] /\ m = v[k]
    OBVIOUS
  <2>2. <<x, y>> \in R /\ (x \in T <=> y \in W)
    BY <1>3, <2>1 DEF Alike
  <2>3. CASE x \in T
    <3>1. l = <<x>> /\ m = <<y>>
      BY <1>1, <1>3, <2>1, <2>2, <2>3
    <3>2. Len(l) = 1 /\ Len(m) = 1 /\ l[1] = x /\ m[1] = y
      BY <3>1
    <3>3. <<l[1], m[1]>> \in R
      BY <2>2, <3>2
    <3>4. \A j \in 1 .. Len(l) : j = 1
      BY <3>2
    <3>5. QED
      BY <2>1, <3>2, <3>3, <3>4 DEF Alike
  <2>4. CASE x \notin T
    <3>1. l = <<>> /\ m = <<>>
      BY <1>1, <1>3, <2>1, <2>2, <2>4
    <3>2. Alike(l, m, R)
      BY <3>1 DEF Alike
    <3>3. QED
      BY <2>1, <3>2
  <2>5. QED
    BY <2>3, <2>4
<1>5. Alike(FlattenSeq(u), FlattenSeq(v), R)
  BY <1>2, <1>3, <1>4, FlattenAlike
<1>6. QED
  BY <1>1, <1>5 DEF Only

(* What a list has of the first n lists of a list of lists; a list, and a  *)
(* list of lists, without a repetition.                                    *)
HasAll(p, ss, n) ==
    \A k \in 1 .. n : \A i \in 1 .. Len(ss[k]) : \E j \in 1 .. Len(p) : p[j] = ss[k][i]
OnlyOf(p, ss, n) ==
    \A j \in 1 .. Len(p) : \E k \in 1 .. n : \E i \in 1 .. Len(ss[k]) : p[j] = ss[k][i]
Distinct(p) == \A i, j \in 1 .. Len(p) : p[i] = p[j] => i = j
Apart(ss) ==
    \A k, l \in 1 .. Len(ss) : \A i \in 1 .. Len(ss[k]) : \A j \in 1 .. Len(ss[l]) :
        ss[k][i] = ss[l][j] => k = l /\ i = j

LEMMA JoinStep ==
  ASSUME NEW S, NEW ss \in Seq(Seq(S)), NEW m \in 1 .. Len(ss), NEW p \in Seq(S), NEW q,
         q = ss[m], HasAll(p, ss, m - 1), OnlyOf(p, ss, m - 1), Distinct(p), Apart(ss)
  PROVE  HasAll(p \o q, ss, m) /\ OnlyOf(p \o q, ss, m) /\ Distinct(p \o q)
<1>1. q \in Seq(S) /\ m \in Nat
  OBVIOUS
<1>2. PICK r, a, b : r = p \o q /\ a = Len(p) /\ b = Len(q)
  OBVIOUS
<1>3. /\ Len(r) = a + b /\ a \in Nat /\ b \in Nat
      /\ \A j \in 1 .. a : r[j] = p[j]
      /\ \A j \in 1 .. b : r[a + j] = q[j]
  BY <1>1, <1>2
<1>4. ASSUME NEW j \in 1 .. Len(r)
      PROVE  \/ j \in 1 .. a /\ r[j] = p[j]
             \/ \E i \in 1 .. b : j = a + i /\ r[j] = q[i]
  <2>1. CASE j <= a
    BY <1>3, <2>1
  <2>2. CASE ~(j <= a)
    <3>a. a \in Nat /\ b \in Nat /\ j \in 1 .. (a + b)
      BY <1>3
    <3>b. j - a \in 1 .. b /\ a + (j - a) = j
      BY <3>a, <2>2
    <3>1. PICK i \in 1 .. b : i = j - a /\ a + i = j
      BY <3>b
    <3>2. QED
      BY <1>3, <3>1
  <2>3. QED
    BY <2>1, <2>2
<1>5. ASSUME NEW k \in 1 .. m, NEW i \in 1 .. Len(ss[k])
      PROVE  \E j \in 1 .. Len(r) : r[j] = ss[k][i]
  <2>1. CASE k = m
    <3>1. i \in 1 .. b
      BY <1>2, <2>1
    <3>2. a + i \in 1 .. Len(r)
      BY <1>3, <3>1
    <3>3. r[a + i] = ss[k][i]
      BY <1>3, <2>1, <3>1
    <3>4. QED
      BY <3>2, <3>3
  <2>2. CASE k # m
    <3>1. k \in 1 .. m - 1
      BY <1>1, <2>2
    <3>2. PICK j \in 1 .. a : p[j] = ss[k][i]
      BY <1>2, <3>1 DEF HasAll
    <3>3. j \in 1 .. Len(r) /\ r[j] = ss[k][i]
      BY <1>3, <3>2
    <3>4. QED
      BY <3>3
  <2>3. QED
    BY <2>1, <2>2
<1>6. ASSUME NEW j \in 1 .. Len(r)
      PROVE  \E k \in 1 .. m : \E i \in 1 .. Len(ss[k]) : r[j] = ss[k][i]
  <2>1. CASE j \in 1 .. a /\ r[j] = p[j]
    <3>1. PICK k \in 1 .. m - 1 : \E i \in 1 .. Len(ss[k]) : p[j] = ss[k][i]
      BY <1>2, <2>1 DEF OnlyOf
    <3>2. k \in 1 .. m
      BY <1>1
    <3>3. QED
      BY <2>1, <3>1, <3>2
  <2>2. CASE \E i \in 1 .. b : j = a + i /\ r[j] = q[i]
    <3>1. PICK i \in 1 .. b : r[j] = q[i]
      BY <2>2
    <3>2. m \in 1 .. m /\ i \in 1 .. Len(ss[m]) /\ r[j] = ss[m][i]
      BY <1>1, <1>2, <3>1
    <3>3. QED
      BY <3>2
  <2>3. QED
    BY <1>4, <2>1, <2>2
<1>7. ASSUME NEW j \in 1 .. a, NEW i \in 1 .. b, p[j] = q[i]
      PROVE  FALSE
  <2>1. PICK k \in 1 .. m - 1 : \E l \in 1 .. Len(ss[k]) : p[j] = ss[k][l]
    BY <1>2 DEF OnlyOf
  <2>2. PICK l \in 1 .. Len(ss[k]) : p[j] = ss[k][l]
    BY <2>1
  <2>3. k \in 1 .. Len(ss) /\ k # m
    BY <1>1
  <2>4. ss[m][i] = ss[k][l] /\ i \in 1 .. Len(ss[m])
    BY <1>2, <1>7, <2>2
  <2>5. QED
    BY <2>3, <2>4 DEF Apart
<1>8. ASSUME NEW i \in 1 .. b, NEW j \in 1 .. b, q[i] = q[j] PROVE i = j
  BY <1>2, <1>8 DEF Apart
<1>9. ASSUME NEW i \in 1 .. Len(r), NEW j \in 1 .. Len(r), r[i] = r[j] PROVE i = j
  <2>1. CASE i \in 1 .. a /\ r[i] = p[i]
    <3>1. CASE j \in 1 .. a /\ r[j] = p[j]
      BY <1>2, <1>9, <2>1, <3>1 DEF Distinct
    <3>2. CASE \E l \in 1 .. b : j = a + l /\ r[j] = q[l]
      BY <1>7, <1>9, <2>1, <3>2
    <3>3. QED
      BY <1>4, <3>1, <3>2
  <2>2. CASE \E k \in 1 .. b : i = a + k /\ r[i] = q[k]
    <3>1. PICK k \in 1 .. b : i = a + k /\ r[i] = q[k]
      BY <2>2
    <3>2. CASE j \in 1 .. a /\ r[j] = p[j]
      BY <1>7, <1>9, <3>1, <3>2
    <3>3. CASE \E l \in 1 .. b : j = a + l /\ r[j] = q[l]
      <4>1. PICK l \in 1 .. b : j = a + l /\ r[j] = q[l]
        BY <3>3
      <4>2. k = l
        BY <1>8, <1>9, <3>1, <4>1
      <4>3. QED
        BY <3>1, <4>1, <4>2
    <3>4. QED
      BY <1>4, <3>2, <3>3
  <2>3. QED
    BY <1>4, <2>1, <2>2
<1>10. HasAll(r, ss, m)
  BY <1>5 DEF HasAll
<1>11. OnlyOf(r, ss, m)
  BY <1>6 DEF OnlyOf
<1>12. Distinct(r)
  BY <1>9 DEF Distinct
<1>13. QED
  BY <1>2, <1>10, <1>11, <1>12

(* A list of lists without a repetition is joined into a list without one, *)
(* and the list has the elements of the lists and no other.                *)
LEMMA JoinElements ==
  ASSUME NEW S, NEW ss \in Seq(Seq(S)), NEW f \in [0 .. Len(ss) -> Seq(S)], Joins(f, ss),
         Apart(ss)
  PROVE  /\ HasAll(f[Len(ss)], ss, Len(ss)) /\ OnlyOf(f[Len(ss)], ss, Len(ss))
         /\ Distinct(f[Len(ss)])
<1> DEFINE Good(n) == HasAll(f[n], ss, n) /\ OnlyOf(f[n], ss, n) /\ Distinct(f[n])
           U == {n \in Nat : n <= Len(ss) => Good(n)}
<1>1. 0 \in U
  <2>1. f[0] = <<>>
    BY DEF Joins
  <2>2. PICK e, z : e = f[0] /\ z = Len(e) /\ z = 0
    BY <2>1
  <2>3. HasAll(e, ss, 0) /\ OnlyOf(e, ss, 0) /\ Distinct(e)
    BY <2>2 DEF HasAll, OnlyOf, Distinct
  <2>4. QED
    BY <2>2, <2>3
<1>2. ASSUME NEW n \in Nat, n \in U PROVE n + 1 \in U
  <2> SUFFICES ASSUME n + 1 <= Len(ss) PROVE Good(n + 1)
    OBVIOUS
  <2>1. PICK m \in 1 .. Len(ss) : m = n + 1 /\ m - 1 = n /\ n \in 0 .. Len(ss)
    OBVIOUS
  <2>2. PICK p, q : p = f[n] /\ q = ss[m] /\ p \in Seq(S)
    BY <2>1
  <2>3. f[m] = p \o q
    BY <2>1, <2>2 DEF Joins
  <2>4. HasAll(p, ss, m - 1) /\ OnlyOf(p, ss, m - 1) /\ Distinct(p)
    BY <1>2, <2>1, <2>2
  <2>5. HasAll(p \o q, ss, m) /\ OnlyOf(p \o q, ss, m) /\ Distinct(p \o q)
    BY <2>2, <2>4, JoinStep
  <2>6. QED
    BY <2>1, <2>3, <2>5
<1>3. \A n \in Nat : n \in U
  BY <1>1, <1>2, Induction
<1>4. Len(ss) \in Nat /\ Len(ss) \in U
  BY <1>3
<1>5. QED
  BY <1>4

-----------------------------------------------------------------------------
(* Orders without ties, as sets of pairs, on finite sets.                  *)

Orders(R, S) ==
    /\ IsFiniteSet(S)
    /\ \A x, y \in S : x # y => <<x, y>> \in R \/ <<y, x>> \in R
    /\ \A x \in S : <<x, x>> \notin R
    /\ \A x, y, z \in S : <<x, y>> \in R /\ <<y, z>> \in R => <<x, z>> \in R

Below(R, S, x) == {y \in S : <<y, x>> \in R}
Rank(R, S, x)  == Cardinality(Below(R, S, x))

LEMMA RankOf ==
  ASSUME NEW R, NEW S, Orders(R, S), NEW x \in S
  PROVE  /\ Rank(R, S, x) \in 0 .. Cardinality(S) - 1
         /\ Cardinality(S) \in Nat
         /\ IsFiniteSet(Below(R, S, x))
<1>1. IsFiniteSet(S) /\ Below(R, S, x) \in SUBSET (S \ {x})
  BY DEF Orders, Below
<1>2. IsFiniteSet(S \ {x}) /\ Cardinality(S \ {x}) = Cardinality(S) - 1
  BY <1>1, FS_RemoveElement
<1>3. Cardinality(S) \in Nat
  BY <1>1, FS_CardinalityType
<1>4. IsFiniteSet(Below(R, S, x)) /\ Cardinality(Below(R, S, x)) <= Cardinality(S \ {x})
  BY <1>1, <1>2, FS_Subset
<1>5. Cardinality(Below(R, S, x)) \in Nat
  BY <1>4, FS_CardinalityType
<1>6. QED
  BY <1>2, <1>3, <1>4, <1>5 DEF Rank

LEMMA RankGrows ==
  ASSUME NEW R, NEW S, Orders(R, S), NEW x \in S, NEW y \in S, <<x, y>> \in R
  PROVE  Rank(R, S, x) < Rank(R, S, y)
<1>1. x \notin Below(R, S, x) /\ Below(R, S, x) \cup {x} \in SUBSET Below(R, S, y)
  BY DEF Orders, Below
<1>2. IsFiniteSet(Below(R, S, x)) /\ IsFiniteSet(Below(R, S, y))
  BY RankOf
<1>3. Cardinality(Below(R, S, x) \cup {x}) = Cardinality(Below(R, S, x)) + 1
  BY <1>1, <1>2, FS_AddElement
<1>4. Cardinality(Below(R, S, x) \cup {x}) <= Cardinality(Below(R, S, y))
  BY <1>1, <1>2, FS_Subset
<1>5. Cardinality(Below(R, S, x)) \in Nat /\ Cardinality(Below(R, S, y)) \in Nat
  BY <1>2, FS_CardinalityType
<1>6. QED
  BY <1>3, <1>4, <1>5 DEF Rank

LEMMA RankDecides ==
  ASSUME NEW R, NEW S, Orders(R, S), NEW x \in S, NEW y \in S
  PROVE  Rank(R, S, x) < Rank(R, S, y) <=> <<x, y>> \in R
<1>1. Rank(R, S, x) \in Int /\ Rank(R, S, y) \in Int
  BY RankOf
<1>2. CASE x = y
  BY <1>1, <1>2 DEF Orders
<1>3. CASE x # y
  <2>1. <<x, y>> \in R \/ <<y, x>> \in R
    BY <1>3 DEF Orders
  <2>2. ~(<<x, y>> \in R /\ <<y, x>> \in R)
    BY DEF Orders
  <2>3. <<x, y>> \in R => Rank(R, S, x) < Rank(R, S, y)
    BY RankGrows
  <2>4. <<y, x>> \in R => Rank(R, S, y) < Rank(R, S, x)
    BY RankGrows
  <2>5. QED
    BY <1>1, <1>3, <2>1, <2>2, <2>3, <2>4
<1>4. QED
  BY <1>2, <1>3

LEMMA RankUnique ==
  ASSUME NEW R, NEW S, Orders(R, S), NEW x \in S, NEW y \in S,
         Rank(R, S, x) = Rank(R, S, y)
  PROVE  x = y
<1>1. Rank(R, S, x) \in Int
  BY RankOf
<1>2. <<x, y>> \notin R /\ <<y, x>> \notin R
  BY <1>1, RankGrows
<1>3. QED
  BY <1>2 DEF Orders

LEMMA EachRank ==
  ASSUME NEW R, NEW S, Orders(R, S), NEW k \in 0 .. Cardinality(S) - 1
  PROVE  \E x \in S : Rank(R, S, x) = k
<1> DEFINE N == 0 .. Cardinality(S) - 1
<1>0. PICK f : f = [x \in S |-> Rank(R, S, x)]
  OBVIOUS
<1>1. IsFiniteSet(S) /\ Cardinality(S) \in Nat
  BY FS_CardinalityType DEF Orders
<1>2. f \in [S -> N] /\ \A x \in S : f[x] = Rank(R, S, x)
  BY <1>0, RankOf
<1>3. ASSUME NEW x \in S, NEW y \in S, f[x] = f[y] PROVE x = y
  <2>1. Rank(R, S, x) = Rank(R, S, y)
    BY <1>2, <1>3
  <2>2. QED
    BY <2>1, RankUnique
<1>4. f \in Injection(S, N)
  BY <1>2, <1>3 DEF Injection, IsInjective
<1>5. IsFiniteSet(N) /\ Cardinality(N) = Cardinality(S)
  BY <1>1, FS_Interval
<1>6. f \in Surjection(S, N)
  BY <1>4, <1>5, FS_Injection
<1>7. QED
  BY <1>2, <1>6 DEF Surjection

(* A list that has each element at the place its rank says has the order.  *)
Placed(L, R, S) ==
    /\ L \in Seq(S) /\ Len(L) = Cardinality(S)
    /\ \A k \in 1 .. Len(L) : Rank(R, S, L[k]) = k - 1

LEMMA PlacedInOrder ==
  ASSUME NEW R, NEW S, Orders(R, S), NEW L, Placed(L, R, S)
  PROVE  /\ \A i, j \in 1 .. Len(L) : i < j <=> <<L[i], L[j]>> \in R
         /\ \A i, j \in 1 .. Len(L) : L[i] = L[j] => i = j
         /\ \A x \in S : Rank(R, S, x) + 1 \in 1 .. Len(L) /\ L[Rank(R, S, x) + 1] = x
<1>1. Len(L) \in Nat /\ \A i \in 1 .. Len(L) : L[i] \in S /\ Rank(R, S, L[i]) = i - 1
  BY DEF Placed
<1>2. ASSUME NEW i \in 1 .. Len(L), NEW j \in 1 .. Len(L)
      PROVE  (i < j <=> <<L[i], L[j]>> \in R) /\ (L[i] = L[j] => i = j)
  <2>1. Rank(R, S, L[i]) < Rank(R, S, L[j]) <=> <<L[i], L[j]>> \in R
    BY <1>1, RankDecides
  <2>2. QED
    BY <1>1, <2>1
<1>3. ASSUME NEW x \in S
      PROVE  Rank(R, S, x) + 1 \in 1 .. Len(L) /\ L[Rank(R, S, x) + 1] = x
  <2>1. PICK r \in 0 .. Cardinality(S) - 1 : r = Rank(R, S, x)
    BY RankOf
  <2>2. r + 1 \in 1 .. Len(L) /\ (r + 1) - 1 = r
    BY <2>1 DEF Placed
  <2>3. L[r + 1] \in S /\ Rank(R, S, L[r + 1]) = r
    BY <1>1, <2>2
  <2>4. L[r + 1] = x
    BY <2>1, <2>3, RankUnique
  <2>5. QED
    BY <2>1, <2>2, <2>4
<1>4. QED
  BY <1>2, <1>3

(* Leaving out elements that are not among the first n, and some after     *)
(* them, changes nothing in the first n.                                   *)
LEMMA FirstOnesStay ==
  ASSUME NEW R, NEW S, Orders(R, S), NEW B \in SUBSET S, NEW n \in Nat,
         NEW L, Placed(L, R, S), NEW M, Placed(M, R, B),
         \A x \in S : Rank(R, S, x) < n => x \in B
  PROVE  /\ Len(M) < n => Len(M) = Len(L)
         /\ Len(M) <= Len(L)
         /\ \A k \in 1 .. n : k \in 1 .. Len(L) => k \in 1 .. Len(M) /\ M[k] = L[k]
<1>1. Orders(R, B)
  BY FS_Subset DEF Orders
<1>2. ASSUME NEW x \in S, Rank(R, S, x) < n
      PROVE  x \in B /\ Rank(R, B, x) = Rank(R, S, x)
  <2>1. Rank(R, S, x) \in Nat
    BY RankOf
  <2>2. ASSUME NEW y \in S, <<y, x>> \in R PROVE y \in B
    <3>1. Rank(R, S, y) < Rank(R, S, x) /\ Rank(R, S, y) \in Nat
      BY <2>2, RankGrows, RankOf
    <3>2. QED
      BY <1>2, <2>1, <3>1
  <2>3. Below(R, B, x) = Below(R, S, x)
    BY <2>2 DEF Below
  <2>4. QED
    BY <1>2, <2>3 DEF Rank
<1>3. Len(M) <= Len(L) /\ Len(L) \in Nat /\ Len(M) \in Nat
  BY FS_Subset DEF Orders, Placed
<1>4. ASSUME NEW k \in 1 .. n, k \in 1 .. Len(L)
      PROVE  k \in 1 .. Len(M) /\ M[k] = L[k]
  <2>1. PICK x \in S : x = L[k] /\ Rank(R, S, x) = k - 1
    BY <1>4 DEF Placed
  <2>2. x \in B /\ Rank(R, B, x) = k - 1
    BY <1>2, <2>1, <1>4
  <2>3. Rank(R, B, x) + 1 \in 1 .. Len(M) /\ M[Rank(R, B, x) + 1] = x
    BY <1>1, <2>2, PlacedInOrder
  <2>4. QED
    BY <2>1, <2>2, <2>3, <1>4
<1>5. ASSUME Len(M) < n PROVE Len(M) = Len(L)
  <2>1. CASE Len(M) < Len(L)
    <3>1. Len(M) + 1 \in 1 .. n /\ Len(M) + 1 \in 1 .. Len(L)
      BY <1>3, <1>5, <2>1
    <3>2. Len(M) + 1 \in 1 .. Len(M)
      BY <1>4, <3>1
    <3>3. QED
      BY <1>3, <3>2
  <2>2. QED
    BY <1>3, <2>1
<1>6. QED
  BY <1>3, <1>4, <1>5

-----------------------------------------------------------------------------
(* Search.                                                                 *)

Stored == [base : Bases, doc : 1 .. 2, score : Scores]
IndexTyped == index \in Seq(Stored)

ScoreOrder ==
    {p \in (DOMAIN index) \X (DOMAIN index) :
        \/ index[p[1]].score > index[p[2]].score
        \/ index[p[1]].score = index[p[2]].score /\ p[1] < p[2]}

LEMMA StoredChunk ==
  ASSUME NEW c \in Stored, Scores \subseteq Int
  PROVE  c.score \in Int /\ c.base \in Bases /\ c.doc \in 1 .. 2
  BY DEF Stored

LEMMA ScoresOrder ==
  ASSUME Scores \subseteq Int, IndexTyped, NEW cs \in SUBSET DOMAIN index
  PROVE  Orders(ScoreOrder, cs)
<1>1. DOMAIN index = 1 .. Len(index) /\ Len(index) \in Nat
  BY DEF IndexTyped
<1>2. IsFiniteSet(cs)
  <2>1. IsFiniteSet(1 .. Len(index))
    BY <1>1, FS_Interval
  <2>2. QED
    BY <1>1, <2>1, FS_Subset
<1>3. ASSUME NEW c \in cs PROVE index[c].score \in Int /\ c \in Int
  <2>1. c \in 1 .. Len(index)
    BY <1>1
  <2>2. index[c] \in Stored
    BY <2>1 DEF IndexTyped
  <2>3. QED
    BY <1>1, <2>1, <2>2, StoredChunk
<1>4. ASSUME NEW c \in cs, NEW d \in cs
      PROVE  <<c, d>> \in ScoreOrder <=>
               \/ index[c].score > index[d].score
               \/ index[c].score = index[d].score /\ c < d
  <2>1. <<c, d>> \in (DOMAIN index) \X (DOMAIN index)
    OBVIOUS
  <2>2. QED
    BY <2>1 DEF ScoreOrder
<1>5. \A x, y \in cs : x # y => <<x, y>> \in ScoreOrder \/ <<y, x>> \in ScoreOrder
  BY <1>3, <1>4
<1>6. \A x \in cs : <<x, x>> \notin ScoreOrder
  BY <1>3, <1>4
<1>7. ASSUME NEW x \in cs, NEW y \in cs, NEW z \in cs,
             <<x, y>> \in ScoreOrder, <<y, z>> \in ScoreOrder
      PROVE  <<x, z>> \in ScoreOrder
  BY <1>3, <1>4, <1>7
<1>8. QED
  BY <1>2, <1>5, <1>6, <1>7 DEF Orders

LEMMA RankedIsPlaced ==
  ASSUME Scores \subseteq Int, IndexTyped, NEW cs \in SUBSET DOMAIN index
  PROVE  Placed(Retrieval!Ranked(cs), ScoreOrder, cs)
<1>1. Orders(ScoreOrder, cs)
  BY ScoresOrder
<1>2. Cardinality(cs) \in Nat
  BY <1>1, FS_CardinalityType DEF Orders
<1>3. ASSUME NEW c \in cs
      PROVE  Below(ScoreOrder, cs, c) = {d \in cs : Retrieval!Before(d, c)}
  <2>1. ASSUME NEW d \in cs
        PROVE  <<d, c>> \in ScoreOrder <=>
                 \/ index[d].score > index[c].score
                 \/ index[d].score = index[c].score /\ d < c
    <3>1. <<d, c>> \in (DOMAIN index) \X (DOMAIN index)
      OBVIOUS
    <3>2. QED
      BY <3>1 DEF ScoreOrder
  <2>2. QED
    BY <2>1 DEF Below, Retrieval!Before, Retrieval!Better
<1>4. ASSUME NEW S PROVE Cardinality(S) = Retrieval!Cardinality(S)
  BY DEF Cardinality, Retrieval!Cardinality
<1>5. PICK L : L = Retrieval!Ranked(cs)
  OBVIOUS
<1>6. L = [k \in 1 .. Retrieval!Cardinality(cs) |->
             CHOOSE c \in cs :
               Retrieval!Cardinality({d \in cs : Retrieval!Before(d, c)}) = k - 1]
  BY <1>5 DEF Retrieval!Ranked, Retrieval!Sorted
<1>7. ASSUME NEW k \in 1 .. Cardinality(cs)
      PROVE  L[k] \in cs /\ Rank(ScoreOrder, cs, L[k]) = k - 1
  <2>1. k - 1 \in 0 .. Cardinality(cs) - 1
    BY <1>2
  <2>2. PICK c \in cs : Rank(ScoreOrder, cs, c) = k - 1
    BY <1>1, <2>1, EachRank
  <2>3. Retrieval!Cardinality({d \in cs : Retrieval!Before(d, c)}) = k - 1
    BY <1>3, <1>4, <2>2 DEF Rank
  <2>4. k \in 1 .. Retrieval!Cardinality(cs)
    BY <1>4
  <2>5. /\ L[k] \in cs
        /\ Retrieval!Cardinality({d \in cs : Retrieval!Before(d, L[k])}) = k - 1
    BY <1>6, <2>3, <2>4
  <2>6. QED
    BY <1>3, <1>4, <2>5 DEF Rank
<1>8. L \in Seq(cs) /\ Len(L) = Cardinality(cs)
  <2>1. L \in [1 .. Cardinality(cs) -> cs]
    BY <1>4, <1>6, <1>7
  <2>2. QED
    BY <1>2, <2>1
<1>9. QED
  BY <1>5, <1>7, <1>8 DEF Placed

(* The first ones of a list.                                               *)
LEMMA ShortestIs ==
  ASSUME NEW S, NEW s \in Seq(S), NEW n \in Nat
  PROVE  /\ Retrieval!Shortest(n, s) \in Seq(S)
         /\ Len(Retrieval!Shortest(n, s)) = IF Len(s) < n THEN Len(s) ELSE n
         /\ \A k \in 1 .. Len(Retrieval!Shortest(n, s)) : Retrieval!Shortest(n, s)[k] = s[k]
<1>1. CASE Len(s) < n
  <2>1. Retrieval!Shortest(n, s) = SubSeq(s, 1, Len(s))
    BY <1>1 DEF Retrieval!Shortest
  <2>2. QED
    BY <1>1, <2>1
<1>2. CASE ~(Len(s) < n)
  <2>1. Retrieval!Shortest(n, s) = SubSeq(s, 1, n) /\ n <= Len(s)
    BY <1>2 DEF Retrieval!Shortest
  <2>2. QED
    BY <1>2, <2>1
<1>3. QED
  BY <1>1, <1>2

Qualifying(bases, threshold) ==
    {c \in DOMAIN index : index[c].base \in bases /\ index[c].score >= threshold}

LEMMA SameFiniteSets ==
  \A S : /\ Retrieval!Cardinality(S) = Cardinality(S)
         /\ Retrieval!ToSet(S) = ToSet(S)
  BY DEF Retrieval!Cardinality, Cardinality, Retrieval!ToSet, ToSet

LEMMA TopKIs ==
  ASSUME NEW k \in Int PROVE Retrieval!TopK(k, 10) \in Nat
  BY DEF Retrieval!TopK

(* The candidates that the index returns of one knowledge base are enough: *)
(* a chunk that is among the first n of all is among the first n of its    *)
(* own base.                                                               *)
LEMMA CandidatesSuffice ==
  ASSUME Scores \subseteq Int, IndexTyped, NEW bases, IsFiniteSet(bases),
         NEW threshold \in Int, NEW n \in Nat,
         NEW c \in Qualifying(bases, threshold),
         Rank(ScoreOrder, Qualifying(bases, threshold), c) < n,
         NEW m \in Nat, n <= m
  PROVE  c \in Retrieval!ToSet(Retrieval!Shortest(m,
                    Retrieval!Ranked({d \in DOMAIN index : index[d].base = index[c].base})))
<1> DEFINE A == Qualifying(bases, threshold)
<1>1. PICK cs : cs = {d \in DOMAIN index : index[d].base = index[c].base}
  OBVIOUS
<1>2. cs \in SUBSET DOMAIN index /\ c \in cs /\ A \in SUBSET DOMAIN index
  BY <1>1 DEF Qualifying
<1>3. Orders(ScoreOrder, cs) /\ Orders(ScoreOrder, A)
  BY <1>2, ScoresOrder
<1>4. Below(ScoreOrder, cs, c) \in SUBSET Below(ScoreOrder, A, c)
  <2>1. ASSUME NEW d \in cs, <<d, c>> \in ScoreOrder PROVE d \in A
    <3>1. index[d].score >= index[c].score /\ index[c].score >= threshold
      <4>1. d \in DOMAIN index /\ c \in DOMAIN index
        BY <1>2
      <4>2. index[d] \in Stored /\ index[c] \in Stored
        BY <4>1 DEF IndexTyped
      <4>3. index[d].score \in Int /\ index[c].score \in Int
        BY <4>2, StoredChunk
      <4>4. index[d].score > index[c].score \/ index[d].score = index[c].score
        BY <2>1 DEF ScoreOrder
      <4>5. QED
        BY <4>3, <4>4 DEF Qualifying
    <3>2. index[d].base = index[c].base /\ index[c].base \in bases /\ d \in DOMAIN index
      BY <1>1 DEF Qualifying
    <3>3. index[d].score \in Int /\ index[c].score \in Int
      <4>1. index[d] \in Stored /\ index[c] \in Stored
        BY <1>2, <3>2 DEF IndexTyped
      <4>2. QED
        BY <4>1, StoredChunk
    <3>4. QED
      BY <3>1, <3>2, <3>3 DEF Qualifying
  <2>2. QED
    BY <2>1 DEF Below
<1>5. Rank(ScoreOrder, cs, c) <= Rank(ScoreOrder, A, c)
  <2>1. IsFiniteSet(Below(ScoreOrder, A, c))
    BY <1>3, RankOf
  <2>2. QED
    BY <1>4, <2>1, FS_Subset DEF Rank
<1>6. PICK L : L = Retrieval!Ranked(cs)
  OBVIOUS
<1>7. Placed(L, ScoreOrder, cs)
  BY <1>2, <1>6, RankedIsPlaced
<1>8. PICK r \in Nat : r = Rank(ScoreOrder, cs, c) /\ r < n
  <2>1. Rank(ScoreOrder, cs, c) \in Nat /\ Rank(ScoreOrder, A, c) \in Nat
    BY <1>2, <1>3, RankOf
  <2>2. QED
    BY <1>5, <2>1
<1>9. r + 1 \in 1 .. Len(L) /\ L[r + 1] = c
  BY <1>2, <1>3, <1>7, <1>8, PlacedInOrder
<1>10. PICK s : s = Retrieval!Shortest(m, L)
  OBVIOUS
<1>11. L \in Seq(cs)
  BY <1>7 DEF Placed
<1>12. r + 1 \in 1 .. Len(s) /\ s[r + 1] = c /\ s \in Seq(cs)
  BY <1>8, <1>9, <1>10, <1>11, ShortestIs
<1>13. c \in Retrieval!ToSet(s)
  BY <1>12 DEF Retrieval!ToSet
<1>14. QED
  BY <1>1, <1>6, <1>10, <1>13

(* Both stores return the same chunks for every query.                     *)
LEMMA SearchesAgree ==
  ASSUME Scores \subseteq Int, IndexTyped, NEW bases, IsFiniteSet(bases),
         NEW k \in Int, NEW threshold \in Int
  PROVE  Retrieval!VecSearch(bases, k, threshold) = Retrieval!BruteForce(bases, k, threshold)
<1> DEFINE A == Qualifying(bases, threshold)
<1>1. PICK n \in Nat : n = Retrieval!TopK(k, 10)
  BY TopKIs
<1>2. PICK m \in Nat : m = n + Retrieval!Cardinality(bases) /\ n <= m
  <2>1. Cardinality(bases) \in Nat /\ Retrieval!Cardinality(bases) = Cardinality(bases)
    BY FS_CardinalityType, SameFiniteSets
  <2>2. QED
    BY <2>1
<1> DEFINE Held(b) == {c \in DOMAIN index : index[c].base = b}
           Candidates(b) == Retrieval!ToSet(Retrieval!Shortest(m, Retrieval!Ranked(Held(b))))
<1>3. PICK B : B = {c \in UNION {Candidates(b) : b \in bases} : index[c].score >= threshold}
  OBVIOUS
<1>4. B \in SUBSET A
  <2>1. ASSUME NEW b \in bases, NEW c \in Candidates(b), index[c].score >= threshold
        PROVE  c \in A
    <3>1. Held(b) \in SUBSET DOMAIN index
      OBVIOUS
    <3>2. PICK L : L = Retrieval!Ranked(Held(b))
      OBVIOUS
    <3>3. L \in Seq(Held(b))
      BY <3>1, <3>2, RankedIsPlaced DEF Placed
    <3>4. PICK s : s = Retrieval!Shortest(m, L)
      OBVIOUS
    <3>5. s \in Seq(Held(b))
      BY <3>3, <3>4, ShortestIs
    <3>6. c \in Retrieval!ToSet(s)
      BY <3>2, <3>4
    <3>7. c \in Held(b)
      BY <3>5, <3>6 DEF Retrieval!ToSet
    <3>8. QED
      BY <2>1, <3>7 DEF Qualifying
  <2>2. QED
    BY <1>3, <2>1
<1>5. ASSUME NEW c \in A, Rank(ScoreOrder, A, c) < n PROVE c \in B
  <2>1. c \in Candidates(index[c].base)
    BY <1>2, <1>5, CandidatesSuffice
  <2>2. index[c].base \in bases /\ index[c].score >= threshold
    BY DEF Qualifying
  <2>3. QED
    BY <1>3, <2>1, <2>2
<1>6. PICK L, M : L = Retrieval!Ranked(A) /\ M = Retrieval!Ranked(B)
  OBVIOUS
<1>7. A \in SUBSET DOMAIN index
  BY DEF Qualifying
<1>8. Placed(L, ScoreOrder, A) /\ Placed(M, ScoreOrder, B) /\ Orders(ScoreOrder, A)
  BY <1>4, <1>6, <1>7, RankedIsPlaced, ScoresOrder
<1>9. /\ Len(M) < n => Len(M) = Len(L)
      /\ Len(M) <= Len(L)
      /\ \A i \in 1 .. n : i \in 1 .. Len(L) => i \in 1 .. Len(M) /\ M[i] = L[i]
  BY <1>4, <1>5, <1>8, FirstOnesStay
<1>10. L \in Seq(A) /\ M \in Seq(A)
  BY <1>4, <1>8 DEF Placed
<1>11. PICK s, t : s = Retrieval!Shortest(n, L) /\ t = Retrieval!Shortest(n, M)
  OBVIOUS
<1>12. /\ s \in Seq(A) /\ t \in Seq(A)
       /\ Len(s) = IF Len(L) < n THEN Len(L) ELSE n
       /\ Len(t) = IF Len(M) < n THEN Len(M) ELSE n
       /\ \A i \in 1 .. Len(s) : s[i] = L[i]
       /\ \A i \in 1 .. Len(t) : t[i] = M[i]
  BY <1>10, <1>11, ShortestIs
<1>13. Len(s) = Len(t) /\ Len(s) \in Nat
  BY <1>9, <1>10, <1>12
<1>14. \A i \in 1 .. Len(s) : s[i] = t[i]
  BY <1>9, <1>10, <1>12, <1>13
<1>15. s = t
  BY <1>12, <1>13, <1>14
<1>16. Retrieval!BruteForce(bases, k, threshold) = s
  BY <1>1, <1>6, <1>11 DEF Retrieval!BruteForce, Qualifying, Retrieval!Ids
<1>17. Retrieval!VecSearch(bases, k, threshold) = t
  BY <1>1, <1>2, <1>3, <1>6, <1>11 DEF Retrieval!VecSearch, Retrieval!Ids
<1>18. QED
  BY <1>15, <1>16, <1>17

(* What is left of a search is what it found.                              *)
LEMMA LoadedIsList ==
  ASSUME NEW S, NEW s \in Seq(S)
  PROVE  Retrieval!Loaded(s) \in Seq(S)
<1>1. PICK ss : ss = [k \in DOMAIN s |-> IF s[k] \notin lost THEN <<s[k]>> ELSE <<>>]
  OBVIOUS
<1>2. ss \in Seq(Seq(S))
  <2>1. DOMAIN s = 1 .. Len(s) /\ Len(s) \in Nat
    OBVIOUS
  <2>2. ASSUME NEW k \in 1 .. Len(s)
        PROVE  (IF s[k] \notin lost THEN <<s[k]>> ELSE <<>>) \in Seq(S)
    <3>1. s[k] \in S
      OBVIOUS
    <3>2. QED
      BY <3>1
  <2>3. ss \in [1 .. Len(s) -> Seq(S)]
    BY <1>1, <2>1, <2>2
  <2>4. QED
    BY <2>1, <2>3
<1>3. Retrieval!Loaded(s) = FlattenSeq(ss)
  BY <1>1 DEF Retrieval!Loaded, Retrieval!Filter, Retrieval!FlattenSeq, FlattenSeq
<1>4. QED
  BY <1>2, <1>3, FlattenType

(* The two metrics agree on any list of chunks.                            *)
LEMMA HitsAndFirstHit ==
  ASSUME NEW D, NEW s \in Seq(D), NEW relevant \in SUBSET (1 .. 2), NEW k \in Nat
  PROVE  /\ (Retrieval!Hits(s, relevant, k) > 0) = (Retrieval!FirstHit(s, relevant) \in 1 .. k)
         /\ Retrieval!Hits(s, relevant, k) <= Retrieval!Cardinality(relevant)
<1>1. PICK t : t = Retrieval!Shortest(k, s)
  OBVIOUS
<1>2. /\ t \in Seq(D) /\ Len(t) = (IF Len(s) < k THEN Len(s) ELSE k)
      /\ \A i \in 1 .. Len(t) : t[i] = s[i]
      /\ Len(s) \in Nat
  BY <1>1, ShortestIs
<1>3. PICK docs : docs = {index[c].doc : c \in Retrieval!ToSet(t)}
  OBVIOUS
<1>4. Retrieval!Hits(s, relevant, k) = Cardinality(docs \cap relevant)
  BY <1>1, <1>3, SameFiniteSets DEF Retrieval!Hits
<1>5. IsFiniteSet(relevant)
  <2>1. 1 \in Int /\ 2 \in Int
    OBVIOUS
  <2>2. IsFiniteSet(1 .. 2)
    BY <2>1, FS_Interval
  <2>3. QED
    BY <2>2, FS_Subset
<1>6. /\ IsFiniteSet(docs \cap relevant)
      /\ Cardinality(docs \cap relevant) <= Cardinality(relevant)
  BY <1>5, FS_Intersection
<1>7. /\ Cardinality(docs \cap relevant) \in Nat
      /\ Cardinality(docs \cap relevant) = 0 <=> docs \cap relevant = {}
  BY <1>6, FS_CardinalityType, FS_EmptySet
<1>8. PICK at : at = {i \in 1 .. Len(s) : index[s[i]].doc \in relevant}
  OBVIOUS
<1>9. docs \cap relevant # {} <=> \E i \in at : i <= k
  <2>1. ASSUME NEW i \in at, i <= k PROVE index[s[i]].doc \in docs \cap relevant
    <3>1. i \in 1 .. Len(t) /\ t[i] = s[i]
      BY <1>2, <1>8, <2>1
    <3>2. s[i] \in Retrieval!ToSet(t)
      BY <1>2, <3>1 DEF Retrieval!ToSet
    <3>3. QED
      BY <1>3, <1>8, <3>2
  <2>2. ASSUME NEW d \in docs \cap relevant PROVE \E i \in at : i <= k
    <3>1. PICK i \in 1 .. Len(t) : d = index[t[i]].doc
      BY <1>2, <1>3 DEF Retrieval!ToSet
    <3>2. i \in at /\ i <= k
      BY <1>2, <1>8, <3>1
    <3>3. QED
      BY <3>2
  <2>3. QED
    BY <2>1, <2>2
<1>10. Retrieval!FirstHit(s, relevant) =
         IF at = {} THEN 0 ELSE CHOOSE i \in at : \A j \in at : i <= j
  <2>1. at = {i \in DOMAIN s : index[s[i]].doc \in relevant}
    BY <1>8
  <2>2. QED
    BY <2>1 DEF Retrieval!FirstHit
<1>11. at \in SUBSET Nat
  BY <1>8
<1>12. Retrieval!FirstHit(s, relevant) \in 1 .. k <=> \E i \in at : i <= k
  <2>1. CASE at = {}
    BY <1>10, <2>1
  <2>2. CASE at # {}
    <3>1. PICK x \in at : \A y \in at : x <= y
      BY <1>11, <2>2, LeastNatural
    <3>2. PICK f : f = CHOOSE i \in at : \A j \in at : i <= j
      OBVIOUS
    <3>3. f \in at /\ \A j \in at : f <= j
      BY <3>1, <3>2
    <3>4. f \in 1 .. Len(s)
      BY <1>8, <3>3
    <3>5. f \in 1 .. k <=> \E i \in at : i <= k
      BY <1>11, <3>3, <3>4
    <3>6. QED
      BY <1>10, <2>2, <3>2, <3>5
  <2>3. QED
    BY <2>1, <2>2
<1>13. Retrieval!Hits(s, relevant, k) > 0 <=> docs \cap relevant # {}
  BY <1>4, <1>7
<1>14. Retrieval!Hits(s, relevant, k) <= Retrieval!Cardinality(relevant)
  BY <1>4, <1>6, SameFiniteSets
<1>15. QED
  BY <1>9, <1>12, <1>13, <1>14

LEMMA BruteForceIs ==
  ASSUME Scores \subseteq Int, IndexTyped, NEW bases, NEW k \in Int, NEW threshold \in Int,
         NEW A, A = Qualifying(bases, threshold),
         NEW n \in Nat, n = Retrieval!TopK(k, 10),
         NEW s, s = Retrieval!BruteForce(bases, k, threshold)
  PROVE  \E L : /\ Placed(L, ScoreOrder, A) /\ Orders(ScoreOrder, A)
                /\ s \in Seq(A) /\ Len(s) = (IF Len(L) < n THEN Len(L) ELSE n)
                /\ \A i \in 1 .. Len(s) : s[i] = L[i]
<1>1. PICK L : L = Retrieval!Ranked(A)
  OBVIOUS
<1>2. A \in SUBSET DOMAIN index
  BY DEF Qualifying
<1>3. Placed(L, ScoreOrder, A) /\ Orders(ScoreOrder, A)
  BY <1>1, <1>2, RankedIsPlaced, ScoresOrder
<1>4. s = Retrieval!Shortest(n, L)
  BY <1>1 DEF Retrieval!BruteForce, Qualifying, Retrieval!Ids
<1>5. L \in Seq(A)
  BY <1>3 DEF Placed
<1>6. /\ s \in Seq(A) /\ Len(s) = (IF Len(L) < n THEN Len(L) ELSE n)
      /\ \A i \in 1 .. Len(s) : s[i] = L[i]
  BY <1>4, <1>5, ShortestIs
<1>7. QED
  BY <1>3, <1>6

(* What is left out of the first n qualifying chunks is not better than    *)
(* any of them, and then they are n.                                       *)
LEMMA BestFirst ==
  ASSUME Scores \subseteq Int, IndexTyped, NEW bases, NEW k \in Int, NEW threshold \in Int,
         NEW c \in Qualifying(bases, threshold),
         NEW s, s = Retrieval!BruteForce(bases, k, threshold),
         c \notin Retrieval!ToSet(s)
  PROVE  /\ Len(s) = Retrieval!TopK(k, 10)
         /\ \A d \in Retrieval!ToSet(s) : ~(index[c].score > index[d].score)
<1>1. PICK n \in Nat : n = Retrieval!TopK(k, 10)
  BY TopKIs
<1>2. PICK A : A = Qualifying(bases, threshold)
  OBVIOUS
<1>3. PICK L : /\ Placed(L, ScoreOrder, A) /\ Orders(ScoreOrder, A)
               /\ s \in Seq(A) /\ Len(s) = (IF Len(L) < n THEN Len(L) ELSE n)
               /\ \A i \in 1 .. Len(s) : s[i] = L[i]
  BY <1>1, <1>2, BruteForceIs
<1>4. PICK r : r = Rank(ScoreOrder, A, c) + 1
  OBVIOUS
<1>5. r \in 1 .. Len(L) /\ L[r] = c /\ Len(L) \in Nat
  BY <1>2, <1>3, <1>4, PlacedInOrder DEF Placed
<1>6. ~(r \in 1 .. Len(s))
  <2>1. ASSUME r \in 1 .. Len(s) PROVE FALSE
    <3>1. s[r] = c
      BY <1>3, <1>5, <2>1
    <3>2. c \in Retrieval!ToSet(s)
      BY <1>3, <2>1, <3>1 DEF Retrieval!ToSet
    <3>3. QED
      BY <3>2
  <2>2. QED
    BY <2>1
<1>7. Len(s) = n /\ n < r
  BY <1>3, <1>5, <1>6
<1>8. ASSUME NEW d \in Retrieval!ToSet(s) PROVE ~(index[c].score > index[d].score)
  <2>1. PICK i \in 1 .. Len(s) : d = s[i]
    BY <1>3 DEF Retrieval!ToSet
  <2>2. i \in 1 .. Len(L) /\ d = L[i] /\ i < r
    BY <1>3, <1>5, <1>7, <2>1
  <2>3. <<d, c>> \in ScoreOrder
    BY <1>3, <1>5, <2>2, PlacedInOrder
  <2>4. index[d].score > index[c].score \/ index[d].score = index[c].score
    BY <2>3 DEF ScoreOrder
  <2>5. index[c].score \in Int /\ index[d].score \in Int
    <3>1. c \in DOMAIN index /\ d \in DOMAIN index
      BY <2>3 DEF ScoreOrder
    <3>2. index[c] \in Stored /\ index[d] \in Stored
      BY <3>1 DEF IndexTyped
    <3>3. QED
      BY <3>2, StoredChunk
  <2>6. QED
    BY <2>4, <2>5
<1>9. QED
  BY <1>1, <1>7, <1>8

LEMMA SearchTyped ==
  (index \in Seq(Stored) /\ lost \subseteq DOMAIN index) = Retrieval!SearchTypeOK
  BY DEF Retrieval!SearchTypeOK, Retrieval!Ids, Stored

LEMMA SearchTypeInit == Retrieval!Init => Retrieval!SearchTypeOK
<1>1. Retrieval!Init => index \in Seq(Stored) /\ lost \subseteq DOMAIN index
  BY DEF Retrieval!Init
<1>2. QED
  BY <1>1, SearchTyped

LEMMA SearchTypeStep ==
  ASSUME Retrieval!SearchTypeOK, [Retrieval!Next]_Retrieval!searchVars
  PROVE  Retrieval!SearchTypeOK'
<1>1. index \in Seq(Stored) /\ lost \subseteq DOMAIN index
  BY SearchTyped
<1>2. ASSUME NEW base \in Bases, NEW doc \in 1 .. 2, NEW score \in Scores,
             Retrieval!StoreChunk(base, doc, score)
      PROVE  index' \in Seq(Stored) /\ lost' \subseteq DOMAIN index'
  <2>1. PICK c \in Stored : index' = Append(index, c) /\ lost' = lost
    BY <1>2 DEF Retrieval!StoreChunk, Stored
  <2>2. QED
    BY <1>1, <2>1
<1>3. ASSUME NEW c \in DOMAIN index, Retrieval!LoseRow(c)
      PROVE  index' \in Seq(Stored) /\ lost' \subseteq DOMAIN index'
  BY <1>1, <1>3 DEF Retrieval!LoseRow
<1>4. CASE UNCHANGED Retrieval!searchVars
  BY <1>1, <1>4 DEF Retrieval!searchVars, Retrieval!SearchTypeOK, Retrieval!Ids
<1>5. index' \in Seq(Stored) /\ lost' \subseteq DOMAIN index' => Retrieval!SearchTypeOK'
  BY DEF Retrieval!SearchTypeOK, Retrieval!Ids, Stored
<1>6. QED
  BY <1>2, <1>3, <1>4, <1>5 DEF Retrieval!Next, Retrieval!Ids

LEMMA SearchIsConsistent ==
  ASSUME Scores \subseteq Int, IsFiniteSet(Bases), Retrieval!SearchTypeOK
  PROVE  Retrieval!SearchConsistent
<1>1. IndexTyped
  BY SearchTyped DEF IndexTyped
<1>2. ASSUME NEW q \in Retrieval!Queries
      PROVE  /\ IsFiniteSet(q[1]) /\ q[1] \in SUBSET Bases
             /\ q[2] \in Int /\ q[3] \in Int
             /\ Retrieval!VecSearch(q[1], q[2], q[3]) = Retrieval!BruteForce(q[1], q[2], q[3])
  <2>1. q[1] \in SUBSET Bases /\ q[2] \in Int /\ q[3] \in Int
    <3>1. q \in (SUBSET Bases) \X (0 .. 2) \X Scores
      BY DEF Retrieval!Queries
    <3>2. q[1] \in SUBSET Bases
      BY <3>1
    <3>3. q[2] \in 0 .. 2
      BY <3>1
    <3>4. q[3] \in Scores
      BY <3>1
    <3>5. \A i \in 0 .. 2 : i \in Int
      OBVIOUS
    <3>6. q[2] \in Int
      BY <3>3, <3>5
    <3>7. q[3] \in Int
      BY <3>4
    <3>8. QED
      BY <3>2, <3>6, <3>7, Zenon
  <2>2. IsFiniteSet(q[1])
    BY <2>1, FS_Subset
  <2>3. QED
    BY <1>1, <2>1, <2>2, SearchesAgree
<1>3. Retrieval!StoresAgree
  BY <1>2 DEF Retrieval!StoresAgree
<1>4. Retrieval!BestAreFound
  <2> SUFFICES ASSUME NEW q \in Retrieval!Queries,
                      NEW s, s = Retrieval!VecSearch(q[1], q[2], q[3]),
                      NEW c \in (DOMAIN index) \ Retrieval!ToSet(s),
                      index[c].base \in q[1], index[c].score >= q[3]
               PROVE  /\ Len(s) = Retrieval!TopK(q[2], 10)
                      /\ \A d \in Retrieval!ToSet(s) : ~(index[c].score > index[d].score)
    BY DEF Retrieval!BestAreFound, Retrieval!Ids, Retrieval!Better
  <2>1. c \in Qualifying(q[1], q[3])
    BY DEF Qualifying
  <2>2. s = Retrieval!BruteForce(q[1], q[2], q[3]) /\ q[2] \in Int /\ q[3] \in Int
    BY <1>2
  <2>3. QED
    BY <1>1, <2>1, <2>2, BestFirst
<1>5. Retrieval!MetricsAgree
  <2> SUFFICES ASSUME NEW relevant \in SUBSET (1 .. 2), NEW k \in 1 .. SearchedChunks,
                      NEW s, s = Retrieval!Loaded(Retrieval!BruteForce(Bases, 0, 0))
               PROVE  /\ (Retrieval!Hits(s, relevant, k) > 0)
                            = (Retrieval!FirstHit(s, relevant) \in 1 .. k)
                      /\ Retrieval!Hits(s, relevant, k) <= Retrieval!Cardinality(relevant)
    BY DEF Retrieval!MetricsAgree
  <2>1. PICK z \in Int : z = 0
    OBVIOUS
  <2>2. PICK A, b : A = Qualifying(Bases, z) /\ b = Retrieval!BruteForce(Bases, z, z)
    OBVIOUS
  <2>3. PICK n \in Nat : n = Retrieval!TopK(z, 10)
    BY TopKIs
  <2>4. PICK L : /\ Placed(L, ScoreOrder, A) /\ Orders(ScoreOrder, A)
                 /\ b \in Seq(A) /\ Len(b) = (IF Len(L) < n THEN Len(L) ELSE n)
                 /\ \A i \in 1 .. Len(b) : b[i] = L[i]
    BY <1>1, <2>2, <2>3, BruteForceIs
  <2>5. s \in Seq(A)
    BY <2>1, <2>2, <2>4, LoadedIsList
  <2>6. k \in Nat
    OBVIOUS
  <2>7. QED
    BY <2>5, <2>6, HitsAndFirstHit
<1>6. QED
  BY <1>3, <1>4, <1>5 DEF Retrieval!SearchConsistent

(* Whichever store is used, a search returns the best of what was asked    *)
(* for, and the metrics of what it finds agree (vecstore.go:63-125,        *)
(* bfstore.go:39-100, metrics.go:30-93).                                   *)
THEOREM SearchFindsBest ==
  ASSUME Scores \subseteq Int, IsFiniteSet(Bases)
  PROVE  Retrieval!Spec => []Retrieval!SearchConsistent
<1>1. Retrieval!SearchTypeOK => Retrieval!SearchConsistent
  BY SearchIsConsistent
<1>2. QED
  BY <1>1, SearchTypeInit, SearchTypeStep, PTL DEF Retrieval!Spec

-----------------------------------------------------------------------------
(* The harness.  No plugin is registered twice, as in the server's list    *)
(* (cmd/server/main.go), and a hook's priority is a number.                *)

HarnessPlugins ==
    /\ Plugins \in Seq(Harness!ThePlugins)
    /\ \A i, j \in 1 .. Len(Plugins) : Plugins[i] = Plugins[j] => i = j
    /\ \A p \in Harness!ThePlugins : HookList[p] \in Seq(Int)

(* Register: the last plugin with a tool of a name has one.                *)
LEMMA LastHasTool ==
  ASSUME HarnessPlugins, NEW t \in Harness!AllTools
  PROVE  t \in ToolNames[Harness!LastWith(t, Len(Plugins))]
<1>1. PICK n \in Nat : n = Len(Plugins)
  BY DEF HarnessPlugins
<1>2. PICK at : at = {i \in 1 .. n : t \in ToolNames[Plugins[i]]}
  OBVIOUS
<1>3. at # {}
  <2>1. PICK p \in Harness!ThePlugins : t \in ToolNames[p]
    BY DEF Harness!AllTools
  <2>2. PICK i \in DOMAIN Plugins : Plugins[i] = p
    BY <2>1 DEF Harness!ThePlugins, Harness!ToSet
  <2>3. i \in 1 .. n
    BY <1>1, <2>2 DEF HarnessPlugins
  <2>4. QED
    BY <1>2, <2>1, <2>2, <2>3
<1>4. PICK back : back = {j \in Nat : \E i \in at : i = n - j}
  OBVIOUS
<1>5. back # {}
  <2>1. PICK i \in at : TRUE
    BY <1>3
  <2>2. i \in 1 .. n
    BY <1>2
  <2>3. n - i \in Nat /\ i = n - (n - i)
    BY <1>1, <2>2
  <2>4. QED
    BY <1>4, <2>3
<1>6. PICK b \in back : \A c \in back : b <= c
  BY <1>4, <1>5, LeastNatural
<1>7. PICK m \in at : m = n - b
  BY <1>4
<1>8. ASSUME NEW i \in at PROVE i <= m
  <2>1. i \in 1 .. n
    BY <1>2
  <2>2. n - i \in Nat /\ i = n - (n - i)
    BY <1>1, <2>1
  <2>3. n - i \in back
    BY <1>4, <2>2
  <2>4. b <= n - i /\ b \in Nat
    BY <1>4, <1>6, <2>3
  <2>5. QED
    BY <1>1, <1>7, <2>1, <2>4
<1>9. PICK l : l = CHOOSE i \in at : \A j \in at : j <= i
  OBVIOUS
<1>10. l \in at
  BY <1>7, <1>8, <1>9
<1>11. Harness!LastWith(t, n) = Plugins[l]
  BY <1>2, <1>3, <1>9 DEF Harness!LastWith
<1>12. QED
  BY <1>1, <1>2, <1>10, <1>11

(* The hooks a whole build takes: every one, once.                         *)
LEMMA AllHooksTaken ==
  ASSUME HarnessPlugins
  PROVE  \E A : /\ A = Harness!AllHooks(Len(Plugins))
                /\ A \in Seq(Harness!Hook) /\ Distinct(A)
                /\ \A h \in Harness!Hook : \E j \in 1 .. Len(A) : A[j] = h
<1>1. PICK n \in Nat : n = Len(Plugins)
  BY DEF HarnessPlugins
<1>2. PICK H : H = Harness!Hook
  OBVIOUS
<1>3. PICK ss : ss = [i \in 1 .. n |-> Harness!HooksOf(Plugins[i])]
  OBVIOUS
<1>4. ASSUME NEW k \in 1 .. n
      PROVE  /\ Plugins[k] \in Harness!ThePlugins
             /\ ss[k] \in Seq(H)
             /\ Len(ss[k]) = Len(HookList[Plugins[k]])
             /\ \A i \in 1 .. Len(ss[k]) :
                  ss[k][i] = [plugin |-> Plugins[k], number |-> i,
                              priority |-> HookList[Plugins[k]][i]]
  <2>1. PICK p \in Harness!ThePlugins : p = Plugins[k]
    BY <1>1 DEF HarnessPlugins
  <2>2. HookList[p] \in Seq(Int)
    BY <2>1 DEF HarnessPlugins
  <2>3. PICK m \in Nat : m = Len(HookList[p]) /\ DOMAIN HookList[p] = 1 .. m
    BY <2>2
  <2>4. PICK s : s = ss[k]
    OBVIOUS
  <2>5. s = [i \in 1 .. m |-> [plugin |-> p, number |-> i, priority |-> HookList[p][i]]]
    BY <1>3, <2>1, <2>3, <2>4 DEF Harness!HooksOf
  <2>6. ASSUME NEW i \in 1 .. m PROVE s[i] \in H
    BY <1>2, <2>1, <2>3, <2>5 DEF Harness!Hook
  <2>7. s = [i \in 1 .. m |-> s[i]]
    BY <2>5
  <2>8. s \in Seq(H) /\ Len(s) = m
    BY <2>6, <2>7
  <2>9. \A i \in 1 .. m : s[i] = [plugin |-> p, number |-> i, priority |-> HookList[p][i]]
    BY <2>5
  <2>10. QED
    BY <2>1, <2>3, <2>4, <2>8, <2>9
<1>5. ss \in Seq(Seq(H)) /\ Len(ss) = n
  <2>1. PICK Q : Q = Seq(H)
    OBVIOUS
  <2>2. \A k \in 1 .. n : ss[k] \in Q
    BY <1>4, <2>1
  <2>3. ss = [k \in 1 .. n |-> ss[k]]
    BY <1>3
  <2>4. QED
    BY <2>1, <2>2, <2>3
<1>6. Apart(ss)
  <2> SUFFICES ASSUME NEW k \in 1 .. n, NEW l \in 1 .. n,
                      NEW i \in 1 .. Len(ss[k]), NEW j \in 1 .. Len(ss[l]),
                      ss[k][i] = ss[l][j]
               PROVE  k = l /\ i = j
    BY <1>5 DEF Apart
  <2>1. PICK x, y, p, q : /\ x = ss[k][i] /\ y = ss[l][j] /\ p = Plugins[k] /\ q = Plugins[l]
    OBVIOUS
  <2>2. x = [plugin |-> p, number |-> i, priority |-> HookList[p][i]]
    BY <1>4, <2>1
  <2>3. y = [plugin |-> q, number |-> j, priority |-> HookList[q][j]]
    BY <1>4, <2>1
  <2>4. x.plugin = p /\ x.number = i /\ y.plugin = q /\ y.number = j
    BY <2>2, <2>3
  <2>5. p = q /\ i = j
    BY <2>1, <2>4
  <2>6. QED
    BY <1>1, <2>1, <2>5 DEF HarnessPlugins
<1>7. PICK f \in [0 .. Len(ss) -> Seq(H)] : Joins(f, ss) /\ FlattenSeq(ss) = f[Len(ss)]
  BY <1>5, FlattenIsJoin
<1>8. PICK A : A = f[Len(ss)]
  OBVIOUS
<1>9. HasAll(A, ss, n) /\ Distinct(A)
  BY <1>5, <1>6, <1>7, <1>8, JoinElements
<1>10. A \in Seq(H)
  BY <1>5, <1>7, <1>8
<1>11. A = Harness!AllHooks(n)
  <2>1. Harness!FlattenSeq(ss) = FlattenSeq(ss)
    BY DEF Harness!FlattenSeq, FlattenSeq
  <2>2. QED
    BY <1>3, <1>7, <1>8, <2>1 DEF Harness!AllHooks
<1>12. ASSUME NEW h \in H PROVE \E j \in 1 .. Len(A) : A[j] = h
  <2>1. PICK p \in Harness!ThePlugins :
          h \in {[plugin |-> p, number |-> i, priority |-> HookList[p][i]] : i \in DOMAIN HookList[p]}
    BY <1>2 DEF Harness!Hook
  <2>2. PICK i \in DOMAIN HookList[p] :
          h = [plugin |-> p, number |-> i, priority |-> HookList[p][i]]
    BY <2>1
  <2>3. PICK k \in DOMAIN Plugins : Plugins[k] = p
    BY <2>1 DEF Harness!ThePlugins, Harness!ToSet
  <2>4. k \in 1 .. n /\ i \in 1 .. Len(ss[k])
    <3>1. k \in 1 .. n
      BY <1>1, <2>3 DEF HarnessPlugins
    <3>2. HookList[p] \in Seq(Int)
      BY <2>1 DEF HarnessPlugins
    <3>3. QED
      BY <1>4, <2>2, <2>3, <3>1, <3>2
  <2>5. ss[k][i] = h
    BY <1>4, <2>2, <2>3, <2>4
  <2>6. QED
    BY <1>9, <2>4, <2>5 DEF HasAll
<1>13. QED
  BY <1>1, <1>2, <1>9, <1>10, <1>11, <1>12

(* What the harness keeps: before a whole build nothing, after it all that *)
(* the registered plugins have; and the order of what has been run.        *)
HarnessState ==
    /\ built => /\ toolPool = [t \in Harness!AllTools |-> Harness!LastWith(t, Len(Plugins))]
                /\ hooks = Harness!AllHooks(Len(Plugins))
    /\ ~built => toolPool = Harness!NoTools /\ hooks = <<>> /\ agent = {} /\ ran = <<>>
    /\ Harness!OrderKept

LEMMA HarnessStart == Harness!Init => HarnessState
  BY DEF Harness!Init, HarnessState, Harness!OrderKept

(* The place of a hook in the list is the one place where it is.           *)
LEMMA HooksPlaced ==
  ASSUME HarnessPlugins, hooks = Harness!AllHooks(Len(Plugins))
  PROVE  /\ Len(hooks) \in Nat /\ DOMAIN hooks = 1 .. Len(hooks)
         /\ Harness!ToSet(hooks) = Harness!Hook
         /\ \A h \in Harness!Hook :
               Harness!Position(h) \in 1 .. Len(hooks) /\ hooks[Harness!Position(h)] = h
<1>1. PICK A : /\ A = Harness!AllHooks(Len(Plugins))
               /\ A \in Seq(Harness!Hook) /\ Distinct(A)
               /\ \A h \in Harness!Hook : \E j \in 1 .. Len(A) : A[j] = h
  BY AllHooksTaken
<1>2. hooks = A
  BY <1>1
<1>3. PICK n \in Nat : n = Len(A) /\ DOMAIN A = 1 .. n
  BY <1>1
<1>4. Harness!ToSet(A) = Harness!Hook
  <2>1. \A j \in 1 .. n : A[j] \in Harness!Hook
    BY <1>1, <1>3
  <2>2. QED
    BY <1>1, <1>3, <2>1 DEF Harness!ToSet
<1>5. ASSUME NEW h \in Harness!Hook
      PROVE  Harness!Position(h) \in 1 .. n /\ A[Harness!Position(h)] = h
  <2>1. PICK j \in DOMAIN A : A[j] = h
    BY <1>1, <1>3
  <2>2. PICK x : x = CHOOSE i \in DOMAIN A : A[i] = h
    OBVIOUS
  <2>3. x \in DOMAIN A /\ A[x] = h
    BY <2>1, <2>2
  <2>4. Harness!Position(h) = x
    BY <1>2, <2>2 DEF Harness!Position
  <2>5. QED
    BY <1>3, <2>3, <2>4
<1>6. QED
  BY <1>2, <1>3, <1>4, <1>5

(* Run sorts the hooks of a point by an order without ties.                *)
HookOrder ==
    {r \in Harness!Hook \X Harness!Hook : Harness!RunBefore(r[1], r[2])}

LEMMA HooksOrdered ==
  ASSUME HarnessPlugins, hooks = Harness!AllHooks(Len(Plugins)),
         NEW T \in SUBSET Harness!Hook
  PROVE  Orders(HookOrder, T)
<1>1. PICK H, n : H = Harness!Hook /\ n = Len(hooks)
  OBVIOUS
<1>2. n \in Nat /\ DOMAIN hooks = 1 .. n
  BY <1>1, HooksPlaced
<1>3. PICK pos : pos = [h \in H |-> Harness!Position(h)]
  OBVIOUS
<1>4. ASSUME NEW h \in H PROVE pos[h] \in 1 .. n /\ hooks[pos[h]] = h
  BY <1>1, <1>3, HooksPlaced
<1>5. ASSUME NEW h \in H PROVE h.priority \in Int
  <2>1. PICK p \in Harness!ThePlugins :
          h \in {[plugin |-> p, number |-> i, priority |-> HookList[p][i]] : i \in DOMAIN HookList[p]}
    BY <1>1 DEF Harness!Hook
  <2>2. PICK i \in DOMAIN HookList[p] :
          h = [plugin |-> p, number |-> i, priority |-> HookList[p][i]]
    BY <2>1
  <2>3. HookList[p] \in Seq(Int)
    BY <2>1 DEF HarnessPlugins
  <2>4. QED
    BY <2>2, <2>3
<1>6. IsFiniteSet(T)
  <2>1. pos \in Injection(H, 1 .. n)
    <3>1. pos \in [H -> 1 .. n]
      BY <1>3, <1>4
    <3>2. ASSUME NEW g \in H, NEW h \in H, pos[g] = pos[h] PROVE g = h
      BY <1>4, <3>2
    <3>3. QED
      BY <3>1, <3>2 DEF Injection, IsInjective
  <2>2. IsFiniteSet(1 .. n)
    BY <1>2, FS_Interval
  <2>3. IsFiniteSet(H)
    BY <2>1, <2>2, FS_Injection
  <2>4. QED
    BY <1>1, <2>3, FS_Subset
<1>7. ASSUME NEW g \in H, NEW h \in H
      PROVE  <<g, h>> \in HookOrder <=>
               \/ g.priority > h.priority
               \/ g.priority = h.priority /\ pos[g] < pos[h]
  <2>1. <<g, h>> \in H \X H
    OBVIOUS
  <2>2. QED
    BY <1>1, <1>3, <2>1 DEF HookOrder, Harness!RunBefore
<1>8. T \subseteq H
  BY <1>1
<1>9. ASSUME NEW x \in T, NEW y \in T, x # y
      PROVE  <<x, y>> \in HookOrder \/ <<y, x>> \in HookOrder
  <2>1. pos[x] # pos[y] /\ pos[x] \in Int /\ pos[y] \in Int
    BY <1>4, <1>8, <1>9
  <2>2. x.priority \in Int /\ y.priority \in Int
    BY <1>5, <1>8
  <2>3. QED
    BY <1>7, <1>8, <2>1, <2>2
<1>10. ASSUME NEW x \in T PROVE <<x, x>> \notin HookOrder
  <2>1. pos[x] \in Int /\ x.priority \in Int
    BY <1>4, <1>5, <1>8
  <2>2. QED
    BY <1>7, <1>8, <2>1
<1>11. ASSUME NEW x \in T, NEW y \in T, NEW z \in T,
              <<x, y>> \in HookOrder, <<y, z>> \in HookOrder
       PROVE  <<x, z>> \in HookOrder
  <2>1. pos[x] \in Int /\ pos[y] \in Int /\ pos[z] \in Int
    BY <1>4, <1>8
  <2>2. x.priority \in Int /\ y.priority \in Int /\ z.priority \in Int
    BY <1>5, <1>8
  <2>3. QED
    BY <1>7, <1>8, <1>11, <2>1, <2>2
<1>12. QED
  BY <1>6, <1>9, <1>10, <1>11 DEF Orders

LEMMA HooksRun ==
  ASSUME HarnessPlugins, hooks = Harness!AllHooks(Len(Plugins)),
         NEW T \in SUBSET Harness!Hook,
         NEW L, L = Harness!Sorted(T, Harness!RunBefore)
  PROVE  Placed(L, HookOrder, T)
<1>1. Orders(HookOrder, T)
  BY HooksOrdered
<1>2. Cardinality(T) \in Nat
  BY <1>1, FS_CardinalityType DEF Orders
<1>3. ASSUME NEW h \in T
      PROVE  Below(HookOrder, T, h) = {g \in T : Harness!RunBefore(g, h)}
  <2>1. ASSUME NEW g \in T PROVE <<g, h>> \in HookOrder <=> Harness!RunBefore(g, h)
    <3>1. <<g, h>> \in Harness!Hook \X Harness!Hook
      OBVIOUS
    <3>2. QED
      BY <3>1 DEF HookOrder
  <2>2. QED
    BY <2>1 DEF Below
<1>4. ASSUME NEW S PROVE Cardinality(S) = Harness!Cardinality(S)
  BY DEF Cardinality, Harness!Cardinality
<1>5. L = [k \in 1 .. Harness!Cardinality(T) |->
             CHOOSE h \in T :
               Harness!Cardinality({g \in T : Harness!RunBefore(g, h)}) = k - 1]
  BY DEF Harness!Sorted
<1>6. ASSUME NEW k \in 1 .. Cardinality(T)
      PROVE  L[k] \in T /\ Rank(HookOrder, T, L[k]) = k - 1
  <2>1. k - 1 \in 0 .. Cardinality(T) - 1
    BY <1>2
  <2>2. PICK h \in T : Rank(HookOrder, T, h) = k - 1
    BY <1>1, <2>1, EachRank
  <2>3. Harness!Cardinality({g \in T : Harness!RunBefore(g, h)}) = k - 1
    BY <1>3, <1>4, <2>2 DEF Rank
  <2>4. k \in 1 .. Harness!Cardinality(T)
    BY <1>4
  <2>5. /\ L[k] \in T
        /\ Harness!Cardinality({g \in T : Harness!RunBefore(g, L[k])}) = k - 1
    BY <1>5, <2>3, <2>4
  <2>6. QED
    BY <1>3, <1>4, <2>5 DEF Rank
<1>7. L \in Seq(T) /\ Len(L) = Cardinality(T)
  <2>1. PICK n \in Nat : n = Cardinality(T)
    BY <1>2
  <2>2. L = [k \in 1 .. n |-> L[k]]
    BY <1>4, <1>5, <2>1
  <2>3. \A k \in 1 .. n : L[k] \in T
    BY <1>6, <2>1
  <2>4. QED
    BY <2>1, <2>2, <2>3
<1>8. QED
  BY <1>6, <1>7 DEF Placed

LEMMA HarnessStep ==
  ASSUME HarnessPlugins, HarnessState, [Harness!Next]_(Harness!vars)
  PROVE  HarnessState'
<1>1. ASSUME UNCHANGED <<built, toolPool, hooks, agent, ran>> PROVE HarnessState'
  <2>1. Harness!OrderKept'
    BY <1>1 DEF HarnessState, Harness!OrderKept, Harness!Position
  <2>2. QED
    BY <1>1, <2>1 DEF HarnessState
<1>2. ASSUME NEW i \in DOMAIN SkillPaths, NEW s \in Skills, Harness!EditSkills(i, s)
      PROVE  HarnessState'
  BY <1>1, <1>2 DEF Harness!EditSkills, Harness!pools
<1>3. ASSUME NEW n \in 0 .. Len(Plugins), Harness!Build(n)
      PROVE  HarnessState'
  <2>1. CASE built
    <3>1. UNCHANGED <<built, toolPool, hooks, agent, ran>>
      BY <1>3, <2>1 DEF Harness!Build, Harness!pools
    <3>2. QED
      BY <1>1, <3>1
  <2>2. CASE ~built
    <3>1. agent = {} /\ ran = <<>> /\ agent' = {} /\ ran' = <<>>
      BY <1>3, <2>2 DEF Harness!Build, HarnessState
    <3>2. Harness!OrderKept'
      BY <3>1 DEF Harness!OrderKept
    <3>3. CASE n = Len(Plugins)
      <4>1. /\ built' = TRUE
            /\ toolPool' = [t \in Harness!AllTools |-> Harness!LastWith(t, Len(Plugins))]
            /\ hooks' = Harness!AllHooks(Len(Plugins))
        BY <1>3, <2>2, <3>3 DEF Harness!Build
      <4>2. QED
        BY <3>2, <4>1 DEF HarnessState
    <3>4. CASE n # Len(Plugins)
      <4>1. built' = FALSE /\ toolPool' = Harness!NoTools /\ hooks' = <<>>
        BY <1>3, <2>2, <3>4 DEF Harness!Build
      <4>2. QED
        BY <3>1, <3>2, <4>1 DEF HarnessState
    <3>5. QED
      BY <3>3, <3>4
  <2>3. QED
    BY <2>1, <2>2
<1>4. ASSUME NEW s \in Skills, NEW flag \in BOOLEAN, Harness!SetSkillEnabled(s, flag)
      PROVE  HarnessState'
  BY <1>1, <1>4 DEF Harness!SetSkillEnabled, Harness!pools
<1>5. ASSUME NEW patterns \in ToolLists, Harness!CreateAgent(patterns)
      PROVE  HarnessState'
  <2>1. built /\ UNCHANGED <<built, toolPool, hooks, ran>>
    BY <1>5 DEF Harness!CreateAgent, Harness!pools
  <2>2. QED
    BY <2>1 DEF HarnessState, Harness!OrderKept, Harness!Position
<1>6. ASSUME NEW S \in SUBSET Harness!Hook, Harness!RunHooks(S)
      PROVE  HarnessState'
  <2>1. built /\ UNCHANGED <<built, toolPool, hooks, agent>>
    BY <1>6 DEF Harness!RunHooks, Harness!pools
  <2>2. hooks = Harness!AllHooks(Len(Plugins))
    BY <2>1 DEF HarnessState
  <2>3. PICK T, L : T = S \cap Harness!ToSet(hooks) /\ L = ran'
    OBVIOUS
  <2>4. L = Harness!Sorted(T, Harness!RunBefore)
    BY <1>6, <2>3 DEF Harness!RunHooks
  <2>5. T \in SUBSET Harness!Hook
    BY <1>6, <2>3
  <2>6. Placed(L, HookOrder, T)
    BY <2>2, <2>4, <2>5, HooksRun
  <2>7. Orders(HookOrder, T)
    BY <2>2, <2>5, HooksOrdered
  <2>8. \A i, j \in 1 .. Len(L) : i < j <=> <<L[i], L[j]>> \in HookOrder
    BY <2>6, <2>7, PlacedInOrder
  <2>9. DOMAIN L = 1 .. Len(L)
    BY <2>6 DEF Placed
  <2>10. ASSUME NEW i \in DOMAIN L, NEW j \in DOMAIN L, i < j
         PROVE  \/ L[i].priority > L[j].priority
                \/ /\ L[i].priority = L[j].priority
                   /\ Harness!Position(L[i]) < Harness!Position(L[j])
    <3>1. <<L[i], L[j]>> \in HookOrder
      BY <2>8, <2>9, <2>10
    <3>2. Harness!RunBefore(L[i], L[j])
      BY <3>1 DEF HookOrder
    <3>3. QED
      BY <3>2 DEF Harness!RunBefore
  <2>11. ASSUME NEW h PROVE Harness!Position(h)' = Harness!Position(h)
    BY <2>1 DEF Harness!Position
  <2>12. Harness!OrderKept'
    BY <2>1, <2>3, <2>10 DEF Harness!OrderKept, Harness!Position
  <2>13. QED
    BY <2>1, <2>12 DEF HarnessState
<1>7. ASSUME UNCHANGED Harness!vars PROVE HarnessState'
  BY <1>1, <1>7 DEF Harness!vars, Harness!pools
<1>8. QED
  BY <1>2, <1>3, <1>4, <1>5, <1>6, <1>7 DEF Harness!Next

LEMMA HarnessIsConsistent ==
  ASSUME HarnessPlugins, HarnessState
  PROVE  Harness!AssemblyConsistent
<1>1. Harness!OrderKept
  BY DEF HarnessState
<1>2. CASE built
  <2>1. PICK A : /\ A = Harness!AllHooks(Len(Plugins))
                 /\ A \in Seq(Harness!Hook) /\ Distinct(A)
                 /\ \A h \in Harness!Hook : \E j \in 1 .. Len(A) : A[j] = h
    BY AllHooksTaken
  <2>2. hooks = A
    BY <1>2, <2>1 DEF HarnessState
  <2>3. Harness!ToSet(hooks) = Harness!Hook
    BY <2>1, <2>2, HooksPlaced
  <2>4. Harness!IsInjective(hooks)
    <3>1. DOMAIN A = 1 .. Len(A)
      BY <2>1
    <3>2. QED
      BY <2>1, <2>2, <3>1 DEF Harness!IsInjective, Distinct
  <2>5. ASSUME NEW t \in Harness!AllTools PROVE t \in ToolNames[toolPool[t]]
    <3>1. toolPool[t] = Harness!LastWith(t, Len(Plugins))
      BY <1>2 DEF HarnessState
    <3>2. QED
      BY <3>1, LastHasTool
  <2>6. QED
    BY <1>1, <1>2, <2>3, <2>4, <2>5 DEF Harness!AssemblyConsistent, Harness!BuiltWhole
<1>3. CASE ~built
  BY <1>1, <1>3 DEF HarnessState, Harness!AssemblyConsistent, Harness!BuiltWhole
<1>4. QED
  BY <1>2, <1>3

(* However often a build fails half-way and is called again: a harness has *)
(* every tool and every hook of its plugins, each hook once, or nothing an *)
(* agent could use; and the hooks of a point run in the order of their     *)
(* priorities, and then in that of registration (harness.go:186,           *)
(* runner.go:107).                                                         *)
THEOREM HarnessIsWhole ==
  ASSUME HarnessPlugins
  PROVE  Harness!Spec => []Harness!AssemblyConsistent
<1>1. HarnessState /\ [Harness!Next]_(Harness!vars) => HarnessState'
  BY HarnessStep
<1>2. HarnessState => Harness!AssemblyConsistent
  BY HarnessIsConsistent
<1>3. QED
  BY <1>1, <1>2, HarnessStart, PTL DEF Harness!Spec

-----------------------------------------------------------------------------
(* The history of a session.                                               *)

Outcome == Context!Outputs
Part    == [kind : {"text", "call"}, step : 0 .. MaxSteps - 1, text : Nat, call : Nat,
            output : Outcome]
Row     == [role : {"user", "assistant", "tool"}, text : Nat, calls : Seq(Nat),
            parts : Seq(Part), call : Nat, output : Outcome]
Message == [role : {"user", "assistant", "tool"}, texts : Seq(Nat), calls : Seq(Nat),
            call : Nat, output : Outcome]

Spoken    == {r \in Row : r.role # "tool"}
ResultOf(c) == {r \in Row : r.role = "tool" /\ r.call = c}
AtStep(s) == {p \in Part : p.step = s - 1}
CallPart  == {p \in Part : p.kind = "call"}
TextPart  == {p \in Part : p.kind = "text"}
Input     == {m \in Message : m.role = "user"}
Answer    == {m \in Message : m.role = "tool"}

LEMMA SameLists ==
  /\ \A ss : Context!FlattenSeq(ss) = FlattenSeq(ss)
  /\ \A s : Context!Last(s) = s[Len(s)]
BY DEF Context!FlattenSeq, FlattenSeq, Context!Last

LEMMA NotToolIs ==
  ASSUME NEW h \in Seq(Row)
  PROVE  Context!NotTool(h) = Only(h, Spoken)
<1>1. ASSUME NEW k \in DOMAIN h PROVE h[k].role # "tool" <=> h[k] \in Spoken
  <2>1. PICK r \in Row : r = h[k]
    OBVIOUS
  <2>2. QED
    BY <2>1 DEF Spoken
<1>2. [k \in DOMAIN h |-> IF h[k].role # "tool" THEN <<h[k]>> ELSE <<>>]
      = [k \in DOMAIN h |-> IF h[k] \in Spoken THEN <<h[k]>> ELSE <<>>]
  BY <1>1
<1>3. QED
  BY <1>2, SameLists DEF Context!NotTool, Context!Filter, Only

LEMMA ToolResultIs ==
  ASSUME NEW h \in Seq(Row), NEW c
  PROVE  /\ Context!ToolResult(h, c) \in Outcome
         /\ ElementsOf(h) \cap ResultOf(c) # {} =>
              \E r \in ElementsOf(h) \cap ResultOf(c) : Context!ToolResult(h, c) = r.output
<1>1. ASSUME NEW k \in DOMAIN h
      PROVE  (h[k].role = "tool" /\ h[k].call = c) <=> h[k] \in ResultOf(c)
  <2>1. PICK r \in Row : r = h[k]
    OBVIOUS
  <2>2. QED
    BY <2>1 DEF ResultOf
<1>2. PICK hits : hits = Only(h, ResultOf(c))
  OBVIOUS
<1>3. [k \in DOMAIN h |-> IF h[k].role = "tool" /\ h[k].call = c THEN <<h[k]>> ELSE <<>>]
      = [k \in DOMAIN h |-> IF h[k] \in ResultOf(c) THEN <<h[k]>> ELSE <<>>]
  BY <1>1
<1>4. Context!ToolResult(h, c) = IF hits = <<>> THEN "" ELSE hits[Len(hits)].output
  BY <1>2, <1>3, SameLists DEF Context!ToolResult, Context!Filter, Only
<1>5. hits \in Seq(Row) /\ ElementsOf(hits) = ElementsOf(h) \cap ResultOf(c)
  BY <1>2, OnlyType, OnlyHas
<1>6. CASE hits = <<>>
  <2>1. ElementsOf(hits) = {}
    BY <1>6 DEF ElementsOf
  <2>2. QED
    BY <1>4, <1>5, <1>6, <2>1 DEF Outcome, Context!Outputs
<1>7. CASE hits # <<>>
  <2>1. PICK n : n = Len(hits)
    OBVIOUS
  <2>2. n \in 1 .. Len(hits)
    BY <1>5, <1>7, <2>1
  <2>3. PICK r \in Row : r = hits[n]
    BY <1>5, <2>2
  <2>4. r \in ElementsOf(hits) /\ r.output \in Outcome
    BY <2>2, <2>3 DEF ElementsOf, Row
  <2>5. QED
    BY <1>4, <1>5, <1>7, <2>1, <2>3, <2>4
<1>8. QED
  BY <1>6, <1>7

LEMMA ByStepIs ==
  ASSUME NEW ps \in Seq(Part)
  PROVE  Context!ByStep(ps) = FlattenSeq([s \in 1 .. MaxSteps |-> Only(ps, AtStep(s))])
<1>1. ASSUME NEW s \in 1 .. MaxSteps
      PROVE  FlattenSeq([k \in DOMAIN ps |-> IF ps[k].step = s - 1 THEN <<ps[k]>> ELSE <<>>])
             = Only(ps, AtStep(s))
  <2>1. ASSUME NEW k \in DOMAIN ps PROVE ps[k].step = s - 1 <=> ps[k] \in AtStep(s)
    <3>1. PICK p \in Part : p = ps[k]
      OBVIOUS
    <3>2. QED
      BY <3>1 DEF AtStep
  <2>2. [k \in DOMAIN ps |-> IF ps[k].step = s - 1 THEN <<ps[k]>> ELSE <<>>]
        = [k \in DOMAIN ps |-> IF ps[k] \in AtStep(s) THEN <<ps[k]>> ELSE <<>>]
    BY <2>1
  <2>3. QED
    BY <2>2 DEF Only
<1>2. [s \in 1 .. MaxSteps |->
         FlattenSeq([k \in DOMAIN ps |-> IF ps[k].step = s - 1 THEN <<ps[k]>> ELSE <<>>])]
      = [s \in 1 .. MaxSteps |-> Only(ps, AtStep(s))]
  BY <1>1
<1>3. Context!ByStep(ps) = FlattenSeq([s \in 1 .. MaxSteps |->
         FlattenSeq([k \in DOMAIN ps |-> IF ps[k].step = s - 1 THEN <<ps[k]>> ELSE <<>>])])
  BY SameLists DEF Context!ByStep, Context!Filter
<1>4. QED
  BY <1>2, <1>3

(* Grouping the parts by step moves parts and loses none.                  *)
LEMMA ByStepKeeps ==
  ASSUME MaxSteps \in Nat, NEW ps \in Seq(Part)
  PROVE  Context!ByStep(ps) \in Seq(Part) /\ ElementsOf(Context!ByStep(ps)) = ElementsOf(ps)
<1>1. PICK ss : ss = [s \in 1 .. MaxSteps |-> Only(ps, AtStep(s))]
  OBVIOUS
<1>2. ASSUME NEW s \in 1 .. MaxSteps
      PROVE  Only(ps, AtStep(s)) \in Seq(Part)
  BY OnlyType
<1>3. ss \in [1 .. MaxSteps -> Seq(Part)]
  BY <1>1, <1>2
<1>4. ss \in Seq(Seq(Part)) /\ Len(ss) = MaxSteps
  BY <1>3
<1>5. Context!ByStep(ps) = FlattenSeq(ss)
  BY <1>1, ByStepIs
<1>6. ElementsOf(FlattenSeq(ss)) = UNION {ElementsOf(ss[k]) : k \in 1 .. MaxSteps}
  BY <1>4, FlattenHas
<1>7. ASSUME NEW s \in 1 .. MaxSteps PROVE ElementsOf(ss[s]) = ElementsOf(ps) \cap AtStep(s)
  BY <1>1, OnlyHas
<1>8. ASSUME NEW p \in ElementsOf(ps) PROVE \E s \in 1 .. MaxSteps : p \in AtStep(s)
  <2>1. p \in Part
    BY DEF ElementsOf
  <2>2. p.step \in 0 .. MaxSteps - 1
    BY <2>1 DEF Part
  <2>3. PICK s : s = p.step + 1
    OBVIOUS
  <2>4. s \in 1 .. MaxSteps /\ p.step = s - 1
    BY <2>2, <2>3
  <2>5. QED
    BY <2>1, <2>4 DEF AtStep
<1>9. ElementsOf(FlattenSeq(ss)) = ElementsOf(ps)
  BY <1>6, <1>7, <1>8
<1>10. QED
  BY <1>4, <1>5, <1>9, FlattenType

LEMMA ByStepAlike ==
  ASSUME MaxSteps \in Nat, NEW ps \in Seq(Part), NEW qs \in Seq(Part), NEW R,
         R \in SUBSET (Part \X Part), Alike(ps, qs, R),
         \A x, y : <<x, y>> \in R => x.step = y.step
  PROVE  Alike(Context!ByStep(ps), Context!ByStep(qs), R)
<1>1. PICK ss, tt : /\ ss = [s \in 1 .. MaxSteps |-> Only(ps, AtStep(s))]
                    /\ tt = [s \in 1 .. MaxSteps |-> Only(qs, AtStep(s))]
  OBVIOUS
<1>2. ASSUME NEW s \in 1 .. MaxSteps
      PROVE  /\ Only(ps, AtStep(s)) \in Seq(Part) /\ Only(qs, AtStep(s)) \in Seq(Part)
             /\ Alike(Only(ps, AtStep(s)), Only(qs, AtStep(s)), R)
  <2>1. ASSUME NEW x, NEW y, <<x, y>> \in R PROVE x \in AtStep(s) <=> y \in AtStep(s)
    <3>1. x \in Part /\ y \in Part /\ x.step = y.step
      BY <2>1
    <3>2. QED
      BY <3>1 DEF AtStep
  <2>2. Alike(Only(ps, AtStep(s)), Only(qs, AtStep(s)), R)
    BY <2>1, OnlyAlike
  <2>3. QED
    BY <2>2, OnlyType
<1>3. ss \in [1 .. MaxSteps -> Seq(Part)] /\ tt \in [1 .. MaxSteps -> Seq(Part)]
  BY <1>1, <1>2
<1>4. /\ ss \in Seq(Seq(Part)) /\ Len(ss) = MaxSteps
      /\ tt \in Seq(Seq(Part)) /\ Len(tt) = MaxSteps
  <2>1. ss \in Seq(Seq(Part)) /\ Len(ss) = MaxSteps
    BY <1>3
  <2>2. tt \in Seq(Seq(Part)) /\ Len(tt) = MaxSteps
    BY <1>3
  <2>3. QED
    BY <2>1, <2>2
<1>5. \A s \in 1 .. Len(ss) : Alike(ss[s], tt[s], R)
  BY <1>1, <1>2, <1>4
<1>6. Alike(FlattenSeq(ss), FlattenSeq(tt), R)
  BY <1>4, <1>5, FlattenAlike
<1>7. QED
  BY <1>1, <1>6, ByStepIs

(* What is read of the history, and the conversion of one message.         *)
LEMMA FirstRowsAre ==
  ASSUME histRows \in Seq(Row), NEW n \in Nat
  PROVE  /\ Context!FirstRows(n) \in Seq(Row)
         /\ Len(histRows) <= n => Context!FirstRows(n) = histRows
<1>1. PICK m : m = IF Len(histRows) < n THEN Len(histRows) ELSE n
  OBVIOUS
<1>2. m \in 0 .. Len(histRows)
  BY <1>1
<1>3. Context!FirstRows(n) = SubSeq(histRows, 1, m)
  BY <1>1 DEF Context!FirstRows
<1>4. SubSeq(histRows, 1, m) \in Seq(Row)
  BY <1>2
<1>5. SubSeq(histRows, 1, Len(histRows)) = histRows
  OBVIOUS
<1>6. Len(histRows) <= n => m = Len(histRows)
  BY <1>1
<1>7. QED
  BY <1>3, <1>4, <1>5, <1>6

LEMMA NothingIsEmpty ==
  ASSUME NEW s \in Seq({}) PROVE s = <<>>
<1>1. Len(s) \in Nat /\ \A k \in 1 .. Len(s) : s[k] \in {}
  OBVIOUS
<1>2. 1 \notin 1 .. Len(s)
  BY <1>1
<1>3. QED
  BY <1>1, <1>2

LEMMA KindsAre ==
  ASSUME NEW ps \in Seq(Part)
  PROVE  /\ FlattenSeq([k \in DOMAIN ps |-> IF ps[k].kind = "call" THEN <<ps[k]>> ELSE <<>>])
            = Only(ps, CallPart)
         /\ FlattenSeq([k \in DOMAIN ps |-> IF ps[k].kind = "text" THEN <<ps[k]>> ELSE <<>>])
            = Only(ps, TextPart)
<1>1. ASSUME NEW k \in DOMAIN ps
      PROVE  (ps[k].kind = "call" <=> ps[k] \in CallPart) /\ (ps[k].kind = "text" <=> ps[k] \in TextPart)
  <2>1. PICK p \in Part : p = ps[k]
    OBVIOUS
  <2>2. QED
    BY <2>1 DEF CallPart, TextPart
<1>2. [k \in DOMAIN ps |-> IF ps[k].kind = "call" THEN <<ps[k]>> ELSE <<>>]
      = [k \in DOMAIN ps |-> IF ps[k] \in CallPart THEN <<ps[k]>> ELSE <<>>]
  BY <1>1
<1>3. [k \in DOMAIN ps |-> IF ps[k].kind = "text" THEN <<ps[k]>> ELSE <<>>]
      = [k \in DOMAIN ps |-> IF ps[k] \in TextPart THEN <<ps[k]>> ELSE <<>>]
  BY <1>1
<1>4. QED
  BY <1>2, <1>3 DEF Only

Speech(role, ps) ==
  [role |-> role,
   texts |-> [k \in DOMAIN Only(ps, TextPart) |-> Only(ps, TextPart)[k].text],
   calls |-> [k \in DOMAIN Only(ps, CallPart) |-> Only(ps, CallPart)[k].call],
   call |-> 0, output |-> ""]
Answers(ps) ==
  [k \in DOMAIN Only(ps, CallPart) |->
     [role |-> "tool", texts |-> <<>>, calls |-> <<>>, call |-> Only(ps, CallPart)[k].call,
      output |-> Only(ps, CallPart)[k].output]]

LEMMA ConvertIs ==
  ASSUME NEW ps \in Seq(Part), NEW role
  PROVE  Context!Convert(role, ps) = <<Speech(role, ps)>> \o Answers(ps)
<1>1. PICK c, t : c = Only(ps, CallPart) /\ t = Only(ps, TextPart)
  OBVIOUS
<1>2. /\ Context!Filter(ps, LAMBDA p : p.kind = "call") = c
      /\ Context!Filter(ps, LAMBDA p : p.kind = "text") = t
  BY <1>1, KindsAre, SameLists DEF Context!Filter
<1>3. QED
  BY <1>1, <1>2 DEF Context!Convert, Speech, Answers

(* One message and its answers: a list of the messages' kind.              *)
LEMMA AnswersAre ==
  ASSUME NEW ps \in Seq(Part)
  PROVE  /\ Answers(ps) \in Seq(Answer)
         /\ Only(ps, CallPart) \in Seq(CallPart)
         /\ Len(Answers(ps)) = Len(Only(ps, CallPart))
         /\ \A k \in 1 .. Len(Answers(ps)) :
              /\ Answers(ps)[k].call = Only(ps, CallPart)[k].call
              /\ Answers(ps)[k].output = Only(ps, CallPart)[k].output
              /\ Answers(ps)[k].role = "tool" /\ Answers(ps)[k].calls = <<>>
<1>1. PICK c : c = Only(ps, CallPart)
  OBVIOUS
<1>2. Part \cap CallPart = CallPart
  BY DEF CallPart
<1>3. c \in Seq(CallPart)
  BY <1>1, <1>2, OnlyType
<1>4. PICK a : a = [k \in DOMAIN c |-> [role |-> "tool", texts |-> <<>>, calls |-> <<>>,
                                        call |-> c[k].call, output |-> c[k].output]]
  OBVIOUS
<1>5. a = Answers(ps)
  BY <1>1, <1>4 DEF Answers
<1>6. DOMAIN c = 1 .. Len(c) /\ Len(c) \in Nat
  BY <1>3
<1>7. ASSUME NEW k \in 1 .. Len(c)
      PROVE  [role |-> "tool", texts |-> <<>>, calls |-> <<>>, call |-> c[k].call,
              output |-> c[k].output] \in Answer
  <2>1. PICK p \in CallPart : p = c[k]
    BY <1>3, <1>7
  <2>2. p.call \in Nat /\ p.output \in Outcome
    BY DEF CallPart, Part
  <2>3. <<>> \in Seq(Nat)
    OBVIOUS
  <2>4. QED
    BY <2>1, <2>2, <2>3 DEF Answer, Message
<1>8. a \in [1 .. Len(c) -> Answer]
  BY <1>4, <1>6, <1>7
<1>9. a \in Seq(Answer) /\ Len(a) = Len(c)
  BY <1>6, <1>8
<1>10. ASSUME NEW k \in 1 .. Len(a)
       PROVE  a[k].call = c[k].call /\ a[k].output = c[k].output /\ a[k].role = "tool" /\ a[k].calls = <<>>
  BY <1>4, <1>6, <1>9
<1>11. QED
  BY <1>1, <1>3, <1>5, <1>9, <1>10

LEMMA SpeechIs ==
  ASSUME NEW ps \in Seq(Part), NEW role \in {"user", "assistant"}
  PROVE  /\ Speech(role, ps) \in Message
         /\ Len(Speech(role, ps).calls) = Len(Only(ps, CallPart))
         /\ \A k \in 1 .. Len(Only(ps, CallPart)) :
              Speech(role, ps).calls[k] = Only(ps, CallPart)[k].call
<1>1. PICK c, t : c = Only(ps, CallPart) /\ t = Only(ps, TextPart)
  OBVIOUS
<1>2. c \in Seq(Part) /\ t \in Seq(Part)
  BY <1>1, OnlyType
<1>3. /\ DOMAIN c = 1 .. Len(c) /\ Len(c) \in Nat /\ \A k \in 1 .. Len(c) : c[k].call \in Nat
      /\ DOMAIN t = 1 .. Len(t) /\ Len(t) \in Nat /\ \A k \in 1 .. Len(t) : t[k].text \in Nat
  <2>1. ASSUME NEW p \in Part PROVE p.call \in Nat /\ p.text \in Nat
    BY DEF Part
  <2>2. QED
    BY <1>2, <2>1
<1>4. PICK cs, ts : cs = [k \in DOMAIN c |-> c[k].call] /\ ts = [k \in DOMAIN t |-> t[k].text]
  OBVIOUS
<1>5. cs \in [1 .. Len(c) -> Nat] /\ ts \in [1 .. Len(t) -> Nat]
  BY <1>3, <1>4
<1>6. cs \in Seq(Nat) /\ Len(cs) = Len(c)
  <2>1. PICK n \in Nat : n = Len(c)
    BY <1>3
  <2>2. cs \in [1 .. n -> Nat]
    BY <1>5, <2>1
  <2>3. cs \in Seq(Nat) /\ Len(cs) = n
    BY <2>2, FunctionIsList, ZenonT(30)
  <2>4. QED
    BY <2>1, <2>3
<1>7. ts \in Seq(Nat)
  <2>1. PICK n \in Nat : n = Len(t)
    BY <1>3
  <2>2. ts \in [1 .. n -> Nat]
    BY <1>5, <2>1
  <2>3. QED
    BY <2>2, FunctionIsList, ZenonT(30)
<1>8. PICK m : m = Speech(role, ps)
  OBVIOUS
<1>9. m = [role |-> role, texts |-> ts, calls |-> cs, call |-> 0, output |-> ""]
  BY <1>1, <1>4, <1>8 DEF Speech
<1>10. m \in Message
  BY <1>6, <1>7, <1>9 DEF Message, Outcome, Context!Outputs
<1>11. m.calls = cs
  BY <1>9
<1>12. \A k \in 1 .. Len(c) : cs[k] = c[k].call
  BY <1>3, <1>4
<1>13. Len(m.calls) = Len(c) /\ \A k \in 1 .. Len(c) : m.calls[k] = c[k].call
  BY <1>6, <1>11, <1>12
<1>14. QED
  BY <1>1, <1>8, <1>10, <1>13

(* What can be joined piece by piece can be joined at once.                *)
LEMMA FlattenClosed ==
  ASSUME NEW S, NEW C \in SUBSET Seq(S), <<>> \in C,
         \A p, q \in C : p \o q \in C, NEW ss \in Seq(C)
  PROVE  FlattenSeq(ss) \in C
<1>1. ss \in Seq(Seq(S))
  OBVIOUS
<1>2. PICK f : JoinedUpTo(f, ss, S)
  BY <1>1, JoinedExists
<1>3. /\ f[0] = <<>> /\ f[Len(ss)] = FlattenSeq(ss)
      /\ \A k \in Nat : k + 1 <= Len(ss) => f[k + 1] = f[k] \o ss[k + 1]
  BY <1>2 DEF JoinedUpTo
<1>4. Len(ss) \in Nat /\ \A k \in 1 .. Len(ss) : ss[k] \in C
  OBVIOUS
<1> DEFINE U == {n \in Nat : n <= Len(ss) => f[n] \in C}
<1>5. 0 \in U
  BY <1>3
<1>6. ASSUME NEW n \in Nat, n \in U, n + 1 <= Len(ss) PROVE f[n + 1] \in C
  <2>1. n + 1 \in 1 .. Len(ss) /\ n <= Len(ss)
    BY <1>4, <1>6
  <2>2. f[n] \in C /\ ss[n + 1] \in C
    BY <1>4, <1>6, <2>1
  <2>3. PICK p \in C, q \in C : p = f[n] /\ q = ss[n + 1]
    BY <2>2
  <2>4. f[n + 1] = f[n] \o ss[n + 1]
    BY <1>3, <1>6
  <2>5. p \o q \in C
    OBVIOUS
  <2>6. QED
    BY <2>3, <2>4, <2>5
<1>7. ASSUME NEW n \in Nat, n \in U PROVE n + 1 \in U
  BY <1>6, <1>7
<1>8. \A n \in Nat : n \in U
  <2> HIDE DEF U
  <2>1. QED
    BY <1>5, <1>7, Induction
<1>9. Len(ss) <= Len(ss)
  BY <1>4
<1>10. f[Len(ss)] \in C
  BY <1>4, <1>8, <1>9
<1>11. QED
  BY <1>3, <1>10

(* Each call is answered at once and each answer has its call.             *)
CallsAnswered(m) ==
  \A i \in 1 .. Len(m) : \A k \in 1 .. Len(m[i].calls) :
    /\ i + k \in 1 .. Len(m)
    /\ m[i + k].role = "tool" /\ m[i + k].call = m[i].calls[k]
AnswersCalled(m) ==
  \A i \in 1 .. Len(m) : m[i].role = "tool" =>
    \E j \in 1 .. i - 1 : i - j \in 1 .. Len(m[j].calls) /\ m[j].calls[i - j] = m[i].call
Answered == {m \in Seq(Message) : CallsAnswered(m) /\ AnswersCalled(m)}

LEMMA JoinedAnswered ==
  ASSUME NEW p \in Answered, NEW q \in Answered
  PROVE  p \o q \in Answered
<1>1. PICK r : r = p \o q
  OBVIOUS
<1>2. PICK a, b : a = Len(p) /\ b = Len(q)
  OBVIOUS
<1>3. p \in Seq(Message) /\ q \in Seq(Message)
  BY DEF Answered
<1>4. /\ r \in Seq(Message) /\ Len(r) = a + b /\ a \in Nat /\ b \in Nat
      /\ \A j \in 1 .. a : r[j] = p[j]
      /\ \A j \in 1 .. b : r[a + j] = q[j]
  BY <1>1, <1>2, <1>3
<1>5. \A x \in Message : Len(x.calls) \in Nat
  BY DEF Message
<1>6. \A i \in 1 .. a : p[i] \in Message
  BY <1>2, <1>3
<1>7. \A i \in 1 .. b : q[i] \in Message
  BY <1>2, <1>3
<1>8. ASSUME NEW i \in 1 .. a + b, i > a PROVE i - a \in 1 .. b /\ r[i] = q[i - a]
  <2>1. PICK j : j = i - a
    OBVIOUS
  <2>2. j \in 1 .. b /\ i = a + j
    BY <1>4, <1>8, <2>1
  <2>3. QED
    BY <1>4, <2>1, <2>2
<1>9. ASSUME NEW i \in 1 .. a + b, NEW k \in 1 .. Len(r[i].calls)
      PROVE  i + k \in 1 .. a + b /\ r[i + k].role = "tool" /\ r[i + k].call = r[i].calls[k]
  <2>1. CASE i <= a
    <3>1. i \in 1 .. a /\ r[i] = p[i] /\ Len(p[i].calls) \in Nat
      BY <1>4, <1>5, <1>6, <2>1
    <3>2. k \in 1 .. Len(p[i].calls) /\ k \in Nat
      BY <3>1
    <3>3. i + k \in 1 .. a /\ p[i + k].role = "tool" /\ p[i + k].call = p[i].calls[k]
      BY <1>2, <3>1, <3>2 DEF Answered, CallsAnswered
    <3>4. r[i + k] = p[i + k]
      BY <1>4, <3>3
    <3>5. i + k \in 1 .. a + b
      BY <1>4, <3>3
    <3>6. QED
      BY <3>1, <3>3, <3>4, <3>5
  <2>2. CASE i > a
    <3>1. PICK j \in 1 .. b : i = a + j /\ r[i] = q[j]
      <4>1. PICK j : j = i - a
        OBVIOUS
      <4>2. QED
        BY <1>4, <1>8, <2>2, <4>1
    <3>2. Len(q[j].calls) \in Nat
      BY <1>5, <1>7
    <3>3. k \in 1 .. Len(q[j].calls) /\ k \in Nat
      BY <3>1, <3>2
    <3>4. j + k \in 1 .. b /\ q[j + k].role = "tool" /\ q[j + k].call = q[j].calls[k]
      BY <1>2, <3>3 DEF Answered, CallsAnswered
    <3>5. i + k = a + (j + k)
      BY <1>4, <3>1, <3>3
    <3>6. r[i + k] = q[j + k] /\ i + k \in 1 .. a + b
      BY <1>4, <3>4, <3>5
    <3>7. QED
      BY <3>1, <3>4, <3>6
  <2>3. QED
    BY <1>4, <2>1, <2>2
<1>10. ASSUME NEW i \in 1 .. a + b, r[i].role = "tool"
       PROVE  \E j \in 1 .. i - 1 : i - j \in 1 .. Len(r[j].calls) /\ r[j].calls[i - j] = r[i].call
  <2>1. CASE i <= a
    <3>1. i \in 1 .. a /\ r[i] = p[i]
      BY <1>4, <2>1
    <3>2. PICK j \in 1 .. i - 1 : i - j \in 1 .. Len(p[j].calls) /\ p[j].calls[i - j] = p[i].call
      BY <1>2, <1>10, <3>1 DEF Answered, AnswersCalled
    <3>3. j \in 1 .. a
      BY <1>4, <3>1
    <3>4. r[j] = p[j]
      BY <1>4, <3>3
    <3>5. QED
      BY <3>1, <3>2, <3>4
  <2>2. CASE i > a
    <3>1. PICK n \in 1 .. b : i = a + n /\ r[i] = q[n]
      <4>1. PICK n : n = i - a
        OBVIOUS
      <4>2. n \in 1 .. b /\ i = a + n
        BY <1>4, <1>8, <2>2, <4>1
      <4>3. QED
        BY <1>4, <4>2
    <3>2. PICK j \in 1 .. n - 1 : n - j \in 1 .. Len(q[j].calls) /\ q[j].calls[n - j] = q[n].call
      BY <1>2, <1>10, <3>1 DEF Answered, AnswersCalled
    <3>3. PICK l : l = a + j
      OBVIOUS
    <3>4. j \in 1 .. b /\ l \in 1 .. i - 1 /\ i - l = n - j
      BY <1>4, <3>1, <3>3
    <3>5. r[l] = q[j]
      BY <1>4, <3>3, <3>4
    <3>6. QED
      BY <3>1, <3>2, <3>4, <3>5
  <2>3. QED
    BY <1>4, <2>1, <2>2
<1>11. CallsAnswered(r) /\ AnswersCalled(r)
  BY <1>2, <1>4, <1>9, <1>10 DEF CallsAnswered, AnswersCalled
<1>12. QED
  BY <1>1, <1>4, <1>11 DEF Answered

LEMMA EmptyAnswered ==
  <<>> \in Answered
<1>1. PICK e : e = <<>>
  OBVIOUS
<1>2. e \in Seq(Message) /\ Len(e) = 0
  BY <1>1
<1>3. CallsAnswered(e) /\ AnswersCalled(e)
  BY <1>2 DEF CallsAnswered, AnswersCalled
<1>4. QED
  BY <1>1, <1>2, <1>3 DEF Answered

LEMMA ConvertAnswered ==
  ASSUME NEW ps \in Seq(Part), NEW role \in {"user", "assistant"}
  PROVE  Context!Convert(role, ps) \in Answered
<1>1. PICK s, a, c : s = Speech(role, ps) /\ a = Answers(ps) /\ c = Only(ps, CallPart)
  OBVIOUS
<1>2. PICK m : m = Context!Convert(role, ps) /\ m = <<s>> \o a
  BY <1>1, ConvertIs
<1>3. PICK n : n = Len(c)
  OBVIOUS
<1>4. /\ s \in Message /\ Len(s.calls) = n /\ s.role # "tool"
      /\ \A k \in 1 .. n : s.calls[k] = c[k].call
  <2>1. s \in Message /\ Len(s.calls) = n /\ \A k \in 1 .. n : s.calls[k] = c[k].call
    BY <1>1, <1>3, SpeechIs
  <2>2. s.role # "tool"
    BY <1>1 DEF Speech
  <2>3. QED
    BY <2>1, <2>2
<1>5. /\ a \in Seq(Message) /\ Len(a) = n /\ n \in Nat
      /\ \A k \in 1 .. n : a[k].call = c[k].call /\ a[k].role = "tool" /\ a[k].calls = <<>>
  <2>1. a \in Seq(Answer) /\ Len(a) = n
    BY <1>1, <1>3, AnswersAre
  <2>2. \A k \in 1 .. Len(a) : a[k].call = c[k].call /\ a[k].role = "tool" /\ a[k].calls = <<>>
    BY <1>1, AnswersAre
  <2>3. Answer \in SUBSET Message
    BY DEF Answer
  <2>4. a \in Seq(Message) /\ Len(a) \in Nat
    BY <2>1, <2>3
  <2>5. QED
    BY <2>1, <2>2, <2>4
<1>6. /\ m \in Seq(Message) /\ Len(m) = n + 1 /\ m[1] = s
      /\ \A k \in 1 .. n : m[1 + k] = a[k]
  <2>1. <<s>> \in Seq(Message) /\ Len(<<s>>) = 1 /\ <<s>>[1] = s
    BY <1>4
  <2>2. PICK h : h = <<s>>
    OBVIOUS
  <2>3. h \in Seq(Message) /\ Len(h) = 1 /\ h[1] = s /\ m = h \o a
    BY <1>2, <2>1, <2>2
  <2>4. h \in Seq(Message) /\ a \in Seq(Message) /\ m = h \o a
    BY <1>5, <2>3
  <2>5. /\ m \in Seq(Message) /\ Len(m) = Len(h) + Len(a)
        /\ \A j \in 1 .. Len(h) : m[j] = h[j]
        /\ \A j \in 1 .. Len(a) : m[Len(h) + j] = a[j]
    BY <2>4
  <2>6. QED
    BY <1>5, <2>3, <2>5
<1>7. ASSUME NEW i \in 1 .. n + 1, i # 1 PROVE i - 1 \in 1 .. n /\ m[i] = a[i - 1]
  <2>1. PICK k : k = i - 1
    OBVIOUS
  <2>2. k \in 1 .. n /\ i = 1 + k
    BY <1>5, <1>7, <2>1
  <2>3. QED
    BY <1>6, <2>1, <2>2
<1>8. ASSUME NEW i \in 1 .. n + 1, NEW k \in 1 .. Len(m[i].calls)
      PROVE  i + k \in 1 .. n + 1 /\ m[i + k].role = "tool" /\ m[i + k].call = m[i].calls[k]
  <2>1. CASE i = 1
    <3>1. k \in 1 .. n
      BY <1>4, <1>6, <2>1
    <3>2. m[1 + k] = a[k] /\ m[i].calls[k] = c[k].call
      BY <1>4, <1>6, <2>1, <3>1
    <3>3. 1 + k \in 1 .. n + 1
      BY <1>5, <3>1
    <3>4. QED
      BY <1>5, <2>1, <3>1, <3>2, <3>3
  <2>2. CASE i # 1
    <3>1. m[i].calls = <<>>
      BY <1>5, <1>7, <2>2
    <3>2. Len(m[i].calls) = 0
      BY <3>1
    <3>3. k \in 1 .. 0
      BY <3>2
    <3>4. QED
      BY <3>3
  <2>3. QED
    BY <2>1, <2>2
<1>9. ASSUME NEW i \in 1 .. n + 1, m[i].role = "tool"
      PROVE  \E j \in 1 .. i - 1 : i - j \in 1 .. Len(m[j].calls) /\ m[j].calls[i - j] = m[i].call
  <2>1. i # 1
    BY <1>4, <1>6, <1>9
  <2>2. i - 1 \in 1 .. n /\ m[i] = a[i - 1] /\ 1 \in 1 .. i - 1
    BY <1>5, <1>7, <2>1
  <2>3. m[1].calls[i - 1] = m[i].call
    BY <1>4, <1>5, <1>6, <2>2
  <2>4. i - 1 \in 1 .. Len(m[1].calls)
    BY <1>4, <1>6, <2>2
  <2>5. QED
    BY <2>2, <2>3, <2>4
<1>10. CallsAnswered(m) /\ AnswersCalled(m)
  BY <1>6, <1>8, <1>9 DEF CallsAnswered, AnswersCalled
<1>11. QED
  BY <1>2, <1>6, <1>10 DEF Answered

(* What a client is shown of a part, and what the model is sent.           *)
SamePart ==
  {x \in Part \X Part :
     /\ x[1].step = x[2].step /\ x[1].kind = x[2].kind
     /\ x[1].call = x[2].call /\ x[1].output \in {"", x[2].output}}

Steps == MaxSteps \in Nat \ {0}

LEMMA FilledIs ==
  ASSUME NEW ps \in Seq(Part), NEW h \in Seq(Row)
  PROVE  /\ Context!Filled(ps, h) \in Seq(Part)
         /\ Alike(ps, Context!Filled(ps, h), SamePart)
         /\ \A k \in 1 .. Len(ps) : ps[k].kind = "call" =>
              /\ Context!Filled(ps, h)[k].kind = "call"
              /\ Context!Filled(ps, h)[k].call = ps[k].call
              /\ Context!Filled(ps, h)[k].output =
                   IF ps[k].output = "" THEN Context!ToolResult(h, ps[k].call) ELSE ps[k].output
<1>1. PICK qs : qs = Context!Filled(ps, h)
  OBVIOUS
<1>2. DOMAIN ps = 1 .. Len(ps) /\ Len(ps) \in Nat
  OBVIOUS
<1>3. qs = [k \in 1 .. Len(ps) |->
              IF ps[k].kind = "call" /\ ps[k].output = ""
              THEN [ps[k] EXCEPT !.output = Context!ToolResult(h, ps[k].call)] ELSE ps[k]]
  BY <1>1, <1>2 DEF Context!Filled
<1>4. ASSUME NEW k \in 1 .. Len(ps)
      PROVE  /\ qs[k] \in Part /\ <<ps[k], qs[k]>> \in SamePart
             /\ ps[k].kind = "call" =>
                  /\ qs[k].kind = "call" /\ qs[k].call = ps[k].call
                  /\ qs[k].output = IF ps[k].output = "" THEN Context!ToolResult(h, ps[k].call)
                                    ELSE ps[k].output
  <2>1. PICK p \in Part : p = ps[k]
    OBVIOUS
  <2>2. PICK out \in Outcome : out = Context!ToolResult(h, p.call)
    BY ToolResultIs
  <2>3. PICK q : q = IF p.kind = "call" /\ p.output = "" THEN [p EXCEPT !.output = out] ELSE p
    OBVIOUS
  <2>4. q = qs[k]
    BY <1>3, <2>1, <2>2, <2>3
  <2>5. q \in Part
    BY <2>3 DEF Part
  <2>6. /\ p.step = q.step /\ p.kind = q.kind /\ p.call = q.call /\ p.output \in {"", q.output}
        /\ p.kind = "call" => q.output = IF p.output = "" THEN out ELSE p.output
    BY <2>3 DEF Part
  <2>7. <<p, q>> \in SamePart
    BY <2>5, <2>6 DEF SamePart
  <2>8. QED
    BY <2>1, <2>2, <2>4, <2>5, <2>6, <2>7
<1>5. PICK n \in Nat : n = Len(ps)
  BY <1>2
<1>6. qs \in [1 .. n -> Part]
  BY <1>3, <1>4, <1>5
<1>7. qs \in Seq(Part) /\ Len(qs) = n
  BY <1>6
<1>8. Alike(ps, qs, SamePart)
  BY <1>4, <1>5, <1>7 DEF Alike
<1>9. QED
  BY <1>1, <1>4, <1>7, <1>8

LEMMA ColumnsAre ==
  ASSUME Steps, NEW r \in Row, NEW h \in Seq(Row)
  PROVE  /\ Context!FromColumns(r, h) \in Seq(Part)
         /\ \A k \in 1 .. Len(r.calls) :
              \E p \in ElementsOf(Context!FromColumns(r, h)) :
                p.kind = "call" /\ p.call = r.calls[k] /\ p.output = Context!ToolResult(h, r.calls[k])
<1>1. PICK c : c = r.calls
  OBVIOUS
<1>2. PICK n : n = Len(c)
  OBVIOUS
<1>3. c \in Seq(Nat) /\ n \in Nat /\ DOMAIN c = 1 .. n /\ r.text \in Nat
  BY <1>1, <1>2 DEF Row
<1>4. PICK f : f = [k \in 1 .. n |-> Context!Call(0, c[k], Context!ToolResult(h, c[k]))]
  OBVIOUS
<1>5. PICK t : t = Context!Text(0, r.text)
  OBVIOUS
<1>6. t \in Part
  <2>1. PICK x \in Nat : x = r.text
    BY <1>3
  <2>2. t = [kind |-> "text", step |-> 0, text |-> x, call |-> 0, output |-> ""]
    BY <1>5, <2>1 DEF Context!Text
  <2>3. "" \in Outcome /\ 0 \in 0 .. MaxSteps - 1
    BY DEF Outcome, Context!Outputs, Steps
  <2>4. [kind |-> "text", step |-> 0, text |-> x, call |-> 0, output |-> ""] \in Part
    BY <2>3 DEF Part
  <2>5. QED
    BY <2>2, <2>4
<1>7. ASSUME NEW k \in 1 .. n
      PROVE  /\ f[k] \in Part
             /\ f[k].kind = "call" /\ f[k].call = c[k] /\ f[k].output = Context!ToolResult(h, c[k])
  <2>1. PICK d \in Nat : d = c[k]
    BY <1>2, <1>3
  <2>2. PICK out \in Outcome : out = Context!ToolResult(h, d)
    BY ToolResultIs
  <2>3. f[k] = [kind |-> "call", step |-> 0, text |-> 0, call |-> d, output |-> out]
    BY <1>4, <2>1, <2>2 DEF Context!Call
  <2>4. [kind |-> "call", step |-> 0, text |-> 0, call |-> d, output |-> out] \in Part
    BY DEF Part, Steps
  <2>5. QED
    BY <2>1, <2>2, <2>3, <2>4
<1>8. f \in [1 .. n -> Part]
  BY <1>4, <1>7
<1>9. f \in Seq(Part) /\ Len(f) = n
  BY <1>3, <1>8
<1>10. PICK g : g = IF r.text # 0 \/ (r.role = "assistant" /\ c = <<>>) THEN <<t>> ELSE <<>>
  OBVIOUS
<1>11. g \in Seq(Part)
  BY <1>6, <1>10
<1>12. Context!FromColumns(r, h) = g \o f
  BY <1>1, <1>3, <1>4, <1>5, <1>10 DEF Context!FromColumns
<1>13. g \o f \in Seq(Part)
  BY <1>9, <1>11
<1>14. ElementsOf(g \o f) = ElementsOf(g) \cup ElementsOf(f)
  BY <1>9, <1>11, ConcatHas
<1>15. ASSUME NEW k \in 1 .. n
       PROVE  \E p \in ElementsOf(g \o f) :
                p.kind = "call" /\ p.call = c[k] /\ p.output = Context!ToolResult(h, c[k])
  <2>1. f[k] \in ElementsOf(f)
    BY <1>9 DEF ElementsOf
  <2>2. f[k] \in ElementsOf(g \o f)
    BY <1>14, <2>1
  <2>3. QED
    BY <1>7, <2>2
<1>16. QED
  BY <1>1, <1>2, <1>12, <1>13, <1>15

(* What is shown of a row is what the model is sent of it, save results.   *)
LEMMA PartsOfRow ==
  ASSUME Steps, NEW r \in Row, NEW h \in Seq(Row)
  PROVE  /\ Context!ModelParts(r, h) \in Seq(Part) /\ Context!ShownParts(r, h) \in Seq(Part)
         /\ Alike(Context!ShownParts(r, h), Context!ModelParts(r, h), SamePart)
<1>1. CASE r.parts # <<>>
  <2>1. r.parts \in Seq(Part)
    BY DEF Row
  <2>2. /\ Context!ModelParts(r, h) = Context!Filled(r.parts, h)
        /\ Context!ShownParts(r, h) = r.parts
    BY <1>1 DEF Context!ModelParts, Context!ShownParts
  <2>3. Context!Filled(r.parts, h) \in Seq(Part) /\ Alike(r.parts, Context!Filled(r.parts, h), SamePart)
    BY <2>1, FilledIs
  <2>4. QED
    BY <2>1, <2>2, <2>3
<1>2. CASE r.parts = <<>>
  <2>1. PICK f \in Seq(Part) : f = Context!FromColumns(r, h)
    BY ColumnsAre
  <2>2. Context!ModelParts(r, h) = f /\ Context!ShownParts(r, h) = f
    BY <1>2, <2>1 DEF Context!ModelParts, Context!ShownParts
  <2>3. ASSUME NEW p \in Part PROVE <<p, p>> \in SamePart
    BY DEF SamePart
  <2>4. \A k \in 1 .. Len(f) : f[k] \in Part
    OBVIOUS
  <2>5. Alike(f, f, SamePart)
    BY <2>3, <2>4 DEF Alike
  <2>6. QED
    BY <2>2, <2>5
<1>3. QED
  BY <1>1, <1>2

(* The parts of a row and the model's messages that become of it.          *)
SentParts(r, h)  == Context!ByStep(Context!ModelParts(r, h))
SeenParts(r, h)  == Context!ByStep(Context!ShownParts(r, h))
SentOf(r, h)     == Context!Convert(r.role, SentParts(r, h))

LEMMA RowIsSent ==
  ASSUME Steps, NEW r \in Spoken, NEW h \in Seq(Row)
  PROVE  /\ SentParts(r, h) \in Seq(Part) /\ SeenParts(r, h) \in Seq(Part)
         /\ ElementsOf(SentParts(r, h)) = ElementsOf(Context!ModelParts(r, h))
         /\ Alike(SeenParts(r, h), SentParts(r, h), SamePart)
         /\ SentOf(r, h) \in Answered /\ SentOf(r, h) \in Seq(Message)
<1>1. r \in Row /\ r.role \in {"user", "assistant"} /\ MaxSteps \in Nat
  BY DEF Spoken, Row, Steps
<1>2. PICK ms, ws : ms = Context!ModelParts(r, h) /\ ws = Context!ShownParts(r, h)
  OBVIOUS
<1>3. ms \in Seq(Part) /\ ws \in Seq(Part) /\ Alike(ws, ms, SamePart)
  BY <1>1, <1>2, PartsOfRow
<1>4. Context!ByStep(ms) \in Seq(Part) /\ ElementsOf(Context!ByStep(ms)) = ElementsOf(ms)
  BY <1>1, <1>3, ByStepKeeps
<1>5. Context!ByStep(ws) \in Seq(Part)
  BY <1>1, <1>3, ByStepKeeps
<1>6. SamePart \in SUBSET (Part \X Part)
  BY DEF SamePart
<1>7. \A x, y : <<x, y>> \in SamePart => x.step = y.step
  BY DEF SamePart
<1>8. Alike(Context!ByStep(ws), Context!ByStep(ms), SamePart)
  BY <1>1, <1>3, <1>6, <1>7, ByStepAlike
<1>9. Context!Convert(r.role, Context!ByStep(ms)) \in Answered
  BY <1>1, <1>4, ConvertAnswered
<1>10. Answered \in SUBSET Seq(Message)
  BY DEF Answered
<1>11. QED
  BY <1>2, <1>4, <1>5, <1>8, <1>9, <1>10 DEF SentParts, SeenParts, SentOf

LEMMA MessagesAre ==
  ASSUME NEW h \in Seq(Row)
  PROVE  /\ Context!FirstRows(HistoryLimit) = h =>
              Context!ModelMessages
              = FlattenSeq([i \in DOMAIN Only(h, Spoken) |-> SentOf(Only(h, Spoken)[i], h)])
         /\ Context!FirstRows(PageLimit) = h =>
              Context!ShownMessages
              = [i \in DOMAIN Only(h, Spoken) |-> SeenParts(Only(h, Spoken)[i], h)]
<1>1. PICK s : s = Only(h, Spoken)
  OBVIOUS
<1>2. Context!NotTool(h) = s
  BY <1>1, NotToolIs
<1>3. ASSUME Context!FirstRows(HistoryLimit) = h
      PROVE  Context!ModelMessages = FlattenSeq([i \in DOMAIN s |-> SentOf(s[i], h)])
  BY <1>2, <1>3, SameLists DEF Context!ModelMessages, SentOf, SentParts
<1>4. ASSUME Context!FirstRows(PageLimit) = h
      PROVE  Context!ShownMessages = [i \in DOMAIN s |-> SeenParts(s[i], h)]
  BY <1>2, <1>4 DEF Context!ShownMessages, SeenParts
<1>5. QED
  BY <1>1, <1>3, <1>4

LEMMA SpokenRows ==
  ASSUME Steps, NEW h \in Seq(Row)
  PROVE  /\ Only(h, Spoken) \in Seq(Spoken)
         /\ DOMAIN Only(h, Spoken) = 1 .. Len(Only(h, Spoken)) /\ Len(Only(h, Spoken)) \in Nat
         /\ [i \in DOMAIN Only(h, Spoken) |-> SentOf(Only(h, Spoken)[i], h)] \in Seq(Answered)
         /\ [i \in DOMAIN Only(h, Spoken) |-> SentOf(Only(h, Spoken)[i], h)] \in Seq(Seq(Message))
         /\ Len([i \in DOMAIN Only(h, Spoken) |-> SentOf(Only(h, Spoken)[i], h)])
            = Len(Only(h, Spoken))
         /\ [i \in DOMAIN Only(h, Spoken) |-> SeenParts(Only(h, Spoken)[i], h)] \in Seq(Seq(Part))
         /\ Len([i \in DOMAIN Only(h, Spoken) |-> SeenParts(Only(h, Spoken)[i], h)])
            = Len(Only(h, Spoken))
<1>1. Row \cap Spoken = Spoken
  BY DEF Spoken
<1>2. PICK s : s = Only(h, Spoken) /\ s \in Seq(Spoken)
  BY <1>1, OnlyType
<1>3. PICK n \in Nat : n = Len(s) /\ DOMAIN s = 1 .. n
  BY <1>2
<1>4. ASSUME NEW i \in 1 .. n
      PROVE  SentOf(s[i], h) \in Answered /\ SeenParts(s[i], h) \in Seq(Part)
  <2>1. s[i] \in Spoken
    BY <1>2, <1>3
  <2>2. QED
    BY <2>1, RowIsSent
<1>5. PICK g : g = [i \in 1 .. n |-> SentOf(s[i], h)]
  OBVIOUS
<1>6. PICK w : w = [i \in 1 .. n |-> SeenParts(s[i], h)]
  OBVIOUS
<1>7. g \in [1 .. n -> Answered]
  BY <1>4, <1>5
<1>8. g \in Seq(Answered) /\ Len(g) = n
  BY <1>7
<1>9. Answered \in SUBSET Seq(Message)
  BY DEF Answered
<1>10. g \in [1 .. n -> Seq(Message)]
  BY <1>7, <1>9
<1>11. g \in Seq(Seq(Message))
  BY <1>10
<1>12. w \in [1 .. n -> Seq(Part)]
  BY <1>4, <1>6
<1>13. w \in Seq(Seq(Part)) /\ Len(w) = n
  BY <1>12
<1>14. QED
  BY <1>2, <1>3, <1>5, <1>6, <1>8, <1>11, <1>13

LEMMA AllAnswered ==
  ASSUME Steps, HistoryLimit \in Nat, histRows \in Seq(Row)
  PROVE  Context!CallsAnsweredAtOnce
<1>1. PICK h \in Seq(Row) : h = Context!FirstRows(HistoryLimit)
  BY FirstRowsAre
<1>2. PICK m : m = Context!ModelMessages
  OBVIOUS
<1>3. PICK g : g = [i \in DOMAIN Only(h, Spoken) |-> SentOf(Only(h, Spoken)[i], h)]
  OBVIOUS
<1>4. m = FlattenSeq(g)
  BY <1>1, <1>2, <1>3, MessagesAre
<1>5. g \in Seq(Answered)
  BY <1>3, SpokenRows
<1>6. Answered \in SUBSET Seq(Message)
  BY DEF Answered
<1>7. m \in Answered
  BY <1>4, <1>5, <1>6, EmptyAnswered, JoinedAnswered, FlattenClosed
<1>8. m \in Seq(Message) /\ CallsAnswered(m) /\ AnswersCalled(m)
  BY <1>7 DEF Answered
<1>9. DOMAIN m = 1 .. Len(m) /\ \A i \in 1 .. Len(m) : DOMAIN m[i].calls = 1 .. Len(m[i].calls)
  <2>1. \A x \in Message : DOMAIN x.calls = 1 .. Len(x.calls)
    BY DEF Message
  <2>2. QED
    BY <1>8, <2>1
<1>10. ASSUME NEW i \in DOMAIN m, NEW k \in DOMAIN m[i].calls
       PROVE  i + k \in DOMAIN m /\ m[i + k].role = "tool" /\ m[i + k].call = m[i].calls[k]
  BY <1>8, <1>9 DEF CallsAnswered
<1>11. ASSUME NEW i \in DOMAIN m, m[i].role = "tool"
       PROVE  \E j \in 1 .. i - 1 : i - j \in DOMAIN m[j].calls /\ m[j].calls[i - j] = m[i].call
  <2>1. PICK j \in 1 .. i - 1 : i - j \in 1 .. Len(m[j].calls) /\ m[j].calls[i - j] = m[i].call
    BY <1>8, <1>9, <1>11 DEF AnswersCalled
  <2>2. j \in 1 .. Len(m)
    <3>1. i \in 1 .. Len(m) /\ Len(m) \in Nat
      BY <1>8, <1>9
    <3>2. QED
      BY <3>1
  <2>3. QED
    BY <1>9, <2>1, <2>2
<1>12. QED
  BY <1>2, <1>10, <1>11 DEF Context!CallsAnsweredAtOnce

(* A list of the inputs, or of the answers, of what a row becomes.         *)
LEMMA SentOfRow ==
  ASSUME Steps, NEW r \in Spoken, NEW h \in Seq(Row)
  PROVE  /\ Only(SentOf(r, h), Input)
            = IF r.role = "user" THEN <<Speech(r.role, SentParts(r, h))>> ELSE <<>>
         /\ Only(SentOf(r, h), Answer) = Answers(SentParts(r, h))
         /\ Speech(r.role, SentParts(r, h)) \in Message
         /\ Answers(SentParts(r, h)) \in Seq(Message)
<1>1. PICK ps \in Seq(Part) : ps = SentParts(r, h)
  BY RowIsSent
<1>2. PICK role \in {"user", "assistant"} : role = r.role
  BY DEF Spoken, Row
<1>3. PICK x, a : x = Speech(role, ps) /\ a = Answers(ps)
  OBVIOUS
<1>4. x \in Message /\ x.role = role
  <2>1. x \in Message
    BY <1>3, SpeechIs
  <2>2. x.role = role
    BY <1>3 DEF Speech
  <2>3. QED
    BY <2>1, <2>2
<1>5. a \in Seq(Answer)
  BY <1>3, AnswersAre
<1>6. Answer \in SUBSET Message
  BY DEF Answer
<1>7. a \in Seq(Message)
  BY <1>5, <1>6
<1>8. PICK e : e = <<x>>
  OBVIOUS
<1>9. e \in Seq(Message)
  BY <1>4, <1>8
<1>10. SentOf(r, h) = e \o a
  BY <1>1, <1>2, <1>3, <1>8, ConvertIs DEF SentOf
<1>11. Only(e \o a, Input) = Only(e, Input) \o Only(a, Input)
  BY <1>7, <1>9, OnlyConcat
<1>12. Only(e \o a, Answer) = Only(e, Answer) \o Only(a, Answer)
  BY <1>7, <1>9, OnlyConcat
<1>13. Only(a, Input) = <<>>
  <2>1. Only(a, Input) \in Seq(Answer \cap Input)
    BY <1>5, OnlyType
  <2>2. Answer \cap Input = {}
    BY DEF Answer, Input
  <2>3. QED
    BY <2>1, <2>2, NothingIsEmpty
<1>14. Only(a, Answer) = a
  BY <1>5, OnlyAll
<1>15. Only(e, Answer) = <<>>
  <2>1. x \notin Answer
    BY <1>4 DEF Answer
  <2>2. QED
    BY <1>8, <2>1, OnlyOfOne
<1>16. Only(e, Input) = IF role = "user" THEN e ELSE <<>>
  <2>1. x \in Input <=> role = "user"
    BY <1>4 DEF Input
  <2>2. QED
    BY <1>8, <2>1, OnlyOfOne
<1>17. PICK f : f = IF role = "user" THEN e ELSE <<>>
  OBVIOUS
<1>18. f \in Seq(Message)
  BY <1>9, <1>17
<1>19. f \o <<>> = f
  BY <1>18
<1>20. <<>> \o a = a
  BY <1>7
<1>21. Only(e \o a, Input) = f
  BY <1>11, <1>13, <1>16, <1>17, <1>19
<1>22. Only(e \o a, Answer) = a
  BY <1>12, <1>14, <1>15, <1>20
<1>23. QED
  BY <1>1, <1>2, <1>3, <1>4, <1>7, <1>8, <1>10, <1>17, <1>21, <1>22

LEMMA ByStepOne ==
  ASSUME Steps, NEW p \in Part, p.step = 0
  PROVE  Context!ByStep(<<p>>) = <<p>>
<1>1. PICK e : e = <<p>>
  OBVIOUS
<1>2. e \in Seq(Part)
  BY <1>1
<1>3. PICK ss : ss = [s \in 1 .. MaxSteps |-> Only(e, AtStep(s))]
  OBVIOUS
<1>4. Context!ByStep(e) = FlattenSeq(ss)
  BY <1>2, <1>3, ByStepIs
<1>5. MaxSteps \in Nat /\ 1 \in 1 .. MaxSteps
  BY DEF Steps
<1>6. ASSUME NEW s \in 1 .. MaxSteps PROVE ss[s] = IF s = 1 THEN e ELSE <<>>
  <2>1. p \in AtStep(s) <=> s = 1
    BY DEF AtStep
  <2>2. Only(e, AtStep(s)) = IF p \in AtStep(s) THEN <<p>> ELSE <<>>
    BY <1>1, OnlyOfOne
  <2>3. QED
    BY <1>1, <1>3, <2>1, <2>2
<1>7. PICK n \in Nat : n = MaxSteps - 1
  BY <1>5
<1>8. PICK u, v : u = <<e>> /\ v = [s \in 1 .. n |-> <<>>]
  OBVIOUS
<1>9. u \in Seq(Seq(Part)) /\ Len(u) = 1 /\ u[1] = e
  BY <1>2, <1>8
<1>10. v \in [1 .. n -> Seq({})]
  BY <1>8
<1>11. v \in Seq(Seq({})) /\ Len(v) = n
  BY <1>10
<1>12. v \in [1 .. n -> Seq(Part)]
  BY <1>8
<1>13. v \in Seq(Seq(Part))
  BY <1>12
<1>14. ss = u \o v
  <2>1. PICK w : w = u \o v
    OBVIOUS
  <2>2. /\ w \in Seq(Seq(Part)) /\ Len(w) = Len(u) + Len(v)
        /\ \A j \in 1 .. Len(u) : w[j] = u[j]
        /\ \A j \in 1 .. Len(v) : w[Len(u) + j] = v[j]
    <3>1. PICK P : P = Seq(Part)
      OBVIOUS
    <3>2. u \in Seq(P) /\ v \in Seq(P) /\ w = u \o v
      BY <1>9, <1>13, <2>1, <3>1
    <3>3. /\ w \in Seq(P) /\ Len(w) = Len(u) + Len(v)
          /\ \A j \in 1 .. Len(u) : w[j] = u[j]
          /\ \A j \in 1 .. Len(v) : w[Len(u) + j] = v[j]
      BY <3>2
    <3>4. QED
      BY <3>1, <3>3
  <2>3. Len(w) = MaxSteps /\ w[1] = e /\ \A j \in 1 .. n : w[1 + j] = <<>>
    BY <1>5, <1>7, <1>8, <1>9, <1>11, <2>2
  <2>4. ASSUME NEW s \in 1 .. MaxSteps PROVE w[s] = ss[s]
    <3>1. CASE s = 1
      BY <1>6, <2>3, <3>1
    <3>2. CASE s # 1
      <4>1. PICK j \in 1 .. n : s = 1 + j
        <5>1. PICK j : j = s - 1
          OBVIOUS
        <5>2. j \in 1 .. n /\ s = 1 + j
          BY <1>5, <1>7, <3>2, <5>1
        <5>3. QED
          BY <5>2
      <4>2. QED
        BY <1>6, <2>3, <3>2, <4>1
    <3>3. QED
      BY <3>1, <3>2
  <2>5. DOMAIN ss = 1 .. MaxSteps
    BY <1>3
  <2>6. DOMAIN w = 1 .. MaxSteps /\ w = [j \in 1 .. MaxSteps |-> w[j]]
    BY <2>2, <2>3
  <2>7. ss = [j \in 1 .. MaxSteps |-> ss[j]]
    BY <1>3
  <2>8. QED
    BY <2>1, <2>4, <2>6, <2>7
<1>15. FlattenSeq(u \o v) = FlattenSeq(u) \o FlattenSeq(v)
  BY <1>9, <1>13, FlattenConcat
<1>16. FlattenSeq(u) = e
  BY <1>2, <1>8, FlattenOne
<1>17. FlattenSeq(v) \in Seq({})
  BY <1>11, FlattenType
<1>18. FlattenSeq(v) = <<>>
  BY <1>17, NothingIsEmpty
<1>19. e \o <<>> = e
  BY <1>2
<1>20. QED
  BY <1>1, <1>4, <1>14, <1>15, <1>16, <1>18, <1>19

(* The row of an input, and the message it becomes.                        *)
Inputs == {r \in Row : r.role = "user" /\ r.text # 0 /\ r.parts = <<>> /\ r.calls = <<>>}

LEMMA InputIsSent ==
  ASSUME Steps, NEW r \in Inputs, NEW h \in Seq(Row)
  PROVE  Only(SentOf(r, h), Input) = <<Speech(r.role, SentParts(r, h))>>
         /\ Speech(r.role, SentParts(r, h)).texts = <<r.text>>
<1>1. r \in Spoken /\ r.role = "user" /\ r.text # 0 /\ r.text \in Nat /\ r.calls = <<>> /\ r.parts = <<>>
  BY DEF Inputs, Spoken, Row
<1>2. PICK t \in Nat : t = r.text
  BY <1>1
<1>3. PICK p : p = [kind |-> "text", step |-> 0, text |-> t, call |-> 0, output |-> ""]
  OBVIOUS
<1>4. "" \in Outcome /\ 0 \in 0 .. MaxSteps - 1
  BY DEF Outcome, Context!Outputs, Steps
<1>5. p \in Part /\ p.step = 0 /\ p.kind = "text" /\ p.text = t
  BY <1>3, <1>4 DEF Part
<1>6. PICK e : e = <<p>>
  OBVIOUS
<1>7. e \in Seq(Part)
  BY <1>5, <1>6
<1>8. Context!FromColumns(r, h) = e
  <2>1. PICK f : f = [k \in DOMAIN r.calls |-> Context!Call(0, r.calls[k], Context!ToolResult(h, r.calls[k]))]
    OBVIOUS
  <2>2. DOMAIN r.calls = {}
    BY <1>1
  <2>3. f = <<>>
    BY <2>1, <2>2
  <2>4. Context!Text(0, r.text) = p
    BY <1>2, <1>3 DEF Context!Text
  <2>5. Context!FromColumns(r, h) = e \o f
    BY <1>1, <1>6, <2>1, <2>4 DEF Context!FromColumns
  <2>6. e \o <<>> = e
    BY <1>7
  <2>7. QED
    BY <2>3, <2>5, <2>6
<1>9. Context!ModelParts(r, h) = e
  BY <1>1, <1>8 DEF Context!ModelParts
<1>10. SentParts(r, h) = e
  BY <1>5, <1>6, <1>9, ByStepOne DEF SentParts
<1>11. p \in TextPart
  BY <1>5 DEF TextPart
<1>12. Only(e, TextPart) = e
  BY <1>6, <1>11, OnlyOfOne
<1>13. [k \in DOMAIN e |-> e[k].text] = <<t>>
  BY <1>5, <1>6
<1>14. Speech(r.role, e).texts = <<t>>
  BY <1>12, <1>13 DEF Speech
<1>15. QED
  BY <1>1, <1>2, <1>10, <1>14, SentOfRow

(* The rows of a session as its turns leave them: an input has its text    *)
(* and nothing else, each call made is in a row of the session, a tool row *)
(* belongs to a call that was made and is the only one of it, and a part   *)
(* has no other output than that of the call's tool row.                   *)
Makes(r, c) ==
  /\ r \in Spoken
  /\ IF r.parts # <<>> THEN \E k \in 1 .. Len(r.parts) : r.parts[k].kind = "call" /\ r.parts[k].call = c
     ELSE \E k \in 1 .. Len(r.calls) : r.calls[k] = c
Resulted(p, h) ==
  p.output # "" =>
    \E j \in 1 .. Len(h) : h[j].role = "tool" /\ h[j].call = p.call /\ h[j].output = p.output

InputsKept(h)  == \A i \in 1 .. Len(h) : h[i].role = "user" => h[i] \in Inputs
CallsKept(h, n) == \A c \in 1 .. n : \E i \in 1 .. Len(h) : Makes(h[i], c)
ResultsMade(h, n) == \A i \in 1 .. Len(h) : h[i].role = "tool" => h[i].call \in 1 .. n
ResultsOnce(h) ==
  \A i, j \in 1 .. Len(h) :
    h[i].role = "tool" /\ h[j].role = "tool" /\ h[i].call = h[j].call => i = j
PartsMatch(h)  ==
  \A i \in 1 .. Len(h) : \A k \in 1 .. Len(h[i].parts) : Resulted(h[i].parts[k], h)

RowsKept(h, n) ==
  /\ h \in Seq(Row) /\ n \in Nat
  /\ InputsKept(h) /\ CallsKept(h, n) /\ ResultsMade(h, n) /\ ResultsOnce(h)
HistoryState == RowsKept(histRows, called) /\ PartsMatch(histRows)

LEMMA ResultIsKnown ==
  ASSUME HistoryState, NEW i \in 1 .. Len(histRows), histRows[i].role = "tool"
  PROVE  Context!ToolResult(histRows, histRows[i].call) = histRows[i].output
<1>1. PICK h \in Seq(Row) : h = histRows
  BY DEF HistoryState, RowsKept
<1>2. PICK t \in Row : t = h[i]
  BY <1>1
<1>3. PICK c : c = t.call
  OBVIOUS
<1>4. t \in ElementsOf(h) \cap ResultOf(c)
  BY <1>1, <1>2, <1>3 DEF ElementsOf, ResultOf
<1>5. PICK u \in ElementsOf(h) \cap ResultOf(c) : Context!ToolResult(h, c) = u.output
  BY <1>4, ToolResultIs
<1>6. PICK j \in 1 .. Len(h) : u = h[j]
  BY DEF ElementsOf
<1>7. u.role = "tool" /\ u.call = c
  BY DEF ResultOf
<1>8. j = i
  BY <1>1, <1>2, <1>3, <1>6, <1>7 DEF HistoryState, RowsKept, ResultsOnce
<1>9. QED
  BY <1>1, <1>2, <1>3, <1>5, <1>6, <1>8

LEMMA ResultIsInParts ==
  ASSUME Steps, HistoryState, NEW i \in 1 .. Len(histRows), histRows[i].role = "tool",
         NEW r \in Spoken, r \in ElementsOf(histRows), Makes(r, histRows[i].call)
  PROVE  \E p \in ElementsOf(Context!ModelParts(r, histRows)) :
           p.kind = "call" /\ p.call = histRows[i].call /\ p.output = histRows[i].output
<1>1. PICK h \in Seq(Row) : h = histRows
  BY DEF HistoryState, RowsKept
<1>2. PICK c, out : c = h[i].call /\ out = h[i].output
  OBVIOUS
<1>3. Context!ToolResult(h, c) = out
  BY <1>1, <1>2, ResultIsKnown
<1>4. r \in Row
  BY DEF Spoken
<1>5. CASE r.parts # <<>>
  <2>1. PICK ps \in Seq(Part) : ps = r.parts
    BY <1>4 DEF Row
  <2>2. PICK k \in 1 .. Len(ps) : ps[k].kind = "call" /\ ps[k].call = c
    BY <1>1, <1>2, <1>5, <2>1 DEF Makes
  <2>3. PICK qs : qs = Context!Filled(ps, h)
    OBVIOUS
  <2>4. qs \in Seq(Part) /\ Alike(ps, qs, SamePart)
    BY <2>3, FilledIs
  <2>5. /\ qs[k].kind = "call" /\ qs[k].call = c
        /\ qs[k].output = IF ps[k].output = "" THEN Context!ToolResult(h, c) ELSE ps[k].output
    BY <2>2, <2>3, FilledIs
  <2>6. qs[k].output = out
    <3>1. CASE ps[k].output = ""
      BY <1>3, <2>5, <3>1
    <3>2. CASE ps[k].output # ""
      <4>1. PICK l \in 1 .. Len(h) : r = h[l]
        BY <1>1 DEF ElementsOf
      <4>2. Resulted(ps[k], h)
        BY <1>1, <2>1, <4>1 DEF HistoryState, PartsMatch
      <4>3. PICK j \in 1 .. Len(h) : h[j].role = "tool" /\ h[j].call = c /\ h[j].output = ps[k].output
        BY <2>2, <3>2, <4>2 DEF Resulted
      <4>4. j = i
        BY <1>1, <1>2, <4>3 DEF HistoryState, RowsKept, ResultsOnce
      <4>5. QED
        BY <1>2, <2>5, <3>2, <4>3, <4>4
    <3>3. QED
      BY <3>1, <3>2
  <2>7. k \in 1 .. Len(qs)
    BY <2>4 DEF Alike
  <2>8. qs[k] \in ElementsOf(qs)
    BY <2>7 DEF ElementsOf
  <2>9. Context!ModelParts(r, h) = qs
    BY <1>5, <2>1, <2>3 DEF Context!ModelParts
  <2>10. QED
    BY <1>1, <1>2, <2>5, <2>6, <2>8, <2>9
<1>6. CASE r.parts = <<>>
  <2>1. PICK k \in 1 .. Len(r.calls) : r.calls[k] = c
    BY <1>1, <1>2, <1>6 DEF Makes
  <2>2. PICK p \in ElementsOf(Context!FromColumns(r, h)) :
          p.kind = "call" /\ p.call = r.calls[k] /\ p.output = Context!ToolResult(h, r.calls[k])
    BY <1>4, ColumnsAre
  <2>3. Context!ModelParts(r, h) = Context!FromColumns(r, h)
    BY <1>6 DEF Context!ModelParts
  <2>4. QED
    BY <1>1, <1>2, <1>3, <2>1, <2>2, <2>3
<1>7. QED
  BY <1>5, <1>6

(* The answer that a part of a row becomes.                                *)
LEMMA PartIsAnswered ==
  ASSUME Steps, NEW r \in Spoken, NEW h \in Seq(Row),
         NEW p \in ElementsOf(Context!ModelParts(r, h)), p.kind = "call"
  PROVE  \E x \in ElementsOf(SentOf(r, h)) : x.role = "tool" /\ x.call = p.call /\ x.output = p.output
<1>1. PICK ps \in Seq(Part) : ps = SentParts(r, h)
  BY RowIsSent
<1>2. p \in ElementsOf(ps)
  BY <1>1, RowIsSent
<1>3. p \in Part
  BY <1>2 DEF ElementsOf
<1>4. p \in ElementsOf(Only(ps, CallPart))
  BY <1>2, <1>3, OnlyHas DEF CallPart
<1>5. PICK k \in 1 .. Len(Only(ps, CallPart)) : p = Only(ps, CallPart)[k]
  BY <1>4 DEF ElementsOf
<1>6. PICK a : a = Answers(ps)
  OBVIOUS
<1>7. /\ a \in Seq(Answer) /\ Len(a) = Len(Only(ps, CallPart))
      /\ \A n \in 1 .. Len(a) : /\ a[n].call = Only(ps, CallPart)[n].call
                                /\ a[n].output = Only(ps, CallPart)[n].output
                                /\ a[n].role = "tool"
  BY <1>6, AnswersAre
<1>8. PICK x : x = a[k]
  OBVIOUS
<1>9. x \in ElementsOf(a) /\ x.role = "tool" /\ x.call = p.call /\ x.output = p.output
  BY <1>5, <1>7, <1>8 DEF ElementsOf
<1>10. Only(SentOf(r, h), Answer) = a /\ SentOf(r, h) \in Seq(Message)
  BY <1>1, <1>6, SentOfRow, RowIsSent
<1>11. ElementsOf(a) = ElementsOf(SentOf(r, h)) \cap Answer
  BY <1>10, OnlyHas
<1>12. QED
  BY <1>9, <1>11

LEMMA ResultsSent ==
  ASSUME Steps, HistoryLimit \in Nat, HistoryState, Len(histRows) <= HistoryLimit,
         NEW i \in 1 .. Len(histRows), histRows[i].role = "tool"
  PROVE  \E x \in ElementsOf(Context!ModelMessages) :
           x.role = "tool" /\ x.call = histRows[i].call /\ x.output = histRows[i].output
<1>1. PICK h \in Seq(Row) : h = histRows
  BY DEF HistoryState, RowsKept
<1>2. Context!FirstRows(HistoryLimit) = h
  BY <1>1, FirstRowsAre
<1>3. PICK s, g : /\ s = Only(h, Spoken)
                  /\ g = [k \in DOMAIN Only(h, Spoken) |-> SentOf(Only(h, Spoken)[k], h)]
  OBVIOUS
<1>4. Context!ModelMessages = FlattenSeq(g)
  BY <1>2, <1>3, MessagesAre
<1>5. /\ s \in Seq(Spoken) /\ DOMAIN s = 1 .. Len(s) /\ Len(s) \in Nat
      /\ g \in Seq(Seq(Message)) /\ Len(g) = Len(s)
  BY <1>3, SpokenRows
<1>6. PICK c : c = h[i].call
  OBVIOUS
<1>7. PICK l \in 1 .. Len(h) : Makes(h[l], c)
  BY <1>1, <1>6 DEF HistoryState, RowsKept, ResultsMade, CallsKept
<1>8. PICK r : r = h[l]
  OBVIOUS
<1>9. r \in Spoken /\ r \in ElementsOf(h) /\ Makes(r, c)
  BY <1>7, <1>8 DEF Makes, ElementsOf
<1>10. PICK p \in ElementsOf(Context!ModelParts(r, h)) :
         p.kind = "call" /\ p.call = c /\ p.output = h[i].output
  BY <1>1, <1>6, <1>9, ResultIsInParts
<1>11. PICK x \in ElementsOf(SentOf(r, h)) : x.role = "tool" /\ x.call = p.call /\ x.output = p.output
  BY <1>9, <1>10, PartIsAnswered
<1>12. r \in ElementsOf(s)
  BY <1>3, <1>9, OnlyHas
<1>13. PICK k \in 1 .. Len(s) : r = s[k]
  BY <1>12 DEF ElementsOf
<1>14. g[k] = SentOf(r, h)
  BY <1>3, <1>5, <1>13
<1>15. ElementsOf(FlattenSeq(g)) = UNION {ElementsOf(g[n]) : n \in 1 .. Len(g)}
  BY <1>5, FlattenHas
<1>16. x \in ElementsOf(FlattenSeq(g))
  BY <1>5, <1>14, <1>15
<1>17. QED
  BY <1>1, <1>4, <1>6, <1>10, <1>11, <1>16

(* The inputs are sent as they were said.                                  *)
Said    == {r \in Row : r.role = "user"}
SaidAs  == {x \in Row \X Message : x[2].texts = <<x[1].text>>}
ShownAs == {x \in Part \X Message : x[1].call = x[2].call /\ x[1].output \in {"", x[2].output}}

LEMMA RolesAre ==
  /\ \A h \in Seq(Row) : Context!Filter(h, LAMBDA r : r.role = "user") = Only(h, Said)
  /\ \A m \in Seq(Message) : /\ Context!Filter(m, LAMBDA x : x.role = "user") = Only(m, Input)
                             /\ Context!Filter(m, LAMBDA x : x.role = "tool") = Only(m, Answer)
  /\ \A p \in Seq(Part) : Context!Filter(p, LAMBDA q : q.kind = "call") = Only(p, CallPart)
<1>1. ASSUME NEW h \in Seq(Row)
      PROVE  [k \in DOMAIN h |-> IF h[k].role = "user" THEN <<h[k]>> ELSE <<>>]
             = [k \in DOMAIN h |-> IF h[k] \in Said THEN <<h[k]>> ELSE <<>>]
  <2>1. ASSUME NEW k \in DOMAIN h PROVE h[k].role = "user" <=> h[k] \in Said
    <3>1. PICK r \in Row : r = h[k]
      OBVIOUS
    <3>2. QED
      BY <3>1 DEF Said
  <2>2. QED
    BY <2>1
<1>2. ASSUME NEW m \in Seq(Message)
      PROVE  /\ [k \in DOMAIN m |-> IF m[k].role = "user" THEN <<m[k]>> ELSE <<>>]
                = [k \in DOMAIN m |-> IF m[k] \in Input THEN <<m[k]>> ELSE <<>>]
             /\ [k \in DOMAIN m |-> IF m[k].role = "tool" THEN <<m[k]>> ELSE <<>>]
                = [k \in DOMAIN m |-> IF m[k] \in Answer THEN <<m[k]>> ELSE <<>>]
  <2>1. ASSUME NEW k \in DOMAIN m
        PROVE  (m[k].role = "user" <=> m[k] \in Input) /\ (m[k].role = "tool" <=> m[k] \in Answer)
    <3>1. PICK x \in Message : x = m[k]
      OBVIOUS
    <3>2. QED
      BY <3>1 DEF Input, Answer
  <2>2. QED
    BY <2>1
<1>3. ASSUME NEW h \in Seq(Row)
      PROVE  Context!Filter(h, LAMBDA r : r.role = "user") = Only(h, Said)
  BY <1>1, SameLists DEF Context!Filter, Only
<1>4. ASSUME NEW m \in Seq(Message)
      PROVE  Context!Filter(m, LAMBDA x : x.role = "user") = Only(m, Input)
  BY <1>2, SameLists DEF Context!Filter, Only
<1>5. ASSUME NEW m \in Seq(Message)
      PROVE  Context!Filter(m, LAMBDA x : x.role = "tool") = Only(m, Answer)
  BY <1>2, SameLists DEF Context!Filter, Only
<1>6. ASSUME NEW p \in Seq(Part)
      PROVE  Context!Filter(p, LAMBDA q : q.kind = "call") = Only(p, CallPart)
  BY KindsAre, SameLists DEF Context!Filter
<1>7. QED
  BY <1>3, <1>4, <1>5, <1>6

LEMMA InputsSent ==
  ASSUME Steps, HistoryLimit \in Nat, HistoryState, Len(histRows) <= HistoryLimit
  PROVE  /\ Context!ModelMessages \in Seq(Message)
         /\ Alike(Only(histRows, Said), Only(Context!ModelMessages, Input), SaidAs)
<1>1. PICK h \in Seq(Row) : h = histRows
  BY DEF HistoryState, RowsKept
<1>2. Context!FirstRows(HistoryLimit) = h
  BY <1>1, FirstRowsAre
<1>3. PICK s, g : /\ s = Only(h, Spoken)
                  /\ g = [k \in DOMAIN Only(h, Spoken) |-> SentOf(Only(h, Spoken)[k], h)]
  OBVIOUS
<1>4. Context!ModelMessages = FlattenSeq(g)
  BY <1>2, <1>3, MessagesAre
<1>5. /\ s \in Seq(Spoken) /\ DOMAIN s = 1 .. Len(s) /\ Len(s) \in Nat
      /\ g \in Seq(Seq(Message)) /\ Len(g) = Len(s)
  BY <1>3, SpokenRows
<1>6. PICK n \in Nat : n = Len(s)
  BY <1>5
<1>7. FlattenSeq(g) \in Seq(Message)
  BY <1>5, FlattenType
<1>8. PICK u, v : /\ u = [k \in DOMAIN s |-> IF s[k] \in Said THEN <<s[k]>> ELSE <<>>]
                  /\ v = [k \in 1 .. Len(g) |-> Only(g[k], Input)]
  OBVIOUS
<1>9. Only(s, Said) = FlattenSeq(u)
  BY <1>8 DEF Only
<1>10. Only(FlattenSeq(g), Input) = FlattenSeq(v)
  BY <1>5, <1>8, OnlyFlatten
<1>11. u \in Seq(Seq(Spoken \cap Said)) /\ Len(u) = n
  BY <1>5, <1>6, <1>8, OnlyLists
<1>12. ASSUME NEW k \in 1 .. n PROVE v[k] \in Seq(Message) /\ Alike(u[k], v[k], SaidAs)
  <2>1. PICK r \in Spoken : r = s[k]
    BY <1>5, <1>6
  <2>2. g[k] = SentOf(r, h)
    BY <1>3, <1>5, <1>6, <2>1
  <2>3. v[k] = Only(SentOf(r, h), Input)
    BY <1>5, <1>6, <1>8, <2>2
  <2>4. u[k] = IF r \in Said THEN <<r>> ELSE <<>>
    BY <1>5, <1>6, <1>8, <2>1
  <2>5. r \in Row /\ (r \in Said <=> r.role = "user")
    BY DEF Spoken, Said
  <2>6. v[k] \in Seq(Message)
    BY <2>3, RowIsSent, OnlyType
  <2>7. CASE r.role = "user"
    <3>1. r \in ElementsOf(s)
      BY <1>6, <2>1 DEF ElementsOf
    <3>2. r \in ElementsOf(h)
      BY <1>3, <3>1, OnlyHas
    <3>3. PICK i \in 1 .. Len(h) : r = h[i]
      BY <3>2 DEF ElementsOf
    <3>4. r \in Inputs
      BY <1>1, <2>7, <3>3 DEF HistoryState, RowsKept, InputsKept
    <3>5. PICK x : x = Speech(r.role, SentParts(r, h))
      OBVIOUS
    <3>6. v[k] = <<x>> /\ x.texts = <<r.text>>
      BY <2>3, <3>4, <3>5, InputIsSent
    <3>7. x \in Message
      BY <3>5, SentOfRow
    <3>8. <<r, x>> \in SaidAs
      BY <2>5, <3>6, <3>7 DEF SaidAs
    <3>9. u[k] = <<r>>
      BY <2>4, <2>5, <2>7
    <3>10. Alike(<<r>>, <<x>>, SaidAs)
      BY <3>8 DEF Alike
    <3>11. QED
      BY <2>6, <3>6, <3>9, <3>10
  <2>8. CASE r.role # "user"
    <3>1. v[k] = <<>> /\ u[k] = <<>>
      BY <2>3, <2>4, <2>5, <2>8, SentOfRow
    <3>2. Alike(<<>>, <<>>, SaidAs)
      BY DEF Alike
    <3>3. QED
      BY <2>6, <3>1, <3>2
  <2>9. QED
    BY <2>7, <2>8
<1>13. v \in [1 .. n -> Seq(Message)]
  BY <1>5, <1>6, <1>8, <1>12
<1>14. v \in Seq(Seq(Message)) /\ Len(v) = n
  BY <1>13
<1>15. \A k \in 1 .. Len(u) : Alike(u[k], v[k], SaidAs)
  BY <1>11, <1>12
<1>16. Alike(FlattenSeq(u), FlattenSeq(v), SaidAs)
  BY <1>11, <1>14, <1>15, FlattenAlike
<1>17. Only(s, Said) = Only(h, Said)
  <2>1. Said \in SUBSET Spoken
    BY DEF Said, Spoken
  <2>2. QED
    BY <1>3, <2>1, OnlyOnly
<1>18. QED
  BY <1>1, <1>4, <1>7, <1>9, <1>10, <1>16, <1>17

LEMMA NothingIsLost ==
  ASSUME Steps, HistoryLimit \in Nat, HistoryState
  PROVE  Context!NothingLost
<1>1. SUFFICES ASSUME Len(histRows) <= HistoryLimit PROVE Context!NothingLost
  BY DEF Context!NothingLost
<1>2. PICK h \in Seq(Row) : h = histRows
  BY DEF HistoryState, RowsKept
<1>3. PICK m \in Seq(Message) : m = Context!ModelMessages
  BY <1>1, InputsSent
<1>4. PICK said, heard : said = Only(h, Said) /\ heard = Only(m, Input)
  OBVIOUS
<1>5. /\ Context!Filter(h, LAMBDA r : r.role = "user") = said
      /\ Context!Filter(m, LAMBDA x : x.role = "user") = heard
  BY <1>4, RolesAre
<1>6. Alike(said, heard, SaidAs)
  BY <1>1, <1>2, <1>3, <1>4, InputsSent
<1>7. said \in Seq(Row) /\ heard \in Seq(Message)
  BY <1>4, OnlyType
<1>8. [k \in DOMAIN said |-> <<said[k].text>>] = [k \in DOMAIN heard |-> heard[k].texts]
  <2>1. DOMAIN said = 1 .. Len(said) /\ DOMAIN heard = 1 .. Len(said)
    BY <1>6, <1>7 DEF Alike
  <2>2. ASSUME NEW k \in 1 .. Len(said) PROVE <<said[k].text>> = heard[k].texts
    <3>1. <<said[k], heard[k]>> \in SaidAs
      BY <1>6 DEF Alike
    <3>2. QED
      BY <3>1 DEF SaidAs
  <2>3. QED
    BY <2>1, <2>2
<1>9. ASSUME NEW i \in DOMAIN h, h[i].role = "tool"
      PROVE  \E j \in DOMAIN m : m[j].role = "tool" /\ m[j].call = h[i].call
                                 /\ m[j].output = h[i].output
  <2>1. i \in 1 .. Len(histRows)
    BY <1>2
  <2>2. PICK x \in ElementsOf(m) : x.role = "tool" /\ x.call = h[i].call /\ x.output = h[i].output
    BY <1>1, <1>2, <1>3, <1>9, <2>1, ResultsSent
  <2>3. PICK j \in 1 .. Len(m) : x = m[j]
    BY DEF ElementsOf
  <2>4. QED
    BY <2>2, <2>3
<1>10. QED
  BY <1>2, <1>3, <1>5, <1>8, <1>9 DEF Context!NothingLost

(* A client is shown what the model is heard.                               *)
LEMMA ClientSees ==
  ASSUME Steps, HistoryLimit \in Nat, PageLimit \in Nat, histRows \in Seq(Row)
  PROVE  Context!ClientAgreesWithModel
<1>1. SUFFICES ASSUME Len(histRows) <= PageLimit, Len(histRows) <= HistoryLimit
               PROVE  Context!ClientAgreesWithModel
  BY DEF Context!ClientAgreesWithModel
<1>2. PICK h \in Seq(Row) : h = histRows
  OBVIOUS
<1>3. Context!FirstRows(HistoryLimit) = h /\ Context!FirstRows(PageLimit) = h
  BY <1>1, <1>2, FirstRowsAre
<1>4. PICK s, g, w : /\ s = Only(h, Spoken)
                     /\ g = [k \in DOMAIN Only(h, Spoken) |-> SentOf(Only(h, Spoken)[k], h)]
                     /\ w = [k \in DOMAIN Only(h, Spoken) |-> SeenParts(Only(h, Spoken)[k], h)]
  OBVIOUS
<1>5. Context!ModelMessages = FlattenSeq(g) /\ Context!ShownMessages = w
  BY <1>3, <1>4, MessagesAre
<1>6. /\ s \in Seq(Spoken) /\ DOMAIN s = 1 .. Len(s) /\ Len(s) \in Nat
      /\ g \in Seq(Seq(Message)) /\ Len(g) = Len(s)
      /\ w \in Seq(Seq(Part)) /\ Len(w) = Len(s)
  <2>1. s \in Seq(Spoken) /\ DOMAIN s = 1 .. Len(s) /\ Len(s) \in Nat
    BY <1>4, SpokenRows
  <2>2. g \in Seq(Seq(Message)) /\ Len(g) = Len(s)
    BY <1>4, SpokenRows
  <2>3. w \in Seq(Seq(Part)) /\ Len(w) = Len(s)
    BY <1>4, SpokenRows
  <2>4. QED
    BY <2>1, <2>2, <2>3
<1>7. PICK n \in Nat : n = Len(s)
  BY <1>6
<1>8. PICK m, q : m = FlattenSeq(g) /\ q = FlattenSeq(w)
  OBVIOUS
<1>9. m \in Seq(Message) /\ q \in Seq(Part)
  BY <1>6, <1>8, FlattenType
<1>10. PICK u, v : /\ u = [k \in 1 .. Len(w) |-> Only(w[k], CallPart)]
                   /\ v = [k \in 1 .. Len(g) |-> Only(g[k], Answer)]
  OBVIOUS
<1>11. Only(q, CallPart) = FlattenSeq(u)
  BY <1>6, <1>8, <1>10, OnlyFlatten
<1>12. Only(m, Answer) = FlattenSeq(v)
  BY <1>6, <1>8, <1>10, OnlyFlatten
<1>13. ASSUME NEW k \in 1 .. n
       PROVE  u[k] \in Seq(Part) /\ v[k] \in Seq(Message) /\ Alike(u[k], v[k], ShownAs)
  <2>1. PICK r \in Spoken : r = s[k]
    BY <1>6, <1>7
  <2>2. PICK ps, qs : ps = SeenParts(r, h) /\ qs = SentParts(r, h)
    OBVIOUS
  <2>3. ps \in Seq(Part) /\ qs \in Seq(Part) /\ Alike(ps, qs, SamePart)
    BY <2>2, RowIsSent
  <2>4. u[k] = Only(ps, CallPart)
    BY <1>4, <1>6, <1>7, <1>10, <2>1, <2>2
  <2>5. v[k] = Only(SentOf(r, h), Answer)
    BY <1>4, <1>6, <1>7, <1>10, <2>1
  <2>6. PICK a : a = Answers(qs)
    OBVIOUS
  <2>7. v[k] = a /\ a \in Seq(Message)
    BY <2>2, <2>5, <2>6, SentOfRow
  <2>8. PICK c, d : c = Only(ps, CallPart) /\ d = Only(qs, CallPart)
    OBVIOUS
  <2>9. \A x, y : <<x, y>> \in SamePart => (x \in CallPart <=> y \in CallPart)
    BY DEF SamePart, CallPart
  <2>10. Alike(c, d, SamePart)
    BY <2>3, <2>8, <2>9, OnlyAlike
  <2>11. /\ Len(a) = Len(d) /\ a \in Seq(Answer)
         /\ \A i \in 1 .. Len(a) : a[i].call = d[i].call /\ a[i].output = d[i].output
    BY <2>3, <2>6, <2>8, AnswersAre
  <2>12. c \in Seq(Part)
    BY <2>3, <2>8, OnlyType
  <2>13. ASSUME NEW i \in 1 .. Len(c) PROVE <<c[i], a[i]>> \in ShownAs
    <3>1. <<c[i], d[i]>> \in SamePart /\ i \in 1 .. Len(a)
      BY <2>10, <2>11 DEF Alike
    <3>2. PICK x, y, z : x = c[i] /\ y = d[i] /\ z = a[i]
      OBVIOUS
    <3>3. x \in Part /\ x.call = y.call /\ x.output \in {"", y.output}
      BY <3>1, <3>2 DEF SamePart
    <3>4. z \in Message /\ z.call = y.call /\ z.output = y.output
      BY <2>7, <2>11, <3>1, <3>2
    <3>5. <<x, z>> \in ShownAs
      BY <3>3, <3>4 DEF ShownAs
    <3>6. QED
      BY <3>2, <3>5
  <2>14. Alike(c, a, ShownAs)
    BY <2>10, <2>11, <2>13 DEF Alike
  <2>15. QED
    BY <2>4, <2>7, <2>8, <2>12, <2>14
<1>14. u \in [1 .. n -> Seq(Part)] /\ v \in [1 .. n -> Seq(Message)]
  BY <1>6, <1>7, <1>10, <1>13
<1>15. u \in Seq(Seq(Part)) /\ Len(u) = n
  BY <1>14
<1>16. v \in Seq(Seq(Message)) /\ Len(v) = n
  BY <1>14
<1>17. Alike(FlattenSeq(u), FlattenSeq(v), ShownAs)
  BY <1>13, <1>15, <1>16, FlattenAlike
<1>18. PICK shown, heard : shown = Only(q, CallPart) /\ heard = Only(m, Answer)
  OBVIOUS
<1>19. Alike(shown, heard, ShownAs)
  BY <1>11, <1>12, <1>17, <1>18
<1>20. shown \in Seq(Part)
  BY <1>9, <1>18, OnlyType
<1>21. ASSUME NEW k \in DOMAIN shown
       PROVE  shown[k].call = heard[k].call /\ shown[k].output \in {"", heard[k].output}
  <2>1. k \in 1 .. Len(shown)
    BY <1>20
  <2>2. <<shown[k], heard[k]>> \in ShownAs
    BY <1>19, <2>1 DEF Alike
  <2>3. QED
    BY <2>2 DEF ShownAs
<1>22. Len(shown) = Len(heard)
  BY <1>19 DEF Alike
<1>23. /\ Context!Filter(q, LAMBDA p : p.kind = "call") = shown
       /\ Context!Filter(m, LAMBDA x : x.role = "tool") = heard
  BY <1>9, <1>18, RolesAre
<1>24. Context!FlattenSeq(Context!ShownMessages) = q /\ Context!ModelMessages = m
  BY <1>5, <1>8, SameLists
<1>25. QED
  BY <1>21, <1>22, <1>23, <1>24 DEF Context!ClientAgreesWithModel

(* A row that is added, and a row that a step of its turn changes.         *)
LEMMA Appended ==
  ASSUME NEW S, NEW h \in Seq(S), NEW r \in S
  PROVE  /\ Append(h, r) \in Seq(S) /\ Len(Append(h, r)) = Len(h) + 1
         /\ \A i \in 1 .. Len(h) : Append(h, r)[i] = h[i]
         /\ Append(h, r)[Len(h) + 1] = r
         /\ \A i \in 1 .. Len(Append(h, r)) : i \in 1 .. Len(h) \/ i = Len(h) + 1
OBVIOUS

LEMMA RowAdded ==
  ASSUME NEW h, NEW n, RowsKept(h, n), NEW r \in Row, NEW m \in Nat, n <= m,
         r.role = "user" => r \in Inputs,
         \A c \in n + 1 .. m : Makes(r, c),
         r.role = "tool" =>
           r.call \in 1 .. m /\ \A i \in 1 .. Len(h) : ~(h[i].role = "tool" /\ h[i].call = r.call)
  PROVE  RowsKept(Append(h, r), m)
<1>1. h \in Seq(Row) /\ n \in Nat /\ Len(h) \in Nat
  BY DEF RowsKept
<1>2. PICK g : g = Append(h, r)
  OBVIOUS
<1>3. /\ g \in Seq(Row) /\ Len(g) = Len(h) + 1
      /\ \A i \in 1 .. Len(h) : g[i] = h[i]
      /\ g[Len(h) + 1] = r
      /\ \A i \in 1 .. Len(g) : i \in 1 .. Len(h) \/ i = Len(h) + 1
  BY <1>1, <1>2, Appended
<1>4. InputsKept(g)
  BY <1>3 DEF RowsKept, InputsKept
<1>5. ASSUME NEW c \in 1 .. m PROVE \E i \in 1 .. Len(g) : Makes(g[i], c)
  <2>1. CASE c \in 1 .. n
    <3>1. PICK i \in 1 .. Len(h) : Makes(h[i], c)
      BY <2>1 DEF RowsKept, CallsKept
    <3>2. i \in 1 .. Len(g) /\ g[i] = h[i]
      BY <1>1, <1>3
    <3>3. QED
      BY <3>1, <3>2
  <2>2. CASE c \notin 1 .. n
    <3>1. c \in n + 1 .. m
      BY <1>1, <2>2
    <3>2. Len(h) + 1 \in 1 .. Len(g)
      BY <1>1, <1>3
    <3>3. QED
      BY <1>3, <3>1, <3>2
  <2>3. QED
    BY <2>1, <2>2
<1>6. ResultsMade(g, m)
  <2>1. SUFFICES ASSUME NEW i \in 1 .. Len(g), g[i].role = "tool" PROVE g[i].call \in 1 .. m
    BY DEF ResultsMade
  <2>2. CASE i \in 1 .. Len(h)
    <3>1. h[i].call \in 1 .. n
      BY <1>3, <2>1, <2>2 DEF RowsKept, ResultsMade
    <3>2. QED
      BY <1>1, <1>3, <2>2, <3>1
  <2>3. CASE i = Len(h) + 1
    BY <1>3, <2>1, <2>3
  <2>4. QED
    BY <1>3, <2>2, <2>3
<1>7. ResultsOnce(g)
  <2>1. SUFFICES ASSUME NEW i \in 1 .. Len(g), NEW j \in 1 .. Len(g),
                        g[i].role = "tool", g[j].role = "tool", g[i].call = g[j].call
                 PROVE  i = j
    BY DEF ResultsOnce
  <2>2. CASE i \in 1 .. Len(h) /\ j \in 1 .. Len(h)
    BY <1>3, <2>1, <2>2 DEF RowsKept, ResultsOnce
  <2>3. CASE i \in 1 .. Len(h) /\ j = Len(h) + 1
    BY <1>3, <2>1, <2>3
  <2>4. CASE j \in 1 .. Len(h) /\ i = Len(h) + 1
    BY <1>3, <2>1, <2>4
  <2>5. QED
    BY <1>3, <2>2, <2>3, <2>4
<1>8. CallsKept(g, m)
  BY <1>5 DEF CallsKept
<1>9. QED
  BY <1>2, <1>3, <1>4, <1>6, <1>7, <1>8 DEF RowsKept

LEMMA PartsAdded ==
  ASSUME NEW h \in Seq(Row), PartsMatch(h), NEW r \in Row,
         \A k \in 1 .. Len(r.parts) : Resulted(r.parts[k], h)
  PROVE  PartsMatch(Append(h, r))
<1>1. PICK g : g = Append(h, r)
  OBVIOUS
<1>2. /\ Len(g) = Len(h) + 1
      /\ \A i \in 1 .. Len(h) : g[i] = h[i]
      /\ g[Len(h) + 1] = r
      /\ \A i \in 1 .. Len(g) : i \in 1 .. Len(h) \/ i = Len(h) + 1
  BY <1>1, Appended
<1>3. Len(h) \in Nat
  OBVIOUS
<1>4. ASSUME NEW p, Resulted(p, h) PROVE Resulted(p, g)
  <2>1. SUFFICES ASSUME p.output # ""
                 PROVE  \E j \in 1 .. Len(g) : /\ g[j].role = "tool" /\ g[j].call = p.call
                                               /\ g[j].output = p.output
    BY DEF Resulted
  <2>2. PICK j \in 1 .. Len(h) : h[j].role = "tool" /\ h[j].call = p.call /\ h[j].output = p.output
    BY <1>4, <2>1 DEF Resulted
  <2>3. j \in 1 .. Len(g)
    BY <1>2, <1>3
  <2>4. QED
    BY <1>2, <2>2, <2>3
<1>5. ASSUME NEW i \in 1 .. Len(g), NEW k \in 1 .. Len(g[i].parts) PROVE Resulted(g[i].parts[k], g)
  <2>1. CASE i \in 1 .. Len(h)
    <3>1. k \in 1 .. Len(h[i].parts) /\ g[i].parts[k] = h[i].parts[k]
      BY <1>2, <2>1
    <3>2. Resulted(h[i].parts[k], h)
      BY <2>1, <3>1 DEF PartsMatch
    <3>3. QED
      BY <1>4, <3>1, <3>2
  <2>2. CASE i = Len(h) + 1
    <3>1. k \in 1 .. Len(r.parts) /\ g[i].parts[k] = r.parts[k]
      BY <1>2, <2>2
    <3>2. QED
      BY <1>4, <3>1
  <2>3. QED
    BY <1>2, <2>1, <2>2
<1>6. QED
  BY <1>1, <1>5 DEF PartsMatch

(* What the rows of the session have in place of h's.                      *)
LEMMA RowsChanged ==
  ASSUME NEW h, NEW n, RowsKept(h, n), NEW g \in Seq(Row), Len(g) = Len(h), NEW m \in Nat, n <= m,
         \A i \in 1 .. Len(h) :
           /\ g[i].role = h[i].role /\ g[i].call = h[i].call
           /\ h[i].role = "user" => g[i] = h[i]
           /\ \A c \in 1 .. n : Makes(h[i], c) => Makes(g[i], c),
         \A c \in n + 1 .. m : \E i \in 1 .. Len(h) : Makes(g[i], c)
  PROVE  RowsKept(g, m)
<1>1. h \in Seq(Row) /\ n \in Nat
  BY DEF RowsKept
<1>2. InputsKept(g)
  BY DEF RowsKept, InputsKept
<1>3. ASSUME NEW c \in 1 .. m PROVE \E i \in 1 .. Len(g) : Makes(g[i], c)
  <2>1. CASE c \in 1 .. n
    <3>1. PICK i \in 1 .. Len(h) : Makes(h[i], c)
      BY <2>1 DEF RowsKept, CallsKept
    <3>2. QED
      BY <2>1, <3>1
  <2>2. CASE c \notin 1 .. n
    <3>1. c \in n + 1 .. m
      BY <1>1, <2>2
    <3>2. QED
      BY <3>1
  <2>3. QED
    BY <2>1, <2>2
<1>4. CallsKept(g, m)
  BY <1>3 DEF CallsKept
<1>5. ResultsMade(g, m)
  <2>1. SUFFICES ASSUME NEW i \in 1 .. Len(g), g[i].role = "tool" PROVE g[i].call \in 1 .. m
    BY DEF ResultsMade
  <2>2. h[i].call \in 1 .. n /\ g[i].call = h[i].call
    BY <2>1 DEF RowsKept, ResultsMade
  <2>3. QED
    BY <1>1, <2>2
<1>6. ResultsOnce(g)
  BY DEF RowsKept, ResultsOnce
<1>7. QED
  BY <1>2, <1>4, <1>5, <1>6 DEF RowsKept

LEMMA GreatestOf ==
  ASSUME NEW n \in Nat, NEW S \in SUBSET (1 .. n), S # {}
  PROVE  \E x \in S : \A y \in S : x >= y
<1>1. PICK T : T = {d \in Nat : n - d \in S}
  OBVIOUS
<1>2. ASSUME NEW y \in S PROVE n - y \in T /\ y \in Nat
  <2>1. y \in 1 .. n
    OBVIOUS
  <2>2. n - y \in Nat /\ n - (n - y) = y
    BY <2>1
  <2>3. QED
    BY <1>1, <2>1, <2>2
<1>3. T \in SUBSET Nat /\ T # {}
  BY <1>1, <1>2
<1>4. PICK d \in T : \A e \in T : d <= e
  BY <1>3, LeastNatural
<1>5. d \in Nat /\ n - d \in S
  BY <1>1
<1>6. ASSUME NEW y \in S PROVE n - d >= y
  <2>1. d <= n - y
    BY <1>2, <1>4
  <2>2. QED
    BY <1>2, <1>5, <2>1
<1>7. QED
  BY <1>5, <1>6

LEMMA LastAssistantIs ==
  ASSUME histRows \in Seq(Row), Context!LastAssistant > 0
  PROVE  /\ Context!LastAssistant \in 1 .. Len(histRows)
         /\ histRows[Context!LastAssistant].role = "assistant"
         /\ histRows[Context!LastAssistant].parts # <<>>
<1>1. PICK h \in Seq(Row) : h = histRows
  OBVIOUS
<1>2. PICK I : I = {i \in 1 .. Len(h) : h[i].role = "assistant" /\ h[i].parts # <<>>}
  OBVIOUS
<1>3. Context!LastAssistant = IF I # {} THEN Context!Max(I) ELSE 0
  BY <1>1, <1>2 DEF Context!LastAssistant, Context!SelectLastInSeq
<1>4. I # {} /\ Context!LastAssistant = Context!Max(I)
  BY <1>3
<1>5. Len(h) \in Nat /\ I \in SUBSET (1 .. Len(h))
  BY <1>2
<1>6. \E x \in I : \A y \in I : x >= y
  BY <1>4, <1>5, GreatestOf
<1>7. Context!Max(I) \in I
  BY <1>6 DEF Context!Max
<1>8. QED
  BY <1>1, <1>2, <1>4, <1>7

LEMMA MakesOfPart ==
  ASSUME NEW r \in Spoken, r.parts \in Seq(Part), NEW p \in ElementsOf(r.parts), p.kind = "call"
  PROVE  r.parts # <<>> /\ Makes(r, p.call)
<1>1. PICK ps \in Seq(Part) : ps = r.parts
  OBVIOUS
<1>2. PICK k \in 1 .. Len(ps) : p = ps[k]
  BY <1>1 DEF ElementsOf
<1>3. ps # <<>>
  BY <1>2
<1>4. QED
  BY <1>1, <1>2, <1>3 DEF Makes

(* A part without an output.                                               *)
Silent == {p \in Part : p.output = ""}

(* The row of a turn after a step: what it had, the reply's text, its n    *)
(* calls, numbered on from those made so far.                              *)
NewCalls(made, n)       == [j \in 1 .. n |-> made + j]
NewParts(made, n, step) == [j \in 1 .. n |-> Context!Call(step, NewCalls(made, n)[j], "")]
TextParts(hasText, step, at) == IF hasText THEN <<Context!Text(step, at)>> ELSE <<>>
TurnRow(old, hasText, at, step, made, n) ==
  [old EXCEPT !.text = IF hasText THEN at ELSE 0, !.calls = old.calls \o NewCalls(made, n),
              !.parts = (old.parts \o TextParts(hasText, step, at)) \o NewParts(made, n, step)]

Grown(row, old, made, n) ==
  /\ row \in Row /\ row.role = "assistant" /\ row.call = old.call
  /\ \A p \in ElementsOf(row.parts) : p \in ElementsOf(old.parts) \/ p \in Silent
  /\ \A c : Makes(old, c) /\ old.parts # <<>> => Makes(row, c)
  /\ \A c \in made + 1 .. made + n : Makes(row, c)

LEMMA TurnRowIs ==
  ASSUME NEW old \in Row, old.role = "assistant", NEW hasText \in BOOLEAN, NEW at \in Nat,
         NEW step \in 0 .. MaxSteps - 1, NEW made \in Nat, NEW n \in Nat
  PROVE  Grown(TurnRow(old, hasText, at, step, made, n), old, made, n)
<1>1. PICK ids, t, e : /\ ids = NewCalls(made, n) /\ t = TextParts(hasText, step, at)
                       /\ e = NewParts(made, n, step)
  OBVIOUS
<1>2. "" \in Outcome
  BY DEF Outcome, Context!Outputs
<1>3. ids \in Seq(Nat)
  <2>1. ids \in [1 .. n -> Nat]
    BY <1>1 DEF NewCalls
  <2>2. QED
    BY <2>1
<1>4. \A j \in 1 .. n : e[j] = [kind |-> "call", step |-> step, text |-> 0, call |-> made + j, output |-> ""]
  BY <1>1 DEF NewParts, NewCalls, Context!Call
<1>5. ASSUME NEW j \in 1 .. n PROVE e[j] \in Part /\ e[j].kind = "call" /\ e[j].call = made + j /\ e[j].output = ""
  <2>1. PICK c \in Nat : c = made + j
    OBVIOUS
  <2>2. PICK x : x = [kind |-> "call", step |-> step, text |-> 0, call |-> c, output |-> ""]
    OBVIOUS
  <2>3. x \in Part /\ x.kind = "call" /\ x.call = c /\ x.output = ""
    BY <1>2, <2>2 DEF Part
  <2>4. e[j] = x
    BY <1>4, <2>1, <2>2
  <2>5. QED
    BY <2>1, <2>3, <2>4
<1>6. e \in [1 .. n -> Part]
  BY <1>1, <1>5 DEF NewParts
<1>7. e \in Seq(Part) /\ Len(e) = n
  BY <1>6
<1>8. t \in Seq(Part) /\ ElementsOf(t) \in SUBSET Silent
  <2>1. PICK x : x = [kind |-> "text", step |-> step, text |-> at, call |-> 0, output |-> ""]
    OBVIOUS
  <2>2. x \in Part /\ x \in Silent
    BY <1>2, <2>1 DEF Part, Silent
  <2>3. t = IF hasText THEN <<x>> ELSE <<>>
    BY <1>1, <2>1 DEF TextParts, Context!Text
  <2>4. PICK s : s = <<x>>
    OBVIOUS
  <2>5. s \in Seq(Part) /\ Len(s) = 1 /\ s[1] = x
    BY <2>2, <2>4
  <2>6. ElementsOf(s) \in SUBSET Silent
    BY <2>2, <2>5 DEF ElementsOf
  <2>7. PICK z : z = <<>>
    OBVIOUS
  <2>8. z \in Seq(Part) /\ Len(z) = 0
    BY <2>7
  <2>9. ElementsOf(z) \in SUBSET Silent
    BY <2>8 DEF ElementsOf
  <2>10. t = IF hasText THEN s ELSE z
    BY <2>3, <2>4, <2>7
  <2>11. QED
    BY <2>5, <2>6, <2>8, <2>9, <2>10
<1>9. PICK ps, cs : ps = old.parts /\ cs = old.calls
  OBVIOUS
<1>10. ps \in Seq(Part) /\ cs \in Seq(Nat) /\ old \in Spoken
  BY <1>9 DEF Row, Spoken
<1>11. PICK f, q, d : f = ps \o t /\ q = f \o e /\ d = cs \o ids
  OBVIOUS
<1>12. f \in Seq(Part)
  <2>1. ps \in Seq(Part) /\ t \in Seq(Part) /\ f = ps \o t
    BY <1>8, <1>10, <1>11
  <2>2. QED
    BY <2>1
<1>13. q \in Seq(Part)
  BY <1>7, <1>11, <1>12
<1>14. d \in Seq(Nat)
  BY <1>3, <1>10, <1>11
<1>15. ElementsOf(f) = ElementsOf(ps) \cup ElementsOf(t)
  <2>1. ps \in Seq(Part) /\ t \in Seq(Part)
    BY <1>8, <1>10
  <2>2. ElementsOf(ps \o t) = ElementsOf(ps) \cup ElementsOf(t)
    BY <2>1, ConcatHas
  <2>3. QED
    BY <1>11, <2>2
<1>16. ElementsOf(q) = ElementsOf(f) \cup ElementsOf(e)
  BY <1>7, <1>11, <1>12, ConcatHas
<1>17. PICK text \in Nat : text = IF hasText THEN at ELSE 0
  OBVIOUS
<1>18. PICK row : row = TurnRow(old, hasText, at, step, made, n)
  OBVIOUS
<1>19. row = [old EXCEPT !.text = text, !.calls = d, !.parts = q]
  BY <1>1, <1>9, <1>11, <1>17, <1>18 DEF TurnRow
<1>20. row \in Row
  BY <1>13, <1>14, <1>19 DEF Row
<1>21. row.role = "assistant" /\ row.call = old.call /\ row.parts = q
  BY <1>19 DEF Row
<1>22. row \in Spoken
  BY <1>20, <1>21 DEF Spoken
<1>23. ASSUME NEW p \in ElementsOf(q) PROVE p \in ElementsOf(ps) \/ p \in Silent
  <2>1. CASE p \in ElementsOf(e)
    <3>1. PICK j \in 1 .. n : p = e[j]
      BY <1>7, <2>1 DEF ElementsOf
    <3>2. QED
      BY <1>5, <3>1 DEF Silent
  <2>2. QED
    BY <1>8, <1>15, <1>16, <2>1
<1>24. ASSUME NEW c, Makes(old, c), ps # <<>> PROVE Makes(row, c)
  <2>1. PICK k \in 1 .. Len(ps) : ps[k].kind = "call" /\ ps[k].call = c
    BY <1>9, <1>24 DEF Makes
  <2>2. PICK p : p = ps[k]
    OBVIOUS
  <2>3. p \in ElementsOf(ps)
    BY <2>1, <2>2 DEF ElementsOf
  <2>4. p \in ElementsOf(row.parts)
    BY <1>15, <1>16, <1>21, <2>3
  <2>5. QED
    BY <1>13, <1>21, <1>22, <2>1, <2>2, <2>4, MakesOfPart
<1>25. ASSUME NEW c \in made + 1 .. made + n PROVE Makes(row, c)
  <2>1. PICK j : j = c - made
    OBVIOUS
  <2>2. j \in 1 .. n /\ c = made + j
    BY <2>1
  <2>3. PICK p : p = e[j]
    OBVIOUS
  <2>4. p \in ElementsOf(e)
    BY <1>7, <2>2, <2>3 DEF ElementsOf
  <2>5. p.kind = "call" /\ p.call = c
    BY <1>5, <2>2, <2>3
  <2>6. p \in ElementsOf(row.parts)
    BY <1>16, <1>21, <2>4
  <2>7. QED
    BY <1>13, <1>21, <1>22, <2>5, <2>6, MakesOfPart
<1>26. Grown(row, old, made, n)
  BY <1>9, <1>20, <1>21, <1>23, <1>24, <1>25 DEF Grown
<1>27. QED
  BY <1>18, <1>26

(* The row of a message, and of a reply, before there is anything in it.   *)
LEMMA BlankIs ==
  ASSUME NEW role \in {"user", "assistant", "tool"}, NEW text \in Nat, NEW calls \in Seq(Nat),
         NEW call \in Nat, NEW output \in Outcome
  PROVE  [role |-> role, text |-> text, calls |-> calls, parts |-> <<>>, call |-> call,
          output |-> output] \in Row
<1>1. PICK ps : ps = <<>> /\ ps \in Seq(Part)
  <2>1. <<>> \in Seq(Part)
    OBVIOUS
  <2>2. QED
    BY <2>1
<1>2. [role |-> role, text |-> text, calls |-> calls, parts |-> ps, call |-> call,
       output |-> output] \in Row
  BY <1>1 DEF Row
<1>3. QED
  BY <1>1, <1>2

LEMMA FromBlank ==
  ASSUME NEW role, NEW text, NEW calls, NEW call, NEW output
  PROVE  /\ [Context!Blank EXCEPT !.role = role]
            = [role |-> role, text |-> 0, calls |-> <<>>, parts |-> <<>>, call |-> 0, output |-> ""]
         /\ [Context!Blank EXCEPT !.role = role, !.text = text]
            = [role |-> role, text |-> text, calls |-> <<>>, parts |-> <<>>, call |-> 0, output |-> ""]
         /\ [Context!Blank EXCEPT !.role = role, !.calls = calls, !.text = text]
            = [role |-> role, text |-> text, calls |-> calls, parts |-> <<>>, call |-> 0, output |-> ""]
         /\ [Context!Blank EXCEPT !.role = role, !.call = call, !.output = output]
            = [role |-> role, text |-> 0, calls |-> <<>>, parts |-> <<>>, call |-> call, output |-> output]
<1>1. PICK e, none, b : e = <<>> /\ none = "" /\ b = Context!Blank
  OBVIOUS
<1>2. b = [role |-> none, text |-> 0, calls |-> e, parts |-> e, call |-> 0, output |-> none]
  BY <1>1 DEF Context!Blank
<1>3. PICK c : c = [b EXCEPT !.role = role]
  OBVIOUS
<1>4. c = [role |-> role, text |-> 0, calls |-> e, parts |-> e, call |-> 0, output |-> none]
  BY <1>2, <1>3
<1>5. [c EXCEPT !.text = text]
      = [role |-> role, text |-> text, calls |-> e, parts |-> e, call |-> 0, output |-> none]
  BY <1>4
<1>6. PICK d : d = [c EXCEPT !.calls = calls]
  OBVIOUS
<1>7. d = [role |-> role, text |-> 0, calls |-> calls, parts |-> e, call |-> 0, output |-> none]
  BY <1>4, <1>6
<1>8. [d EXCEPT !.text = text]
      = [role |-> role, text |-> text, calls |-> calls, parts |-> e, call |-> 0, output |-> none]
  BY <1>7
<1>9. PICK f : f = [c EXCEPT !.call = call]
  OBVIOUS
<1>10. f = [role |-> role, text |-> 0, calls |-> e, parts |-> e, call |-> call, output |-> none]
  BY <1>4, <1>9
<1>11. [f EXCEPT !.output = output]
       = [role |-> role, text |-> 0, calls |-> e, parts |-> e, call |-> call, output |-> output]
  BY <1>10
<1>12. QED
  BY <1>1, <1>3, <1>4, <1>5, <1>6, <1>8, <1>9, <1>11

LEMMA NoParts ==
  ASSUME NEW r, r.parts = <<>>
  PROVE  Len(r.parts) = 0 /\ \A h : \A k \in 1 .. Len(r.parts) : Resulted(r.parts[k], h)
OBVIOUS

LEMMA InputSaved ==
  ASSUME HistoryState, Context!UserMessage
  PROVE  HistoryState'
<1>1. PICK h \in Seq(Row), n \in Nat : h = histRows /\ n = called
  BY DEF HistoryState, RowsKept
<1>2. PICK text : text = Len(h) + 1
  OBVIOUS
<1>3. text \in Nat /\ text # 0
  BY <1>2
<1>4. PICK r : r = [role |-> "user", text |-> text, calls |-> <<>>, parts |-> <<>>, call |-> 0, output |-> ""]
  OBVIOUS
<1>5. "" \in Outcome /\ <<>> \in Seq(Nat)
  BY DEF Outcome, Context!Outputs
<1>6. r \in Row
  BY <1>3, <1>4, <1>5, BlankIs
<1>7. r.role = "user" /\ r.text # 0 /\ r.parts = <<>> /\ r.calls = <<>>
  BY <1>3, <1>4
<1>8. r \in Inputs
  BY <1>6, <1>7 DEF Inputs
<1>9. histRows' = Append(h, r) /\ called' = n
  <2>1. [Context!Blank EXCEPT !.role = "user", !.text = text] = r
    BY <1>4, FromBlank
  <2>2. QED
    BY <1>1, <1>2, <2>1 DEF Context!UserMessage
<1>10. RowsKept(h, n) /\ PartsMatch(h)
  BY <1>1 DEF HistoryState
<1>11. \A c \in n + 1 .. n : Makes(r, c)
  OBVIOUS
<1>12. RowsKept(Append(h, r), n)
  BY <1>6, <1>7, <1>8, <1>10, <1>11, RowAdded
<1>13. PartsMatch(Append(h, r))
  BY <1>6, <1>7, <1>10, NoParts, PartsAdded
<1>14. QED
  BY <1>9, <1>12, <1>13 DEF HistoryState

LEMMA OldReplySaved ==
  ASSUME HistoryState, NEW hasText \in BOOLEAN, NEW calls \in 0 .. 2, Context!OldReply(hasText, calls)
  PROVE  HistoryState'
<1>1. PICK h \in Seq(Row), n \in Nat : h = histRows /\ n = called
  BY DEF HistoryState, RowsKept
<1>2. PICK text : text = IF hasText THEN Len(h) + 1 ELSE 0
  OBVIOUS
<1>3. text \in Nat
  BY <1>2
<1>4. PICK ids : ids = [k \in 1 .. calls |-> n + k]
  OBVIOUS
<1>5. calls \in Nat
  OBVIOUS
<1>6. ids \in [1 .. calls -> Nat]
  BY <1>4
<1>7. ids \in Seq(Nat) /\ Len(ids) = calls
  BY <1>5, <1>6
<1>8. PICK r : r = [role |-> "assistant", text |-> text, calls |-> ids, parts |-> <<>>, call |-> 0, output |-> ""]
  OBVIOUS
<1>9. "" \in Outcome
  BY DEF Outcome, Context!Outputs
<1>10. r \in Row
  BY <1>3, <1>7, <1>8, <1>9, BlankIs
<1>11. r.role = "assistant" /\ r.parts = <<>> /\ r.calls = ids
  BY <1>8
<1>12. histRows' = Append(h, r) /\ called' = n + calls
  <2>1. [Context!Blank EXCEPT !.role = "assistant", !.calls = ids, !.text = text] = r
    BY <1>8, FromBlank
  <2>2. QED
    BY <1>1, <1>2, <1>4, <2>1 DEF Context!OldReply
<1>13. RowsKept(h, n) /\ PartsMatch(h)
  BY <1>1 DEF HistoryState
<1>14. ASSUME NEW c \in n + 1 .. n + calls PROVE Makes(r, c)
  <2>1. PICK k : k = c - n
    OBVIOUS
  <2>2. k \in 1 .. calls /\ c = n + k
    BY <1>5, <2>1
  <2>3. k \in 1 .. Len(r.calls) /\ r.calls[k] = c
    BY <1>4, <1>7, <1>11, <2>2
  <2>4. r \in Spoken
    BY <1>10, <1>11 DEF Spoken
  <2>5. QED
    BY <1>11, <2>3, <2>4 DEF Makes
<1>15. n + calls \in Nat /\ n <= n + calls
  BY <1>5
<1>16. r.role # "user" /\ r.role # "tool"
  BY <1>11
<1>17. RowsKept(Append(h, r), n + calls)
  BY <1>10, <1>13, <1>14, <1>15, <1>16, RowAdded
<1>18. PartsMatch(Append(h, r))
  BY <1>10, <1>11, <1>13, NoParts, PartsAdded
<1>19. QED
  BY <1>12, <1>17, <1>18 DEF HistoryState

LEMMA SteppedIs ==
  ASSUME NEW old \in Row, NEW at, NEW hasText \in BOOLEAN, NEW calls \in 0 .. 2
  PROVE  /\ Context!StepOf(old) = IF old.parts = <<>> THEN 0 ELSE old.parts[Len(old.parts)].step + 1
         /\ Context!Stepped(old, at, hasText, calls)
            = TurnRow(old, hasText, at, Context!StepOf(old), called, calls)
<1>1. Context!StepOf(old) = IF old.parts = <<>> THEN 0 ELSE old.parts[Len(old.parts)].step + 1
  BY SameLists DEF Context!StepOf
<1>2. PICK ids, t, e : /\ ids = NewCalls(called, calls)
                       /\ t = TextParts(hasText, Context!StepOf(old), at)
                       /\ e = NewParts(called, calls, Context!StepOf(old))
  OBVIOUS
<1>3. PICK text, d, q : text = (IF hasText THEN at ELSE 0) /\ d = old.calls \o ids /\ q = (old.parts \o t) \o e
  OBVIOUS
<1>4. TurnRow(old, hasText, at, Context!StepOf(old), called, calls)
      = [old EXCEPT !.text = text, !.calls = d, !.parts = q]
  BY <1>2, <1>3 DEF TurnRow
<1>5. PICK r : r = [old EXCEPT !.text = text]
  OBVIOUS
<1>6. r.calls = old.calls /\ r.parts = old.parts
  BY <1>5 DEF Row
<1>7. PICK s : s = [r EXCEPT !.calls = d]
  OBVIOUS
<1>8. s.parts = old.parts
  BY <1>5, <1>6, <1>7 DEF Row
<1>9. Context!Stepped(old, at, hasText, calls)
      = [[[old EXCEPT !.text = text] EXCEPT !.calls = @ \o ids] EXCEPT !.parts = (@ \o t) \o e]
  BY <1>2, <1>3 DEF Context!Stepped, NewCalls, NewParts, TextParts
<1>10. QED
  BY <1>1, <1>3, <1>4, <1>5, <1>6, <1>7, <1>8, <1>9

LEMMA TurnSaved ==
  ASSUME Steps, HistoryState, NEW hasText \in BOOLEAN, NEW calls \in 0 .. 2,
         Context!Step(hasText, calls)
  PROVE  HistoryState'
<1>1. PICK h \in Seq(Row), n \in Nat : h = histRows /\ n = called
  BY DEF HistoryState, RowsKept
<1>2. PICK new \in BOOLEAN : new <=> Len(histRows) > 0 /\ Context!Last(histRows).role = "user"
  OBVIOUS
<1>3. PICK at : at = IF new THEN Len(histRows) + 1 ELSE Context!LastAssistant
  OBVIOUS
<1>4. PICK old : old = IF new THEN [Context!Blank EXCEPT !.role = "assistant"] ELSE histRows[at]
  OBVIOUS
<1>5. PICK row : row = Context!Stepped(old, at, hasText, calls)
  OBVIOUS
<1>6. PICK step : step = Context!StepOf(old)
  OBVIOUS
<1>7. /\ at > 0 /\ Context!StepOf(old) < MaxSteps
      /\ histRows' = IF new THEN Append(histRows, row) ELSE [histRows EXCEPT ![at] = row]
      /\ called' = called + calls
  BY <1>2, <1>3, <1>4, <1>5 DEF Context!Step
<1>8. histRows' = IF new THEN Append(h, row) ELSE [h EXCEPT ![at] = row]
  BY <1>1, <1>7
<1>9. called' = n + calls /\ at > 0 /\ step < MaxSteps
  BY <1>1, <1>6, <1>7
<1>10. /\ at \in Nat /\ old \in Row /\ old.role = "assistant"
       /\ new => old.parts = <<>>
       /\ ~new => at \in 1 .. Len(h) /\ old = h[at] /\ old.parts # <<>>
  <2>1. CASE new
    <3>1. old = [role |-> "assistant", text |-> 0, calls |-> <<>>, parts |-> <<>>, call |-> 0, output |-> ""]
      BY <1>4, <2>1, FromBlank
    <3>2. "" \in Outcome /\ <<>> \in Seq(Nat)
      BY DEF Outcome, Context!Outputs
    <3>3. old \in Row
      BY <3>1, <3>2, BlankIs
    <3>4. old.role = "assistant" /\ old.parts = <<>>
      BY <3>1
    <3>5. at \in Nat
      BY <1>1, <1>3, <2>1
    <3>6. QED
      BY <2>1, <3>3, <3>4, <3>5
  <2>2. CASE ~new
    <3>1. at = Context!LastAssistant /\ old = h[at]
      BY <1>1, <1>3, <1>4, <2>2
    <3>2. at \in 1 .. Len(h) /\ h[at].role = "assistant" /\ h[at].parts # <<>>
      BY <1>1, <1>9, <3>1, LastAssistantIs
    <3>3. QED
      BY <2>2, <3>1, <3>2
  <2>3. QED
    BY <2>1, <2>2
<1>11. step \in 0 .. MaxSteps - 1
  <2>1. MaxSteps \in Nat
    BY DEF Steps
  <2>2. step = IF old.parts = <<>> THEN 0 ELSE old.parts[Len(old.parts)].step + 1
    BY <1>6, <1>10, SteppedIs
  <2>3. CASE old.parts = <<>>
    BY <1>9, <2>2, <2>1, <2>3
  <2>4. CASE old.parts # <<>>
    <3>1. PICK ps \in Seq(Part) : ps = old.parts
      BY <1>10 DEF Row
    <3>2. PICK i : i = Len(ps)
      OBVIOUS
    <3>3. i \in 1 .. Len(ps)
      BY <2>4, <3>1, <3>2
    <3>4. PICK p \in Part : p = ps[i]
      BY <3>3
    <3>5. p.step \in 0 .. MaxSteps - 1
      BY DEF Part
    <3>6. step = p.step + 1
      BY <2>2, <2>4, <3>1, <3>2, <3>4
    <3>7. QED
      BY <1>9, <2>1, <3>5, <3>6
  <2>5. QED
    BY <2>3, <2>4
<1>12. calls \in Nat
  OBVIOUS
<1>13. Grown(row, old, n, calls)
  <2>1. row = TurnRow(old, hasText, at, step, n, calls)
    BY <1>1, <1>5, <1>6, <1>10, SteppedIs
  <2>2. Grown(TurnRow(old, hasText, at, step, n, calls), old, n, calls)
    BY <1>10, <1>11, <1>12, TurnRowIs
  <2>3. QED
    BY <2>1, <2>2
<1>14. /\ row \in Row /\ row.role = "assistant" /\ row.call = old.call
       /\ \A c : Makes(old, c) /\ old.parts # <<>> => Makes(row, c)
       /\ \A c \in n + 1 .. n + calls : Makes(row, c)
  BY <1>13 DEF Grown
<1>15. RowsKept(h, n) /\ PartsMatch(h)
  BY <1>1 DEF HistoryState
<1>16. n + calls \in Nat /\ n <= n + calls
  BY <1>12
<1>17. row.role # "user" /\ row.role # "tool"
  BY <1>14
<1>18. ASSUME NEW k \in 1 .. Len(row.parts)
       PROVE  row.parts[k] \in ElementsOf(old.parts) \/ row.parts[k].output = ""
  <2>1. row.parts[k] \in ElementsOf(row.parts)
    BY DEF ElementsOf
  <2>2. row.parts[k] \in ElementsOf(old.parts) \/ row.parts[k] \in Silent
    BY <1>13, <2>1 DEF Grown
  <2>3. QED
    BY <2>2 DEF Silent
<1>19. CASE new
  <2>1. RowsKept(Append(h, row), n + calls)
    BY <1>14, <1>15, <1>16, <1>17, RowAdded
  <2>2. ElementsOf(old.parts) = {}
    <3>1. PICK e : e = old.parts
      OBVIOUS
    <3>2. Len(e) = 0
      BY <1>10, <1>19, <3>1
    <3>3. QED
      BY <3>1, <3>2 DEF ElementsOf
  <2>3. \A k \in 1 .. Len(row.parts) : Resulted(row.parts[k], h)
    BY <1>18, <2>2 DEF Resulted
  <2>4. PartsMatch(Append(h, row))
    BY <1>14, <1>15, <2>3, PartsAdded
  <2>5. QED
    BY <1>8, <1>9, <1>19, <2>1, <2>4 DEF HistoryState
<1>20. CASE ~new
  <2>1. at \in 1 .. Len(h) /\ old = h[at] /\ old.parts # <<>>
    BY <1>10, <1>20
  <2>2. PICK g : g = [h EXCEPT ![at] = row]
    OBVIOUS
  <2>3. g \in Seq(Row) /\ Len(g) = Len(h)
    <3>1. PICK l \in Nat : l = Len(h)
      OBVIOUS
    <3>2. h \in [1 .. l -> Row]
      BY <3>1
    <3>3. g \in [1 .. l -> Row]
      BY <1>14, <2>2, <3>2
    <3>4. QED
      BY <3>1, <3>3
  <2>4. g[at] = row /\ \A i \in 1 .. Len(h) : i # at => g[i] = h[i]
    BY <2>1, <2>2
  <2>5. ASSUME NEW i \in 1 .. Len(h)
        PROVE  /\ g[i].role = h[i].role /\ g[i].call = h[i].call
               /\ h[i].role = "user" => g[i] = h[i]
               /\ \A c \in 1 .. n : Makes(h[i], c) => Makes(g[i], c)
    <3>1. CASE i = at
      BY <1>10, <1>14, <2>1, <2>4, <3>1
    <3>2. CASE i # at
      BY <2>4, <3>2
    <3>3. QED
      BY <3>1, <3>2
  <2>6. ASSUME NEW c \in n + 1 .. n + calls PROVE \E i \in 1 .. Len(h) : Makes(g[i], c)
    BY <1>14, <2>1, <2>4
  <2>7. RowsKept(g, n + calls)
    BY <1>15, <1>16, <2>3, <2>5, <2>6, RowsChanged
  <2>8. ASSUME NEW p, Resulted(p, h) PROVE Resulted(p, g)
    <3>1. SUFFICES ASSUME p.output # ""
                   PROVE  \E j \in 1 .. Len(g) : /\ g[j].role = "tool" /\ g[j].call = p.call
                                                 /\ g[j].output = p.output
      BY DEF Resulted
    <3>2. PICK j \in 1 .. Len(h) : h[j].role = "tool" /\ h[j].call = p.call /\ h[j].output = p.output
      BY <2>8, <3>1 DEF Resulted
    <3>3. j # at
      BY <1>10, <2>1, <3>2
    <3>4. QED
      BY <2>3, <2>4, <3>2, <3>3
  <2>9. ASSUME NEW i \in 1 .. Len(g), NEW k \in 1 .. Len(g[i].parts) PROVE Resulted(g[i].parts[k], g)
    <3>1. i \in 1 .. Len(h)
      BY <2>3
    <3>2. CASE i = at
      <4>1. PICK p : p = row.parts[k]
        OBVIOUS
      <4>2. k \in 1 .. Len(row.parts) /\ p = g[i].parts[k]
        BY <2>4, <3>2, <4>1
      <4>3. CASE p \in ElementsOf(old.parts)
        <5>1. PICK l \in 1 .. Len(h[at].parts) : p = h[at].parts[l]
          BY <2>1, <4>3 DEF ElementsOf
        <5>2. Resulted(p, h)
          BY <1>15, <2>1, <5>1 DEF PartsMatch
        <5>3. QED
          BY <2>8, <4>2, <5>2
      <4>4. CASE p.output = ""
        <5>1. Resulted(p, g)
          BY <4>4 DEF Resulted
        <5>2. QED
          BY <4>2, <5>1
      <4>5. QED
        BY <1>18, <4>1, <4>2, <4>3, <4>4
    <3>3. CASE i # at
      <4>1. k \in 1 .. Len(h[i].parts) /\ g[i].parts[k] = h[i].parts[k]
        BY <2>4, <3>1, <3>3
      <4>2. Resulted(h[i].parts[k], h)
        BY <1>15, <3>1, <4>1 DEF PartsMatch
      <4>3. QED
        BY <2>8, <4>1, <4>2
    <3>4. QED
      BY <3>2, <3>3
  <2>10. PartsMatch(g)
    BY <2>9 DEF PartsMatch
  <2>11. QED
    BY <1>8, <1>9, <1>20, <2>2, <2>7, <2>10 DEF HistoryState
<1>21. QED
  BY <1>19, <1>20

(* The rows when the output of a call reaches its part.                    *)
WithOutput(p, c, output, inPart) ==
  IF inPart /\ p.call = c THEN [p EXCEPT !.output = output] ELSE p
FilledRow(r, c, output, inPart) ==
  [r EXCEPT !.parts = [j \in DOMAIN r.parts |-> WithOutput(r.parts[j], c, output, inPart)]]

LEMMA FilledRowIs ==
  ASSUME NEW r \in Row, NEW c \in Nat, NEW output \in Outcome, NEW inPart \in BOOLEAN,
         NEW x, x = FilledRow(r, c, output, inPart)
  PROVE  /\ x \in Row /\ x.role = r.role /\ x.call = r.call /\ x.output = r.output
         /\ Len(x.parts) = Len(r.parts)
         /\ \A k \in 1 .. Len(r.parts) : x.parts[k] = WithOutput(r.parts[k], c, output, inPart)
         /\ r.parts = <<>> => x = r
         /\ \A d : Makes(r, d) => Makes(x, d)
<1>1. PICK ps \in Seq(Part) : ps = r.parts
  BY DEF Row
<1>2. PICK n \in Nat : n = Len(ps) /\ DOMAIN ps = 1 .. n
  OBVIOUS
<1>3. PICK q : q = [j \in 1 .. n |-> WithOutput(ps[j], c, output, inPart)]
  OBVIOUS
<1>4. x = [r EXCEPT !.parts = q]
  BY <1>1, <1>2, <1>3 DEF FilledRow
<1>5. ASSUME NEW p \in Part
      PROVE  /\ WithOutput(p, c, output, inPart) \in Part
             /\ WithOutput(p, c, output, inPart).kind = p.kind
             /\ WithOutput(p, c, output, inPart).call = p.call
  BY DEF WithOutput, Part
<1>6. ASSUME NEW j \in 1 .. n
      PROVE  q[j] \in Part /\ q[j].kind = ps[j].kind /\ q[j].call = ps[j].call
  <2>1. PICK p \in Part : p = ps[j]
    BY <1>2
  <2>2. q[j] = WithOutput(p, c, output, inPart)
    BY <1>3, <2>1
  <2>3. QED
    BY <1>5, <2>1, <2>2
<1>7. q \in [1 .. n -> Part]
  BY <1>3, <1>6
<1>8. q \in Seq(Part) /\ Len(q) = n
  BY <1>7
<1>9. x \in Row /\ x.role = r.role /\ x.call = r.call /\ x.output = r.output /\ x.calls = r.calls
      /\ x.parts = q
  BY <1>4, <1>8 DEF Row
<1>10. ASSUME ps = <<>> PROVE x = r
  <2>1. n = 0
    BY <1>2, <1>10
  <2>2. 1 .. n = {}
    BY <2>1
  <2>3. q = <<>>
    BY <1>3, <2>2
  <2>4. q = r.parts
    BY <1>1, <1>10, <2>3
  <2>5. QED
    BY <1>4, <2>4 DEF Row
<1>11. ASSUME NEW d, Makes(r, d) PROVE Makes(x, d)
  <2>1. r \in Spoken /\ x \in Spoken
    BY <1>9, <1>11 DEF Makes, Spoken
  <2>2. CASE ps = <<>>
    BY <1>10, <1>11, <2>2
  <2>3. CASE ps # <<>>
    <3>1. PICK k \in 1 .. n : ps[k].kind = "call" /\ ps[k].call = d
      BY <1>1, <1>2, <1>11, <2>3 DEF Makes
    <3>2. PICK p : p = q[k]
      OBVIOUS
    <3>3. p.kind = "call" /\ p.call = d
      BY <1>6, <3>1, <3>2
    <3>4. p \in ElementsOf(x.parts)
      BY <1>8, <1>9, <3>2 DEF ElementsOf
    <3>5. QED
      BY <1>8, <1>9, <2>1, <3>3, <3>4, MakesOfPart
  <2>4. QED
    BY <2>2, <2>3
<1>12. QED
  BY <1>1, <1>2, <1>3, <1>8, <1>9, <1>10, <1>11

LEMMA ResultIs ==
  ASSUME NEW c \in Context!CallIds, NEW output \in Context!Outputs, NEW inPart \in BOOLEAN,
         Context!Result(c, output, inPart)
  PROVE  /\ c <= called
         /\ \A i \in DOMAIN histRows : ~(histRows[i].role = "tool" /\ histRows[i].call = c)
         /\ histRows' = Append([i \in DOMAIN histRows |-> FilledRow(histRows[i], c, output, inPart)],
                               [Context!Blank EXCEPT !.role = "tool", !.call = c, !.output = output])
         /\ called' = called
BY DEF Context!Result, Context!HasResult, FilledRow, WithOutput

LEMMA ResultSaved ==
  ASSUME HistoryCalls \in Nat, HistoryState,
         NEW c \in Context!CallIds, NEW output \in Context!Outputs, NEW inPart \in BOOLEAN,
         Context!Result(c, output, inPart)
  PROVE  HistoryState'
<1>1. PICK h \in Seq(Row), n \in Nat : h = histRows /\ n = called
  BY DEF HistoryState, RowsKept
<1>2. c \in Nat /\ c \in 1 .. n /\ output \in Outcome
  <2>1. c <= n
    BY <1>1, ResultIs
  <2>2. c \in 1 .. HistoryCalls
    BY DEF Context!CallIds
  <2>3. QED
    BY <2>1, <2>2 DEF Outcome
<1>3. PICK l \in Nat : l = Len(h) /\ DOMAIN h = 1 .. l
  OBVIOUS
<1>4. PICK g : g = [i \in 1 .. l |-> FilledRow(h[i], c, output, inPart)]
  OBVIOUS
<1>5. PICK r : r = [role |-> "tool", text |-> 0, calls |-> <<>>, parts |-> <<>>, call |-> c, output |-> output]
  OBVIOUS
<1>6. histRows' = Append(g, r)
  <2>1. [Context!Blank EXCEPT !.role = "tool", !.call = c, !.output = output] = r
    <3>1. PICK b : b = Context!Blank
      OBVIOUS
    <3>2. PICK none : none = ""
      OBVIOUS
    <3>3. b = [role |-> none, text |-> 0, calls |-> <<>>, parts |-> <<>>, call |-> 0, output |-> none]
      BY <3>1, <3>2 DEF Context!Blank
    <3>4. PICK role : role = "tool"
      OBVIOUS
    <3>5. PICK x : x = [b EXCEPT !.role = role]
      OBVIOUS
    <3>6. x = [role |-> role, text |-> 0, calls |-> <<>>, parts |-> <<>>, call |-> 0, output |-> none]
      BY <3>3, <3>5
    <3>7. PICK y : y = [x EXCEPT !.call = c]
      OBVIOUS
    <3>8. y = [role |-> role, text |-> 0, calls |-> <<>>, parts |-> <<>>, call |-> c, output |-> none]
      BY <3>6, <3>7
    <3>9. [y EXCEPT !.output = output]
          = [role |-> role, text |-> 0, calls |-> <<>>, parts |-> <<>>, call |-> c, output |-> output]
      BY <3>8
    <3>10. QED
      BY <1>5, <3>1, <3>4, <3>5, <3>7, <3>9
  <2>2. [i \in DOMAIN h |-> FilledRow(h[i], c, output, inPart)] = g
    BY <1>3, <1>4
  <2>3. QED
    BY <1>1, <2>1, <2>2, ResultIs
<1>7. called' = n
  BY <1>1, ResultIs
<1>8. \A i \in 1 .. l : ~(h[i].role = "tool" /\ h[i].call = c)
  BY <1>1, <1>3, ResultIs
<1>9. ASSUME NEW i \in 1 .. l
      PROVE  /\ g[i] \in Row /\ g[i].role = h[i].role /\ g[i].call = h[i].call /\ g[i].output = h[i].output
             /\ Len(g[i].parts) = Len(h[i].parts)
             /\ \A k \in 1 .. Len(h[i].parts) : g[i].parts[k] = WithOutput(h[i].parts[k], c, output, inPart)
             /\ h[i].parts = <<>> => g[i] = h[i]
             /\ \A d : Makes(h[i], d) => Makes(g[i], d)
  <2>1. PICK x \in Row : x = h[i]
    BY <1>3
  <2>2. PICK y : y = FilledRow(x, c, output, inPart)
    OBVIOUS
  <2>3. y = g[i]
    BY <1>4, <2>1, <2>2
  <2>4. /\ y \in Row /\ y.role = x.role /\ y.call = x.call /\ y.output = x.output
        /\ Len(y.parts) = Len(x.parts)
        /\ \A k \in 1 .. Len(x.parts) : y.parts[k] = WithOutput(x.parts[k], c, output, inPart)
        /\ x.parts = <<>> => y = x
        /\ \A d : Makes(x, d) => Makes(y, d)
    BY <1>2, <2>2, FilledRowIs
  <2>5. QED
    BY <2>1, <2>3, <2>4
<1>10. g \in [1 .. l -> Row]
  BY <1>4, <1>9
<1>11. g \in Seq(Row) /\ Len(g) = l
  BY <1>10
<1>12. RowsKept(h, n) /\ PartsMatch(h)
  BY <1>1 DEF HistoryState
<1>13. ASSUME NEW i \in 1 .. l, h[i].role = "user" PROVE g[i] = h[i]
  <2>1. h[i] \in Inputs
    BY <1>3, <1>12, <1>13 DEF RowsKept, InputsKept
  <2>2. h[i].parts = <<>>
    BY <2>1 DEF Inputs
  <2>3. QED
    BY <1>9, <2>2
<1>14. \A d \in n + 1 .. n : \E i \in 1 .. Len(h) : Makes(g[i], d)
  BY <1>3
<1>15. RowsKept(g, n)
  <2>1. \A i \in 1 .. Len(h) : /\ g[i].role = h[i].role /\ g[i].call = h[i].call
                               /\ h[i].role = "user" => g[i] = h[i]
                               /\ \A d \in 1 .. n : Makes(h[i], d) => Makes(g[i], d)
    BY <1>3, <1>9, <1>13
  <2>2. Len(g) = Len(h) /\ n <= n
    BY <1>3, <1>11
  <2>3. QED
    BY <1>11, <1>12, <1>14, <2>1, <2>2, RowsChanged
<1>16. r \in Row
  <2>1. <<>> \in Seq(Nat)
    OBVIOUS
  <2>2. QED
    BY <1>2, <1>5, <2>1, BlankIs
<1>17. r.role = "tool" /\ r.call = c /\ r.output = output /\ r.parts = <<>>
  BY <1>5
<1>18. RowsKept(Append(g, r), n)
  <2>1. \A i \in 1 .. Len(g) : ~(g[i].role = "tool" /\ g[i].call = r.call)
    BY <1>8, <1>9, <1>11, <1>17
  <2>2. \A d \in n + 1 .. n : Makes(r, d)
    OBVIOUS
  <2>3. r.role # "user" /\ r.call \in 1 .. n /\ n <= n
    BY <1>2, <1>17
  <2>4. QED
    BY <1>15, <1>16, <2>1, <2>2, <2>3, RowAdded
<1>19. PICK z : z = Append(g, r)
  OBVIOUS
<1>20. /\ Len(z) = l + 1 /\ \A i \in 1 .. l : z[i] = g[i]
       /\ z[l + 1] = r
       /\ \A i \in 1 .. Len(z) : i \in 1 .. l \/ i = l + 1
  BY <1>11, <1>16, <1>19, Appended
<1>21. ASSUME NEW i \in 1 .. l, NEW k \in 1 .. Len(h[i].parts) PROVE Resulted(g[i].parts[k], z)
  <2>1. PICK ps \in Seq(Part) : ps = h[i].parts
    <3>1. PICK x \in Row : x = h[i]
      BY <1>3
    <3>2. x.parts \in Seq(Part)
      BY DEF Row
    <3>3. QED
      BY <3>1, <3>2
  <2>2. PICK p \in Part : p = ps[k]
    BY <2>1
  <2>3. PICK q : q = g[i].parts[k]
    OBVIOUS
  <2>4. q = WithOutput(p, c, output, inPart)
    BY <1>9, <2>1, <2>2, <2>3
  <2>5. CASE inPart /\ p.call = c
    <3>1. q.output = output /\ q.call = c
      BY <2>4, <2>5 DEF WithOutput, Part
    <3>2. l + 1 \in 1 .. Len(z)
      BY <1>20
    <3>3. Resulted(q, z)
      BY <1>17, <1>20, <3>1, <3>2 DEF Resulted
    <3>4. QED
      BY <2>3, <3>3
  <2>6. CASE ~(inPart /\ p.call = c)
    <3>1. q = p
      BY <2>4, <2>6 DEF WithOutput
    <3>2. Resulted(p, h)
      BY <1>3, <1>12, <2>1, <2>2 DEF PartsMatch
    <3>3. ASSUME p.output # ""
          PROVE  \E j \in 1 .. Len(z) : z[j].role = "tool" /\ z[j].call = p.call /\ z[j].output = p.output
      <4>1. PICK j \in 1 .. Len(h) : h[j].role = "tool" /\ h[j].call = p.call /\ h[j].output = p.output
        BY <3>2, <3>3 DEF Resulted
      <4>2. j \in 1 .. l /\ j \in 1 .. Len(z)
        BY <1>3, <1>20
      <4>3. z[j] = g[j]
        BY <1>20, <4>2
      <4>4. QED
        BY <1>9, <4>1, <4>2, <4>3
    <3>4. Resulted(p, z)
      BY <3>3 DEF Resulted
    <3>5. QED
      BY <2>3, <3>1, <3>4
  <2>7. QED
    BY <2>5, <2>6
<1>22. ASSUME NEW i \in 1 .. Len(z), NEW k \in 1 .. Len(z[i].parts) PROVE Resulted(z[i].parts[k], z)
  <2>1. CASE i \in 1 .. l
    <3>1. k \in 1 .. Len(h[i].parts) /\ z[i] = g[i]
      BY <1>9, <1>20, <2>1
    <3>2. QED
      BY <1>21, <2>1, <3>1
  <2>2. CASE i = l + 1
    <3>1. z[i].parts = <<>>
      BY <1>17, <1>20, <2>2
    <3>2. Len(z[i].parts) = 0
      BY <3>1
    <3>3. k \in 1 .. 0
      BY <3>2
    <3>4. QED
      BY <3>3
  <2>3. QED
    BY <1>20, <2>1, <2>2
<1>23. PartsMatch(z)
  BY <1>22 DEF PartsMatch
<1>24. QED
  BY <1>6, <1>7, <1>18, <1>19, <1>23 DEF HistoryState

(* Any limits and any number of calls, and turns of at least one step.     *)
HistoryBounds ==
  /\ MaxSteps \in Nat \ {0} /\ HistoryCalls \in Nat
  /\ HistoryLimit \in Nat /\ PageLimit \in Nat

LEMMA HistoryStart ==
  Context!Init => HistoryState
<1>1. SUFFICES ASSUME Context!Init PROVE HistoryState
  OBVIOUS
<1>2. PICK h : h = histRows
  OBVIOUS
<1>3. h = <<>> /\ called = 0
  BY <1>1, <1>2 DEF Context!Init
<1>4. h \in Seq(Row) /\ Len(h) = 0
  BY <1>3
<1>5. PICK n \in Nat : n = called /\ n = 0
  BY <1>3
<1>6. InputsKept(h) /\ ResultsMade(h, n)
  BY <1>4 DEF InputsKept, ResultsMade
<1>7. CallsKept(h, n)
  BY <1>5 DEF CallsKept
<1>8. ResultsOnce(h) /\ PartsMatch(h)
  BY <1>4 DEF ResultsOnce, PartsMatch
<1>9. RowsKept(h, n)
  BY <1>4, <1>6, <1>7, <1>8 DEF RowsKept
<1>10. QED
  BY <1>2, <1>5, <1>8, <1>9 DEF HistoryState

LEMMA HistoryStep ==
  ASSUME HistoryBounds, HistoryState, [Context!Next]_(Context!historyVars)
  PROVE  HistoryState'
<1>1. Steps /\ HistoryCalls \in Nat
  BY DEF HistoryBounds, Steps
<1>2. CASE Context!UserMessage
  BY <1>2, InputSaved
<1>3. ASSUME NEW hasText \in BOOLEAN, NEW calls \in 0 .. 2,
             Context!Step(hasText, calls) \/ Context!OldReply(hasText, calls)
      PROVE  HistoryState'
  BY <1>1, <1>3, TurnSaved, OldReplySaved
<1>4. ASSUME NEW c \in Context!CallIds, NEW output \in Context!Outputs, NEW inPart \in BOOLEAN,
             Context!Result(c, output, inPart)
      PROVE  HistoryState'
  BY <1>1, <1>4, ResultSaved
<1>5. CASE UNCHANGED Context!historyVars
  <2>1. histRows' = histRows /\ called' = called
    BY <1>5 DEF Context!historyVars
  <2>2. QED
    BY <2>1 DEF HistoryState
<1>6. QED
  BY <1>2, <1>3, <1>4, <1>5 DEF Context!Next

(* However a session's rows came about, the model is sent a conversation   *)
(* that every provider takes: each call is answered at once, at any limit; *)
(* while the rows are within it no input and no result is missing; and a   *)
(* client sees the calls the model sees, in their order, each with the     *)
(* model's result or none (context.go:30, convert.go:67, render.go:10).    *)
THEOREM HistoryIsKept ==
  ASSUME HistoryBounds
  PROVE  Context!Spec => []Context!HistoryConsistent
<1>1. HistoryState /\ [Context!Next]_(Context!historyVars) => HistoryState'
  BY HistoryStep
<1>2. HistoryState => Context!HistoryConsistent
  <2>1. SUFFICES ASSUME HistoryState PROVE Context!HistoryConsistent
    OBVIOUS
  <2>2. Steps /\ HistoryLimit \in Nat /\ PageLimit \in Nat /\ histRows \in Seq(Row)
    BY <2>1 DEF HistoryBounds, Steps, HistoryState, RowsKept
  <2>3. Context!CallsAnsweredAtOnce
    BY <2>2, AllAnswered
  <2>4. Context!NothingLost
    BY <2>1, <2>2, NothingIsLost
  <2>5. Context!ClientAgreesWithModel
    BY <2>2, ClientSees
  <2>6. QED
    BY <2>3, <2>4, <2>5 DEF Context!HistoryConsistent
<1>3. QED
  BY <1>1, <1>2, HistoryStart, PTL DEF Context!Spec

-----------------------------------------------------------------------------
(* The reply of the model.  What the client shows, and the events.         *)
States == {"streaming", "done", "pending", "running", "complete", "error"}
Kinds == {"text", "reasoning", "tool-call"}
ShownPart == [kind : Kinds, pieces : Seq(Nat), state : States]
Creates == [type : {"part_create"}, part : Nat \ {0}, kind : Kinds, pieces : Seq(Nat), state : States]
Updates == [type : {"part_update"}, part : Nat \ {0}, pieces : Seq(Nat), state : States]
Marks == [type : {"step_create", "message_done", "error"}]
Events == Creates \cup Updates \cup Marks
Apply(m, e) == Rendering!ApplySSEChunk(m, e)

LEMMA EventTypes ==
  /\ \A e \in Creates : e.type = "part_create"
  /\ \A e \in Updates : e.type = "part_update"
  /\ \A e \in Marks : e.type \in {"step_create", "message_done", "error"}
  /\ \A e \in Marks : e.type # "part_create" /\ e.type # "part_update"
BY DEF Creates, Updates, Marks

(* A part that is created goes behind the others, or replaces one.         *)
LEMMA PartCreated ==
  ASSUME NEW m \in Seq(ShownPart), NEW e \in Creates
  PROVE  /\ Apply(m, e) \in Seq(ShownPart)
         /\ Len(Apply(m, e)) = IF Len(m) < e.part THEN e.part ELSE Len(m)
         /\ \A i \in 1 .. Len(Apply(m, e)) :
              Apply(m, e)[i] = IF i = e.part THEN [kind |-> e.kind, pieces |-> e.pieces, state |-> e.state]
                               ELSE IF i \in 1 .. Len(m) THEN m[i] ELSE Rendering!Padding
<1>1. PICK p \in Nat \ {0} : p = e.part
  BY DEF Creates
<1>2. PICK l \in Nat : l = Len(m) /\ DOMAIN m = 1 .. l
  OBVIOUS
<1>3. PICK n \in Nat : n = IF l < p THEN p ELSE l
  OBVIOUS
<1>4. PICK x : x = [kind |-> e.kind, pieces |-> e.pieces, state |-> e.state]
  OBVIOUS
<1>5. x \in ShownPart
  BY <1>4 DEF Creates, ShownPart
<1>6. PICK pad : pad = Rendering!Padding
  OBVIOUS
<1>7. pad \in ShownPart
  <2>1. PICK z : z = <<>> /\ z \in Seq(Nat)
    <3>1. <<>> \in Seq(Nat)
      OBVIOUS
    <3>2. QED
      BY <3>1
  <2>2. pad = [kind |-> "text", pieces |-> z, state |-> "streaming"]
    BY <1>6, <2>1 DEF Rendering!Padding
  <2>3. QED
    BY <2>1, <2>2 DEF ShownPart, Kinds, States
<1>8. PICK r : r = [i \in 1 .. n |-> IF i = p THEN x ELSE IF i \in 1 .. l THEN m[i] ELSE pad]
  OBVIOUS
<1>9. \A i \in 1 .. l : m[i] \in ShownPart
  BY <1>2
<1>10. r \in [1 .. n -> ShownPart]
  BY <1>5, <1>7, <1>8, <1>9
<1>11. r \in Seq(ShownPart) /\ Len(r) = n
  BY <1>10, FunctionIsList
<1>12. Apply(m, e) = r
  <2>1. e.type = "part_create"
    BY EventTypes
  <2>2. Apply(m, e) = Rendering!HandlePartCreate(m, e)
    BY <2>1 DEF Apply, Rendering!ApplySSEChunk
  <2>3. QED
    BY <1>1, <1>2, <1>3, <1>4, <1>6, <1>8, <2>2 DEF Rendering!HandlePartCreate
<1>13. QED
  BY <1>1, <1>2, <1>3, <1>4, <1>6, <1>8, <1>11, <1>12

UpdatedPart(q, e) == Rendering!UpdatedPart(q, e)

LEMMA UpdatedPartIs ==
  ASSUME NEW q \in ShownPart, NEW e \in Updates
  PROVE  /\ UpdatedPart(q, e) \in ShownPart
         /\ UpdatedPart(q, e).kind = q.kind
         /\ q.kind = "tool-call" => /\ UpdatedPart(q, e).pieces = q.pieces
                                    /\ UpdatedPart(q, e).state = e.state
         /\ q.kind # "tool-call" =>
              /\ UpdatedPart(q, e).pieces = q.pieces \o e.pieces
              /\ UpdatedPart(q, e).state = IF e.state = "done" THEN "done" ELSE q.state
<1>1. PICK ps, k, s : ps = q.pieces /\ k = q.kind /\ s = q.state
  OBVIOUS
<1>2. q = [kind |-> k, pieces |-> ps, state |-> s] /\ ps \in Seq(Nat) /\ k \in Kinds /\ s \in States
  BY <1>1 DEF ShownPart
<1>3. PICK fs \in Seq(Nat) : fs = e.pieces
  BY DEF Updates
<1>4. PICK t \in States : t = e.state
  BY DEF Updates
<1>5. CASE k = "tool-call"
  <2>1. UpdatedPart(q, e) = [kind |-> k, pieces |-> ps, state |-> t]
    BY <1>2, <1>4, <1>5 DEF UpdatedPart, Rendering!UpdatedPart
  <2>2. QED
    BY <1>2, <1>4, <1>5, <2>1 DEF ShownPart
<1>6. CASE k # "tool-call"
  <2>1. PICK gs : gs = ps \o fs
    OBVIOUS
  <2>2. gs \in Seq(Nat)
    BY <1>2, <1>3, <2>1
  <2>3. PICK u : u = IF t = "done" THEN "done" ELSE s
    OBVIOUS
  <2>4. u \in States
    BY <1>2, <2>3 DEF States
  <2>6. UpdatedPart(q, e) = [kind |-> k, pieces |-> gs, state |-> u]
    <3>1. q.kind # "tool-call"
      BY <1>1, <1>6
    <3>2. PICK hs, v : hs = q.pieces \o e.pieces /\ v = IF e.state = "done" THEN "done" ELSE q.state
      OBVIOUS
    <3>3. UpdatedPart(q, e) = [kind |-> q.kind, pieces |-> hs, state |-> v]
      BY <3>1, <3>2 DEF UpdatedPart, Rendering!UpdatedPart
    <3>4. hs = gs
      BY <1>1, <1>3, <2>1, <3>2
    <3>5. v = u
      BY <1>1, <1>4, <2>3, <3>2
    <3>6. QED
      BY <1>1, <3>3, <3>4, <3>5
  <2>7. QED
    <3>1. PICK r : r = UpdatedPart(q, e)
      OBVIOUS
    <3>2. r = [kind |-> k, pieces |-> gs, state |-> u]
      BY <2>6, <3>1
    <3>3. r \in ShownPart /\ r.kind = k /\ r.pieces = gs /\ r.state = u
      BY <1>2, <2>2, <2>4, <3>2 DEF ShownPart
    <3>4. gs = q.pieces \o e.pieces /\ u = IF e.state = "done" THEN "done" ELSE q.state
      BY <1>1, <1>3, <1>4, <2>1, <2>3
    <3>5. q.kind # "tool-call" /\ q.kind = k
      BY <1>1, <1>6
    <3>6. QED
      BY <3>1, <3>3, <3>4, <3>5
<1>7. QED
  BY <1>5, <1>6

(* An update changes one part of the message, or no part if it has none.   *)
Changes(m, e, t) ==
  /\ t \in Seq(ShownPart) /\ Len(t) = Len(m)
  /\ \A i \in 1 .. Len(m) : t[i] = IF i = e.part THEN UpdatedPart(m[i], e) ELSE m[i]

LEMMA PartUpdated ==
  ASSUME NEW m \in Seq(ShownPart), NEW e \in Updates
  PROVE  /\ Apply(m, e) \in Seq(ShownPart)
         /\ Len(Apply(m, e)) = Len(m)
         /\ \A i \in 1 .. Len(m) : Apply(m, e)[i] = IF i = e.part THEN UpdatedPart(m[i], e) ELSE m[i]
<1>1. PICK p \in Nat \ {0} : p = e.part
  BY DEF Updates
<1>2. PICK l \in Nat : l = Len(m) /\ DOMAIN m = 1 .. l
  OBVIOUS
<1>3. Apply(m, e) = Rendering!HandlePartUpdate(m, e)
  <2>1. e.type = "part_update"
    BY EventTypes
  <2>2. QED
    BY <2>1 DEF Apply, Rendering!ApplySSEChunk
<1>4. CASE p \in 1 .. l
  <2>1. PICK q \in ShownPart : q = m[p]
    BY <1>2, <1>4
  <2>2. PICK u \in ShownPart : u = UpdatedPart(q, e)
    BY UpdatedPartIs
  <2>3. Apply(m, e) = [m EXCEPT ![p] = u]
    BY <1>1, <1>2, <1>3, <1>4, <2>1, <2>2 DEF Rendering!HandlePartUpdate, UpdatedPart
  <2>4. PICK r : r = [m EXCEPT ![p] = u]
    OBVIOUS
  <2>5. r \in Seq(ShownPart) /\ Len(r) = l /\ \A i \in 1 .. l : r[i] = IF i = p THEN u ELSE m[i]
    BY <1>2, <1>4, <2>4
  <2>6. QED
    BY <1>1, <1>2, <2>1, <2>2, <2>3, <2>4, <2>5
<1>5. CASE p \notin 1 .. l
  <2>1. Apply(m, e) = m
    BY <1>1, <1>2, <1>3, <1>5 DEF Rendering!HandlePartUpdate
  <2>2. QED
    BY <1>1, <1>2, <1>5, <2>1
<1>6. QED
  BY <1>4, <1>5

LEMMA PartChanged ==
  ASSUME NEW m \in Seq(ShownPart), NEW e \in Updates
  PROVE  Changes(m, e, Apply(m, e))
BY PartUpdated DEF Changes

EndedState(s) ==
  IF s = "streaming" THEN "done" ELSE IF s \in {"pending", "running"} THEN "complete" ELSE s

(* The end of a message ends all of its parts.                             *)
LEMMA MessageEnds ==
  ASSUME NEW m \in Seq(ShownPart), NEW e, e.type = "message_done"
  PROVE  /\ Apply(m, e) \in Seq(ShownPart)
         /\ Len(Apply(m, e)) = Len(m)
         /\ \A i \in 1 .. Len(m) :
              Apply(m, e)[i] = [kind |-> m[i].kind, pieces |-> m[i].pieces, state |-> EndedState(m[i].state)]
<1>1. PICK l \in Nat : l = Len(m) /\ DOMAIN m = 1 .. l
  OBVIOUS
<1>2. PICK r : r = Apply(m, e)
  OBVIOUS
<1>3. r = Rendering!HandleMessageDone(m)
  BY <1>2 DEF Apply, Rendering!ApplySSEChunk
<1>4. ASSUME NEW q \in ShownPart
      PROVE  /\ [q EXCEPT !.state = CASE @ = "streaming" -> "done"
                                      [] @ \in {"pending", "running"} -> "complete"
                                      [] OTHER -> @]
                = [kind |-> q.kind, pieces |-> q.pieces, state |-> EndedState(q.state)]
             /\ [kind |-> q.kind, pieces |-> q.pieces, state |-> EndedState(q.state)] \in ShownPart
  <2>1. PICK s \in States : s = q.state
    BY DEF ShownPart
  <2>2. PICK t : t = EndedState(s)
    OBVIOUS
  <2>3. t = CASE s = "streaming" -> "done" [] s \in {"pending", "running"} -> "complete" [] OTHER -> s
    BY <2>2 DEF EndedState
  <2>4. t \in States
    BY <2>2 DEF EndedState, States
  <2>5. [q EXCEPT !.state = t] = [kind |-> q.kind, pieces |-> q.pieces, state |-> t]
    BY DEF ShownPart
  <2>6. [kind |-> q.kind, pieces |-> q.pieces, state |-> t] \in ShownPart
    BY <2>4 DEF ShownPart
  <2>7. QED
    BY <2>1, <2>2, <2>3, <2>5, <2>6
<1>5. ASSUME NEW i \in 1 .. l
      PROVE  /\ r[i] = [kind |-> m[i].kind, pieces |-> m[i].pieces, state |-> EndedState(m[i].state)]
             /\ r[i] \in ShownPart
  <2>1. m[i] \in ShownPart
    BY <1>1
  <2>2. r[i] = [m[i] EXCEPT !.state = CASE @ = "streaming" -> "done"
                                        [] @ \in {"pending", "running"} -> "complete"
                                        [] OTHER -> @]
    BY <1>1, <1>3 DEF Rendering!HandleMessageDone
  <2>3. QED
    BY <1>4, <2>1, <2>2
<1>6. r = [i \in 1 .. l |-> r[i]]
  BY <1>1, <1>3 DEF Rendering!HandleMessageDone
<1>7. r \in [1 .. l -> ShownPart]
  BY <1>5, <1>6
<1>8. r \in Seq(ShownPart) /\ Len(r) = l
  BY <1>7, FunctionIsList
<1>9. QED
  BY <1>1, <1>2, <1>5, <1>8

LEMMA ApplyTyped ==
  ASSUME NEW m \in Seq(ShownPart), NEW e \in Events
  PROVE  Apply(m, e) \in Seq(ShownPart)
<1>1. CASE e \in Creates
  BY <1>1, PartCreated
<1>2. CASE e \in Updates
  BY <1>2, PartUpdated
<1>3. CASE e \in Marks
  <2>1. CASE e.type = "message_done"
    BY <2>1, MessageEnds
  <2>2. CASE e.type = "step_create"
    <3>1. Apply(m, e) = <<>>
      BY <2>2 DEF Apply, Rendering!ApplySSEChunk
    <3>2. PICK r : r = Apply(m, e) /\ r = <<>>
      BY <3>1
    <3>3. r \in Seq(ShownPart)
      BY <3>2
    <3>4. QED
      BY <3>2, <3>3
  <2>3. CASE e.type = "error"
    <3>1. Apply(m, e) = m
      BY <2>3 DEF Apply, Rendering!ApplySSEChunk
    <3>2. QED
      BY <3>1
  <2>4. QED
    BY <1>3, <2>1, <2>2, <2>3, EventTypes
<1>4. QED
  BY <1>1, <1>2, <1>3 DEF Events

(* The message after each of some events, for a client that misses none.   *)
AppliesInTurn(f, m, es) ==
  /\ f \in [0 .. Len(es) -> Seq(ShownPart)]
  /\ f[0] = m
  /\ \A k \in 1 .. Len(es) : f[k] = Apply(f[k - 1], es[k])

LEMMA Applied ==
  ASSUME NEW m \in Seq(ShownPart), NEW es \in Seq(Events)
  PROVE  \E f : AppliesInTurn(f, m, es)
<1>1. PICK Q, i, n : Q = Seq(ShownPart) /\ i = m /\ n = Len(es) /\ \A k \in 1 .. n : es[k] \in Events
  OBVIOUS
<1>2. i \in Q /\ n \in Nat
  BY <1>1
<1>3. PICK G : G = [x \in (1 .. n) \X Q |-> Apply(x[2], es[x[1]])]
  OBVIOUS
<1>4. ASSUME NEW x \in (1 .. n) \X Q PROVE Apply(x[2], es[x[1]]) \in Q
  <2>1. PICK k \in 1 .. n, q \in Q : x[1] = k /\ x[2] = q
    OBVIOUS
  <2>2. Apply(q, es[k]) \in Q
    BY <1>1, ApplyTyped
  <2>3. QED
    BY <2>1, <2>2
<1>5. StepOf(G, n, Q)
  BY <1>3, <1>4 DEF StepOf
<1>7. PICK f \in [0 .. n -> Q] : f[0] = i /\ \A k \in 1 .. n : f[k] = G[<<k, f[k - 1]>>]
  <2>1. PICK f : IsRecursive(f, Q, i, n, G)
    BY <1>2, <1>5, Recursion
  <2>2. QED
    BY <2>1 DEF IsRecursive
<1>8. ASSUME NEW k \in 1 .. n PROVE f[k] = Apply(f[k - 1], es[k])
  <2>1. k - 1 \in 0 .. n
    BY <1>2
  <2>2. PICK q \in Q : q = f[k - 1]
    BY <2>1
  <2>3. PICK x : x = <<k, q>>
    OBVIOUS
  <2>4. x \in (1 .. n) \X Q /\ x[1] = k /\ x[2] = q
    BY <2>3
  <2>5. G[x] = Apply(q, es[k])
    BY <1>3, <2>4
  <2>6. QED
    BY <1>7, <2>2, <2>3, <2>5
<1>9. QED
  BY <1>1, <1>7, <1>8 DEF AppliesInTurn

LEMMA AppliedFurther ==
  ASSUME NEW m \in Seq(ShownPart), NEW es \in Seq(Events), NEW more \in Seq(Events),
         NEW f, AppliesInTurn(f, m, es)
  PROVE  \E g : /\ AppliesInTurn(g, m, es \o more)
                /\ \A k \in 0 .. Len(es) : g[k] = f[k]
                /\ \A k \in 1 .. Len(more) : g[Len(es) + k] = Apply(g[Len(es) + k - 1], more[k])
<1>0. PICK n \in Nat, l \in Nat : n = Len(es) /\ l = Len(more)
  OBVIOUS
<1>1. PICK w :
        /\ n = Len(es) /\ l = Len(more) /\ w = es \o more /\ Len(w) = n + l
        /\ \A k \in 1 .. n : w[k] = es[k]
        /\ \A k \in 1 .. l : w[n + k] = more[k]
  <2>1. PICK w : w = es \o more
    OBVIOUS
  <2>2. /\ Len(w) = n + l
        /\ \A k \in 1 .. n : w[k] = es[k]
        /\ \A k \in 1 .. l : w[n + k] = more[k]
    BY <1>0, <2>1
  <2>3. QED
    BY <1>0, <2>1, <2>2
<1>2. PICK Q : Q = Seq(ShownPart)
  OBVIOUS
<1>3. /\ f \in [0 .. n -> Q] /\ f[0] = m /\ \A k \in 1 .. n : f[k] = Apply(f[k - 1], es[k])
  BY <1>1, <1>2 DEF AppliesInTurn
<1>4. f[n] \in Seq(ShownPart)
  BY <1>2, <1>3
<1>5. PICK h : AppliesInTurn(h, f[n], more)
  BY <1>4, Applied
<1>6. h \in [0 .. l -> Q] /\ h[0] = f[n] /\ \A k \in 1 .. l : h[k] = Apply(h[k - 1], more[k])
  BY <1>1, <1>2, <1>5 DEF AppliesInTurn
<1>7. PICK g : g = [k \in 0 .. n + l |-> IF k <= n THEN f[k] ELSE h[k - n]]
  OBVIOUS
<1>8. g \in [0 .. n + l -> Q]
  <2>1. ASSUME NEW k \in 0 .. n + l PROVE (IF k <= n THEN f[k] ELSE h[k - n]) \in Q
    BY <1>3, <1>6
  <2>2. QED
    BY <1>7, <2>1
<1>9. \A k \in 0 .. n : g[k] = f[k]
  BY <1>7
<1>10. ASSUME NEW k \in 0 .. l PROVE g[n + k] = h[k]
  <2>1. CASE k = 0
    BY <1>6, <1>9, <2>1
  <2>2. CASE k # 0
    <3>1. PICK j \in 0 .. n + l : j = n + k /\ ~(j <= n) /\ j - n = k
      BY <2>2
    <3>2. QED
      BY <1>7, <3>1
  <2>3. QED
    BY <2>1, <2>2
<1>11. ASSUME NEW k \in 1 .. l PROVE g[n + k] = Apply(g[n + k - 1], more[k])
  <2>1. k \in 0 .. l /\ k - 1 \in 0 .. l /\ n + (k - 1) = n + k - 1
    OBVIOUS
  <2>2. g[n + k] = h[k] /\ g[n + k - 1] = h[k - 1]
    BY <1>10, <2>1
  <2>3. QED
    BY <1>6, <2>2
<1>12. ASSUME NEW k \in 1 .. n + l PROVE g[k] = Apply(g[k - 1], w[k])
  <2>1. CASE k <= n
    <3>1. k \in 1 .. n /\ k \in 0 .. n /\ k - 1 \in 0 .. n
      BY <2>1
    <3>2. g[k] = f[k] /\ g[k - 1] = f[k - 1] /\ w[k] = es[k]
      BY <1>1, <1>9, <3>1
    <3>3. QED
      BY <1>3, <3>1, <3>2
  <2>2. CASE k > n
    <3>1. PICK j \in 1 .. l : j = k - n /\ n + j = k /\ n + j - 1 = k - 1
      BY <2>2
    <3>2. w[k] = more[j]
      BY <1>1, <3>1
    <3>3. QED
      BY <1>11, <3>1, <3>2
  <2>3. QED
    BY <2>1, <2>2
<1>13. AppliesInTurn(g, m, w)
  <2>1. g[0] = m
    BY <1>3, <1>9
  <2>2. QED
    BY <1>1, <1>2, <1>8, <1>12, <2>1 DEF AppliesInTurn
<1>14. QED
  BY <1>1, <1>9, <1>11, <1>13

-----------------------------------------------------------------------------
(* The pieces that were sent for one part.                                 *)
LEMMA OnlySame ==
  ASSUME NEW S, NEW s \in Seq(S), NEW T, NEW V, \A x \in S : x \in T <=> x \in V
  PROVE  Only(s, T) = Only(s, V)
<1>1. \A k \in DOMAIN s : s[k] \in S
  OBVIOUS
<1>2. PICK u, v :
        /\ u = [k \in DOMAIN s |-> IF s[k] \in T THEN <<s[k]>> ELSE <<>>]
        /\ v = [k \in DOMAIN s |-> IF s[k] \in V THEN <<s[k]>> ELSE <<>>]
  OBVIOUS
<1>3. u = v
  BY <1>1, <1>2
<1>4. QED
  BY <1>2, <1>3 DEF Only

LEMMA ConcatIs ==
  ASSUME NEW S, NEW p \in Seq(S), NEW q \in Seq(S)
  PROVE  /\ p \o q \in Seq(S) /\ Len(p \o q) = Len(p) + Len(q)
         /\ \A i \in 1 .. Len(p) : (p \o q)[i] = p[i]
         /\ \A i \in 1 .. Len(q) : (p \o q)[Len(p) + i] = q[i]
OBVIOUS

ThreeInTurn(r, a, b, c) == r = (a \o b) \o c

LEMMA OnlyOfThree ==
  ASSUME NEW S, NEW a \in Seq(S), NEW b \in Seq(S), NEW c \in Seq(S),
         NEW r, ThreeInTurn(r, a, b, c), NEW T
  PROVE  ThreeInTurn(Only(r, T), Only(a, T), Only(b, T), Only(c, T))
<1>1. a \o b \in Seq(S)
  OBVIOUS
<1>2. PICK d \in Seq(S) : d = a \o b
  BY <1>1, Zenon
<1>3. TwoInTurn(d, a, b) /\ TwoInTurn(r, d, c)
  BY <1>2, Zenon DEF TwoInTurn, ThreeInTurn
<1>4. TwoInTurn(Only(r, T), Only(d, T), Only(c, T)) /\ TwoInTurn(Only(d, T), Only(a, T), Only(b, T))
  BY <1>3, OnlyJoins
<1>5. QED
  BY <1>4, Zenon DEF TwoInTurn, ThreeInTurn

Numbers(n) == [i \in 1 .. n |-> i]
Places(s, w) == {i \in 1 .. Len(s) : s[i] = w}
PiecesIn(s, w) == Only(Numbers(Len(s)), Places(s, w))

LEMMA NumbersTyped ==
  ASSUME NEW n \in Nat
  PROVE  Numbers(n) \in Seq(Nat) /\ Len(Numbers(n)) = n /\ ElementsOf(Numbers(n)) = 1 .. n
<1>1. PICK l : l = Numbers(n)
  OBVIOUS
<1>2. l = [i \in 1 .. n |-> i]
  BY <1>1 DEF Numbers
<1>3. l \in [1 .. n -> Nat]
  BY <1>2
<1>4. l \in Seq(Nat) /\ Len(l) = n
  BY <1>3, FunctionIsList
<1>5. ElementsOf(l) = 1 .. n
  BY <1>2, <1>4 DEF ElementsOf
<1>6. QED
  BY <1>1, <1>4, <1>5

LEMMA PiecesTyped ==
  ASSUME NEW S, NEW s \in Seq(S), NEW w
  PROVE  PiecesIn(s, w) \in Seq(Nat) /\ ElementsOf(PiecesIn(s, w)) = Places(s, w)
<1>1. PICK n \in Nat : n = Len(s)
  OBVIOUS
<1>2. PICK l \in Seq(Nat) : l = Numbers(n) /\ ElementsOf(l) = 1 .. n
  BY NumbersTyped
<1>3. PiecesIn(s, w) = Only(l, Places(s, w))
  BY <1>1, <1>2 DEF PiecesIn
<1>4. Places(s, w) \subseteq 1 .. n
  BY <1>1 DEF Places
<1>5. PICK T : T = Places(s, w)
  OBVIOUS
<1>6. Only(l, T) \in Seq(Nat) /\ ElementsOf(Only(l, T)) = ElementsOf(l) \cap T
  BY OnlyType, OnlyHas
<1>7. ElementsOf(l) \cap T = T
  BY <1>2, <1>4, <1>5
<1>8. QED
  BY <1>3, <1>5, <1>6, <1>7

LEMMA PiecesGrow ==
  ASSUME NEW S, NEW s \in Seq(S), NEW x \in S, NEW w
  PROVE  PiecesIn(Append(s, x), w) =
           IF x = w THEN Append(PiecesIn(s, w), Len(s) + 1) ELSE PiecesIn(s, w)
<1>1. PICK n \in Nat : n = Len(s)
  OBVIOUS
<1>2. PICK t : t = Append(s, x)
  OBVIOUS
<1>3. /\ t \in Seq(S) /\ Len(t) = n + 1 /\ t[n + 1] = x
      /\ \A i \in 1 .. n : t[i] = s[i]
  BY <1>1, <1>2
<1>4. PICK l : l = Numbers(n) /\ l \in Seq(1 .. n)
  <2>1. Numbers(n) \in [1 .. n -> 1 .. n]
    BY DEF Numbers
  <2>2. QED
    BY <2>1, FunctionIsList
<1>5. PICK q : q = <<n + 1>>
  OBVIOUS
<1>6. q \in Seq(Nat) /\ Len(q) = 1 /\ q[1] = n + 1
  BY <1>5
<1>7. Len(l) = n /\ \A i \in 1 .. n : l[i] = i
  <2>1. Len(Numbers(n)) = n
    BY NumbersTyped
  <2>2. QED
    BY <1>4, <2>1 DEF Numbers
<1>8. l \in Seq(Nat)
  BY <1>4, NumbersTyped
<1>9. Numbers(n + 1) = l \o q
  <2>1. PICK r : r = l \o q
    OBVIOUS
  <2>2. /\ r \in Seq(Nat) /\ Len(r) = Len(l) + Len(q)
        /\ \A i \in 1 .. Len(l) : r[i] = l[i]
        /\ \A i \in 1 .. Len(q) : r[Len(l) + i] = q[i]
    <3>1. PICK a \in Seq(Nat), b \in Seq(Nat) : a = l /\ b = q
      BY <1>6, <1>8
    <3>2. /\ a \o b \in Seq(Nat) /\ Len(a \o b) = Len(a) + Len(b)
          /\ \A i \in 1 .. Len(a) : (a \o b)[i] = a[i]
          /\ \A i \in 1 .. Len(b) : (a \o b)[Len(a) + i] = b[i]
      BY ConcatIs
    <3>3. QED
      BY <2>1, <3>1, <3>2
  <2>3. Len(r) = n + 1 /\ \A i \in 1 .. n + 1 : r[i] = i
    <3>1. Len(r) = n + 1 /\ \A i \in 1 .. n : r[i] = i
      BY <1>6, <1>7, <2>2
    <3>2. r[n + 1] = n + 1
      BY <1>6, <1>7, <2>2
    <3>3. QED
      BY <3>1, <3>2
  <2>4. r = [i \in 1 .. n + 1 |-> r[i]]
    BY <2>2, <2>3
  <2>5. QED
    BY <2>1, <2>3, <2>4 DEF Numbers
<1>10. PICK V, T : V = Places(s, w) /\ T = Places(t, w)
  OBVIOUS
<1>11. /\ \A i \in 1 .. n : i \in V <=> i \in T
       /\ n + 1 \in T <=> x = w
  BY <1>1, <1>3, <1>10 DEF Places
<1>12. Only(l, V) = Only(l, T)
  BY <1>4, <1>11, OnlySame
<1>13. Only(l \o q, T) = Only(l, T) \o Only(q, T)
  BY <1>6, <1>8, OnlyConcat
<1>14. Only(q, T) = IF x = w THEN q ELSE <<>>
  BY <1>5, <1>11, OnlyOfOne
<1>15. PiecesIn(t, w) = Only(l, V) \o (IF x = w THEN q ELSE <<>>)
  <2>1. PiecesIn(t, w) = Only(l \o q, T)
    BY <1>3, <1>9, <1>10 DEF PiecesIn
  <2>2. QED
    BY <1>12, <1>13, <1>14, <2>1
<1>16. PICK p \in Seq(Nat) : p = PiecesIn(s, w) /\ p = Only(l, V)
  <2>1. PiecesIn(s, w) = Only(l, V)
    BY <1>1, <1>4, <1>10 DEF PiecesIn
  <2>2. PiecesIn(s, w) \in Seq(Nat)
    BY PiecesTyped
  <2>3. QED
    BY <2>1, <2>2
<1>17. p \o q = Append(p, n + 1) /\ p \o <<>> = p
  <2>1. p \o q = Append(p, n + 1)
    BY <1>5
  <2>2. p \o <<>> = p
    OBVIOUS
  <2>3. QED
    BY <2>1, <2>2
<1>18. QED
  BY <1>1, <1>2, <1>15, <1>16, <1>17

LEMMA SameInReply ==
  /\ \A ss : Rendering!FlattenSeq(ss) = FlattenSeq(ss)
  /\ \A S : Rendering!Cardinality(S) = Cardinality(S)
  /\ \A s : Rendering!ToSet(s) = ToSet(s)
BY DEF Rendering!FlattenSeq, FlattenSeq, Rendering!Cardinality, Cardinality, Rendering!ToSet, ToSet

LEMMA PiecesAre ==
  ASSUME NEW S, sent \in Seq(S), NEW kind, NEW of
  PROVE  Rendering!PiecesOf(kind, of) = PiecesIn(sent, <<kind, of>>)
<1>1. PICK n \in Nat : n = Len(sent) /\ DOMAIN sent = 1 .. n
  OBVIOUS
<1>2. PICK w : w = <<kind, of>>
  OBVIOUS
<1>3. PICK l : l = Numbers(n)
  OBVIOUS
<1>4. l = [i \in DOMAIN sent |-> i] /\ DOMAIN l = 1 .. n /\ \A i \in 1 .. n : l[i] = i
  BY <1>1, <1>3 DEF Numbers
<1>5. Rendering!PiecesOf(kind, of)
        = FlattenSeq([k \in DOMAIN l |-> IF sent[l[k]] = w THEN <<l[k]>> ELSE <<>>])
  <2>1. PICK m : m = [i \in DOMAIN sent |-> i]
    OBVIOUS
  <2>2. Rendering!PiecesOf(kind, of)
          = FlattenSeq([k \in DOMAIN m |-> IF sent[m[k]] = <<kind, of>> THEN <<m[k]>> ELSE <<>>])
    BY <2>1, SameInReply DEF Rendering!PiecesOf, Rendering!Filter
  <2>3. m = l
    BY <1>4, <2>1
  <2>4. QED
    BY <1>2, <2>2, <2>3
<1>6. PICK T : T = Places(sent, w)
  OBVIOUS
<1>7. PICK u, v :
        /\ u = [k \in DOMAIN l |-> IF sent[l[k]] = w THEN <<l[k]>> ELSE <<>>]
        /\ v = [k \in DOMAIN l |-> IF l[k] \in T THEN <<l[k]>> ELSE <<>>]
  OBVIOUS
<1>8. \A k \in DOMAIN l : sent[l[k]] = w <=> l[k] \in T
  BY <1>1, <1>4, <1>6 DEF Places
<1>9. u = v
  BY <1>7, <1>8
<1>10. QED
  BY <1>1, <1>2, <1>3, <1>5, <1>6, <1>7, <1>9 DEF PiecesIn, Only

-----------------------------------------------------------------------------
(* What a message becomes by some events, for a client that misses none.   *)
Leads(m, es, r) == \E f : AppliesInTurn(f, m, es) /\ r = f[Len(es)]

LEMMA LeadsTyped ==
  ASSUME NEW m, NEW es \in Seq(Events), NEW r, Leads(m, es, r)
  PROVE  r \in Seq(ShownPart)
<1>1. PICK f : AppliesInTurn(f, m, es) /\ r = f[Len(es)]
  BY DEF Leads
<1>2. Len(es) \in 0 .. Len(es)
  OBVIOUS
<1>3. QED
  BY <1>1, <1>2 DEF AppliesInTurn

LEMMA LeadsNowhere ==
  ASSUME NEW m, NEW r, Leads(m, <<>>, r)
  PROVE  r = m
<1>1. PICK es : es = <<>> /\ Len(es) = 0
  OBVIOUS
<1>2. PICK f : AppliesInTurn(f, m, es) /\ r = f[Len(es)]
  BY <1>1 DEF Leads
<1>3. QED
  BY <1>1, <1>2 DEF AppliesInTurn

LEMMA LeadsOneStep ==
  ASSUME NEW m, NEW e, NEW r, Leads(m, <<e>>, r)
  PROVE  r = Apply(m, e)
<1>1. PICK es : es = <<e>> /\ Len(es) = 1 /\ es[1] = e
  OBVIOUS
<1>2. PICK f : AppliesInTurn(f, m, es) /\ r = f[Len(es)]
  BY <1>1 DEF Leads
<1>3. f[0] = m /\ f[1] = Apply(f[1 - 1], es[1]) /\ 1 - 1 = 0
  BY <1>1, <1>2 DEF AppliesInTurn
<1>4. QED
  BY <1>1, <1>2, <1>3

LEMMA LeadsBetween ==
  ASSUME NEW m, NEW u \in Seq(Events), NEW v \in Seq(Events), NEW r, Leads(m, u \o v, r)
  PROVE  \E q \in Seq(ShownPart) : Leads(m, u, q) /\ Leads(q, v, r)
<1>0. PICK n \in Nat, l \in Nat : n = Len(u) /\ l = Len(v)
  OBVIOUS
<1>1. PICK w : w = u \o v
  OBVIOUS
<1>2. /\ Len(w) = n + l
      /\ \A k \in 1 .. n : w[k] = u[k]
      /\ \A k \in 1 .. l : w[n + k] = v[k]
  BY <1>0, <1>1, ConcatIs
<1>3. PICK Q : Q = Seq(ShownPart)
  OBVIOUS
<1>4. PICK f : AppliesInTurn(f, m, w) /\ r = f[Len(w)]
  BY <1>1 DEF Leads
<1>5. /\ f \in [0 .. n + l -> Q] /\ f[0] = m
      /\ \A k \in 1 .. n + l : f[k] = Apply(f[k - 1], w[k])
  BY <1>2, <1>3, <1>4 DEF AppliesInTurn
<1>6. PICK a, b : a = [k \in 0 .. n |-> f[k]] /\ b = [k \in 0 .. l |-> f[n + k]]
  OBVIOUS
<1>7. a \in [0 .. n -> Q] /\ b \in [0 .. l -> Q]
  <2>1. \A k \in 0 .. n : f[k] \in Q
    BY <1>5
  <2>2. \A k \in 0 .. l : f[n + k] \in Q
    BY <1>5
  <2>3. QED
    BY <1>6, <2>1, <2>2
<1>8. AppliesInTurn(a, m, u)
  <2>1. ASSUME NEW k \in 1 .. n PROVE a[k] = Apply(a[k - 1], u[k])
    <3>1. k \in 0 .. n /\ k - 1 \in 0 .. n /\ k \in 1 .. n + l
      OBVIOUS
    <3>2. QED
      BY <1>2, <1>5, <1>6, <3>1
  <2>2. a[0] = m
    BY <1>5, <1>6
  <2>3. QED
    BY <1>0, <1>3, <1>7, <2>1, <2>2 DEF AppliesInTurn
<1>9. b[0] = f[n] /\ a[n] = f[n] /\ b[l] = r
  BY <1>2, <1>4, <1>6
<1>10. AppliesInTurn(b, f[n], v)
  <2>1. ASSUME NEW k \in 1 .. l PROVE b[k] = Apply(b[k - 1], v[k])
    <3>1. k \in 0 .. l /\ k - 1 \in 0 .. l /\ n + k \in 1 .. n + l /\ n + (k - 1) = n + k - 1
      OBVIOUS
    <3>2. f[n + k] = Apply(f[n + k - 1], w[n + k]) /\ w[n + k] = v[k]
      BY <1>2, <1>5, <3>1
    <3>3. b[k] = f[n + k] /\ b[k - 1] = f[n + k - 1]
      BY <1>6, <3>1
    <3>4. QED
      BY <3>2, <3>3
  <2>2. QED
    BY <1>0, <1>3, <1>7, <1>9, <2>1 DEF AppliesInTurn
<1>11. f[n] \in Seq(ShownPart)
  BY <1>3, <1>5
<1>12. Leads(m, u, f[n]) /\ Leads(f[n], v, r)
  BY <1>0, <1>8, <1>9, <1>10 DEF Leads
<1>13. QED
  BY <1>11, <1>12

(* How far a client has read: r lines of the events, without losing any.   *)
Follows(f, es, m, r, d) ==
  /\ AppliesInTurn(f, <<>>, es)
  /\ d = {} => \E k \in 0 .. Len(es) : 2 * k <= r /\ r <= 2 * k + 1 /\ m = f[k]

LEMMA FollowsFurther ==
  ASSUME NEW es \in Seq(Events), NEW more \in Seq(Events), NEW m, NEW r, NEW d,
         NEW f, Follows(f, es, m, r, d)
  PROVE  \E g : /\ Follows(g, es \o more, m, r, d)
                /\ Leads(f[Len(es)], more, g[Len(es \o more)])
<1>0. PICK n \in Nat, l \in Nat : n = Len(es) /\ l = Len(more)
  OBVIOUS
<1>1. PICK w : w = es \o more
  OBVIOUS
<1>2. Len(w) = n + l
  BY <1>0, <1>1, ConcatIs
<1>3. PICK z : z = <<>> /\ z \in Seq(ShownPart)
  <2>1. <<>> \in Seq(ShownPart)
    OBVIOUS
  <2>2. QED
    BY <2>1
<1>4. AppliesInTurn(f, z, es)
  BY <1>3 DEF Follows
<1>5. PICK g : /\ AppliesInTurn(g, z, w)
               /\ \A k \in 0 .. n : g[k] = f[k]
               /\ \A k \in 1 .. l : g[n + k] = Apply(g[n + k - 1], more[k])
  <2>1. z \in Seq(ShownPart)
    BY <1>3
  <2>2. \E g : /\ AppliesInTurn(g, z, es \o more)
               /\ \A k \in 0 .. Len(es) : g[k] = f[k]
               /\ \A k \in 1 .. Len(more) : g[Len(es) + k] = Apply(g[Len(es) + k - 1], more[k])
    BY <1>4, <2>1, AppliedFurther
  <2>3. QED
    BY <1>0, <1>1, <2>2
<1>6. Follows(g, w, m, r, d)
  <2>1. ASSUME NEW k \in 0 .. n PROVE k \in 0 .. n + l /\ g[k] = f[k]
    BY <1>5
  <2>2. d = {} => \E k \in 0 .. n : 2 * k <= r /\ r <= 2 * k + 1 /\ m = f[k]
    BY <1>0 DEF Follows
  <2>3. d = {} => \E k \in 0 .. n + l : 2 * k <= r /\ r <= 2 * k + 1 /\ m = g[k]
    BY <2>1, <2>2
  <2>4. QED
    BY <1>2, <1>3, <1>5, <2>3 DEF Follows
<1>7. PICK h : h = [k \in 0 .. l |-> g[n + k]]
  OBVIOUS
<1>8. AppliesInTurn(h, f[n], more)
  <2>1. PICK Q : Q = Seq(ShownPart)
    OBVIOUS
  <2>2. g \in [0 .. n + l -> Q]
    BY <1>2, <1>5, <2>1 DEF AppliesInTurn
  <2>3. ASSUME NEW k \in 0 .. l PROVE g[n + k] \in Q
    BY <2>2
  <2>4. h \in [0 .. l -> Q]
    BY <1>7, <2>3
  <2>5. h[0] = f[n]
    BY <1>5, <1>7
  <2>6. ASSUME NEW k \in 1 .. l PROVE h[k] = Apply(h[k - 1], more[k])
    <3>1. k \in 0 .. l /\ k - 1 \in 0 .. l /\ n + (k - 1) = n + k - 1
      OBVIOUS
    <3>2. h[k] = g[n + k] /\ h[k - 1] = g[n + k - 1]
      BY <1>7, <3>1
    <3>3. QED
      BY <1>5, <3>2
  <2>7. QED
    BY <1>0, <2>1, <2>4, <2>5, <2>6 DEF AppliesInTurn
<1>9. h[l] = g[n + l]
  BY <1>7
<1>10. Leads(f[n], more, g[n + l])
  BY <1>0, <1>8, <1>9 DEF Leads
<1>11. QED
  BY <1>0, <1>1, <1>2, <1>6, <1>10

-----------------------------------------------------------------------------
(* Each piece that a part shows is of that part: <<n, p>> is in R.         *)
OfPart(ps, p, R) == \A n \in ElementsOf(ps) : <<n, p>> \in R
InPlace(m, R) == \A i \in 1 .. Len(m) : OfPart(m[i].pieces, i, R)
ForItsPart(e, R) == e \in Creates \cup Updates => OfPart(e.pieces, e.part, R)

LEMMA NoneOfPart ==
  ASSUME NEW R, NEW p PROVE OfPart(<<>>, p, R)
<1>1. PICK z : z = <<>> /\ Len(z) = 0
  OBVIOUS
<1>2. ElementsOf(z) = {}
  BY <1>1 DEF ElementsOf
<1>3. QED
  BY <1>1, <1>2 DEF OfPart

LEMMA StaysInPlace ==
  ASSUME NEW R, NEW m \in Seq(ShownPart), InPlace(m, R), NEW e \in Events, ForItsPart(e, R)
  PROVE  InPlace(Apply(m, e), R)
<1>1. PICK r : r = Apply(m, e)
  OBVIOUS
<1>2. CASE e \in Creates
  <2>1. OfPart(e.pieces, e.part, R)
    BY <1>2 DEF ForItsPart
  <2>2. ASSUME NEW i \in 1 .. Len(r) PROVE OfPart(r[i].pieces, i, R)
    <3>1. r[i] = IF i = e.part THEN [kind |-> e.kind, pieces |-> e.pieces, state |-> e.state]
                 ELSE IF i \in 1 .. Len(m) THEN m[i] ELSE Rendering!Padding
      BY <1>1, <1>2, PartCreated
    <3>2. CASE i = e.part
      <4>1. r[i].pieces = e.pieces
        BY <3>1, <3>2
      <4>2. QED
        BY <2>1, <3>2, <4>1
    <3>3. CASE i # e.part /\ i \in 1 .. Len(m)
      BY <3>1, <3>3 DEF InPlace
    <3>4. CASE i # e.part /\ i \notin 1 .. Len(m)
      <4>1. PICK z : z = <<>>
        OBVIOUS
      <4>2. r[i] = [kind |-> "text", pieces |-> z, state |-> "streaming"]
        BY <3>1, <3>4, <4>1 DEF Rendering!Padding
      <4>3. r[i].pieces = z
        BY <4>2
      <4>4. QED
        BY <4>1, <4>3, NoneOfPart
    <3>5. QED
      BY <3>2, <3>3, <3>4
  <2>3. QED
    BY <1>1, <2>2 DEF InPlace
<1>3. CASE e \in Updates
  <2>1. OfPart(e.pieces, e.part, R)
    BY <1>3 DEF ForItsPart
  <2>2. ASSUME NEW i \in 1 .. Len(r) PROVE OfPart(r[i].pieces, i, R)
    <3>1. i \in 1 .. Len(m) /\ r[i] = IF i = e.part THEN UpdatedPart(m[i], e) ELSE m[i]
      BY <1>1, <1>3, PartUpdated
    <3>2. OfPart(m[i].pieces, i, R)
      BY <3>1 DEF InPlace
    <3>3. CASE i = e.part
      <4>1. PICK q \in ShownPart : q = m[i]
        BY <3>1
      <4>2. \/ r[i].pieces = q.pieces
            \/ r[i].pieces = q.pieces \o e.pieces
        <5>1. PICK u : u = UpdatedPart(q, e)
          OBVIOUS
        <5>2. r[i] = u
          BY <3>1, <3>3, <4>1, <5>1
        <5>3. u.pieces = q.pieces \/ u.pieces = q.pieces \o e.pieces
          BY <1>3, <5>1, UpdatedPartIs
        <5>4. QED
          BY <5>2, <5>3
      <4>3. ASSUME r[i].pieces = q.pieces \o e.pieces PROVE OfPart(r[i].pieces, i, R)
        <5>1. PICK a \in Seq(Nat), b \in Seq(Nat) : a = q.pieces /\ b = e.pieces
          BY <1>3 DEF ShownPart, Updates
        <5>2. ElementsOf(a \o b) = ElementsOf(a) \cup ElementsOf(b)
          BY ConcatHas
        <5>3. QED
          BY <2>1, <3>2, <3>3, <4>1, <4>3, <5>1, <5>2 DEF OfPart
      <4>4. QED
        BY <3>2, <4>1, <4>2, <4>3
    <3>4. QED
      BY <3>1, <3>2, <3>3
  <2>3. QED
    BY <1>1, <2>2 DEF InPlace
<1>4. CASE e \in Marks
  <2>1. CASE e.type = "message_done"
    <3>1. ASSUME NEW i \in 1 .. Len(r) PROVE OfPart(r[i].pieces, i, R)
      <4>1. i \in 1 .. Len(m)
        BY <1>1, <2>1, MessageEnds
      <4>2. r[i] = [kind |-> m[i].kind, pieces |-> m[i].pieces, state |-> EndedState(m[i].state)]
        BY <1>1, <2>1, <4>1, MessageEnds
      <4>3. r[i].pieces = m[i].pieces
        BY <4>2
      <4>4. QED
        BY <4>1, <4>3 DEF InPlace
    <3>2. QED
      BY <1>1, <3>1 DEF InPlace
  <2>2. CASE e.type = "step_create"
    <3>1. Apply(m, e) = <<>>
      BY <2>2 DEF Apply, Rendering!ApplySSEChunk
    <3>2. Len(r) = 0
      BY <1>1, <3>1
    <3>3. QED
      BY <1>1, <3>2 DEF InPlace
  <2>3. CASE e.type = "error"
    <3>1. Apply(m, e) = m
      BY <2>3 DEF Apply, Rendering!ApplySSEChunk
    <3>2. QED
      BY <3>1
  <2>4. QED
    BY <1>4, <2>1, <2>2, <2>3, EventTypes
<1>5. QED
  BY <1>2, <1>3, <1>4 DEF Events

-----------------------------------------------------------------------------
(* What a message shows: a part of the content, and the calls behind it.   *)
ShowsPart(m, p, k, ps, s) ==
  p > 0 => p \in 1 .. Len(m) /\ m[p] = [kind |-> k, pieces |-> ps, state |-> s]

ShowsCalls(m, n, cs, T) ==
  /\ Len(m) = n + Len(cs)
  /\ \A i \in 1 .. Len(cs) :
       m[n + i].kind = "tool-call" /\ m[n + i].pieces = cs[i] /\ m[n + i].state \in T

LEMMA PartStays ==
  ASSUME NEW m, NEW r, NEW p \in Nat, NEW k, NEW ps, NEW s, ShowsPart(m, p, k, ps, s),
         \A i \in 1 .. Len(m) : i = p => i \in 1 .. Len(r) /\ r[i] = m[i]
  PROVE  ShowsPart(r, p, k, ps, s)
BY DEF ShowsPart

LEMMA PartGrows ==
  ASSUME NEW m \in Seq(ShownPart), NEW e \in Updates, NEW k \in Rendering!Content,
         NEW ps, NEW s, ShowsPart(m, e.part, k, ps, s)
  PROVE  ShowsPart(Apply(m, e), e.part, k, ps \o e.pieces, IF e.state = "done" THEN "done" ELSE s)
<1>1. PICK p \in Nat \ {0} : p = e.part
  BY DEF Updates
<1>2. p > 0
  OBVIOUS
<1>3. p \in 1 .. Len(m) /\ m[p] = [kind |-> k, pieces |-> ps, state |-> s]
  BY <1>1, <1>2 DEF ShowsPart
<1>4. PICK q \in ShownPart : q = m[p]
  BY <1>3
<1>5. q.kind = k /\ q.pieces = ps /\ q.state = s /\ k # "tool-call"
  BY <1>3, <1>4 DEF Rendering!Content
<1>6. PICK r : r = Apply(m, e)
  OBVIOUS
<1>7. Len(r) = Len(m) /\ r[p] = UpdatedPart(q, e)
  BY <1>1, <1>3, <1>4, <1>6, PartUpdated
<1>8. PICK u : u = UpdatedPart(q, e)
  OBVIOUS
<1>9. PICK gs, t : gs = ps \o e.pieces /\ t = IF e.state = "done" THEN "done" ELSE s
  OBVIOUS
<1>10. u \in ShownPart /\ u.kind = k /\ u.pieces = gs /\ u.state = t
  BY <1>5, <1>8, <1>9, UpdatedPartIs
<1>11. u = [kind |-> k, pieces |-> gs, state |-> t]
  BY <1>10 DEF ShownPart
<1>12. QED
  BY <1>1, <1>3, <1>6, <1>7, <1>8, <1>9, <1>11 DEF ShowsPart

LEMMA PartEnds ==
  ASSUME NEW m \in Seq(ShownPart), NEW e, e.type = "message_done",
         NEW p \in Nat, NEW k, NEW ps, NEW s, ShowsPart(m, p, k, ps, s)
  PROVE  ShowsPart(Apply(m, e), p, k, ps, EndedState(s))
<1>1. SUFFICES ASSUME p > 0
               PROVE  /\ p \in 1 .. Len(Apply(m, e))
                      /\ Apply(m, e)[p] = [kind |-> k, pieces |-> ps, state |-> EndedState(s)]
  BY DEF ShowsPart
<1>2. p \in 1 .. Len(m) /\ m[p] = [kind |-> k, pieces |-> ps, state |-> s]
  BY <1>1 DEF ShowsPart
<1>3. m[p].kind = k /\ m[p].pieces = ps /\ m[p].state = s
  BY <1>2
<1>4. /\ Len(Apply(m, e)) = Len(m)
      /\ Apply(m, e)[p] = [kind |-> m[p].kind, pieces |-> m[p].pieces, state |-> EndedState(m[p].state)]
  BY <1>2, MessageEnds
<1>5. QED
  BY <1>2, <1>3, <1>4

LEMMA CallsEnd ==
  ASSUME NEW m \in Seq(ShownPart), NEW e, e.type = "message_done",
         NEW n \in Nat, NEW cs \in Seq(Seq(Nat)), NEW T, ShowsCalls(m, n, cs, T)
  PROVE  ShowsCalls(Apply(m, e), n, cs, {EndedState(s) : s \in T})
<1>1. PICK r : r = Apply(m, e)
  OBVIOUS
<1>2. Len(r) = Len(m) /\ Len(m) = n + Len(cs)
  BY <1>1, MessageEnds DEF ShowsCalls
<1>3. ASSUME NEW i \in 1 .. Len(cs)
      PROVE  r[n + i].kind = "tool-call" /\ r[n + i].pieces = cs[i]
             /\ r[n + i].state \in {EndedState(s) : s \in T}
  <2>1. PICK j \in 1 .. Len(m) : j = n + i
    BY <1>2
  <2>2. r[j] = [kind |-> m[j].kind, pieces |-> m[j].pieces, state |-> EndedState(m[j].state)]
    BY <1>1, MessageEnds
  <2>3. r[j].kind = m[j].kind /\ r[j].pieces = m[j].pieces /\ r[j].state = EndedState(m[j].state)
    BY <2>2
  <2>4. m[j].kind = "tool-call" /\ m[j].pieces = cs[i] /\ m[j].state \in T
    BY <2>1 DEF ShowsCalls
  <2>5. QED
    BY <2>1, <2>3, <2>4
<1>4. QED
  BY <1>1, <1>2, <1>3 DEF ShowsCalls

(* A part is added behind the others.                                      *)
Adds(m, e, t) ==
  /\ t \in Seq(ShownPart) /\ Len(t) = Len(m) + 1
  /\ t[Len(m) + 1] = [kind |-> e.kind, pieces |-> e.pieces, state |-> e.state]
  /\ \A i \in 1 .. Len(m) : t[i] = m[i]

LEMMA PartAdded ==
  ASSUME NEW m \in Seq(ShownPart), NEW e \in Creates, e.part = Len(m) + 1
  PROVE  Adds(m, e, Apply(m, e))
<1>a. PICK n \in Nat : n = Len(m) /\ e.part = n + 1
  OBVIOUS
<1>b. PICK t : t = Apply(m, e)
  OBVIOUS
<1>1. PICK x, pad : /\ x = [kind |-> e.kind, pieces |-> e.pieces, state |-> e.state]
                    /\ pad = Rendering!Padding
  OBVIOUS
<1>2. PICK p : p = e.part /\ p = n + 1
  BY <1>a
<1>3. /\ t \in Seq(ShownPart)
      /\ Len(t) = IF n < p THEN p ELSE n
      /\ \A i \in 1 .. Len(t) : t[i] = IF i = p THEN x ELSE IF i \in 1 .. n THEN m[i] ELSE pad
  <2>1. /\ t \in Seq(ShownPart)
        /\ Len(t) = IF Len(m) < e.part THEN e.part ELSE Len(m)
    BY <1>b, PartCreated
  <2>2. ASSUME NEW i \in 1 .. Len(t)
        PROVE  t[i] = IF i = p THEN x ELSE IF i \in 1 .. n THEN m[i] ELSE pad
    <3>1. t[i] = IF i = e.part THEN [kind |-> e.kind, pieces |-> e.pieces, state |-> e.state]
                 ELSE IF i \in 1 .. Len(m) THEN m[i] ELSE Rendering!Padding
      BY <1>b, PartCreated
    <3>2. QED
      BY <1>1, <1>2, <1>a, <3>1
  <2>3. QED
    BY <1>2, <1>a, <2>1, <2>2
<1>4. Len(t) = n + 1 /\ t[n + 1] = x
  BY <1>2, <1>3
<1>5. \A i \in 1 .. n : t[i] = m[i]
  BY <1>2, <1>3
<1>6. QED
  BY <1>1, <1>3, <1>4, <1>5, <1>a, <1>b DEF Adds

(* The calls are announced, one part each behind the content.              *)
CreatesCalls(es, n, cs) ==
  /\ Len(es) = Len(cs)
  /\ \A i \in 1 .. Len(cs) : /\ es[i].part = n + i /\ es[i].kind = "tool-call"
                              /\ es[i].pieces = cs[i] /\ es[i].state = "pending"

CallsChanged(m, n, cs, V, r) ==
  /\ ShowsCalls(r, n, cs, V)
  /\ \A j \in 1 .. n : r[j] = m[j]

LEMMA CallsBegin ==
  ASSUME NEW m \in Seq(ShownPart), NEW cs \in Seq(Seq(Nat)), NEW es \in Seq(Creates),
         CreatesCalls(es, Len(m), cs), NEW r, Leads(m, es, r)
  PROVE  CallsChanged(m, Len(m), cs, {"pending"}, r)
<1>a. Len(es) = Len(cs)
  BY DEF CreatesCalls
<1>b. \A i \in 1 .. Len(cs) : /\ es[i].part = Len(m) + i /\ es[i].kind = "tool-call"
                              /\ es[i].pieces = cs[i] /\ es[i].state = "pending"
  BY DEF CreatesCalls
<1> SUFFICES /\ ShowsCalls(r, Len(m), cs, {"pending"})
             /\ \A j \in 1 .. Len(m) : r[j] = m[j]
  BY DEF CallsChanged
<1>1. PICK n \in Nat, l \in Nat : n = Len(m) /\ l = Len(cs) /\ l = Len(es)
  BY <1>a
<1>2. PICK f : AppliesInTurn(f, m, es) /\ r = f[l]
  BY <1>1 DEF Leads
<1>3. PICK Q : Q = Seq(ShownPart)
  OBVIOUS
<1>4. f \in [0 .. l -> Q] /\ f[0] = m /\ \A k \in 1 .. l : f[k] = Apply(f[k - 1], es[k])
  BY <1>1, <1>2, <1>3 DEF AppliesInTurn
<1> DEFINE Begun(k) == /\ Len(f[k]) = n + k
                       /\ \A j \in 1 .. n : f[k][j] = m[j]
                       /\ \A i \in 1 .. k : f[k][n + i] = [kind |-> "tool-call", pieces |-> cs[i],
                                                           state |-> "pending"]
           U == {k \in Nat : k <= l => Begun(k)}
<1>5. 0 \in U
  <2>1. Begun(0)
    BY <1>1, <1>4
  <2>2. QED
    BY <2>1
<1>6. ASSUME NEW k \in Nat, k \in U PROVE k + 1 \in U
  <2> SUFFICES ASSUME k + 1 <= l PROVE Begun(k + 1)
    <3> HIDE DEF Begun
    <3>1. QED
      OBVIOUS
  <2>0. k \in 0 .. l /\ k + 1 \in 1 .. l /\ (k + 1) - 1 = k
    OBVIOUS
  <2>1. Begun(k) /\ k \in 0 .. l /\ k + 1 \in 1 .. l /\ (k + 1) - 1 = k
    <3> HIDE DEF Begun
    <3>1. QED
      BY <1>6, <2>0
  <2>2. PICK q \in Seq(ShownPart) : q = f[k]
    BY <1>3, <1>4, <2>1
  <2>3. PICK e \in Creates : e = es[k + 1]
    BY <1>1, <2>1
  <2>4. e.part = n + k + 1 /\ e.kind = "tool-call" /\ e.pieces = cs[k + 1] /\ e.state = "pending"
    BY <1>b, <1>1, <2>1, <2>3
  <2>5. PICK t : t = Apply(q, e) /\ t = f[k + 1]
    BY <1>4, <2>1, <2>2, <2>3
  <2>6. Len(q) = n + k
    BY <2>1, <2>2
  <2>7. PICK x : x = [kind |-> e.kind, pieces |-> e.pieces, state |-> e.state]
    OBVIOUS
  <2>8. PICK v \in Nat : v = n + k /\ v = Len(q) /\ e.part = v + 1
    BY <2>4, <2>6
  <2>9. /\ Len(t) = n + k + 1 /\ t[n + k + 1] = x
        /\ \A i \in 1 .. n + k : t[i] = q[i]
    <3>1. e.part = Len(q) + 1
      BY <2>8
    <3>2. Adds(q, e, t)
      BY <2>5, <3>1, PartAdded
    <3>3. Len(t) = v + 1 /\ t[v + 1] = x /\ \A i \in 1 .. v : t[i] = q[i]
      BY <2>7, <2>8, <3>2 DEF Adds
    <3>4. QED
      BY <2>8, <3>3
  <2>10. x = [kind |-> "tool-call", pieces |-> cs[k + 1], state |-> "pending"]
    BY <2>4, <2>7
  <2>11. ASSUME NEW j \in 1 .. n PROVE t[j] = m[j]
    <3>1. j \in 1 .. n + k
      OBVIOUS
    <3>2. QED
      BY <2>1, <2>2, <2>9, <3>1
  <2>12. ASSUME NEW i \in 1 .. k + 1
         PROVE  t[n + i] = [kind |-> "tool-call", pieces |-> cs[i], state |-> "pending"]
    <3>1. CASE i = k + 1
      BY <2>9, <2>10, <3>1
    <3>2. CASE i # k + 1
      <4>1. i \in 1 .. k /\ n + i \in 1 .. n + k
        BY <3>2
      <4>2. QED
        BY <2>1, <2>2, <2>9, <4>1
    <3>3. QED
      BY <3>1, <3>2
  <2>13. /\ Len(t) = n + (k + 1)
         /\ \A j \in 1 .. n : t[j] = m[j]
         /\ \A i \in 1 .. k + 1 : t[n + i] = [kind |-> "tool-call", pieces |-> cs[i],
                                             state |-> "pending"]
    <3>1. Len(t) = n + (k + 1)
      BY <2>9
    <3>2. QED
      BY <2>11, <2>12, <3>1, Zenon
  <2>14. QED
    BY <2>5, <2>13, Zenon
<1>7. \A k \in Nat : k \in U
  <2> HIDE DEF U
  <2>1. QED
    BY <1>5, <1>6, Induction
<1>8. Begun(l)
  <2>1. l \in U /\ l <= l
    <3> HIDE DEF U
    <3>1. QED
      BY <1>7
  <2> HIDE DEF Begun
  <2>2. QED
    BY <2>1
<1>9. ASSUME NEW i \in 1 .. l
      PROVE  r[n + i].kind = "tool-call" /\ r[n + i].pieces = cs[i] /\ r[n + i].state \in {"pending"}
  <2>1. r[n + i] = [kind |-> "tool-call", pieces |-> cs[i], state |-> "pending"]
    BY <1>2, <1>8
  <2>2. QED
    BY <2>1
<1>10. QED
  BY <1>1, <1>2, <1>8, <1>9 DEF ShowsCalls

(* Each of the calls gets a state.                                         *)
UpdatesCalls(es, n, cs, V) ==
  /\ Len(es) = Len(cs)
  /\ \A i \in 1 .. Len(cs) : es[i].part = n + i /\ es[i].state \in V

LEMMA CallsChange ==
  ASSUME NEW m \in Seq(ShownPart), NEW n \in Nat, NEW cs \in Seq(Seq(Nat)), NEW T, NEW V,
         ShowsCalls(m, n, cs, T), NEW es \in Seq(Updates), UpdatesCalls(es, n, cs, V),
         NEW r, Leads(m, es, r)
  PROVE  CallsChanged(m, n, cs, V, r)
<1> SUFFICES ASSUME Len(es) = Len(cs),
                    \A i \in 1 .. Len(cs) : es[i].part = n + i /\ es[i].state \in V
             PROVE  /\ ShowsCalls(r, n, cs, V)
                    /\ \A j \in 1 .. n : r[j] = m[j]
  BY DEF UpdatesCalls, CallsChanged
<1>1. PICK l \in Nat : l = Len(cs) /\ l = Len(es)
  OBVIOUS
<1>2. PICK f : AppliesInTurn(f, m, es) /\ r = f[l]
  BY <1>1 DEF Leads
<1>3. PICK Q : Q = Seq(ShownPart)
  OBVIOUS
<1>4. f \in [0 .. l -> Q] /\ f[0] = m /\ \A k \in 1 .. l : f[k] = Apply(f[k - 1], es[k])
  BY <1>1, <1>2, <1>3 DEF AppliesInTurn
<1>5. /\ Len(m) = n + l
      /\ \A i \in 1 .. l : m[n + i].kind = "tool-call" /\ m[n + i].pieces = cs[i]
  BY <1>1 DEF ShowsCalls
<1> DEFINE Changed(k) == /\ Len(f[k]) = n + l
                         /\ \A j \in 1 .. n : f[k][j] = m[j]
                         /\ \A i \in 1 .. l : /\ f[k][n + i].kind = "tool-call"
                                              /\ f[k][n + i].pieces = cs[i]
                                              /\ i <= k => f[k][n + i].state \in V
           U == {k \in Nat : k <= l => Changed(k)}
<1>6. 0 \in U
  <2>1. PICK q : q = f[0] /\ q = m
    BY <1>4
  <2>2. \A i \in 1 .. l : q[n + i].kind = "tool-call" /\ q[n + i].pieces = cs[i] /\ ~(i <= 0)
    BY <1>5, <2>1
  <2>3. Changed(0)
    BY <1>5, <2>1, <2>2
  <2>4. QED
    BY <2>3
<1>7. ASSUME NEW k \in Nat, k \in U PROVE k + 1 \in U
  <2> SUFFICES ASSUME k + 1 <= l PROVE Changed(k + 1)
    <3> HIDE DEF Changed
    <3>1. QED
      OBVIOUS
  <2>0. k \in 0 .. l /\ k + 1 \in 1 .. l /\ (k + 1) - 1 = k
    OBVIOUS
  <2>1. Changed(k) /\ k \in 0 .. l /\ k + 1 \in 1 .. l /\ (k + 1) - 1 = k
    <3> HIDE DEF Changed
    <3>1. QED
      BY <1>7, <2>0
  <2>2. PICK q \in Seq(ShownPart) : q = f[k]
    BY <1>3, <1>4, <2>1
  <2>3. PICK e \in Updates : e = es[k + 1]
    BY <1>1, <2>1
  <2>4. e.part = n + k + 1 /\ e.state \in V
    BY <1>1, <2>1, <2>3
  <2>5. PICK t : t = Apply(q, e) /\ t = f[k + 1]
    BY <1>4, <2>1, <2>2, <2>3
  <2>6. Len(q) = n + l
    BY <2>1, <2>2
  <2>7. /\ Len(t) = n + l
        /\ \A i \in 1 .. n + l : t[i] = IF i = e.part THEN UpdatedPart(q[i], e) ELSE q[i]
    <3>1. Changes(q, e, t)
      BY <2>5, PartChanged
    <3>2. QED
      BY <2>6, <3>1 DEF Changes
  <2>8. ASSUME NEW j \in 1 .. n PROVE t[j] = m[j]
    <3>1. j \in 1 .. n + l /\ j # e.part
      BY <2>4
    <3>2. QED
      BY <2>1, <2>2, <2>7, <3>1
  <2>9. ASSUME NEW i \in 1 .. l
        PROVE  t[n + i].kind = "tool-call" /\ t[n + i].pieces = cs[i]
               /\ (i <= k + 1 => t[n + i].state \in V)
    <3>1. n + i \in 1 .. n + l
      OBVIOUS
    <3>2. PICK p \in ShownPart : p = q[n + i] /\ p.kind = "tool-call" /\ p.pieces = cs[i]
      <4>1. PICK j \in 1 .. Len(q) : j = n + i
        BY <2>6, <3>1
      <4>2. q[j] \in ShownPart
        OBVIOUS
      <4>3. q[n + i].kind = "tool-call" /\ q[n + i].pieces = cs[i]
        BY <2>1, <2>2
      <4>4. QED
        BY <4>1, <4>2, <4>3
    <3>3. CASE i = k + 1
      <4>1. PICK u : u = UpdatedPart(p, e)
        OBVIOUS
      <4>2. t[n + i] = u
        BY <2>4, <2>7, <3>1, <3>2, <3>3, <4>1
      <4>3. u.kind = "tool-call" /\ u.pieces = p.pieces /\ u.state = e.state
        BY <3>2, <4>1, UpdatedPartIs
      <4>4. QED
        BY <2>4, <3>2, <4>2, <4>3
    <3>4. CASE i # k + 1
      <4>1. n + i # e.part
        BY <2>4, <3>4
      <4>2. t[n + i] = q[n + i]
        BY <2>7, <3>1, <4>1
      <4>3. i <= k + 1 => i <= k
        BY <3>4
      <4>4. QED
        BY <2>1, <2>2, <3>2, <4>2, <4>3
    <3>5. QED
      BY <3>3, <3>4
  <2>10. QED
    BY <2>5, <2>7, <2>8, <2>9
<1>8. \A k \in Nat : k \in U
  <2> HIDE DEF U
  <2>1. QED
    BY <1>6, <1>7, Induction
<1>9. Changed(l)
  <2>1. l \in U /\ l <= l
    <3> HIDE DEF U
    <3>1. QED
      BY <1>8
  <2> HIDE DEF Changed
  <2>2. QED
    BY <2>1
<1>10. QED
  BY <1>1, <1>2, <1>9 DEF ShowsCalls

-----------------------------------------------------------------------------
(* The reply that the engine has assembled is what was sent.               *)
ReplyBounds == ReplyCalls \in Nat

Words == (Rendering!Content \cup {"call"}) \X (0 .. ReplyCalls)
Replies == [text : Seq(Nat), reasoning : Seq(Nat), calls : Seq(Seq(Nat))]
CallWords == {<<"call", i>> : i \in 1 .. Len(reply.calls)}

\* The text and the reasoning have part 1 and part 2, in the order they began.
Opened(t, r) ==
  \/ t = 0 /\ r = 0
  \/ t = 1 /\ r = 0
  \/ t = 0 /\ r = 1
  \/ t = 1 /\ r = 2
  \/ t = 2 /\ r = 1
OpenParts(t, r) == (IF t > 0 THEN 1 ELSE 0) + (IF r > 0 THEN 1 ELSE 0)
ContentParts == OpenParts(partOf["text"], partOf["reasoning"])

ReplyTyped ==
  /\ sent \in Seq(Words) /\ reply \in Replies /\ partOf \in [Rendering!Content -> Nat]
  /\ stage \in {"streaming", "calling", "done", "failed"}
  /\ events \in Seq(Events) /\ read \in 0 .. 2 * Len(events) /\ message \in Seq(ShownPart)

ReplyKept ==
  /\ \A k \in Rendering!Content : /\ reply[k] = PiecesIn(sent, <<k, 0>>)
                                  /\ partOf[k] > 0 <=> reply[k] # <<>>
  /\ Opened(partOf["text"], partOf["reasoning"])
  /\ Len(reply.calls) <= ReplyCalls
  /\ \A i \in 1 .. Len(reply.calls) : /\ reply.calls[i] = PiecesIn(sent, <<"call", i>>)
                                      /\ reply.calls[i] # <<>>
  /\ \A n \in 1 .. Len(sent) :
       sent[n] \in {<<"text", 0>>, <<"reasoning", 0>>} \cup CallWords

LEMMA ContentIs ==
  /\ Rendering!Content = {"text", "reasoning"}
  /\ reply["text"] = reply.text /\ reply["reasoning"] = reply.reasoning
  /\ \A k \in Rendering!Content : k # "tool-call" /\ k # "call" /\ k \in Kinds
BY DEF Rendering!Content, Kinds

LEMMA OpenPartsAre ==
  ASSUME partOf \in [Rendering!Content -> Nat]
  PROVE  Cardinality({k \in Rendering!Content : partOf[k] > 0}) = ContentParts
<1>1. PICK a, b : a = "text" /\ b = "reasoning" /\ a # b /\ Rendering!Content = {a, b}
  BY DEF Rendering!Content
<1>2. PICK C : C = {k \in {a, b} : partOf[k] > 0}
  OBVIOUS
<1>3. CASE partOf[a] > 0 /\ partOf[b] > 0
  <2>1. C = {a, b}
    BY <1>2, <1>3
  <2>2. Cardinality({a, b}) = 2
    <3>1. IsFiniteSet({a}) /\ Cardinality({a}) = 1
      BY FS_Singleton
    <3>2. {a, b} = {a} \cup {b} /\ b \notin {a}
      BY <1>1
    <3>3. Cardinality({a} \cup {b}) = Cardinality({a}) + 1
      BY <3>1, <3>2, FS_AddElement
    <3>4. QED
      BY <3>1, <3>2, <3>3
  <2>3. QED
    BY <1>1, <1>2, <1>3, <2>1, <2>2 DEF ContentParts, OpenParts
<1>4. CASE partOf[a] > 0 /\ ~(partOf[b] > 0)
  <2>1. C = {a}
    BY <1>2, <1>4
  <2>2. Cardinality({a}) = 1
    BY FS_Singleton
  <2>3. QED
    BY <1>1, <1>2, <1>4, <2>1, <2>2 DEF ContentParts, OpenParts
<1>5. CASE ~(partOf[a] > 0) /\ partOf[b] > 0
  <2>1. C = {b}
    BY <1>2, <1>5
  <2>2. Cardinality({b}) = 1
    BY FS_Singleton
  <2>3. QED
    BY <1>1, <1>2, <1>5, <2>1, <2>2 DEF ContentParts, OpenParts
<1>6. CASE ~(partOf[a] > 0) /\ ~(partOf[b] > 0)
  <2>1. C = {}
    BY <1>2, <1>6
  <2>2. Cardinality({}) = 0
    BY FS_EmptySet
  <2>3. QED
    BY <1>1, <1>2, <1>6, <2>1, <2>2 DEF ContentParts, OpenParts
<1>7. QED
  BY <1>3, <1>4, <1>5, <1>6

(* A delta of the content.                                                 *)
ContentAdded(kind) ==
  /\ sent' = Append(sent, <<kind, 0>>)
  /\ reply' \in Replies /\ reply'.calls = reply.calls
  /\ reply'[kind] = Append(reply[kind], Len(sent) + 1)
  /\ \A k \in Rendering!Content : k # kind => reply'[k] = reply[k]
  /\ partOf' \in [Rendering!Content -> Nat]
  /\ partOf'[kind] = IF partOf[kind] > 0 THEN partOf[kind] ELSE ContentParts + 1
  /\ \A k \in Rendering!Content : k # kind => partOf'[k] = partOf[k]

LEMMA ContentReplies ==
  ASSUME ReplyTyped, NEW kind \in Rendering!Content, Rendering!ContentDelta(kind)
  PROVE  ContentAdded(kind)
<1>1. /\ sent' = Append(sent, <<kind, 0>>)
      /\ reply' = [reply EXCEPT ![kind] = Append(@, Len(sent) + 1)]
  BY DEF Rendering!ContentDelta, Rendering!Send, Rendering!Piece
<1>2. PICK l \in Seq(Nat) : l = Append(reply[kind], Len(sent) + 1)
  <2>1. reply.text \in Seq(Nat) /\ reply.reasoning \in Seq(Nat) /\ Len(sent) + 1 \in Nat
    BY DEF ReplyTyped, Replies
  <2>2. reply[kind] \in Seq(Nat)
    BY <2>1, ContentIs
  <2>3. PICK p \in Seq(Nat), n \in Nat : p = reply[kind] /\ n = Len(sent) + 1
    BY <2>1, <2>2
  <2>4. Append(p, n) \in Seq(Nat)
    OBVIOUS
  <2>5. QED
    BY <2>3, <2>4
<1>3. reply' = [reply EXCEPT ![kind] = l]
  BY <1>1, <1>2
<1>4. /\ reply' \in Replies /\ reply'.calls = reply.calls /\ reply'[kind] = l
      /\ \A k \in Rendering!Content : k # kind => reply'[k] = reply[k]
  <2>1. CASE kind = "text"
    <3>1. reply' = [text |-> l, reasoning |-> reply.reasoning, calls |-> reply.calls]
      BY <1>3, <2>1 DEF ReplyTyped, Replies
    <3>2. QED
      BY <3>1, <2>1 DEF ReplyTyped, Replies, Rendering!Content
  <2>2. CASE kind = "reasoning"
    <3>1. reply' = [text |-> reply.text, reasoning |-> l, calls |-> reply.calls]
      BY <1>3, <2>2 DEF ReplyTyped, Replies
    <3>2. QED
      BY <3>1, <2>2 DEF ReplyTyped, Replies, Rendering!Content
  <2>3. QED
    BY <2>1, <2>2, ContentIs
<1>5. ContentParts \in Nat
  BY DEF ReplyTyped, ContentParts, OpenParts, Rendering!Content
<1>6. PICK p \in Nat : p = IF partOf[kind] > 0 THEN partOf[kind] ELSE ContentParts + 1
  <2>1. partOf[kind] \in Nat
    BY DEF ReplyTyped
  <2>2. QED
    BY <1>5, <2>1
<1>7. partOf' = [partOf EXCEPT ![kind] = p]
  <2>1. PICK c : c = Cardinality({k \in Rendering!Content : partOf[k] > 0}) /\ c = ContentParts
    <3>1. partOf \in [Rendering!Content -> Nat]
      BY DEF ReplyTyped
    <3>2. QED
      BY <3>1, OpenPartsAre
  <2>2. partOf' = [partOf EXCEPT ![kind] = IF partOf[kind] > 0 THEN partOf[kind] ELSE 1 + c]
    <3>1. PICK C : C = {k \in Rendering!Content : partOf[k] > 0}
      OBVIOUS
    <3>2. partOf' = [partOf EXCEPT ![kind] = IF partOf[kind] > 0 THEN partOf[kind]
                                             ELSE 1 + Rendering!Cardinality(C)]
      BY <3>1 DEF Rendering!ContentDelta
    <3>3. Rendering!Cardinality(C) = c
      BY <2>1, <3>1, SameInReply
    <3>4. QED
      BY <3>2, <3>3
  <2>3. (IF partOf[kind] > 0 THEN partOf[kind] ELSE 1 + c) = p
    BY <1>5, <1>6, <2>1
  <2>4. QED
    BY <2>2, <2>3
<1>8. /\ partOf' \in [Rendering!Content -> Nat] /\ partOf'[kind] = p
      /\ \A k \in Rendering!Content : k # kind => partOf'[k] = partOf[k]
  BY <1>7 DEF ReplyTyped
<1>9. QED
  BY <1>1, <1>2, <1>4, <1>6, <1>8 DEF ContentAdded

LEMMA ContentKept ==
  ASSUME ReplyBounds, ReplyTyped, ReplyKept, NEW kind \in Rendering!Content, ContentAdded(kind)
  PROVE  ReplyKept' /\ sent' \in Seq(Words)
<1>1. PICK w : w = <<kind, 0>>
  OBVIOUS
<1>2. w \in Words
  BY <1>1 DEF Words, ReplyBounds
<1>3. PICK n \in Nat : n = Len(sent)
  BY DEF ReplyTyped
<1>4. /\ sent \in Seq(Words) /\ sent' = Append(sent, w) /\ sent' \in Seq(Words)
      /\ Len(sent') = n + 1 /\ sent'[n + 1] = w /\ \A i \in 1 .. n : sent'[i] = sent[i]
  BY <1>1, <1>2, <1>3 DEF ReplyTyped, ContentAdded
<1>5. ASSUME NEW v
      PROVE  PiecesIn(sent', v) = IF v = w THEN Append(PiecesIn(sent, v), n + 1) ELSE PiecesIn(sent, v)
  BY <1>2, <1>3, <1>4, PiecesGrow
<1>6. ASSUME NEW k \in Rendering!Content
      PROVE  /\ reply'[k] = PiecesIn(sent', <<k, 0>>)
             /\ partOf'[k] > 0 <=> reply'[k] # <<>>
  <2>1. reply[k] = PiecesIn(sent, <<k, 0>>) /\ (partOf[k] > 0 <=> reply[k] # <<>>)
    BY DEF ReplyKept
  <2>2. CASE k = kind
    <3>1. reply'[k] = Append(PiecesIn(sent, w), n + 1)
      BY <1>1, <1>3, <2>1, <2>2 DEF ContentAdded
    <3>2. reply'[k] = PiecesIn(sent', w)
      BY <1>5, <3>1
    <3>3. PICK p \in Seq(Nat) : p = PiecesIn(sent, w)
      BY <1>4, PiecesTyped
    <3>4. Append(p, n + 1) # <<>>
      OBVIOUS
    <3>5. partOf'[k] > 0
      <4>1. ContentParts \in Nat /\ partOf[k] \in Nat
        BY DEF ReplyTyped, ContentParts, OpenParts, Rendering!Content
      <4>2. QED
        BY <2>2, <4>1 DEF ContentAdded
    <3>6. QED
      BY <1>1, <2>2, <3>1, <3>2, <3>3, <3>4, <3>5
  <2>3. CASE k # kind
    <3>1. reply'[k] = reply[k] /\ partOf'[k] = partOf[k]
      BY <2>3 DEF ContentAdded
    <3>2. <<k, 0>> # w
      BY <1>1, <2>3
    <3>3. QED
      BY <1>5, <2>1, <3>1, <3>2
  <2>4. QED
    BY <2>2, <2>3
<1>7. Opened(partOf'["text"], partOf'["reasoning"])
  <2>1. Opened(partOf["text"], partOf["reasoning"])
    BY DEF ReplyKept
  <2>2. CASE kind = "text"
    <3>1. partOf'["reasoning"] = partOf["reasoning"]
      BY <2>2, ContentIs DEF ContentAdded
    <3>2. partOf'["text"] = IF partOf["text"] > 0 THEN partOf["text"] ELSE ContentParts + 1
      BY <2>2 DEF ContentAdded
    <3>3. QED
      BY <2>1, <3>1, <3>2 DEF Opened, ContentParts, OpenParts
  <2>3. CASE kind = "reasoning"
    <3>1. partOf'["text"] = partOf["text"]
      BY <2>3, ContentIs DEF ContentAdded
    <3>2. partOf'["reasoning"] = IF partOf["reasoning"] > 0 THEN partOf["reasoning"] ELSE ContentParts + 1
      BY <2>3 DEF ContentAdded
    <3>3. QED
      BY <2>1, <3>1, <3>2 DEF Opened, ContentParts, OpenParts
  <2>4. QED
    BY <2>2, <2>3, ContentIs
<1>8. PICK cs : cs = reply.calls /\ cs = reply'.calls
  BY DEF ContentAdded
<1>9. ASSUME NEW i \in 1 .. Len(cs)
      PROVE  cs[i] = PiecesIn(sent', <<"call", i>>) /\ cs[i] # <<>>
  <2>1. cs[i] = PiecesIn(sent, <<"call", i>>) /\ cs[i] # <<>>
    BY <1>8 DEF ReplyKept
  <2>2. <<"call", i>> # w
    BY <1>1, ContentIs
  <2>3. QED
    BY <1>5, <2>1, <2>2
<1>10. ASSUME NEW j \in 1 .. Len(sent')
       PROVE  sent'[j] \in {<<"text", 0>>, <<"reasoning", 0>>} \cup {<<"call", i>> : i \in 1 .. Len(cs)}
  <2>1. CASE j \in 1 .. n
    BY <1>3, <1>4, <1>8, <2>1 DEF ReplyKept, CallWords
  <2>2. CASE j = n + 1
    BY <1>1, <1>4, <2>2, ContentIs
  <2>3. QED
    BY <1>3, <1>4, <2>1, <2>2
<1>11. Len(cs) <= ReplyCalls
  BY <1>8 DEF ReplyKept
<1>12. QED
  BY <1>4, <1>6, <1>7, <1>8, <1>9, <1>10, <1>11 DEF ReplyKept, CallWords

(* A delta of a call.                                                      *)
LEMMA CallKept ==
  ASSUME ReplyBounds, ReplyTyped, ReplyKept, NEW i \in Rendering!Indices, Rendering!ToolCallDelta(i)
  PROVE  /\ ReplyKept' /\ sent' \in Seq(Words) /\ reply' \in Replies
         /\ sent' = Append(sent, <<"call", i>>)
         /\ reply'.text = reply.text /\ reply'.reasoning = reply.reasoning
<1>1. PICK w : w = <<"call", i>>
  OBVIOUS
<1>2. i \in 1 .. ReplyCalls /\ w \in Words
  BY <1>1 DEF Words, ReplyBounds, Rendering!Indices
<1>3. PICK n \in Nat : n = Len(sent)
  BY DEF ReplyTyped
<1>4. /\ sent \in Seq(Words) /\ sent' = Append(sent, w) /\ sent' \in Seq(Words)
      /\ Len(sent') = n + 1 /\ sent'[n + 1] = w /\ \A j \in 1 .. n : sent'[j] = sent[j]
  BY <1>1, <1>2, <1>3 DEF ReplyTyped, Rendering!ToolCallDelta, Rendering!Send
<1>5. ASSUME NEW v
      PROVE  PiecesIn(sent', v) = IF v = w THEN Append(PiecesIn(sent, v), n + 1) ELSE PiecesIn(sent, v)
  BY <1>2, <1>3, <1>4, PiecesGrow
<1>6. PICK cs \in Seq(Seq(Nat)), l \in Nat : cs = reply.calls /\ l = Len(cs)
  BY DEF ReplyTyped, Replies
<1>7. /\ l <= ReplyCalls /\ i <= l + 1
      /\ \A j \in 1 .. l : cs[j] = PiecesIn(sent, <<"call", j>>) /\ cs[j] # <<>>
  BY <1>6 DEF ReplyKept, Rendering!ToolCallDelta
<1>8. \A j : <<"call", j>> = w => j = i
  BY <1>1
<1>9. ASSUME NEW ds \in Seq(Seq(Nat)), reply' = [reply EXCEPT !.calls = ds]
      PROVE  /\ reply' \in Replies /\ reply'.calls = ds
             /\ reply'.text = reply.text /\ reply'.reasoning = reply.reasoning
  <2>1. reply' = [text |-> reply.text, reasoning |-> reply.reasoning, calls |-> ds]
    BY <1>9 DEF ReplyTyped, Replies
  <2>2. QED
    BY <2>1 DEF ReplyTyped, Replies
<1>10. \E ds \in Seq(Seq(Nat)) :
         /\ reply' = [reply EXCEPT !.calls = ds]
         /\ Len(ds) <= ReplyCalls /\ l <= Len(ds) /\ i \in 1 .. Len(ds)
         /\ \A j \in 1 .. Len(ds) : ds[j] = PiecesIn(sent', <<"call", j>>) /\ ds[j] # <<>>
  <2>1. CASE i > l
    <3>1. i = l + 1
      BY <1>2, <1>7, <2>1
    <3>2. PICK p : p = <<n + 1>>
      OBVIOUS
    <3>3. p \in Seq(Nat) /\ p # <<>>
      BY <3>2
    <3>4. PICK ds : ds = Append(cs, p)
      OBVIOUS
    <3>5. ds \in Seq(Seq(Nat)) /\ Len(ds) = l + 1 /\ ds[l + 1] = p /\ \A j \in 1 .. l : ds[j] = cs[j]
      BY <1>6, <3>3, <3>4
    <3>6. reply' = [reply EXCEPT !.calls = ds]
      BY <1>3, <1>6, <2>1, <3>2, <3>4 DEF Rendering!ToolCallDelta, Rendering!Piece
    <3>7. PiecesIn(sent, w) = <<>>
      <4>1. ASSUME NEW j \in 1 .. n PROVE sent[j] # w
        <5>1. sent[j] \in {<<"text", 0>>, <<"reasoning", 0>>} \cup {<<"call", k>> : k \in 1 .. l}
          BY <1>3, <1>6 DEF ReplyKept, CallWords
        <5>2. w \notin {<<"call", k>> : k \in 1 .. l}
          BY <1>1, <3>1
        <5>3. QED
          BY <1>1, <5>1, <5>2
      <4>2. Places(sent, w) = {}
        BY <1>3, <4>1 DEF Places
      <4>3. PICK q \in Seq(Nat) : q = PiecesIn(sent, w) /\ ElementsOf(q) = {}
        BY <1>4, <4>2, PiecesTyped
      <4>4. Len(q) = 0
        <5>1. Len(q) # 0 => q[1] \in ElementsOf(q)
          BY DEF ElementsOf
        <5>2. QED
          BY <4>3, <5>1
      <4>5. QED
        BY <4>3, <4>4
    <3>8. PiecesIn(sent', w) = p
      <4>1. Append(<<>>, n + 1) = p
        BY <3>2
      <4>2. QED
        BY <1>5, <3>7, <4>1
    <3>9. ASSUME NEW j \in 1 .. l + 1 PROVE ds[j] = PiecesIn(sent', <<"call", j>>) /\ ds[j] # <<>>
      <4>1. CASE j = l + 1
        BY <1>1, <3>1, <3>3, <3>5, <3>8, <4>1
      <4>2. CASE j # l + 1
        <5>1. j \in 1 .. l /\ <<"call", j>> # w
          BY <1>8, <3>1, <4>2
        <5>2. QED
          BY <1>5, <1>7, <3>5, <5>1
      <4>3. QED
        BY <4>1, <4>2
    <3>10. Len(ds) <= ReplyCalls /\ l <= Len(ds) /\ i \in 1 .. Len(ds)
      BY <1>2, <3>1, <3>5 DEF ReplyBounds
    <3>11. \A j \in 1 .. Len(ds) : ds[j] = PiecesIn(sent', <<"call", j>>) /\ ds[j] # <<>>
      BY <3>5, <3>9
    <3>12. QED
      BY <3>5, <3>6, <3>10, <3>11, ZenonT(30)
  <2>2. CASE ~(i > l)
    <3>1. i \in 1 .. l
      BY <1>2, <2>2
    <3>2. PICK q \in Seq(Nat) : q = cs[i]
      BY <1>6, <3>1
    <3>3. PICK p \in Seq(Nat) : p = Append(q, n + 1) /\ p # <<>>
      <4>1. PICK p : p = Append(q, n + 1)
        OBVIOUS
      <4>2. p \in Seq(Nat) /\ Len(p) = Len(q) + 1 /\ Len(q) \in Nat
        BY <4>1
      <4>3. p # <<>>
        BY <4>2
      <4>4. QED
        BY <4>1, <4>2, <4>3
    <3>4. PICK ds : ds = [cs EXCEPT ![i] = p]
      OBVIOUS
    <3>5. /\ ds \in Seq(Seq(Nat)) /\ Len(ds) = l /\ ds[i] = p
          /\ \A j \in 1 .. l : j # i => ds[j] = cs[j]
      BY <1>6, <3>1, <3>3, <3>4
    <3>6. reply' = [reply EXCEPT !.calls = ds]
      <4>1. reply' = [reply EXCEPT !.calls[i] = Append(@, n + 1)]
        BY <1>3, <1>6, <2>2 DEF Rendering!ToolCallDelta, Rendering!Piece
      <4>2. [reply.calls EXCEPT ![i] = Append(@, n + 1)] = ds
        BY <1>6, <3>2, <3>3, <3>4
      <4>3. QED
        BY <4>1, <4>2
    <3>7. ASSUME NEW j \in 1 .. l PROVE ds[j] = PiecesIn(sent', <<"call", j>>) /\ ds[j] # <<>>
      <4>1. CASE j = i
        BY <1>1, <1>5, <1>7, <3>1, <3>2, <3>3, <3>5, <4>1
      <4>2. CASE j # i
        <5>1. <<"call", j>> # w
          BY <1>8, <4>2
        <5>2. QED
          BY <1>5, <1>7, <3>5, <4>2, <5>1
      <4>3. QED
        BY <4>1, <4>2
    <3>8. Len(ds) <= ReplyCalls /\ l <= Len(ds) /\ i \in 1 .. Len(ds)
      BY <1>7, <3>1, <3>5
    <3>9. \A j \in 1 .. Len(ds) : ds[j] = PiecesIn(sent', <<"call", j>>) /\ ds[j] # <<>>
      BY <3>5, <3>7
    <3>10. QED
      BY <3>5, <3>6, <3>8, <3>9, ZenonT(30)
  <2>3. QED
    BY <2>1, <2>2
<1>11. PICK ds \in Seq(Seq(Nat)) :
         /\ reply' = [reply EXCEPT !.calls = ds]
         /\ Len(ds) <= ReplyCalls /\ l <= Len(ds) /\ i \in 1 .. Len(ds)
         /\ \A j \in 1 .. Len(ds) : ds[j] = PiecesIn(sent', <<"call", j>>) /\ ds[j] # <<>>
  BY <1>10
<1>12. /\ reply' \in Replies /\ reply'.calls = ds
       /\ reply'.text = reply.text /\ reply'.reasoning = reply.reasoning
  BY <1>9, <1>11
<1>13. UNCHANGED partOf
  BY DEF Rendering!ToolCallDelta
<1>14. ASSUME NEW k \in Rendering!Content
       PROVE  /\ reply'[k] = PiecesIn(sent', <<k, 0>>)
              /\ partOf'[k] > 0 <=> reply'[k] # <<>>
  <2>1. reply[k] = PiecesIn(sent, <<k, 0>>) /\ (partOf[k] > 0 <=> reply[k] # <<>>)
    BY DEF ReplyKept
  <2>2. <<k, 0>> # w
    BY <1>1, ContentIs
  <2>3. reply'[k] = reply[k]
    <3>1. reply'["text"] = reply["text"] /\ reply'["reasoning"] = reply["reasoning"]
      BY <1>12
    <3>2. QED
      BY <3>1, ContentIs
  <2>4. QED
    BY <1>5, <1>13, <2>1, <2>2, <2>3
<1>15. ASSUME NEW j \in 1 .. Len(sent')
       PROVE  sent'[j] \in {<<"text", 0>>, <<"reasoning", 0>>} \cup {<<"call", k>> : k \in 1 .. Len(ds)}
  <2>1. CASE j \in 1 .. n
    <3>1. sent'[j] \in {<<"text", 0>>, <<"reasoning", 0>>} \cup {<<"call", k>> : k \in 1 .. l}
      BY <1>3, <1>4, <1>6, <2>1 DEF ReplyKept, CallWords
    <3>2. \A k \in 1 .. l : k \in 1 .. Len(ds)
      BY <1>11
    <3>3. QED
      BY <3>1, <3>2
  <2>2. CASE j = n + 1
    BY <1>1, <1>4, <1>11, <2>2
  <2>3. j \in 1 .. n \/ j = n + 1
    BY <1>4
  <2>4. QED
    BY <2>1, <2>2, <2>3
<1>16. Opened(partOf'["text"], partOf'["reasoning"])
  BY <1>13 DEF ReplyKept
<1>17. ReplyKept'
  BY <1>11, <1>12, <1>14, <1>15, <1>16 DEF ReplyKept, CallWords
<1>18. QED
  BY <1>1, <1>4, <1>12, <1>17

-----------------------------------------------------------------------------
(* Where each piece belongs.  The calls are announced when the stream has  *)
(* ended, and then no part is opened before them any more.                 *)
Home(n) == IF sent[n][1] = "call" THEN ContentParts + sent[n][2] ELSE partOf[sent[n][1]]
Homes == {x \in (1 .. Len(sent)) \X Nat : /\ x[2] = Home(x[1])
                                          /\ sent[x[1]][1] = "call" => stage # "streaming"}

AllInPlace ==
  /\ InPlace(message, Homes)
  /\ \A k \in 1 .. Len(events) : ForItsPart(events[k], Homes)

\* What a client shows that has applied all of the events.
LastShown(m) ==
  /\ stage = "streaming" =>
       /\ Len(m) = ContentParts
       /\ \A k \in Rendering!Content : ShowsPart(m, partOf[k], k, reply[k], "streaming")
  /\ stage \in {"calling", "done"} =>
       /\ \A k \in Rendering!Content : ShowsPart(m, partOf[k], k, reply[k], "done")
       /\ ShowsCalls(m, ContentParts, reply.calls,
                     IF stage = "calling" THEN {"pending"} ELSE {"complete", "error"})

RenderKept ==
  \E f : Follows(f, events, message, read, dropped) /\ LastShown(f[Len(events)])

ReplyState == ReplyTyped /\ ReplyKept /\ AllInPlace /\ RenderKept

LEMMA InMore ==
  ASSUME NEW R, NEW V, R \subseteq V
  PROVE  /\ \A m : InPlace(m, R) => InPlace(m, V)
         /\ \A e : ForItsPart(e, R) => ForItsPart(e, V)
<1>1. \A ps, p : OfPart(ps, p, R) => OfPart(ps, p, V)
  BY DEF OfPart
<1>2. QED
  BY <1>1 DEF InPlace, ForItsPart

(* A step of the engine.                                                   *)
LEMMA EngineSteps ==
  ASSUME ReplyState, ReplyTyped', ReplyKept',
         NEW more \in Seq(Events), events' = events \o more,
         UNCHANGED <<read, message, dropped>>,
         Homes \subseteq Homes', \A k \in 1 .. Len(more) : ForItsPart(more[k], Homes'),
         \A m \in Seq(ShownPart), r \in Seq(ShownPart) :
           LastShown(m) /\ Leads(m, more, r) => LastShown(r)'
  PROVE  ReplyState'
<1>1. events \in Seq(Events) /\ message' = message /\ read' = read /\ dropped' = dropped
  BY DEF ReplyState, ReplyTyped
<1>2. PICK V : V = Homes'
  OBVIOUS
<1>3. AllInPlace'
  <2>1. InPlace(message, V) /\ \A k \in 1 .. Len(events) : ForItsPart(events[k], V)
    BY <1>2, InMore DEF ReplyState, AllInPlace
  <2>2. PICK w : w = events \o more
    OBVIOUS
  <2>3. PICK n \in Nat, l \in Nat : n = Len(events) /\ l = Len(more)
    BY <1>1
  <2>4. /\ Len(w) = n + l
        /\ \A k \in 1 .. n : w[k] = events[k]
        /\ \A k \in 1 .. l : w[n + k] = more[k]
    BY <1>1, <2>2, <2>3, ConcatIs
  <2>5. ASSUME NEW k \in 1 .. Len(w) PROVE ForItsPart(w[k], V)
    <3>1. CASE k \in 1 .. n
      BY <2>1, <2>3, <2>4, <3>1
    <3>2. CASE k \notin 1 .. n
      <4>1. PICK j \in 1 .. l : k = n + j
        <5>1. k - n \in 1 .. l /\ k = n + (k - n)
          BY <2>4, <3>2
        <5>2. QED
          BY <5>1
      <4>2. ForItsPart(more[j], V)
        BY <1>2, <2>3
      <4>3. QED
        BY <2>4, <4>1, <4>2
    <3>3. QED
      BY <3>1, <3>2
  <2>6. InPlace(message', V) /\ \A k \in 1 .. Len(events') : ForItsPart(events'[k], V)
    BY <1>1, <2>1, <2>2, <2>5
  <2>7. QED
    BY <1>2, <2>6 DEF AllInPlace
<1>4. PICK f : Follows(f, events, message, read, dropped) /\ LastShown(f[Len(events)])
  BY DEF ReplyState, RenderKept
<1>5. PICK m : m = f[Len(events)]
  OBVIOUS
<1>6. m \in Seq(ShownPart)
  <2>1. Len(events) \in 0 .. Len(events)
    BY <1>1
  <2>2. QED
    BY <1>4, <1>5, <2>1 DEF Follows, AppliesInTurn
<1>7. PICK g : /\ Follows(g, events \o more, message, read, dropped)
               /\ Leads(f[Len(events)], more, g[Len(events \o more)])
  BY <1>1, <1>4, FollowsFurther
<1>8. PICK r : r = g[Len(events \o more)]
  OBVIOUS
<1>9. Leads(m, more, r)
  BY <1>5, <1>7, <1>8
<1>10. r \in Seq(ShownPart)
  BY <1>9, LeadsTyped
<1>11. LastShown(r)'
  BY <1>4, <1>5, <1>6, <1>9, <1>10
<1>12. RenderKept'
  <2>1. Follows(g, events', message', read', dropped') /\ r = g[Len(events')]
    BY <1>1, <1>7, <1>8
  <2>2. QED
    BY <1>11, <2>1 DEF RenderKept
<1>13. QED
  BY <1>3, <1>12 DEF ReplyState

LEMMA ContentHasPart ==
  ASSUME ReplyTyped, ReplyKept, NEW n \in 1 .. Len(sent), NEW k \in Rendering!Content,
         sent[n] = <<k, 0>>
  PROVE  partOf[k] > 0
<1>1. n \in Places(sent, <<k, 0>>)
  BY DEF Places
<1>2. PICK q \in Seq(Nat) : q = reply[k] /\ ElementsOf(q) = Places(sent, <<k, 0>>)
  <2>1. sent \in Seq(Words) /\ reply[k] = PiecesIn(sent, <<k, 0>>)
    BY DEF ReplyTyped, ReplyKept
  <2>2. QED
    BY <2>1, PiecesTyped
<1>3. q # <<>>
  <2>1. PICK j \in 1 .. Len(q) : q[j] = n
    BY <1>1, <1>2 DEF ElementsOf
  <2>2. QED
    OBVIOUS
<1>4. QED
  BY <1>2, <1>3 DEF ReplyKept

LEMMA WordsSent ==
  ASSUME ReplyKept, NEW n \in 1 .. Len(sent)
  PROVE  \/ \E k \in Rendering!Content : sent[n] = <<k, 0>> /\ sent[n][1] # "call"
         \/ \E i \in 1 .. Len(reply.calls) : sent[n] = <<"call", i>> /\ sent[n][1] = "call"
<1>1. sent[n] \in {<<"text", 0>>, <<"reasoning", 0>>} \cup CallWords
  BY DEF ReplyKept
<1>2. CASE sent[n] \in CallWords
  BY <1>2 DEF CallWords
<1>3. CASE sent[n] = <<"text", 0>>
  BY <1>3 DEF Rendering!Content
<1>4. CASE sent[n] = <<"reasoning", 0>>
  BY <1>4 DEF Rendering!Content
<1>5. QED
  BY <1>1, <1>2, <1>3, <1>4

-----------------------------------------------------------------------------
(* The parts of the stored row.                                            *)
StoredPart == [kind : Kinds, pieces : Seq(Nat)]
OfReasoning == [kind |-> "reasoning", pieces |-> reply.reasoning]
OfText == [kind |-> "text", pieces |-> reply.text]
OfCalls == [i \in 1 .. Len(reply.calls) |-> [kind |-> "tool-call", pieces |-> reply.calls[i]]]
InFront == IF reply.reasoning # <<>> THEN <<OfReasoning>> ELSE <<>>
Behind == IF reply.text # <<>> \/ reply.calls = <<>> THEN <<OfText>> ELSE <<>>

LEMMA StoredAre ==
  ASSUME reply \in Replies
  PROVE  /\ OfReasoning \in StoredPart /\ OfText \in StoredPart
         /\ InFront \in Seq(StoredPart) /\ Behind \in Seq(StoredPart) /\ OfCalls \in Seq(StoredPart)
         /\ Len(OfCalls) = Len(reply.calls)
         /\ Rendering!StoredParts = (InFront \o Behind) \o OfCalls
<1>1. /\ reply.reasoning \in Seq(Nat) /\ reply.text \in Seq(Nat) /\ reply.calls \in Seq(Seq(Nat))
      /\ DOMAIN reply.calls = 1 .. Len(reply.calls)
  BY DEF Replies
<1>2. OfReasoning \in StoredPart /\ OfText \in StoredPart
  BY <1>1 DEF OfReasoning, OfText, StoredPart, Kinds
<1>3. PICK a, b : a = OfReasoning /\ b = OfText
  OBVIOUS
<1>4. <<a>> \in Seq(StoredPart) /\ <<b>> \in Seq(StoredPart) /\ <<>> \in Seq(StoredPart)
  BY <1>2, <1>3
<1>5. InFront \in Seq(StoredPart) /\ Behind \in Seq(StoredPart)
  BY <1>3, <1>4 DEF InFront, Behind
<1>6. OfCalls \in Seq(StoredPart) /\ Len(OfCalls) = Len(reply.calls)
  <2>1. PICK l \in Nat, cs \in Seq(Seq(Nat)) : l = Len(reply.calls) /\ cs = reply.calls
    BY <1>1
  <2>2. ASSUME NEW i \in 1 .. l PROVE [kind |-> "tool-call", pieces |-> cs[i]] \in StoredPart
    BY <1>1, <2>1 DEF StoredPart, Kinds
  <2>3. PICK h : h = OfCalls
    OBVIOUS
  <2>4. h \in [1 .. l -> StoredPart]
    BY <2>1, <2>2, <2>3 DEF OfCalls
  <2>5. QED
    BY <2>1, <2>3, <2>4, FunctionIsList
<1>7. Rendering!StoredParts = (InFront \o Behind) \o OfCalls
  <2>1. PICK c : c = OfCalls
    OBVIOUS
  <2>2. c = [i \in DOMAIN reply.calls |-> [kind |-> "tool-call", pieces |-> reply.calls[i]]]
    BY <1>1, <2>1 DEF OfCalls
  <2>3. Rendering!StoredParts =
             ((IF reply.reasoning # <<>> THEN <<a>> ELSE <<>>)
          \o (IF reply.text # <<>> \/ reply.calls = <<>> THEN <<b>> ELSE <<>>)) \o c
    BY <1>3, <2>2 DEF Rendering!StoredParts, OfReasoning, OfText
  <2>4. QED
    BY <1>3, <2>1, <2>3 DEF InFront, Behind
<1>8. QED
  BY <1>2, <1>5, <1>6, <1>7

LEMMA FirstCallPartIs ==
  ASSUME ReplyTyped, ReplyKept, reply.calls # <<>>
  PROVE  Rendering!FirstCallPart = ContentParts
<1>1. reply \in Replies
  BY DEF ReplyTyped
<1>2. PICK a \in Seq(StoredPart), b \in Seq(StoredPart), c \in Seq(StoredPart) :
        /\ a = InFront /\ b = Behind /\ c = OfCalls
        /\ Len(c) = Len(reply.calls) /\ Rendering!StoredParts = (a \o b) \o c
  BY <1>1, StoredAre
<1>3. PICK d : d = (a \o b) \o c
  OBVIOUS
<1>4. Len(d) = Len(a) + Len(b) + Len(c) /\ Len(a) \in Nat /\ Len(b) \in Nat /\ Len(c) \in Nat
  <2>0. a \o b \in Seq(StoredPart) /\ Len(a \o b) = Len(a) + Len(b)
    BY ConcatIs
  <2>1. PICK u \in Seq(StoredPart) : u = a \o b /\ Len(u) = Len(a) + Len(b)
    BY <2>0
  <2>2. Len(u \o c) = Len(u) + Len(c)
    BY ConcatIs
  <2>3. Len(a) \in Nat /\ Len(b) \in Nat /\ Len(c) \in Nat
    OBVIOUS
  <2>4. QED
    BY <1>2, <1>3, <2>1, <2>2, <2>3
<1>5. Rendering!FirstCallPart = Len(a) + Len(b)
  BY <1>2, <1>3, <1>4 DEF Rendering!FirstCallPart
<1>6. /\ partOf["reasoning"] > 0 <=> reply.reasoning # <<>>
      /\ partOf["text"] > 0 <=> reply.text # <<>>
  BY ContentIs DEF ReplyKept
<1>7. PICK x, y : x = OfReasoning /\ y = OfText
  OBVIOUS
<1>8. Len(<<x>>) = 1 /\ Len(<<y>>) = 1 /\ Len(<<>>) = 0
  OBVIOUS
<1>9. Len(a) = IF partOf["reasoning"] > 0 THEN 1 ELSE 0
  BY <1>2, <1>6, <1>7, <1>8 DEF InFront
<1>10. Len(b) = IF partOf["text"] > 0 THEN 1 ELSE 0
  BY <1>2, <1>6, <1>7, <1>8 DEF Behind
<1>11. QED
  BY <1>4, <1>5, <1>9, <1>10 DEF ContentParts, OpenParts

-----------------------------------------------------------------------------
(* The steps of the engine.                                                *)
LEMMA ConcatAssociative ==
  ASSUME NEW S, NEW a \in Seq(S), NEW b \in Seq(S), NEW c \in Seq(S)
  PROVE  (a \o b) \o c = a \o (b \o c)
OBVIOUS

LEMMA AppendedBehind ==
  ASSUME NEW S, NEW p \in Seq(S), NEW q \in Seq(S), NEW x \in S
  PROVE  Append(p \o q, x) = p \o (q \o <<x>>)
<1>1. <<x>> \in Seq(S)
  OBVIOUS
<1>2. PICK z \in Seq(S) : z = <<x>>
  BY <1>1
<1>a. p \o q \in Seq(S)
  OBVIOUS
<1>3. PICK w \in Seq(S) : w = p \o q
  BY <1>a, Zenon
<1>4. Append(w, x) = w \o <<x>>
  OBVIOUS
<1>5. (p \o q) \o z = p \o (q \o z)
  BY ConcatAssociative
<1>6. QED
  BY <1>2, <1>3, <1>4, <1>5, Zenon

LEMMA UpdateTyped ==
  ASSUME NEW p \in Nat \ {0}, NEW ps \in Seq(Nat), NEW s \in States
  PROVE  /\ Rendering!Update(p, ps, s) \in Updates
         /\ Rendering!Update(p, ps, s).part = p /\ Rendering!Update(p, ps, s).pieces = ps
         /\ Rendering!Update(p, ps, s).state = s
BY DEF Rendering!Update, Updates

LEMMA CreateTyped ==
  ASSUME NEW p \in Nat \ {0}, NEW k \in Kinds, NEW ps \in Seq(Nat), NEW s \in States,
         NEW c, c = [type |-> "part_create", part |-> p, kind |-> k, pieces |-> ps, state |-> s]
  PROVE  c \in Creates /\ c.part = p /\ c.kind = k /\ c.pieces = ps /\ c.state = s
BY DEF Creates

LEMMA EventsTyped ==
  /\ Creates \subseteq Events /\ Updates \subseteq Events /\ Marks \subseteq Events
  /\ \A e \in Events : <<e>> \in Seq(Events)
  /\ <<>> \in Seq(Events)
BY DEF Events

LEMMA ContentEvents ==
  ASSUME ReplyTyped, ReplyKept, NEW kind \in Rendering!Content, Rendering!ContentDelta(kind)
  PROVE  \E c \in Creates, u \in Updates :
           /\ events' = (events \o (IF partOf[kind] = 0 THEN <<c>> ELSE <<>>)) \o <<u>>
           /\ c.part = partOf'[kind] /\ c.kind = kind /\ c.pieces = <<>> /\ c.state = "streaming"
           /\ u.part = partOf'[kind] /\ u.pieces = <<Len(sent) + 1>> /\ u.state = "streaming"
<1>1. ContentAdded(kind)
  BY ContentReplies
<1>2. ContentParts \in Nat /\ partOf[kind] \in Nat
  BY DEF ReplyTyped, ContentParts, OpenParts, Rendering!Content
<1>3. PICK p \in Nat \ {0} : p = partOf'[kind]
  BY <1>1, <1>2 DEF ContentAdded
<1>4. PICK z \in Seq(Nat), y \in Seq(Nat) : z = <<>> /\ y = <<Len(sent) + 1>>
  <2>1. Len(sent) + 1 \in Nat
    BY DEF ReplyTyped
  <2>2. <<>> \in Seq(Nat) /\ <<Len(sent) + 1>> \in Seq(Nat)
    BY <2>1
  <2>3. QED
    BY <2>2
<1>5. PICK c : c = [type |-> "part_create", part |-> p, kind |-> kind, pieces |-> z, state |-> "streaming"]
  OBVIOUS
<1>6. PICK u : u = Rendering!Update(p, y, "streaming")
  OBVIOUS
<1>7. c \in Creates /\ c.part = p /\ c.kind = kind /\ c.pieces = z /\ c.state = "streaming"
  <2>1. kind \in Kinds /\ "streaming" \in States
    BY ContentIs DEF States
  <2>2. QED
    BY <1>5, <2>1, CreateTyped
<1>8. u \in Updates /\ u.part = p /\ u.pieces = y /\ u.state = "streaming"
  <2>1. "streaming" \in States
    BY DEF States
  <2>2. QED
    BY <1>6, <2>1, UpdateTyped
<1>9. events' = (events \o (IF partOf[kind] = 0 THEN <<c>> ELSE <<>>)) \o <<u>>
  <2>1. PICK q : q = IF partOf[kind] > 0 THEN partOf[kind]
                     ELSE 1 + Rendering!Cardinality({k \in Rendering!Content : partOf[k] > 0})
    OBVIOUS
  <2>2. /\ partOf' = [partOf EXCEPT ![kind] = q]
        /\ events' = (events \o (IF partOf[kind] = 0
                                 THEN <<[type |-> "part_create", part |-> q, kind |-> kind,
                                         pieces |-> <<>>, state |-> "streaming"]>>
                                 ELSE <<>>))
                      \o <<Rendering!Update(q, <<Len(sent) + 1>>, "streaming")>>
    BY <2>1 DEF Rendering!ContentDelta, Rendering!Piece
  <2>3. q = p
    BY <1>3, <2>2 DEF ReplyTyped
  <2>4. QED
    BY <1>4, <1>5, <1>6, <2>2, <2>3
<1>10. QED
  BY <1>3, <1>4, <1>7, <1>8, <1>9

LEMMA PlacesDiffer ==
  ASSUME NEW k \in Rendering!Content, NEW j \in Rendering!Content, k # j,
         Opened(partOf["text"], partOf["reasoning"]), partOf[k] > 0
  PROVE  partOf[j] # partOf[k]
BY DEF Opened, Rendering!Content

LEMMA PlacesWithin ==
  ASSUME NEW k \in Rendering!Content, Opened(partOf["text"], partOf["reasoning"])
  PROVE  partOf[k] \in 0 .. ContentParts /\ ContentParts \in Nat
BY DEF Opened, Rendering!Content, ContentParts, OpenParts

AllFor(es, R) == \A k \in 1 .. Len(es) : ForItsPart(es[k], R)

LEMMA AllForThese ==
  ASSUME NEW R
  PROVE  /\ AllFor(<<>>, R)
         /\ \A e : ForItsPart(e, R) => AllFor(<<e>>, R)
         /\ \A a \in Seq(Events), b \in Seq(Events) : AllFor(a, R) /\ AllFor(b, R) => AllFor(a \o b, R)
<1>1. AllFor(<<>>, R)
  BY DEF AllFor
<1>2. ASSUME NEW e, ForItsPart(e, R) PROVE AllFor(<<e>>, R)
  <2>0. Len(<<e>>) = 1 /\ <<e>>[1] = e
    OBVIOUS
  <2>1. PICK s : s = <<e>> /\ Len(s) = 1 /\ s[1] = e
    BY <2>0
  <2>2. \A k \in 1 .. Len(s) : ForItsPart(s[k], R)
    BY <1>2, <2>1
  <2>3. QED
    BY <2>1, <2>2 DEF AllFor
<1>3. ASSUME NEW a \in Seq(Events), NEW b \in Seq(Events), AllFor(a, R), AllFor(b, R)
      PROVE  AllFor(a \o b, R)
  <2>1. PICK n \in Nat, l \in Nat : n = Len(a) /\ l = Len(b)
    OBVIOUS
  <2>2. PICK w : w = a \o b
    OBVIOUS
  <2>3. /\ Len(w) = n + l
        /\ \A k \in 1 .. n : w[k] = a[k]
        /\ \A k \in 1 .. l : w[n + k] = b[k]
    BY <2>1, <2>2, ConcatIs
  <2>4. ASSUME NEW k \in 1 .. Len(w) PROVE ForItsPart(w[k], R)
    <3>1. CASE k \in 1 .. n
      BY <1>3, <2>1, <2>3, <3>1 DEF AllFor
    <3>2. CASE k \notin 1 .. n
      <4>1. PICK j \in 1 .. l : k = n + j
        <5>1. k - n \in 1 .. l /\ k = n + (k - n)
          BY <2>3, <3>2
        <5>2. QED
          BY <5>1
      <4>2. ForItsPart(b[j], R)
        BY <1>3, <2>1 DEF AllFor
      <4>3. QED
        BY <2>3, <4>1, <4>2
    <3>3. QED
      BY <3>1, <3>2
  <2>5. QED
    BY <2>2, <2>4 DEF AllFor
<1>4. QED
  BY <1>1, <1>2, <1>3

LEMMA ContentHomes ==
  ASSUME ReplyTyped, ReplyKept, stage = "streaming", NEW kind \in Rendering!Content,
         ContentAdded(kind), UNCHANGED stage
  PROVE  /\ Homes \subseteq Homes'
         /\ OfPart(<<Len(sent) + 1>>, partOf'[kind], Homes')
<1>1. PICK n \in Nat : n = Len(sent)
  BY DEF ReplyTyped
<1>2. PICK w : w = <<kind, 0>> /\ w[1] = kind
  <2>1. <<kind, 0>>[1] = kind
    OBVIOUS
  <2>2. QED
    BY <2>1
<1>3. sent' = Append(sent, w)
  BY <1>2 DEF ContentAdded
<1>4. Len(sent') = n + 1 /\ sent'[n + 1] = w /\ \A i \in 1 .. n : sent'[i] = sent[i]
  BY <1>1, <1>3 DEF ReplyTyped
<1>5. kind # "call"
  BY ContentIs
<1>6. ASSUME NEW x \in Homes PROVE x \in Homes'
  <2>1. PICK j, p : j = x[1] /\ p = x[2] /\ j \in 1 .. n /\ p \in Nat /\ x = <<j, p>>
    BY <1>1 DEF Homes
  <2>2. p = Home(j) /\ sent[j][1] # "call"
    BY <2>1 DEF Homes
  <2>3. PICK k \in Rendering!Content : sent[j] = <<k, 0>>
    BY <1>1, <2>1, <2>2, WordsSent
  <2>4. partOf[k] > 0
    BY <1>1, <2>1, <2>3, ContentHasPart
  <2>5. partOf'[k] = partOf[k]
    BY <2>4 DEF ContentAdded
  <2>6. sent'[j] = <<k, 0>> /\ sent'[j][1] = k /\ sent[j][1] = k
    BY <1>4, <2>1, <2>3
  <2>7. p = partOf'[k]
    BY <2>2, <2>5, <2>6, ContentIs DEF Home
  <2>8. j \in 1 .. Len(sent')
    BY <1>4, <2>1
  <2>9. QED
    BY <2>1, <2>6, <2>7, <2>8, ContentIs DEF Homes, Home
<1>7. ASSUME NEW j \in ElementsOf(<<n + 1>>) PROVE <<j, partOf'[kind]>> \in Homes'
  <2>1. PICK s : s = <<n + 1>> /\ Len(s) = 1 /\ s[1] = n + 1
    OBVIOUS
  <2>2. j = n + 1
    BY <2>1 DEF ElementsOf
  <2>3. PICK p \in Nat : p = partOf'[kind]
    BY DEF ContentAdded
  <2>4. PICK x : x = <<j, p>>
    OBVIOUS
  <2>5. x[1] = j /\ x[2] = p
    BY <2>4
  <2>6. sent'[j] = w /\ j \in 1 .. Len(sent')
    BY <1>4, <2>2
  <2>7. x \in (1 .. Len(sent')) \X Nat
    BY <2>4, <2>6
  <2>8. x \in Homes'
    BY <1>2, <1>5, <2>3, <2>5, <2>6, <2>7 DEF Homes, Home
  <2>9. QED
    BY <2>3, <2>4, <2>8
<1>8. QED
  BY <1>1, <1>6, <1>7 DEF OfPart

LEMMA ContentStep ==
  ASSUME ReplyBounds, ReplyState, NEW kind \in Rendering!Content, Rendering!ContentDelta(kind)
  PROVE  ReplyState'
<1>1. ReplyTyped /\ ReplyKept /\ ContentAdded(kind)
  BY ContentReplies DEF ReplyState
<1>2. ReplyKept' /\ sent' \in Seq(Words)
  BY <1>1, ContentKept
<1>3. stage = "streaming" /\ UNCHANGED <<stage, read, message, dropped>>
  BY DEF Rendering!ContentDelta, Rendering!Send, Rendering!clientVars
<1>4. PICK c \in Creates, u \in Updates :
           /\ events' = (events \o (IF partOf[kind] = 0 THEN <<c>> ELSE <<>>)) \o <<u>>
           /\ c.part = partOf'[kind] /\ c.kind = kind /\ c.pieces = <<>> /\ c.state = "streaming"
           /\ u.part = partOf'[kind] /\ u.pieces = <<Len(sent) + 1>> /\ u.state = "streaming"
  BY <1>1, ContentEvents
<1>5. PICK a, b : a = (IF partOf[kind] = 0 THEN <<c>> ELSE <<>>) /\ b = <<u>>
  OBVIOUS
<1>6. c \in Events /\ u \in Events
  BY EventsTyped
<1>7. a \in Seq(Events) /\ b \in Seq(Events)
  BY <1>5, <1>6, EventsTyped
<1>8. PICK more \in Seq(Events) : more = a \o b
  BY <1>7, ConcatIs
<1>9. events' = events \o more /\ events' \in Seq(Events) /\ Len(events) <= Len(events')
  <2>1. PICK es \in Seq(Events) : es = events
    BY <1>1 DEF ReplyTyped
  <2>2. (es \o a) \o b = es \o (a \o b)
    BY <1>7, ConcatAssociative
  <2>3. events' = es \o more
    BY <1>4, <1>5, <1>8, <2>1, <2>2
  <2>4. es \o more \in Seq(Events) /\ Len(es \o more) = Len(es) + Len(more) /\ Len(more) \in Nat
    BY ConcatIs
  <2>5. QED
    BY <2>1, <2>3, <2>4
<1>10. ReplyTyped'
  <2>1. read' \in 0 .. 2 * Len(events')
    BY <1>1, <1>3, <1>9 DEF ReplyTyped
  <2>2. QED
    BY <1>1, <1>2, <1>3, <1>9, <2>1 DEF ReplyTyped, ContentAdded
<1>11. PICK V : V = Homes'
  OBVIOUS
<1>12. Homes \subseteq V /\ OfPart(<<Len(sent) + 1>>, partOf'[kind], V)
  BY <1>1, <1>3, <1>11, ContentHomes
<1>13. \A k \in 1 .. Len(more) : ForItsPart(more[k], V)
  <2>1. ForItsPart(u, V)
    BY <1>4, <1>12 DEF ForItsPart
  <2>2. ForItsPart(c, V)
    BY <1>4, NoneOfPart DEF ForItsPart
  <2>3. AllFor(a, V) /\ AllFor(b, V)
    BY <1>5, <2>1, <2>2, AllForThese
  <2>4. AllFor(more, V)
    BY <1>7, <1>8, <2>3, AllForThese
  <2>5. QED
    BY <2>4 DEF AllFor
<1>14. Opened(partOf["text"], partOf["reasoning"]) /\ Opened(partOf'["text"], partOf'["reasoning"])
  BY <1>1, <1>2 DEF ReplyKept
<1>15. PICK p \in Nat, n \in Nat :
         /\ p = partOf'[kind] /\ p > 0 /\ n = ContentParts
         /\ partOf[kind] = 0 => p = n + 1 /\ ContentParts' = n + 1
         /\ partOf[kind] > 0 => p = partOf[kind] /\ ContentParts' = n
  <2>1. ContentParts \in Nat /\ partOf[kind] \in Nat
    BY <1>1 DEF ReplyTyped, ContentParts, OpenParts, Rendering!Content
  <2>2. CASE kind = "text"
    <3>1. partOf'["reasoning"] = partOf["reasoning"]
      BY <1>1, <2>2, ContentIs DEF ContentAdded
    <3>2. partOf'["text"] = IF partOf["text"] > 0 THEN partOf["text"] ELSE ContentParts + 1
      BY <1>1, <2>2 DEF ContentAdded
    <3>3. QED
      BY <1>14, <2>1, <2>2, <3>1, <3>2 DEF Opened, ContentParts, OpenParts
  <2>3. CASE kind = "reasoning"
    <3>1. partOf'["text"] = partOf["text"]
      BY <1>1, <2>3, ContentIs DEF ContentAdded
    <3>2. partOf'["reasoning"] = IF partOf["reasoning"] > 0 THEN partOf["reasoning"] ELSE ContentParts + 1
      BY <1>1, <2>3 DEF ContentAdded
    <3>3. QED
      BY <1>14, <2>1, <2>3, <3>1, <3>2 DEF Opened, ContentParts, OpenParts
  <2>4. QED
    BY <2>2, <2>3, ContentIs
<1>16. ASSUME NEW m \in Seq(ShownPart), NEW r \in Seq(ShownPart), LastShown(m), Leads(m, more, r)
       PROVE  LastShown(r)'
  <2>1. Len(m) = n /\ \A k \in Rendering!Content : ShowsPart(m, partOf[k], k, reply[k], "streaming")
    BY <1>3, <1>15, <1>16 DEF LastShown
  <2>2. PICK q \in Seq(ShownPart) : Leads(m, a, q) /\ Leads(q, b, r)
    BY <1>7, <1>8, <1>16, LeadsBetween
  <2>3. r = Apply(q, u)
    BY <1>5, <2>2, LeadsOneStep
  <2>4. /\ Len(q) = ContentParts'
        /\ ShowsPart(q, p, kind, reply[kind], "streaming")
        /\ \A k \in Rendering!Content : k # kind => ShowsPart(q, partOf[k], k, reply[k], "streaming")
    <3>1. CASE partOf[kind] > 0
      <4>1. q = m
        <5>1. a = <<>>
          BY <1>5, <3>1
        <5>2. QED
          BY <2>2, <5>1, LeadsNowhere
      <4>2. QED
        BY <1>15, <2>1, <3>1, <4>1
    <3>2. CASE partOf[kind] = 0
      <4>1. q = Apply(m, c)
        <5>1. a = <<c>>
          BY <1>5, <3>2
        <5>2. QED
          BY <2>2, <5>1, LeadsOneStep
      <4>2. c.part = n + 1 /\ p = n + 1 /\ ContentParts' = n + 1
        BY <1>4, <1>15, <3>2
      <4>3. Adds(m, c, q)
        BY <2>1, <4>1, <4>2, PartAdded
      <4>4. /\ Len(q) = n + 1 /\ \A i \in 1 .. n : q[i] = m[i]
            /\ q[n + 1] = [kind |-> c.kind, pieces |-> c.pieces, state |-> c.state]
        BY <2>1, <4>3 DEF Adds
      <4>5. reply[kind] = <<>>
        <5>1. ~(partOf[kind] > 0)
          BY <3>2
        <5>2. QED
          BY <1>1, <5>1 DEF ReplyKept
      <4>6. ShowsPart(q, p, kind, reply[kind], "streaming")
        BY <1>4, <4>2, <4>4, <4>5 DEF ShowsPart
      <4>7. ASSUME NEW k \in Rendering!Content, k # kind
            PROVE  ShowsPart(q, partOf[k], k, reply[k], "streaming")
        <5>1. partOf[k] \in 0 .. n
          BY <1>14, <1>15, PlacesWithin
        <5>2. partOf[k] \in Nat /\ ShowsPart(m, partOf[k], k, reply[k], "streaming")
          BY <2>1, <5>1
        <5>3. \A i \in 1 .. Len(m) : i = partOf[k] => i \in 1 .. Len(q) /\ q[i] = m[i]
          BY <2>1, <4>4
        <5>4. QED
          BY <5>2, <5>3, PartStays
      <4>8. QED
        BY <4>2, <4>4, <4>6, <4>7
    <3>3. partOf[kind] \in Nat
      BY <1>1 DEF ReplyTyped
    <3>4. QED
      BY <3>1, <3>2, <3>3
  <2>5. Changes(q, u, r)
    BY <2>3, PartChanged
  <2>6. Len(r) = ContentParts' /\ \A i \in 1 .. Len(q) : i # p => r[i] = q[i]
    BY <1>4, <1>15, <2>4, <2>5 DEF Changes
  <2>7. ShowsPart(r, p, kind, reply[kind] \o <<Len(sent) + 1>>, "streaming")
    <3>1. u.part = p /\ u.pieces = <<Len(sent) + 1>> /\ u.state # "done"
      BY <1>4, <1>15
    <3>2. ShowsPart(r, p, kind, reply[kind] \o u.pieces, IF u.state = "done" THEN "done" ELSE "streaming")
      BY <2>3, <2>4, <3>1, PartGrows
    <3>3. QED
      BY <3>1, <3>2
  <2>8. reply'[kind] = reply[kind] \o <<Len(sent) + 1>>
    <3>0. reply.text \in Seq(Nat) /\ reply.reasoning \in Seq(Nat) /\ Len(sent) + 1 \in Nat
      BY <1>1 DEF ReplyTyped, Replies
    <3>1. PICK l \in Seq(Nat), x \in Nat : l = reply[kind] /\ x = Len(sent) + 1
      BY <3>0, ContentIs
    <3>2. Append(l, x) = l \o <<x>>
      OBVIOUS
    <3>3. QED
      BY <1>1, <3>1, <3>2 DEF ContentAdded
  <2>9. ASSUME NEW k \in Rendering!Content
        PROVE  ShowsPart(r, partOf'[k], k, reply'[k], "streaming")
    <3>1. CASE k = kind
      BY <1>15, <2>7, <2>8, <3>1
    <3>2. CASE k # kind
      <4>1. partOf'[k] = partOf[k] /\ reply'[k] = reply[k] /\ partOf[k] \in Nat
        BY <1>1, <3>2 DEF ContentAdded, ReplyTyped
      <4>2. partOf[k] # p
        <5>1. PICK i, j : i = partOf'["text"] /\ j = partOf'["reasoning"] /\ Opened(i, j)
          BY <1>14
        <5>2. CASE k = "text"
          <6>1. kind = "reasoning"
            BY <3>2, <5>2, ContentIs
          <6>2. QED
            BY <1>15, <4>1, <5>1, <5>2, <6>1 DEF Opened
        <5>3. CASE k = "reasoning"
          <6>1. kind = "text"
            BY <3>2, <5>3, ContentIs
          <6>2. QED
            BY <1>15, <4>1, <5>1, <5>3, <6>1 DEF Opened
        <5>4. QED
          BY <5>2, <5>3, ContentIs
      <4>3. ShowsPart(q, partOf[k], k, reply[k], "streaming")
        BY <2>4, <3>2
      <4>4. Len(r) = Len(q)
        BY <2>4, <2>6
      <4>5. ShowsPart(r, partOf[k], k, reply[k], "streaming")
        BY <2>6, <4>1, <4>2, <4>3, <4>4, PartStays
      <4>6. QED
        BY <4>1, <4>5
    <3>3. QED
      BY <3>1, <3>2
  <2>10. stage' = "streaming"
    BY <1>3
  <2>11. QED
    BY <2>6, <2>9, <2>10 DEF LastShown
<1>17. QED
  BY <1>2, <1>3, <1>9, <1>10, <1>11, <1>12, <1>13, <1>16, EngineSteps

LEMMA CallStep ==
  ASSUME ReplyBounds, ReplyState, NEW i \in Rendering!Indices, Rendering!ToolCallDelta(i)
  PROVE  ReplyState'
<1>1. ReplyTyped /\ ReplyKept
  BY DEF ReplyState
<1>2. /\ ReplyKept' /\ sent' \in Seq(Words) /\ reply' \in Replies
      /\ sent' = Append(sent, <<"call", i>>)
      /\ reply'.text = reply.text /\ reply'.reasoning = reply.reasoning
  BY <1>1, CallKept
<1>3. stage = "streaming" /\ UNCHANGED <<partOf, stage, events, read, message, dropped>>
  BY DEF Rendering!ToolCallDelta, Rendering!Send, Rendering!clientVars
<1>4. ReplyTyped'
  BY <1>1, <1>2, <1>3 DEF ReplyTyped
<1>5. ContentParts' = ContentParts
  BY <1>3 DEF ContentParts
<1>6. \A k \in Rendering!Content : reply'[k] = reply[k]
  <2>1. reply'["text"] = reply["text"] /\ reply'["reasoning"] = reply["reasoning"]
    BY <1>2
  <2>2. QED
    BY <2>1, ContentIs
<1>7. PICK V : V = Homes'
  OBVIOUS
<1>8. Homes \subseteq V
  <2>1. PICK n \in Nat : n = Len(sent)
    BY <1>1 DEF ReplyTyped
  <2>2. PICK w : w = <<"call", i>>
    OBVIOUS
  <2>3. Len(sent') = n + 1 /\ \A j \in 1 .. n : sent'[j] = sent[j]
    BY <1>1, <1>2, <2>1, <2>2 DEF ReplyTyped
  <2>4. ASSUME NEW x \in Homes PROVE x \in Homes'
    <3>1. /\ x \in (1 .. n) \X Nat /\ x[2] = Home(x[1])
          /\ sent[x[1]][1] # "call" /\ x[1] \in 1 .. n
      BY <1>3, <2>1 DEF Homes
    <3>2. sent'[x[1]] = sent[x[1]] /\ x \in (1 .. Len(sent')) \X Nat
      BY <2>3, <3>1
    <3>3. x[2] = partOf[sent[x[1]][1]]
      BY <3>1 DEF Home
    <3>4. QED
      BY <1>3, <3>1, <3>2, <3>3 DEF Homes, Home
  <2>5. QED
    BY <1>7, <2>4
<1>9. PICK more \in Seq(Events) : more = <<>>
  BY EventsTyped
<1>10. events' = events \o more
  <2>1. PICK es \in Seq(Events) : es = events
    BY <1>1 DEF ReplyTyped
  <2>2. es \o <<>> = es
    OBVIOUS
  <2>3. QED
    BY <1>3, <1>9, <2>1, <2>2
<1>11. \A k \in 1 .. Len(more) : ForItsPart(more[k], V)
  BY <1>9, AllForThese DEF AllFor
<1>12. ASSUME NEW m \in Seq(ShownPart), NEW r \in Seq(ShownPart), LastShown(m), Leads(m, more, r)
       PROVE  LastShown(r)'
  <2>1. r = m
    BY <1>9, <1>12, LeadsNowhere
  <2>2. Len(m) = ContentParts /\ \A k \in Rendering!Content : ShowsPart(m, partOf[k], k, reply[k], "streaming")
    BY <1>3, <1>12 DEF LastShown
  <2>3. \A k \in Rendering!Content : ShowsPart(r, partOf'[k], k, reply'[k], "streaming")
    BY <1>3, <1>6, <2>1, <2>2
  <2>4. stage' = "streaming" /\ Len(r) = ContentParts'
    BY <1>3, <1>5, <2>1, <2>2
  <2>5. QED
    BY <2>3, <2>4 DEF LastShown
<1>13. QED
  BY <1>2, <1>3, <1>4, <1>7, <1>8, <1>10, <1>11, <1>12, EngineSteps

(* When the stream has ended, nothing is sent any more.                    *)
LEMMA EndedHomes ==
  ASSUME ReplyTyped, stage' \in {"calling", "done", "failed"}, UNCHANGED <<sent, reply, partOf>>
  PROVE  /\ Homes \subseteq Homes' /\ ContentParts' = ContentParts
         /\ ReplyKept => ReplyKept'
<1>1. ContentParts' = ContentParts
  BY DEF ContentParts
<1>2. ASSUME NEW x \in Homes PROVE x \in Homes'
  <2>1. x \in (1 .. Len(sent)) \X Nat /\ x[2] = Home(x[1]) /\ x[1] \in 1 .. Len(sent)
    BY DEF Homes
  <2>2. x[2] = Home(x[1])'
    BY <1>1, <2>1 DEF Home
  <2>3. QED
    BY <2>1, <2>2 DEF Homes
<1>3. ReplyKept => ReplyKept'
  BY DEF ReplyKept, CallWords
<1>4. QED
  BY <1>1, <1>2, <1>3

LEMMA FailStep ==
  ASSUME ReplyState, Rendering!StreamFails
  PROVE  ReplyState'
<1>1. ReplyTyped /\ ReplyKept
  BY DEF ReplyState
<1>2. PICK e : e = [type |-> "error"]
  OBVIOUS
<1>3. e \in Marks /\ e \in Events
  BY <1>2 DEF Marks, Events
<1>4. PICK more \in Seq(Events) : more = <<e>>
  BY <1>3, EventsTyped
<1>5. PICK es \in Seq(Events) : es = events
  BY <1>1 DEF ReplyTyped
<1>6. /\ events' = Append(events, e) /\ stage' = "failed"
      /\ UNCHANGED <<sent, reply, partOf, read, message, dropped>>
  BY <1>2 DEF Rendering!StreamFails, Rendering!clientVars
<1>7. events' = events \o more /\ events' \in Seq(Events) /\ Len(events) <= Len(events')
  <2>1. Append(es, e) = es \o <<e>>
    OBVIOUS
  <2>2. es \o more \in Seq(Events) /\ Len(es \o more) = Len(es) + Len(more) /\ Len(more) \in Nat
    BY ConcatIs
  <2>3. QED
    BY <1>4, <1>5, <1>6, <2>1, <2>2
<1>8. ReplyTyped'
  <2>1. read' \in 0 .. 2 * Len(events')
    BY <1>1, <1>5, <1>6, <1>7 DEF ReplyTyped
  <2>2. QED
    BY <1>1, <1>6, <1>7, <2>1 DEF ReplyTyped
<1>9. PICK V : V = Homes'
  OBVIOUS
<1>10. Homes \subseteq V /\ ReplyKept'
  BY <1>1, <1>6, <1>9, EndedHomes
<1>11. \A k \in 1 .. Len(more) : ForItsPart(more[k], V)
  <2>1. e \notin Creates \cup Updates
    BY <1>3, EventTypes
  <2>2. ForItsPart(e, V)
    BY <2>1 DEF ForItsPart
  <2>3. QED
    BY <1>4, <2>2, AllForThese DEF AllFor
<1>12. ASSUME NEW m \in Seq(ShownPart), NEW r \in Seq(ShownPart), LastShown(m), Leads(m, more, r)
       PROVE  LastShown(r)'
  BY <1>6 DEF LastShown
<1>13. QED
  BY <1>6, <1>7, <1>8, <1>9, <1>10, <1>11, <1>12, EngineSteps

(* The updates that end the content.                                       *)
EndOf(kind) ==
  IF partOf[kind] > 0 THEN <<Rendering!Update(partOf[kind], <<>>, "done")>> ELSE <<>>

LEMMA EndTyped ==
  ASSUME ReplyTyped, NEW kind \in Rendering!Content, partOf[kind] > 0
  PROVE  \E u \in Updates : /\ EndOf(kind) = <<u>>
                            /\ u.part = partOf[kind] /\ u.pieces = <<>> /\ u.state = "done"
<1>1. PICK p \in Nat \ {0} : p = partOf[kind]
  BY DEF ReplyTyped
<1>2. PICK z \in Seq(Nat) : z = <<>>
  <2>1. <<>> \in Seq(Nat)
    OBVIOUS
  <2>2. QED
    BY <2>1
<1>3. PICK u : u = Rendering!Update(p, z, "done")
  OBVIOUS
<1>4. u \in Updates /\ u.part = p /\ u.pieces = z /\ u.state = "done"
  <2>1. "done" \in States
    BY DEF States
  <2>2. QED
    BY <1>3, <2>1, UpdateTyped
<1>5. EndOf(kind) = <<u>>
  BY <1>1, <1>2, <1>3 DEF EndOf
<1>6. QED
  BY <1>1, <1>2, <1>4, <1>5

LEMMA EndsTyped ==
  ASSUME ReplyTyped, NEW R
  PROVE  /\ \A k \in Rendering!Content : EndOf(k) \in Seq(Events) /\ AllFor(EndOf(k), R)
         /\ Rendering!DoneUpdates = EndOf("reasoning") \o EndOf("text")
         /\ Rendering!DoneUpdates \in Seq(Events) /\ AllFor(Rendering!DoneUpdates, R)
<1>1. ASSUME NEW k \in Rendering!Content PROVE EndOf(k) \in Seq(Events) /\ AllFor(EndOf(k), R)
  <2>1. CASE partOf[k] > 0
    <3>1. PICK u \in Updates : EndOf(k) = <<u>> /\ u.pieces = <<>>
      BY <2>1, EndTyped
    <3>2. ForItsPart(u, R)
      BY <3>1, NoneOfPart DEF ForItsPart
    <3>3. <<u>> \in Seq(Events) /\ AllFor(<<u>>, R)
      BY <3>2, AllForThese, EventsTyped
    <3>4. QED
      BY <3>1, <3>3
  <2>2. CASE ~(partOf[k] > 0)
    <3>1. EndOf(k) = <<>>
      BY <2>2 DEF EndOf
    <3>2. QED
      BY <3>1, AllForThese, EventsTyped
  <2>3. QED
    BY <2>1, <2>2
<1>2. Rendering!DoneUpdates = EndOf("reasoning") \o EndOf("text")
  BY DEF Rendering!DoneUpdates, EndOf
<1>3. PICK a \in Seq(Events), b \in Seq(Events) :
        /\ a = EndOf("reasoning") /\ b = EndOf("text") /\ AllFor(a, R) /\ AllFor(b, R)
  BY <1>1, ContentIs
<1>4. a \o b \in Seq(Events) /\ AllFor(a \o b, R)
  BY <1>3, AllForThese, ConcatIs
<1>5. QED
  BY <1>1, <1>2, <1>3, <1>4

LEMMA PartDone ==
  ASSUME ReplyTyped, Opened(partOf["text"], partOf["reasoning"]), NEW kind \in Rendering!Content,
         NEW m \in Seq(ShownPart), NEW r \in Seq(ShownPart), Leads(m, EndOf(kind), r),
         ShowsPart(m, partOf[kind], kind, reply[kind], "streaming")
  PROVE  /\ Len(r) = Len(m)
         /\ ShowsPart(r, partOf[kind], kind, reply[kind], "done")
         /\ \A j \in Rendering!Content : \A s : j # kind /\ ShowsPart(m, partOf[j], j, reply[j], s)
                                              => ShowsPart(r, partOf[j], j, reply[j], s)
<1>1. CASE partOf[kind] > 0
  <2>1. PICK u \in Updates : /\ EndOf(kind) = <<u>>
                             /\ u.part = partOf[kind] /\ u.pieces = <<>> /\ u.state = "done"
    BY <1>1, EndTyped
  <2>2. r = Apply(m, u)
    BY <2>1, LeadsOneStep
  <2>3. Changes(m, u, r)
    BY <2>2, PartChanged
  <2>4. Len(r) = Len(m) /\ \A i \in 1 .. Len(m) : i # partOf[kind] => r[i] = m[i]
    BY <2>1, <2>3 DEF Changes
  <2>5. ShowsPart(r, partOf[kind], kind, reply[kind], "done")
    <3>1. ShowsPart(m, u.part, kind, reply[kind], "streaming")
      BY <2>1
    <3>2. ShowsPart(r, u.part, kind, reply[kind] \o u.pieces, IF u.state = "done" THEN "done" ELSE "streaming")
      BY <2>2, <3>1, PartGrows
    <3>3. reply[kind] \o <<>> = reply[kind]
      <4>1. reply.text \in Seq(Nat) /\ reply.reasoning \in Seq(Nat)
        BY DEF ReplyTyped, Replies
      <4>2. PICK l \in Seq(Nat) : l = reply[kind]
        BY <4>1, ContentIs
      <4>3. l \o <<>> = l
        OBVIOUS
      <4>4. QED
        BY <4>2, <4>3
    <3>4. QED
      BY <2>1, <3>2, <3>3
  <2>6. ASSUME NEW j \in Rendering!Content, NEW s, j # kind, ShowsPart(m, partOf[j], j, reply[j], s)
        PROVE  ShowsPart(r, partOf[j], j, reply[j], s)
    <3>1. partOf[j] # partOf[kind]
      BY <1>1, <2>6, PlacesDiffer
    <3>2. partOf[j] \in Nat
      BY DEF ReplyTyped
    <3>3. \A i \in 1 .. Len(m) : i = partOf[j] => i \in 1 .. Len(r) /\ r[i] = m[i]
      BY <2>4, <3>1
    <3>4. QED
      BY <2>6, <3>2, <3>3, PartStays
  <2>7. QED
    BY <2>4, <2>5, <2>6
<1>2. CASE ~(partOf[kind] > 0)
  <2>1. EndOf(kind) = <<>>
    BY <1>2 DEF EndOf
  <2>2. r = m
    BY <2>1, LeadsNowhere
  <2>3. QED
    BY <1>2, <2>2 DEF ShowsPart
<1>3. QED
  BY <1>1, <1>2

LEMMA ContentDone ==
  ASSUME ReplyTyped, Opened(partOf["text"], partOf["reasoning"]), stage = "streaming",
         NEW m \in Seq(ShownPart), NEW r \in Seq(ShownPart), LastShown(m),
         Leads(m, Rendering!DoneUpdates, r)
  PROVE  /\ Len(r) = ContentParts
         /\ \A k \in Rendering!Content : ShowsPart(r, partOf[k], k, reply[k], "done")
<1>1. Len(m) = ContentParts /\ \A k \in Rendering!Content : ShowsPart(m, partOf[k], k, reply[k], "streaming")
  BY DEF LastShown
<1>2. PICK a \in Seq(Events), b \in Seq(Events) :
        a = EndOf("reasoning") /\ b = EndOf("text") /\ Rendering!DoneUpdates = a \o b
  BY EndsTyped, ContentIs
<1>3. PICK q \in Seq(ShownPart) : Leads(m, a, q) /\ Leads(q, b, r)
  BY <1>2, LeadsBetween
<1>4. "text" \in Rendering!Content /\ "reasoning" \in Rendering!Content /\ "text" # "reasoning"
  BY ContentIs
<1>5. /\ Len(q) = Len(m)
      /\ ShowsPart(q, partOf["reasoning"], "reasoning", reply["reasoning"], "done")
      /\ ShowsPart(q, partOf["text"], "text", reply["text"], "streaming")
  BY <1>1, <1>2, <1>3, <1>4, PartDone
<1>6. /\ Len(r) = Len(q)
      /\ ShowsPart(r, partOf["text"], "text", reply["text"], "done")
      /\ ShowsPart(r, partOf["reasoning"], "reasoning", reply["reasoning"], "done")
  BY <1>2, <1>3, <1>4, <1>5, PartDone
<1>7. \A k \in Rendering!Content : k = "text" \/ k = "reasoning"
  BY ContentIs
<1>8. QED
  BY <1>1, <1>5, <1>6, <1>7

(* After the stream, only the stage and the events change.                 *)
LEMMA EngineTyped ==
  ASSUME ReplyTyped, NEW more \in Seq(Events), events' = events \o more,
         UNCHANGED <<sent, reply, partOf, read, message>>,
         stage' \in {"streaming", "calling", "done", "failed"}
  PROVE  ReplyTyped'
<1>1. PICK es \in Seq(Events) : es = events
  BY DEF ReplyTyped
<1>2. es \o more \in Seq(Events) /\ Len(es \o more) = Len(es) + Len(more)
  BY ConcatIs
<1>3. PICK n \in Nat, l \in Nat : n = Len(es) /\ l = Len(more)
  OBVIOUS
<1>4. events' \in Seq(Events) /\ Len(events') = n + l
  BY <1>1, <1>2, <1>3
<1>5. read' \in 0 .. 2 * Len(events')
  <2>1. read \in 0 .. 2 * n
    BY <1>1, <1>3 DEF ReplyTyped
  <2>2. read' \in 0 .. 2 * (n + l)
    BY <1>3, <2>1
  <2>3. QED
    BY <1>4, <2>2
<1>6. QED
  BY <1>4, <1>5 DEF ReplyTyped

(* The reply has no calls: its end is the end of the message.              *)
LEMMA EndStep ==
  ASSUME ReplyState, Rendering!StreamEnds, reply.calls = <<>>
  PROVE  ReplyState'
<1>1. ReplyTyped /\ ReplyKept /\ Opened(partOf["text"], partOf["reasoning"])
  BY DEF ReplyState, ReplyKept
<1>2. PICK e : e = [type |-> "message_done"]
  OBVIOUS
<1>3. e \in Marks /\ e \in Events /\ e.type = "message_done"
  BY <1>2 DEF Marks, Events
<1>4. PICK u \in Seq(Events) : u = Rendering!DoneUpdates /\ \A R : AllFor(u, R)
  BY <1>1, EndsTyped
<1>5. PICK v \in Seq(Events) : v = <<e>>
  BY <1>3, EventsTyped
<1>6. PICK more \in Seq(Events) : more = u \o v
  BY ConcatIs
<1>7. PICK es \in Seq(Events) : es = events
  BY <1>1 DEF ReplyTyped
<1>8. /\ events' = (events \o u) \o v /\ stage = "streaming" /\ stage' = "done"
      /\ UNCHANGED <<sent, reply, partOf, read, message, dropped>>
  BY <1>2, <1>4, <1>5 DEF Rendering!StreamEnds, Rendering!clientVars
<1>9. events' = events \o more
  BY <1>6, <1>7, <1>8, ConcatAssociative
<1>10. ReplyTyped'
  BY <1>1, <1>8, <1>9, EngineTyped
<1>11. PICK V : V = Homes'
  OBVIOUS
<1>12. Homes \subseteq V /\ ReplyKept' /\ ContentParts' = ContentParts
  BY <1>1, <1>8, <1>11, EndedHomes
<1>13. \A k \in 1 .. Len(more) : ForItsPart(more[k], V)
  <2>1. e \notin Creates \cup Updates
    BY <1>3, EventTypes
  <2>2. ForItsPart(e, V)
    BY <2>1 DEF ForItsPart
  <2>3. AllFor(v, V)
    BY <1>5, <2>2, AllForThese
  <2>4. AllFor(more, V)
    BY <1>4, <1>6, <2>3, AllForThese
  <2>5. QED
    BY <2>4 DEF AllFor
<1>14. ASSUME NEW m \in Seq(ShownPart), NEW r \in Seq(ShownPart), LastShown(m), Leads(m, more, r)
       PROVE  LastShown(r)'
  <2>1. PICK q \in Seq(ShownPart) : Leads(m, u, q) /\ Leads(q, v, r)
    BY <1>6, <1>14, LeadsBetween
  <2>2. Len(q) = ContentParts /\ \A k \in Rendering!Content : ShowsPart(q, partOf[k], k, reply[k], "done")
    BY <1>1, <1>4, <1>8, <1>14, <2>1, ContentDone
  <2>3. r = Apply(q, e)
    BY <1>5, <2>1, LeadsOneStep
  <2>4. Len(r) = ContentParts
    BY <1>3, <2>2, <2>3, MessageEnds
  <2>5. ASSUME NEW k \in Rendering!Content PROVE ShowsPart(r, partOf[k], k, reply[k], "done")
    <3>1. partOf[k] \in Nat
      BY <1>1 DEF ReplyTyped
    <3>2. ShowsPart(r, partOf[k], k, reply[k], EndedState("done"))
      BY <1>3, <2>2, <2>3, <3>1, PartEnds
    <3>3. EndedState("done") = "done"
      BY DEF EndedState
    <3>4. QED
      BY <3>2, <3>3
  <2>6. PICK cs : cs = reply.calls /\ Len(cs) = 0
    <3>1. PICK z : z = <<>> /\ Len(z) = 0
      OBVIOUS
    <3>2. QED
      BY <3>1
  <2>7. ShowsCalls(r, ContentParts, cs, {"complete", "error"})
    <3>1. ContentParts \in Nat
      BY <1>1, <1>4, ContentIs, PlacesWithin
    <3>2. QED
      BY <2>4, <2>6, <3>1 DEF ShowsCalls
  <2>8. \A k \in Rendering!Content : ShowsPart(r, partOf'[k], k, reply'[k], "done")
    BY <1>8, <2>5
  <2>9. ShowsCalls(r, ContentParts', reply'.calls, {"complete", "error"})
    BY <1>8, <1>12, <2>6, <2>7
  <2>10. QED
    BY <1>8, <2>8, <2>9 DEF LastShown
<1>15. QED
  BY <1>8, <1>9, <1>10, <1>11, <1>12, <1>13, <1>14, EngineSteps

(* The calls are announced.                                                *)
LEMMA CallHome ==
  ASSUME ReplyTyped, ReplyKept, NEW i \in 1 .. Len(reply.calls),
         stage' # "streaming", UNCHANGED <<sent, partOf>>
  PROVE  OfPart(reply.calls[i], ContentParts + i, Homes')
<1>1. PICK ps : ps = reply.calls[i]
  OBVIOUS
<1>2. PICK w : w = <<"call", i>>
  OBVIOUS
<1>3. ElementsOf(ps) = Places(sent, w)
  <2>1. sent \in Seq(Words) /\ ps = PiecesIn(sent, w)
    BY <1>1, <1>2 DEF ReplyTyped, ReplyKept
  <2>2. QED
    BY <2>1, PiecesTyped
<1>4. ContentParts \in Nat /\ ContentParts' = ContentParts
  BY ContentIs, PlacesWithin DEF ReplyKept, ContentParts
<1>5. ASSUME NEW n \in ElementsOf(ps) PROVE <<n, ContentParts + i>> \in Homes'
  <2>1. n \in 1 .. Len(sent) /\ sent[n] = w
    BY <1>3 DEF Places
  <2>2. Home(n)' = ContentParts + i
    BY <1>2, <1>4, <2>1 DEF Home
  <2>3. ContentParts + i \in Nat
    BY <1>4
  <2>4. QED
    BY <2>1, <2>2, <2>3 DEF Homes
<1>6. QED
  BY <1>1, <1>5 DEF OfPart

LEMMA CallCreates ==
  ASSUME ReplyTyped, ReplyKept, reply.calls # <<>>, NEW es,
         es = [i \in DOMAIN reply.calls |->
                 [type |-> "part_create", part |-> Rendering!FirstCallPart + i, kind |-> "tool-call",
                  pieces |-> reply.calls[i], state |-> "pending"]]
  PROVE  /\ es \in Seq(Creates) /\ es \in Seq(Events) /\ Len(es) = Len(reply.calls)
         /\ \A i \in 1 .. Len(reply.calls) :
              /\ es[i].part = ContentParts + i /\ es[i].kind = "tool-call"
              /\ es[i].pieces = reply.calls[i] /\ es[i].state = "pending"
<1>1. PICK cs \in Seq(Seq(Nat)) : cs = reply.calls
  BY DEF ReplyTyped, Replies
<1>2. PICK l \in Nat : l = Len(cs) /\ DOMAIN cs = 1 .. l
  BY <1>1
<1>3. PICK n \in Nat : n = ContentParts /\ n = Rendering!FirstCallPart
  BY FirstCallPartIs, ContentIs, PlacesWithin DEF ReplyKept
<1>4. "tool-call" \in Kinds /\ "pending" \in States
  BY DEF Kinds, States
<1>5. DOMAIN es = 1 .. l
  BY <1>1, <1>2
<1>6. ASSUME NEW i \in 1 .. l
      PROVE  /\ es[i] \in Creates /\ es[i].part = n + i /\ es[i].kind = "tool-call"
             /\ es[i].pieces = cs[i] /\ es[i].state = "pending"
  <2>1. PICK p \in Nat \ {0}, ps \in Seq(Nat) : p = n + i /\ ps = cs[i]
    <3>1. n + i \in Nat \ {0} /\ cs[i] \in Seq(Nat)
      BY <1>2
    <3>2. QED
      BY <3>1
  <2>2. es[i] = [type |-> "part_create", part |-> p, kind |-> "tool-call", pieces |-> ps,
                 state |-> "pending"]
    BY <1>1, <1>2, <1>3, <2>1
  <2>3. QED
    BY <1>4, <2>1, <2>2, CreateTyped
<1>7. es \in [1 .. l -> Creates] /\ es \in [1 .. l -> Events]
  <2>1. es = [i \in 1 .. l |-> es[i]]
    BY <1>1, <1>2, <1>5
  <2>2. \A i \in 1 .. l : es[i] \in Creates
    BY <1>6
  <2>3. QED
    BY <2>1, <2>2, EventsTyped
<1>8. es \in Seq(Creates) /\ es \in Seq(Events) /\ Len(es) = l
  BY <1>7, FunctionIsList
<1>9. QED
  BY <1>1, <1>2, <1>3, <1>6, <1>8

LEMMA BeginStep ==
  ASSUME ReplyState, Rendering!StreamEnds, reply.calls # <<>>
  PROVE  ReplyState'
<1>1. ReplyTyped /\ ReplyKept /\ Opened(partOf["text"], partOf["reasoning"])
  BY DEF ReplyState, ReplyKept
<1>2. PICK v : v = [i \in DOMAIN reply.calls |->
                 [type |-> "part_create", part |-> Rendering!FirstCallPart + i, kind |-> "tool-call",
                  pieces |-> reply.calls[i], state |-> "pending"]]
  OBVIOUS
<1>3. /\ v \in Seq(Creates) /\ v \in Seq(Events) /\ Len(v) = Len(reply.calls)
      /\ \A i \in 1 .. Len(reply.calls) :
           /\ v[i].part = ContentParts + i /\ v[i].kind = "tool-call"
           /\ v[i].pieces = reply.calls[i] /\ v[i].state = "pending"
  BY <1>1, <1>2, CallCreates
<1>4. PICK u \in Seq(Events) : u = Rendering!DoneUpdates /\ \A R : AllFor(u, R)
  BY <1>1, EndsTyped
<1>6. PICK more \in Seq(Events) : more = u \o v
  BY <1>3, ConcatIs
<1>7. PICK es \in Seq(Events) : es = events
  BY <1>1 DEF ReplyTyped
<1>8. /\ events' = (events \o u) \o v /\ stage = "streaming" /\ stage' = "calling"
      /\ UNCHANGED <<sent, reply, partOf, read, message, dropped>>
  BY <1>2, <1>4 DEF Rendering!StreamEnds, Rendering!clientVars
<1>9. events' = events \o more
  BY <1>3, <1>6, <1>7, <1>8, ConcatAssociative
<1>10. ReplyTyped'
  BY <1>1, <1>8, <1>9, EngineTyped
<1>11. PICK V : V = Homes'
  OBVIOUS
<1>12. Homes \subseteq V /\ ReplyKept' /\ ContentParts' = ContentParts
  BY <1>1, <1>8, <1>11, EndedHomes
<1>13. \A k \in 1 .. Len(more) : ForItsPart(more[k], V)
  <2>1. ASSUME NEW i \in 1 .. Len(v) PROVE ForItsPart(v[i], V)
    <3>1. stage' # "streaming" /\ i \in 1 .. Len(reply.calls)
      BY <1>3, <1>8
    <3>2. OfPart(reply.calls[i], ContentParts + i, V)
      BY <1>1, <1>8, <1>11, <3>1, CallHome
    <3>3. v[i].pieces = reply.calls[i] /\ v[i].part = ContentParts + i
      BY <1>3, <3>1
    <3>4. QED
      BY <3>2, <3>3 DEF ForItsPart
  <2>2. AllFor(v, V)
    BY <2>1 DEF AllFor
  <2>3. AllFor(more, V)
    BY <1>3, <1>4, <1>6, <2>2, AllForThese
  <2>4. QED
    BY <2>3 DEF AllFor
<1>14. ASSUME NEW m \in Seq(ShownPart), NEW r \in Seq(ShownPart), LastShown(m), Leads(m, more, r)
       PROVE  LastShown(r)'
  <2>1. PICK q \in Seq(ShownPart) : Leads(m, u, q) /\ Leads(q, v, r)
    BY <1>3, <1>6, <1>14, LeadsBetween
  <2>2. Len(q) = ContentParts /\ \A k \in Rendering!Content : ShowsPart(q, partOf[k], k, reply[k], "done")
    BY <1>1, <1>4, <1>8, <1>14, <2>1, ContentDone
  <2>3. PICK cs \in Seq(Seq(Nat)) : cs = reply.calls
    BY <1>1 DEF ReplyTyped, Replies
  <2>4. ShowsCalls(r, Len(q), cs, {"pending"}) /\ \A j \in 1 .. Len(q) : r[j] = q[j]
    <3>1. CreatesCalls(v, Len(q), cs)
      BY <1>3, <2>2, <2>3 DEF CreatesCalls
    <3>2. v \in Seq(Creates)
      BY <1>3
    <3>3. CallsChanged(q, Len(q), cs, {"pending"}, r)
      BY <2>1, <3>1, <3>2, CallsBegin
    <3>4. QED
      BY <3>3 DEF CallsChanged
  <2>5. Len(q) <= Len(r) /\ Len(q) \in Nat /\ Len(r) \in Nat
    BY <2>3, <2>4 DEF ShowsCalls
  <2>6. ASSUME NEW k \in Rendering!Content PROVE ShowsPart(r, partOf[k], k, reply[k], "done")
    <3>1. partOf[k] \in Nat
      BY <1>1 DEF ReplyTyped
    <3>2. \A i \in 1 .. Len(q) : i = partOf[k] => i \in 1 .. Len(r) /\ r[i] = q[i]
      BY <2>4, <2>5
    <3>3. QED
      BY <2>2, <3>1, <3>2, PartStays
  <2>7. ShowsCalls(r, ContentParts', reply'.calls, {"pending"})
    BY <1>8, <1>12, <2>2, <2>3, <2>4
  <2>8. \A k \in Rendering!Content : ShowsPart(r, partOf'[k], k, reply'[k], "done")
    BY <1>8, <2>6
  <2>9. QED
    BY <1>8, <2>7, <2>8 DEF LastShown
<1>15. QED
  BY <1>8, <1>9, <1>10, <1>11, <1>12, <1>13, <1>14, EngineSteps

(* The calls have been executed.                                           *)
Returned == {"complete", "error", "running"}

LEMMA CallUpdates ==
  ASSUME ReplyBounds, ReplyTyped, ReplyKept, NEW states \in [Rendering!Indices -> Returned], NEW es,
         es = [i \in DOMAIN reply.calls |->
                 Rendering!Update(Rendering!FirstCallPart + i, <<>>, states[i])]
  PROVE  /\ es \in Seq(Updates) /\ es \in Seq(Events) /\ Len(es) = Len(reply.calls)
         /\ \A i \in 1 .. Len(reply.calls) :
              es[i].part = ContentParts + i /\ es[i].pieces = <<>> /\ es[i].state \in Returned
<1>1. PICK cs \in Seq(Seq(Nat)) : cs = reply.calls
  BY DEF ReplyTyped, Replies
<1>2. PICK l \in Nat : l = Len(cs) /\ DOMAIN cs = 1 .. l
  OBVIOUS
<1>3. PICK n \in Nat : n = ContentParts
  BY ContentIs, PlacesWithin DEF ReplyKept
<1>4. PICK z \in Seq(Nat) : z = <<>>
  <2>1. <<>> \in Seq(Nat)
    OBVIOUS
  <2>2. QED
    BY <2>1
<1>5. DOMAIN es = 1 .. l
  BY <1>1, <1>2
<1>6. ASSUME NEW i \in 1 .. l
      PROVE  /\ es[i] \in Updates /\ es[i].part = n + i /\ es[i].pieces = z
             /\ es[i].state \in Returned
  <2>1. PICK p \in Nat \ {0} : p = n + i
    <3>1. n + i \in Nat \ {0}
      BY <1>2
    <3>2. QED
      BY <3>1
  <2>2. n = Rendering!FirstCallPart
    <3>1. cs # <<>>
      BY <1>2
    <3>2. QED
      BY <1>1, <1>3, <3>1, FirstCallPartIs
  <2>3. PICK s \in Returned : s = states[i]
    <3>1. i \in Rendering!Indices
      <4>1. l <= ReplyCalls
        BY <1>1, <1>2 DEF ReplyKept
      <4>2. QED
        BY <1>2, <4>1 DEF Rendering!Indices, ReplyBounds
    <3>2. QED
      BY <3>1
  <2>4. s \in States
    BY DEF Returned, States
  <2>5. es[i] = Rendering!Update(p, z, s)
    BY <1>1, <1>2, <1>4, <2>1, <2>2, <2>3
  <2>6. QED
    BY <2>1, <2>3, <2>4, <2>5, UpdateTyped
<1>7. es \in [1 .. l -> Updates] /\ es \in [1 .. l -> Events]
  <2>1. es = [i \in 1 .. l |-> es[i]]
    BY <1>1, <1>2, <1>5
  <2>2. \A i \in 1 .. l : es[i] \in Updates
    BY <1>6
  <2>3. QED
    BY <2>1, <2>2, EventsTyped
<1>8. es \in Seq(Updates) /\ es \in Seq(Events) /\ Len(es) = l
  BY <1>7, FunctionIsList
<1>9. QED
  BY <1>1, <1>2, <1>3, <1>4, <1>6, <1>8

LEMMA ReturnStep ==
  ASSUME ReplyBounds, ReplyState, NEW states \in [Rendering!Indices -> Returned],
         Rendering!ToolsReturn(states)
  PROVE  ReplyState'
<1>1. ReplyTyped /\ ReplyKept /\ Opened(partOf["text"], partOf["reasoning"])
  BY DEF ReplyState, ReplyKept
<1>2. PICK u : u = [i \in DOMAIN reply.calls |->
                 Rendering!Update(Rendering!FirstCallPart + i, <<>>, states[i])]
  OBVIOUS
<1>3. /\ u \in Seq(Updates) /\ u \in Seq(Events) /\ Len(u) = Len(reply.calls)
      /\ \A i \in 1 .. Len(reply.calls) :
           u[i].part = ContentParts + i /\ u[i].pieces = <<>> /\ u[i].state \in Returned
  BY <1>1, <1>2, CallUpdates
<1>4. PICK e : e = [type |-> "message_done"]
  OBVIOUS
<1>5. e \in Marks /\ e \in Events /\ e.type = "message_done"
  BY <1>4 DEF Marks, Events
<1>6. PICK v \in Seq(Events) : v = <<e>>
  BY <1>5, EventsTyped
<1>7. PICK more \in Seq(Events) : more = u \o v
  BY <1>3, ConcatIs
<1>8. PICK es \in Seq(Events) : es = events
  BY <1>1 DEF ReplyTyped
<1>9. /\ events' = Append(events \o u, e) /\ stage = "calling" /\ stage' = "done"
      /\ UNCHANGED <<sent, reply, partOf, read, message, dropped>>
  BY <1>2, <1>4 DEF Rendering!ToolsReturn, Rendering!clientVars
<1>10. events' = events \o more
  <2>1. Append(es \o u, e) = es \o (u \o <<e>>)
    BY <1>3, <1>5, AppendedBehind
  <2>2. QED
    BY <1>4, <1>6, <1>7, <1>8, <1>9, <2>1, Zenon
<1>11. ReplyTyped'
  BY <1>1, <1>9, <1>10, EngineTyped
<1>12. PICK V : V = Homes'
  OBVIOUS
<1>13. Homes \subseteq V /\ ReplyKept' /\ ContentParts' = ContentParts
  BY <1>1, <1>9, <1>12, EndedHomes
<1>14. \A k \in 1 .. Len(more) : ForItsPart(more[k], V)
  <2>1. ASSUME NEW i \in 1 .. Len(u) PROVE ForItsPart(u[i], V)
    BY <1>3, NoneOfPart DEF ForItsPart
  <2>2. AllFor(u, V)
    BY <2>1 DEF AllFor
  <2>3. e \notin Creates \cup Updates
    BY <1>5, EventTypes
  <2>4. ForItsPart(e, V)
    BY <2>3 DEF ForItsPart
  <2>5. AllFor(v, V)
    BY <1>6, <2>4, AllForThese
  <2>6. AllFor(more, V)
    BY <1>3, <1>7, <2>2, <2>5, AllForThese
  <2>7. QED
    BY <2>6 DEF AllFor
<1>15. ASSUME NEW m \in Seq(ShownPart), NEW r \in Seq(ShownPart), LastShown(m), Leads(m, more, r)
       PROVE  LastShown(r)'
  <2>1. PICK q \in Seq(ShownPart) : Leads(m, u, q) /\ Leads(q, v, r)
    BY <1>3, <1>7, <1>15, LeadsBetween
  <2>2. PICK cs \in Seq(Seq(Nat)) : cs = reply.calls
    BY <1>1 DEF ReplyTyped, Replies
  <2>3. PICK n \in Nat : n = ContentParts
    BY <1>1, ContentIs, PlacesWithin
  <2>4. /\ \A k \in Rendering!Content : ShowsPart(m, partOf[k], k, reply[k], "done")
        /\ ShowsCalls(m, n, cs, {"pending"})
    BY <1>9, <1>15, <2>2, <2>3 DEF LastShown
  <2>5. ShowsCalls(q, n, cs, Returned) /\ \A j \in 1 .. n : q[j] = m[j]
    <3>1. UpdatesCalls(u, n, cs, Returned)
      BY <1>3, <2>2, <2>3 DEF UpdatesCalls
    <3>2. u \in Seq(Updates)
      BY <1>3
    <3>3. QED
      <4>1. PICK T : T = {"pending"} /\ ShowsCalls(m, n, cs, T)
        BY <2>4
      <4>2. Leads(m, u, q)
        BY <2>1
      <4>3. CallsChanged(m, n, cs, Returned, q)
        BY <3>1, <3>2, <4>1, <4>2, CallsChange
      <4>4. QED
        BY <4>3 DEF CallsChanged
  <2>6. r = Apply(q, e)
    BY <1>6, <2>1, LeadsOneStep
  <2>7. ShowsCalls(r, n, cs, {"complete", "error"})
    <3>1. ShowsCalls(r, n, cs, {EndedState(s) : s \in Returned})
      BY <1>5, <2>5, <2>6, CallsEnd
    <3>2. \A x \in {EndedState(s) : s \in Returned} : x \in {"complete", "error"}
      BY DEF EndedState, Returned
    <3>3. QED
      BY <3>1, <3>2 DEF ShowsCalls
  <2>8. ASSUME NEW k \in Rendering!Content PROVE ShowsPart(r, partOf[k], k, reply[k], "done")
    <3>1. partOf[k] \in 0 .. n
      BY <1>1, <2>3, PlacesWithin
    <3>2. n <= Len(q)
      BY <2>5 DEF ShowsCalls
    <3>3. \A i \in 1 .. Len(m) : i = partOf[k] => i \in 1 .. Len(q) /\ q[i] = m[i]
      BY <2>5, <3>1, <3>2
    <3>4. ShowsPart(q, partOf[k], k, reply[k], "done")
      <4>1. PICK p \in Nat : p = partOf[k]
        BY <3>1
      <4>2. QED
        BY <2>4, <3>3, <4>1, PartStays
    <3>5. ShowsPart(r, partOf[k], k, reply[k], EndedState("done"))
      BY <1>5, <2>6, <3>1, <3>4, PartEnds
    <3>6. EndedState("done") = "done"
      BY DEF EndedState
    <3>7. QED
      BY <3>5, <3>6
  <2>9. ShowsCalls(r, ContentParts', reply'.calls, {"complete", "error"})
    BY <1>9, <1>13, <2>2, <2>3, <2>7
  <2>10. \A k \in Rendering!Content : ShowsPart(r, partOf'[k], k, reply'[k], "done")
    BY <1>9, <2>8
  <2>11. QED
    BY <1>9, <2>9, <2>10 DEF LastShown
<1>16. QED
  BY <1>9, <1>10, <1>11, <1>12, <1>13, <1>14, <1>15, EngineSteps

-----------------------------------------------------------------------------
(* The client.  In a read it applies some of the events.                   *)
AppliesSome(f, m, es, W) ==
  /\ f \in [0 .. Len(es) -> Seq(ShownPart)]
  /\ f[0] = m
  /\ \A k \in 1 .. Len(es) : f[k] = IF k \in W THEN Apply(f[k - 1], es[k]) ELSE f[k - 1]

LEMMA AppliedSome ==
  ASSUME NEW m \in Seq(ShownPart), NEW es \in Seq(Events), NEW W
  PROVE  \E f : AppliesSome(f, m, es, W)
<1>1. PICK Q, i, n : Q = Seq(ShownPart) /\ i = m /\ n = Len(es) /\ \A k \in 1 .. n : es[k] \in Events
  OBVIOUS
<1>2. i \in Q /\ n \in Nat
  BY <1>1
<1>3. PICK G : G = [x \in (1 .. n) \X Q |-> IF x[1] \in W THEN Apply(x[2], es[x[1]]) ELSE x[2]]
  OBVIOUS
<1>4. ASSUME NEW x \in (1 .. n) \X Q
      PROVE  (IF x[1] \in W THEN Apply(x[2], es[x[1]]) ELSE x[2]) \in Q
  <2>1. PICK k \in 1 .. n, q \in Q : x[1] = k /\ x[2] = q
    OBVIOUS
  <2>2. Apply(q, es[k]) \in Q
    BY <1>1, ApplyTyped
  <2>3. QED
    BY <2>1, <2>2
<1>5. StepOf(G, n, Q)
  BY <1>3, <1>4 DEF StepOf
<1>6. PICK f \in [0 .. n -> Q] : f[0] = i /\ \A k \in 1 .. n : f[k] = G[<<k, f[k - 1]>>]
  <2>1. PICK f : IsRecursive(f, Q, i, n, G)
    BY <1>2, <1>5, Recursion
  <2>2. QED
    BY <2>1 DEF IsRecursive
<1>7. ASSUME NEW k \in 1 .. n
      PROVE  f[k] = IF k \in W THEN Apply(f[k - 1], es[k]) ELSE f[k - 1]
  <2>1. k - 1 \in 0 .. n
    BY <1>2
  <2>2. PICK q \in Q : q = f[k - 1]
    BY <2>1
  <2>3. PICK x : x = <<k, q>>
    OBVIOUS
  <2>4. x \in (1 .. n) \X Q /\ x[1] = k /\ x[2] = q
    BY <2>3
  <2>5. G[x] = IF k \in W THEN Apply(q, es[k]) ELSE q
    BY <1>3, <2>4
  <2>6. QED
    BY <1>6, <2>2, <2>3, <2>5
<1>8. QED
  BY <1>1, <1>6, <1>7 DEF AppliesSome

(* The events that are applied in a read.                                  *)
Whole(to) == {e \in Rendering!Ended(to) : read < 2 * e - 1}

LEMMA ParsedIs ==
  ASSUME ReplyTyped, NEW to, Rendering!ParseSSEStream(to)
  PROVE  \E f : AppliesSome(f, message, events, Whole(to)) /\ message' = f[Len(events)]
<1>a. PICK Q : Q = Seq(ShownPart)
  OBVIOUS
<1>b. PICK es \in Seq(Events), m \in Seq(ShownPart) : es = events /\ m = message
  BY DEF ReplyTyped
<1>c. PICK n \in Nat : n = Len(es)
  OBVIOUS
<1>1. Q = Seq(ShownPart) /\ es = events /\ n = Len(es) /\ m = message
  BY <1>a, <1>b, <1>c
<1>2. PICK W : W = Whole(to)
  OBVIOUS
<1>3. PICK f : AppliesSome(f, m, es, W)
  BY AppliedSome
<1>4. /\ f \in [0 .. n -> Q] /\ f[0] = m
      /\ \A k \in 1 .. n : f[k] = IF k \in W THEN Apply(f[k - 1], es[k]) ELSE f[k - 1]
  BY <1>1, <1>3 DEF AppliesSome
<1>5. ASSUME NEW k \in 0 .. n
      PROVE  f[k] = IF k = 0 THEN message
                    ELSE IF k \in W THEN Rendering!ApplySSEChunk(f[k - 1], events[k]) ELSE f[k - 1]
  <2>1. CASE k = 0
    BY <1>1, <1>4, <2>1
  <2>2. CASE k # 0
    <3>1. k \in 1 .. n
      BY <2>2
    <3>2. f[k] = IF k \in W THEN Apply(f[k - 1], es[k]) ELSE f[k - 1]
      BY <1>4, <3>1
    <3>3. QED
      BY <1>1, <2>2, <3>2 DEF Apply
  <2>3. QED
    BY <2>1, <2>2
<1>6. f = [k \in 0 .. n |-> IF k = 0 THEN message
                    ELSE IF k \in W THEN Rendering!ApplySSEChunk(f[k - 1], events[k]) ELSE f[k - 1]]
  BY <1>4, <1>5
<1>7. PICK h : /\ h = [k \in 0 .. n |-> IF k = 0 THEN message
                    ELSE IF k \in W THEN Rendering!ApplySSEChunk(h[k - 1], events[k]) ELSE h[k - 1]]
               /\ message' = h[n]
  BY <1>1, <1>2, <1>6 DEF Rendering!ParseSSEStream, Whole
<1>8. h[0] = m /\ \A k \in 1 .. n : h[k] = IF k \in W THEN Apply(h[k - 1], es[k]) ELSE h[k - 1]
  <2>1. \A k \in 0 .. n : h[k] = IF k = 0 THEN message
                    ELSE IF k \in W THEN Rendering!ApplySSEChunk(h[k - 1], events[k]) ELSE h[k - 1]
    BY <1>7
  <2>2. 0 \in 0 .. n /\ \A k \in 1 .. n : k \in 0 .. n /\ k # 0
    OBVIOUS
  <2>3. QED
    BY <1>1, <2>1, <2>2 DEF Apply
<1> DEFINE U == {k \in Nat : k <= n => h[k] \in Q}
<1>9. 0 \in U
  BY <1>1, <1>8
<1>10. ASSUME NEW k \in Nat, k \in U PROVE k + 1 \in U
  <2>1. SUFFICES ASSUME k + 1 <= n PROVE h[k + 1] \in Q
    OBVIOUS
  <2>2. PICK j \in 1 .. n : j = k + 1 /\ j - 1 = k
    <3>1. k + 1 \in 1 .. n /\ (k + 1) - 1 = k
      BY <2>1
    <3>2. QED
      BY <3>1
  <2>3. h[k] \in Q /\ es[j] \in Events
    BY <1>1, <1>10, <2>1
  <2>4. Apply(h[k], es[j]) \in Q
    BY <1>1, <2>3, ApplyTyped
  <2>5. QED
    BY <1>8, <2>2, <2>3, <2>4
<1>11. \A k \in Nat : k \in U
  BY <1>9, <1>10, Induction
<1>12. h \in [0 .. n -> Q]
  <2>1. \A k \in 0 .. n : h[k] \in Q
    BY <1>11
  <2>2. h = [k \in 0 .. n |-> h[k]]
    BY <1>7
  <2>3. QED
    BY <2>1, <2>2
<1>13. AppliesSome(h, message, events, Whole(to))
  BY <1>1, <1>2, <1>8, <1>12 DEF AppliesSome
<1>14. QED
  BY <1>1, <1>7, <1>13

(* Every piece stays where it belongs, whatever is applied.                *)
LEMMA SomeInPlace ==
  ASSUME NEW R, NEW m \in Seq(ShownPart), InPlace(m, R), NEW es \in Seq(Events), NEW W,
         \A k \in 1 .. Len(es) : ForItsPart(es[k], R), NEW f, AppliesSome(f, m, es, W)
  PROVE  f[Len(es)] \in Seq(ShownPart) /\ InPlace(f[Len(es)], R)
<1>a. PICK Q : Q = Seq(ShownPart)
  OBVIOUS
<1>b. PICK n \in Nat : n = Len(es)
  OBVIOUS
<1>1. Q = Seq(ShownPart) /\ n = Len(es)
  BY <1>a, <1>b
<1>2. /\ f \in [0 .. n -> Q] /\ f[0] = m
      /\ \A k \in 1 .. n : f[k] = IF k \in W THEN Apply(f[k - 1], es[k]) ELSE f[k - 1]
  BY <1>1 DEF AppliesSome
<1> DEFINE U == {k \in Nat : k <= n => InPlace(f[k], R)}
<1>3. 0 \in U
  BY <1>2
<1>4. ASSUME NEW k \in Nat, k \in U PROVE k + 1 \in U
  <2>1. SUFFICES ASSUME k + 1 <= n PROVE InPlace(f[k + 1], R)
    OBVIOUS
  <2>2. PICK j \in 1 .. n : j = k + 1 /\ j - 1 = k
    <3>1. k + 1 \in 1 .. n /\ (k + 1) - 1 = k
      BY <2>1
    <3>2. QED
      BY <3>1
  <2>3. PICK q \in Seq(ShownPart) : q = f[k] /\ InPlace(q, R)
    <3>1. k \in 0 .. n /\ k <= n
      BY <2>1
    <3>2. f[k] \in Q
      BY <1>2, <3>1
    <3>3. QED
      BY <1>1, <1>4, <3>1, <3>2
  <2>4. PICK e \in Events : e = es[j] /\ ForItsPart(e, R)
    BY <1>1, <2>2
  <2>5. InPlace(Apply(q, e), R)
    BY <2>3, <2>4, StaysInPlace
  <2>6. f[j] = IF j \in W THEN Apply(q, e) ELSE q
    BY <1>2, <2>2, <2>3, <2>4
  <2>7. QED
    BY <2>2, <2>3, <2>5, <2>6
<1>5. \A k \in Nat : k \in U
  BY <1>3, <1>4, Induction
<1>6. n \in 0 .. n
  OBVIOUS
<1>7. QED
  BY <1>1, <1>2, <1>5, <1>6

(* Who applies an interval of the events goes from its begin to its end.   *)
IsInterval(W, n, a, b) == \A k \in 1 .. n : k \in W <=> a < k /\ k <= b

LEMMA AppliedBetween ==
  ASSUME NEW es \in Seq(Events), NEW g, AppliesInTurn(g, <<>>, es),
         NEW a \in Nat, NEW b \in Nat, a <= b, b <= Len(es),
         NEW W, IsInterval(W, Len(es), a, b),
         NEW m, m = g[a], NEW f, AppliesSome(f, m, es, W)
  PROVE  f[Len(es)] = g[b]
<1>1. PICK n \in Nat : n = Len(es) /\ \A k \in 1 .. n : k \in W <=> a < k /\ k <= b
  BY DEF IsInterval
<1>2. f[0] = m /\ \A k \in 1 .. n : f[k] = IF k \in W THEN Apply(f[k - 1], es[k]) ELSE f[k - 1]
  BY <1>1 DEF AppliesSome
<1>3. \A k \in 1 .. n : g[k] = Apply(g[k - 1], es[k])
  BY <1>1 DEF AppliesInTurn
<1> DEFINE At(k) == IF k <= a THEN a ELSE IF k <= b THEN k ELSE b
           U == {k \in Nat : k <= n => f[k] = g[At(k)]}
<1>4. 0 \in U
  BY <1>2
<1>5. ASSUME NEW k \in Nat, k \in U PROVE k + 1 \in U
  <2>1. SUFFICES ASSUME k + 1 <= n PROVE f[k + 1] = g[At(k + 1)]
    OBVIOUS
  <2>2. PICK j \in 1 .. n : j = k + 1 /\ j - 1 = k
    <3>1. k + 1 \in 1 .. n /\ (k + 1) - 1 = k
      BY <2>1
    <3>2. QED
      BY <3>1
  <2>3. f[k] = g[At(k)]
    BY <1>5, <2>1
  <2>4. CASE a < j /\ j <= b
    <3>1. At(k) = k /\ At(j) = j
      BY <2>2, <2>4
    <3>2. j \in W
      BY <1>1, <2>4
    <3>3. QED
      BY <1>2, <1>3, <2>2, <2>3, <3>1, <3>2
  <2>5. CASE ~(a < j /\ j <= b)
    <3>1. At(j) = At(k)
      BY <2>2, <2>5
    <3>2. j \notin W
      BY <1>1, <2>5
    <3>3. QED
      BY <1>2, <2>2, <2>3, <3>1, <3>2
  <2>6. QED
    BY <2>4, <2>5
<1>6. \A k \in Nat : k \in U
  BY <1>4, <1>5, Induction
<1>7. At(n) = b
  BY <1>1
<1>8. f[n] = g[At(n)]
  BY <1>6
<1>9. QED
  BY <1>1, <1>7, <1>8

(* A client that has lost nothing shows what the events it has read show.  *)
LEMMA NothingLostInRead ==
  ASSUME ReplyTyped, NEW to \in Nat, Rendering!ParseSSEStream(to), dropped' = {},
         NEW g, Follows(g, events, message, read, dropped)
  PROVE  Follows(g, events, message', read', dropped')
<1>a. PICK es \in Seq(Events) : es = events
  BY DEF ReplyTyped
<1>b. PICK n \in Nat : n = Len(es) /\ DOMAIN es = 1 .. n
  OBVIOUS
<1>1. /\ es = events /\ n = Len(events) /\ DOMAIN events = 1 .. n
      /\ read \in Nat /\ message \in Seq(ShownPart)
  BY <1>a, <1>b DEF ReplyTyped
<1>2. AppliesInTurn(g, <<>>, es)
  BY <1>1 DEF Follows
<1>c. /\ dropped = {}
      /\ \A x \in Rendering!Ended(to) : x \in Whole(to)
      /\ to \in Int /\ read < to /\ to <= 2 * n /\ read' = to
  <2>1. /\ dropped' = dropped \cup (Rendering!Ended(to) \ Whole(to))
        /\ to <= 2 * Len(events) /\ read < to /\ read' = to
    BY DEF Rendering!ParseSSEStream, Whole
  <2>2. PICK X, Y : X = Rendering!Ended(to) /\ Y = Whole(to)
    OBVIOUS
  <2>3. dropped = {} /\ \A x \in X : x \in Y
    BY <2>1, <2>2
  <2>4. QED
    BY <1>1, <2>1, <2>2, <2>3
<1>3. PICK a \in 0 .. n : 2 * a <= read /\ read <= 2 * a + 1 /\ message = g[a]
  BY <1>1, <1>c DEF Follows
<1>4. \A k \in 1 .. n : read < 2 * k /\ 2 * k <= to => read < 2 * k - 1
  BY <1>1, <1>c DEF Whole, Rendering!Ended
<1>5. read = 2 * a
  <2>1. SUFFICES ASSUME read = 2 * a + 1 PROVE FALSE
    BY <1>1, <1>3
  <2>2. a + 1 \in 1 .. n /\ read < 2 * (a + 1) /\ 2 * (a + 1) <= to
    BY <1>1, <1>3, <1>c, <2>1
  <2>3. read < 2 * (a + 1) - 1
    BY <1>4, <2>2
  <2>4. QED
    BY <1>3, <2>1, <2>3
<1>6. PICK b \in 0 .. n : 2 * b <= to /\ to <= 2 * b + 1
  <2>1. to \div 2 \in 0 .. n /\ 2 * (to \div 2) <= to /\ to <= 2 * (to \div 2) + 1
    BY <1>1, <1>c
  <2>2. QED
    BY <2>1
<1>7. a <= b
  BY <1>1, <1>3, <1>5, <1>6, <1>c
<1>8. PICK W : W = Whole(to)
  OBVIOUS
<1>9. \A k \in 1 .. n : k \in W <=> a < k /\ k <= b
  <2>1. ASSUME NEW k \in 1 .. n PROVE k \in W <=> (read < 2 * k - 1 /\ read < 2 * k /\ 2 * k <= to)
    BY <1>1, <1>8 DEF Whole, Rendering!Ended
  <2>2. ASSUME NEW k \in 1 .. n
        PROVE  (read < 2 * k - 1 /\ read < 2 * k /\ 2 * k <= to) <=> a < k /\ k <= b
    BY <1>5, <1>6, <1>c
  <2>3. QED
    BY <2>1, <2>2
<1>10. PICK h : AppliesSome(h, message, events, Whole(to)) /\ message' = h[Len(events)]
  BY ParsedIs
<1>11. h[Len(es)] = g[b]
  <2>1. PICK m : m = g[a] /\ AppliesSome(h, m, es, W)
    BY <1>1, <1>3, <1>8, <1>10
  <2>2. b <= Len(es) /\ a \in Nat /\ b \in Nat /\ IsInterval(W, Len(es), a, b)
    BY <1>b, <1>9 DEF IsInterval
  <2>3. QED
    BY <1>2, <1>7, <2>1, <2>2, AppliedBetween
<1>12. message' = g[b] /\ 2 * b <= read' /\ read' <= 2 * b + 1 /\ b \in 0 .. Len(events)
  BY <1>1, <1>6, <1>10, <1>11, <1>c
<1>13. AppliesInTurn(g, <<>>, events)
  BY DEF Follows
<1>14. QED
  BY <1>12, <1>13 DEF Follows

LEMMA ReadStep ==
  ASSUME ReplyState, NEW to \in Nat, Rendering!ParseSSEStream(to)
  PROVE  ReplyState'
<1>1. ReplyTyped /\ ReplyKept
  BY DEF ReplyState
<1>2. /\ read' = to /\ to <= 2 * Len(events)
      /\ UNCHANGED <<sent, reply, partOf, stage, events>>
  BY DEF Rendering!ParseSSEStream
<1>3. PICK h : AppliesSome(h, message, events, Whole(to)) /\ message' = h[Len(events)]
  BY <1>1, ParsedIs
<1>4. PICK V : V = Homes
  OBVIOUS
<1>5. Homes' = V
  BY <1>2, <1>4 DEF Homes, Home, ContentParts
<1>6. InPlace(message, V) /\ \A k \in 1 .. Len(events) : ForItsPart(events[k], V)
  BY <1>4 DEF ReplyState, AllInPlace
<1>7. message' \in Seq(ShownPart) /\ InPlace(message', V)
  <2>1. PICK es \in Seq(Events), m \in Seq(ShownPart) : es = events /\ m = message
    BY <1>1 DEF ReplyTyped
  <2>2. PICK W : W = Whole(to)
    OBVIOUS
  <2>3. h[Len(es)] \in Seq(ShownPart) /\ InPlace(h[Len(es)], V)
    <3>1. InPlace(m, V) /\ \A k \in 1 .. Len(es) : ForItsPart(es[k], V)
      BY <1>6, <2>1
    <3>2. AppliesSome(h, m, es, W)
      BY <1>3, <2>1, <2>2
    <3>3. QED
      BY <3>1, <3>2, SomeInPlace
  <2>4. QED
    BY <1>3, <2>1, <2>3
<1>8. ReplyTyped'
  <2>1. Len(events) \in Nat
    BY <1>1 DEF ReplyTyped
  <2>2. read' \in 0 .. 2 * Len(events')
    BY <1>2, <2>1
  <2>3. QED
    BY <1>1, <1>2, <1>7, <2>2 DEF ReplyTyped
<1>9. ReplyKept'
  BY <1>1, <1>2 DEF ReplyKept, CallWords
<1>10. AllInPlace'
  BY <1>2, <1>5, <1>6, <1>7 DEF AllInPlace
<1>11. PICK g : Follows(g, events, message, read, dropped) /\ LastShown(g[Len(events)])
  BY DEF ReplyState, RenderKept
<1>12. Follows(g, events, message', read', dropped')
  <2>1. CASE dropped' = {}
    BY <1>1, <1>11, <2>1, NothingLostInRead
  <2>2. CASE dropped' # {}
    BY <1>11, <2>2 DEF Follows
  <2>3. QED
    BY <2>1, <2>2
<1>13. PICK m : m = g[Len(events)]
  OBVIOUS
<1>14. LastShown(m)'
  <2>1. LastShown(m) /\ ContentParts' = ContentParts
    BY <1>2, <1>11, <1>13 DEF ContentParts
  <2>2. QED
    BY <1>2, <2>1 DEF LastShown
<1>15. RenderKept'
  <2>1. Follows(g, events', message', read', dropped') /\ m = g[Len(events')]
    BY <1>2, <1>12, <1>13
  <2>2. QED
    BY <1>14, <2>1 DEF RenderKept
<1>16. QED
  BY <1>8, <1>9, <1>10, <1>15 DEF ReplyState

-----------------------------------------------------------------------------
(* The invariant of the reply holds from the start and in every step.      *)
LEMMA NothingInNothing ==
  ASSUME NEW z, z = <<>>
  PROVE  \A w : PiecesIn(z, w) = z
<1>1. z \in Seq(Nat) /\ Len(z) = 0
  OBVIOUS
<1>2. ASSUME NEW w PROVE PiecesIn(z, w) = z
  <2>1. PICK p \in Seq(Nat) : p = PiecesIn(z, w) /\ ElementsOf(p) = Places(z, w)
    BY <1>1, PiecesTyped
  <2>2. Places(z, w) = {}
    BY <1>1 DEF Places
  <2>3. Len(p) = 0
    <3>1. SUFFICES ASSUME Len(p) # 0 PROVE FALSE
      OBVIOUS
    <3>2. 1 \in 1 .. Len(p)
      BY <3>1
    <3>3. p[1] \in ElementsOf(p)
      BY <3>2 DEF ElementsOf
    <3>4. QED
      BY <2>1, <2>2, <3>3
  <2>4. p = <<>>
    BY <2>3
  <2>5. QED
    BY <2>1, <2>4
<1>3. QED
  BY <1>2

LEMMA ReplyStart ==
  ASSUME ReplyBounds, Rendering!Init
  PROVE  ReplyState
<1>1. PICK z : z = <<>>
  OBVIOUS
<1>2. /\ Len(z) = 0 /\ \A S : z \in Seq(S)
  BY <1>1
<1>3. PICK e : e = [type |-> "step_create"]
  OBVIOUS
<1>4. e \in Marks /\ e \in Events /\ e.type = "step_create"
  BY <1>3 DEF Marks, Events
<1>5. PICK es \in Seq(Events) : es = <<e>>
  BY <1>4, EventsTyped
<1>6. Len(es) = 1 /\ es[1] = e
  BY <1>5
<1>7. /\ sent = z /\ reply = [text |-> z, reasoning |-> z, calls |-> z]
      /\ partOf = [k \in Rendering!Content |-> 0] /\ stage = "streaming"
      /\ events = es /\ read = 0 /\ message = z /\ dropped = {}
  BY <1>1, <1>3, <1>5 DEF Rendering!Init
<1>8. reply.text = z /\ reply.reasoning = z /\ reply.calls = z
  BY <1>7
<1>9. ReplyTyped
  <2>1. reply \in Replies
    BY <1>2, <1>7 DEF Replies
  <2>2. 0 \in 0 .. 2 * Len(es)
    BY <1>6
  <2>3. QED
    BY <1>2, <1>7, <2>1, <2>2 DEF ReplyTyped
<1>10. partOf["text"] = 0 /\ partOf["reasoning"] = 0 /\ \A k \in Rendering!Content : partOf[k] = 0 /\ reply[k] = z
  BY <1>7, <1>8, ContentIs
<1>11. ContentParts = 0
  BY <1>10 DEF ContentParts, OpenParts
<1>12. ReplyKept
  <2>1. \A w : PiecesIn(sent, w) = z
    BY <1>1, <1>7, NothingInNothing
  <2>2. \A k \in Rendering!Content : /\ reply[k] = PiecesIn(sent, <<k, 0>>)
                                     /\ partOf[k] > 0 <=> reply[k] # <<>>
    BY <1>1, <1>10, <2>1
  <2>3. Opened(partOf["text"], partOf["reasoning"])
    BY <1>10 DEF Opened
  <2>4. Len(reply.calls) = 0 /\ Len(sent) = 0 /\ 0 <= ReplyCalls
    BY <1>2, <1>7, <1>8 DEF ReplyBounds
  <2>5. QED
    BY <2>2, <2>3, <2>4 DEF ReplyKept
<1>13. AllInPlace
  <2>1. InPlace(message, Homes)
    BY <1>2, <1>7 DEF InPlace
  <2>2. ForItsPart(e, Homes)
    <3>1. e \notin Creates \cup Updates
      BY <1>4, EventTypes
    <3>2. QED
      BY <3>1 DEF ForItsPart
  <2>3. \A k \in 1 .. Len(events) : ForItsPart(events[k], Homes)
    <3>1. AllFor(es, Homes)
      BY <1>5, <2>2, AllForThese
    <3>2. events = es
      BY <1>7
    <3>3. QED
      BY <3>1, <3>2 DEF AllFor
  <2>4. QED
    BY <2>1, <2>3 DEF AllInPlace
<1>14. PICK f : f = [k \in 0 .. 1 |-> z]
  OBVIOUS
<1>15. AppliesInTurn(f, z, es)
  <2>1. Apply(z, e) = z
    BY <1>1, <1>4 DEF Apply, Rendering!ApplySSEChunk
  <2>2. f \in [0 .. 1 -> Seq(ShownPart)] /\ f[0] = z /\ f[1] = z /\ 1 - 1 = 0
    BY <1>2, <1>14
  <2>3. QED
    BY <1>6, <2>1, <2>2 DEF AppliesInTurn
<1>16. Follows(f, events, message, read, dropped)
  <2>1. 0 \in 0 .. Len(events) /\ 2 * 0 <= read /\ read <= 2 * 0 + 1 /\ message = f[0]
    BY <1>6, <1>7, <1>14
  <2>2. AppliesInTurn(f, <<>>, events)
    BY <1>1, <1>7, <1>15
  <2>3. QED
    BY <2>1, <2>2 DEF Follows
<1>17. LastShown(z)
  <2>1. \A k \in Rendering!Content : ShowsPart(z, partOf[k], k, reply[k], "streaming")
    BY <1>10 DEF ShowsPart
  <2>2. QED
    BY <1>2, <1>7, <1>11, <2>1 DEF LastShown
<1>18. RenderKept
  <2>1. f[Len(events)] = z
    BY <1>6, <1>7, <1>14
  <2>2. QED
    BY <1>16, <1>17, <2>1 DEF RenderKept
<1>19. QED
  BY <1>9, <1>12, <1>13, <1>18 DEF ReplyState

LEMMA ReplyStutters ==
  ASSUME ReplyState, UNCHANGED <<sent, reply, partOf, stage, events, read, message, dropped>>
  PROVE  ReplyState'
<1>1. ReplyTyped' /\ ReplyKept'
  BY DEF ReplyState, ReplyTyped, ReplyKept, CallWords
<1>2. ContentParts' = ContentParts
  BY DEF ContentParts
<1>3. Homes' = Homes
  BY <1>2 DEF Homes, Home
<1>4. AllInPlace'
  BY <1>3 DEF ReplyState, AllInPlace
<1>5. PICK f : Follows(f, events, message, read, dropped) /\ LastShown(f[Len(events)])
  BY DEF ReplyState, RenderKept
<1>6. PICK m : m = f[Len(events)] /\ m = f[Len(events')]
  OBVIOUS
<1>7. LastShown(m)'
  BY <1>2, <1>5, <1>6 DEF LastShown
<1>8. RenderKept'
  BY <1>5, <1>6, <1>7 DEF RenderKept
<1>9. QED
  BY <1>1, <1>4, <1>8 DEF ReplyState

LEMMA ReplySteps ==
  ASSUME ReplyBounds, ReplyState, [Rendering!Next]_(Rendering!replyVars)
  PROVE  ReplyState'
<1>1. ASSUME NEW kind \in Rendering!Content, Rendering!ContentDelta(kind) PROVE ReplyState'
  BY <1>1, ContentStep
<1>2. ASSUME NEW i \in Rendering!Indices, Rendering!ToolCallDelta(i) PROVE ReplyState'
  BY <1>2, CallStep
<1>3. CASE Rendering!StreamEnds
  <2>1. CASE reply.calls = <<>>
    BY <1>3, <2>1, EndStep
  <2>2. CASE reply.calls # <<>>
    BY <1>3, <2>2, BeginStep
  <2>3. QED
    BY <2>1, <2>2
<1>4. CASE Rendering!StreamFails
  BY <1>4, FailStep
<1>5. ASSUME NEW states \in [Rendering!Indices -> Returned], Rendering!ToolsReturn(states)
      PROVE  ReplyState'
  BY <1>5, ReturnStep
<1>6. ASSUME NEW to \in read + 1 .. 2 * Len(events), Rendering!ParseSSEStream(to)
      PROVE  ReplyState'
  <2>1. to \in Nat
    <3>1. read \in Nat /\ Len(events) \in Nat
      BY DEF ReplyState, ReplyTyped
    <3>2. QED
      BY <3>1
  <2>2. QED
    BY <1>6, <2>1, ReadStep
<1>7. CASE UNCHANGED Rendering!replyVars
  BY <1>7, ReplyStutters DEF Rendering!replyVars
<1>8. QED
  BY <1>1, <1>2, <1>3, <1>4, <1>5, <1>6, <1>7 DEF Rendering!Next, Returned

-----------------------------------------------------------------------------
(* What the invariant says of what is executed, shown and stored.          *)
LEMMA CallsAreWhole ==
  ASSUME ReplyState
  PROVE  Rendering!CallsWhole
<1>1. sent \in Seq(Words) /\ reply \in Replies
  BY DEF ReplyState, ReplyTyped
<1>2. DOMAIN reply.calls = 1 .. Len(reply.calls)
  BY <1>1 DEF Replies
<1>3. ASSUME NEW i \in 1 .. Len(reply.calls)
      PROVE  reply.calls[i] = Rendering!PiecesOf("call", i)
  <2>1. reply.calls[i] = PiecesIn(sent, <<"call", i>>)
    BY DEF ReplyState, ReplyKept
  <2>2. QED
    BY <1>1, <2>1, PiecesAre
<1>4. QED
  BY <1>2, <1>3 DEF Rendering!CallsWhole

LEMMA PiecesAreHome ==
  ASSUME ReplyState
  PROVE  Rendering!NothingStrays
<1>1. ReplyTyped /\ ReplyKept /\ InPlace(message, Homes)
  BY DEF ReplyState, AllInPlace
<1>2. message \in Seq(ShownPart) /\ DOMAIN message = 1 .. Len(message)
  BY <1>1 DEF ReplyTyped
<1>3. ASSUME NEW i \in 1 .. Len(message), NEW n \in Rendering!ToSet(message[i].pieces)
      PROVE  IF sent[n][1] = "call" THEN i = Rendering!FirstCallPart + sent[n][2]
             ELSE i = partOf[sent[n][1]]
  <2>1. PICK ps \in Seq(Nat) : ps = message[i].pieces
    <3>1. PICK q \in ShownPart : q = message[i]
      BY <1>2
    <3>2. q.pieces \in Seq(Nat)
      BY DEF ShownPart
    <3>3. QED
      BY <3>1, <3>2
  <2>2. n \in ElementsOf(ps)
    BY <2>1 DEF Rendering!ToSet, ElementsOf
  <2>3. <<n, i>> \in Homes
    BY <1>1, <2>1, <2>2 DEF InPlace, OfPart
  <2>4. n \in 1 .. Len(sent) /\ i = Home(n)
    BY <2>3 DEF Homes
  <2>5. CASE sent[n][1] = "call"
    <3>1. \E j \in 1 .. Len(reply.calls) : sent[n] = <<"call", j>>
      <4>1. ~ \E k \in Rendering!Content : sent[n] = <<k, 0>> /\ sent[n][1] # "call"
        BY <2>5
      <4>2. QED
        BY <1>1, <2>4, <4>1, WordsSent
    <3>2. reply.calls # <<>>
      <4>1. reply.calls \in Seq(Seq(Nat))
        BY <1>1 DEF ReplyTyped, Replies
      <4>2. PICK cs \in Seq(Seq(Nat)) : cs = reply.calls
        BY <4>1
      <4>3. Len(cs) # 0
        BY <3>1, <4>2
      <4>4. QED
        BY <4>2, <4>3
    <3>3. Rendering!FirstCallPart = ContentParts
      BY <1>1, <3>2, FirstCallPartIs
    <3>4. QED
      BY <2>4, <2>5, <3>3 DEF Home
  <2>6. CASE sent[n][1] # "call"
    BY <2>4, <2>6 DEF Home
  <2>7. QED
    BY <2>5, <2>6
<1>4. QED
  BY <1>2, <1>3 DEF Rendering!NothingStrays

LEMMA AllRead ==
  ASSUME ReplyState, stage = "done", read = 2 * Len(events), dropped = {}
  PROVE  LastShown(message)
<1>1. PICK f : Follows(f, events, message, read, dropped) /\ LastShown(f[Len(events)])
  BY DEF ReplyState, RenderKept
<1>2. PICK k \in 0 .. Len(events) : 2 * k <= read /\ read <= 2 * k + 1 /\ message = f[k]
  BY <1>1 DEF Follows
<1>3. PICK n \in Nat : n = Len(events)
  BY DEF ReplyState, ReplyTyped
<1>4. k = n
  BY <1>2, <1>3
<1>5. QED
  BY <1>1, <1>2, <1>3, <1>4

LEMMA PartsCounted ==
  ASSUME ReplyTyped, ReplyKept
  PROVE  Cardinality(ToSet(sent)) = ContentParts + Len(reply.calls)
<1>1. PICK l \in Nat : l = Len(reply.calls)
  BY DEF ReplyTyped, Replies
<1>2. sent \in Seq(Words) /\ DOMAIN sent = 1 .. Len(sent)
  BY DEF ReplyTyped
<1>3. ASSUME NEW w, PiecesIn(sent, w) # <<>>
      PROVE  w \in ToSet(sent)
  <2>1. PICK q \in Seq(Nat) : q = PiecesIn(sent, w) /\ ElementsOf(q) = Places(sent, w)
    BY <1>2, PiecesTyped
  <2>2. 1 \in 1 .. Len(q)
    BY <1>3, <2>1
  <2>3. q[1] \in Places(sent, w)
    BY <2>1, <2>2 DEF ElementsOf
  <2>4. QED
    BY <1>2, <2>3 DEF Places, ToSet
<1>4. PICK a, b, x, y : a = "text" /\ b = "reasoning" /\ x = <<a, 0>> /\ y = <<b, 0>>
  OBVIOUS
<1>5. PICK C : C = [k \in Nat |-> {<<"call", i>> : i \in 1 .. k}]
  OBVIOUS
<1>6. ASSUME NEW k \in Nat PROVE x \notin C[k] /\ y \notin C[k]
  BY <1>4, <1>5
<1>7. x # y
  BY <1>4
<1> DEFINE U == {k \in Nat : IsFiniteSet(C[k]) /\ Cardinality(C[k]) = k}
<1>8. 0 \in U
  <2>1. C[0] = {}
    BY <1>5
  <2>2. QED
    BY <2>1, FS_EmptySet
<1>9. ASSUME NEW k \in Nat, k \in U PROVE k + 1 \in U
  <2>1. PICK z : z = <<"call", k + 1>>
    OBVIOUS
  <2>2. C[k + 1] = C[k] \cup {z}
    <3>1. C[k + 1] = {<<"call", i>> : i \in 1 .. k + 1} /\ C[k] = {<<"call", i>> : i \in 1 .. k}
      BY <1>5
    <3>2. 1 .. k + 1 = (1 .. k) \cup {k + 1}
      OBVIOUS
    <3>3. QED
      BY <2>1, <3>1, <3>2
  <2>3. z \notin C[k]
    BY <1>5, <2>1
  <2>4. IsFiniteSet(C[k] \cup {z}) /\ Cardinality(C[k] \cup {z}) = Cardinality(C[k]) + 1
    BY <1>9, <2>3, FS_AddElement
  <2>5. QED
    BY <1>9, <2>2, <2>4
<1>10. \A k \in Nat : k \in U
  BY <1>8, <1>9, Induction
<1>11. IsFiniteSet(C[l]) /\ Cardinality(C[l]) = l /\ C[l] = CallWords
  BY <1>1, <1>5, <1>10 DEF CallWords
<1>12. PICK D : D = IF partOf[a] > 0 THEN C[l] \cup {x} ELSE C[l]
  OBVIOUS
<1>13. IsFiniteSet(D) /\ Cardinality(D) = (IF partOf[a] > 0 THEN 1 ELSE 0) + l
  <2>1. IsFiniteSet(C[l] \cup {x}) /\ Cardinality(C[l] \cup {x}) = Cardinality(C[l]) + 1
    BY <1>6, <1>11, FS_AddElement
  <2>2. QED
    BY <1>11, <1>12, <2>1
<1>14. PICK E : E = IF partOf[b] > 0 THEN D \cup {y} ELSE D
  OBVIOUS
<1>15. IsFiniteSet(E) /\ Cardinality(E) = ContentParts + l
  <2>1. y \notin D
    BY <1>6, <1>7, <1>12
  <2>2. IsFiniteSet(D \cup {y}) /\ Cardinality(D \cup {y}) = Cardinality(D) + 1
    BY <1>13, <2>1, FS_AddElement
  <2>3. QED
    BY <1>4, <1>13, <1>14, <2>2 DEF ContentParts, OpenParts
<1>16. ToSet(sent) = E
  <2>1. ASSUME NEW w \in ToSet(sent) PROVE w \in E
    <3>1. PICK n \in 1 .. Len(sent) : w = sent[n]
      BY <1>2 DEF ToSet
    <3>2. CASE \E k \in Rendering!Content : sent[n] = <<k, 0>>
      <4>1. PICK k \in Rendering!Content : sent[n] = <<k, 0>>
        BY <3>2
      <4>2. partOf[k] > 0
        BY <4>1, ContentHasPart
      <4>3. k = a \/ k = b
        BY <1>4, ContentIs
      <4>4. QED
        BY <1>4, <1>12, <1>14, <3>1, <4>1, <4>2, <4>3
    <3>3. CASE \E i \in 1 .. Len(reply.calls) : sent[n] = <<"call", i>>
      <4>1. w \in C[l]
        BY <1>11, <3>1, <3>3 DEF CallWords
      <4>2. QED
        BY <1>12, <1>14, <4>1
    <3>4. QED
      BY <3>2, <3>3, WordsSent
  <2>2. C[l] \subseteq ToSet(sent)
    <3>1. ASSUME NEW i \in 1 .. Len(reply.calls) PROVE <<"call", i>> \in ToSet(sent)
      BY <1>3 DEF ReplyKept
    <3>2. QED
      BY <1>11, <3>1 DEF CallWords
  <2>3. ASSUME NEW k \in Rendering!Content, partOf[k] > 0 PROVE <<k, 0>> \in ToSet(sent)
    BY <1>3, <2>3 DEF ReplyKept
  <2>4. (partOf[a] > 0 => x \in ToSet(sent)) /\ (partOf[b] > 0 => y \in ToSet(sent))
    BY <1>4, <2>3, ContentIs
  <2>5. E \subseteq ToSet(sent)
    BY <1>12, <1>14, <2>2, <2>4
  <2>6. QED
    BY <2>1, <2>5
<1>17. QED
  BY <1>1, <1>15, <1>16

LEMMA ShownIsWhole ==
  ASSUME ReplyState
  PROVE  Rendering!ShownWhole
<1>1. SUFFICES ASSUME stage = "done", read = 2 * Len(events), dropped = {}
               PROVE  /\ \A kind \in Rendering!Content : partOf[kind] > 0 =>
                           message[partOf[kind]] = [kind |-> kind, pieces |-> Rendering!PiecesOf(kind, 0),
                                                    state |-> "done"]
                      /\ \A i \in DOMAIN reply.calls :
                           /\ message[Rendering!FirstCallPart + i].kind = "tool-call"
                           /\ message[Rendering!FirstCallPart + i].pieces = Rendering!PiecesOf("call", i)
                           /\ message[Rendering!FirstCallPart + i].state \in {"complete", "error"}
                      /\ Len(message) = Rendering!Cardinality(Rendering!ToSet(sent))
  BY DEF Rendering!ShownWhole
<1>2. ReplyTyped /\ ReplyKept /\ sent \in Seq(Words)
  BY DEF ReplyState, ReplyTyped
<1>3. /\ \A k \in Rendering!Content : ShowsPart(message, partOf[k], k, reply[k], "done")
      /\ ShowsCalls(message, ContentParts, reply.calls, {"complete", "error"})
  BY <1>1, AllRead DEF LastShown
<1>4. ASSUME NEW kind \in Rendering!Content, partOf[kind] > 0
      PROVE  message[partOf[kind]] = [kind |-> kind, pieces |-> Rendering!PiecesOf(kind, 0),
                                      state |-> "done"]
  <2>1. reply[kind] = PiecesIn(sent, <<kind, 0>>)
    BY <1>2 DEF ReplyKept
  <2>2. Rendering!PiecesOf(kind, 0) = PiecesIn(sent, <<kind, 0>>)
    BY <1>2, PiecesAre
  <2>3. message[partOf[kind]] = [kind |-> kind, pieces |-> reply[kind], state |-> "done"]
    BY <1>3, <1>4 DEF ShowsPart
  <2>4. QED
    BY <2>1, <2>2, <2>3
<1>5. ASSUME NEW i \in DOMAIN reply.calls
      PROVE  /\ message[Rendering!FirstCallPart + i].kind = "tool-call"
             /\ message[Rendering!FirstCallPart + i].pieces = Rendering!PiecesOf("call", i)
             /\ message[Rendering!FirstCallPart + i].state \in {"complete", "error"}
  <2>1. PICK cs \in Seq(Seq(Nat)) : cs = reply.calls
    BY <1>2 DEF ReplyTyped, Replies
  <2>2. i \in 1 .. Len(cs) /\ cs # <<>>
    BY <2>1
  <2>3. Rendering!FirstCallPart = ContentParts
    BY <1>2, <2>1, <2>2, FirstCallPartIs
  <2>4. cs[i] = Rendering!PiecesOf("call", i)
    <3>1. cs[i] = PiecesIn(sent, <<"call", i>>)
      BY <1>2, <2>1, <2>2 DEF ReplyKept
    <3>2. QED
      BY <1>2, <3>1, PiecesAre
  <2>5. QED
    BY <1>3, <2>1, <2>2, <2>3, <2>4 DEF ShowsCalls
<1>6. Len(message) = Rendering!Cardinality(Rendering!ToSet(sent))
  <2>1. Len(message) = ContentParts + Len(reply.calls)
    BY <1>3 DEF ShowsCalls
  <2>2. Cardinality(ToSet(sent)) = ContentParts + Len(reply.calls)
    BY <1>2, PartsCounted
  <2>3. Rendering!Cardinality(Rendering!ToSet(sent)) = Cardinality(ToSet(sent))
    BY SameInReply
  <2>4. QED
    BY <2>1, <2>2, <2>3
<1>7. QED
  BY <1>4, <1>5, <1>6

(* The parts of the row that are not empty.                                *)
NotEmpty == {p \in StoredPart : p.pieces # <<>>}
TextIn == IF reply.text # <<>> THEN <<OfText>> ELSE <<>>
Kept == (InFront \o TextIn) \o OfCalls

LEMMA StoredKept ==
  ASSUME ReplyTyped, ReplyKept
  PROVE  Only(Rendering!StoredParts, NotEmpty) = Kept
<1>1. reply \in Replies
  BY DEF ReplyTyped
<1>2. PICK a \in Seq(StoredPart), b \in Seq(StoredPart), c \in Seq(StoredPart) :
        /\ a = InFront /\ b = Behind /\ c = OfCalls
        /\ Len(c) = Len(reply.calls) /\ Rendering!StoredParts = (a \o b) \o c
  BY <1>1, StoredAre
<1>3. PICK x \in StoredPart, y \in StoredPart : x = OfReasoning /\ y = OfText
  BY <1>1, StoredAre
<1>4. PICK N : N = NotEmpty
  OBVIOUS
<1>5. (x \in N <=> reply.reasoning # <<>>) /\ (y \in N <=> reply.text # <<>>)
  BY <1>3, <1>4 DEF NotEmpty, OfReasoning, OfText
<1>6. Only(a, N) = InFront
  <2>1. CASE reply.reasoning # <<>>
    BY <1>2, <1>3, <1>5, <2>1, OnlyOfOne DEF InFront
  <2>2. CASE reply.reasoning = <<>>
    BY <1>2, <2>2, OnlyOfEmpty DEF InFront
  <2>3. QED
    BY <2>1, <2>2
<1>7. Only(b, N) = TextIn
  <2>1. CASE reply.text # <<>> \/ reply.calls = <<>>
    <3>1. b = <<y>>
      BY <1>2, <1>3, <2>1 DEF Behind
    <3>2. Only(<<y>>, N) = IF y \in N THEN <<y>> ELSE <<>>
      BY OnlyOfOne
    <3>3. QED
      BY <1>3, <1>5, <3>1, <3>2 DEF TextIn
  <2>2. CASE ~(reply.text # <<>> \/ reply.calls = <<>>)
    BY <1>2, <2>2, OnlyOfEmpty DEF Behind, TextIn
  <2>3. QED
    BY <2>1, <2>2
<1>8. Only(c, N) = c
  <2>1. PICK l \in Nat : l = Len(c) /\ l = Len(reply.calls) /\ DOMAIN c = 1 .. l
    BY <1>2
  <2>2. ASSUME NEW i \in 1 .. l PROVE c[i] \in N
    <3>1. c[i] \in StoredPart
      BY <2>1
    <3>2. c[i].pieces = reply.calls[i]
      BY <1>2, <2>1 DEF OfCalls
    <3>3. reply.calls[i] # <<>>
      BY <2>1 DEF ReplyKept
    <3>4. QED
      BY <1>4, <3>1, <3>2, <3>3 DEF NotEmpty
  <2>3. c \in [1 .. l -> N]
    <3>1. c = [i \in 1 .. l |-> c[i]]
      BY <2>1
    <3>2. QED
      BY <2>2, <3>1
  <2>4. c \in Seq(N)
    BY <2>3, FunctionIsList
  <2>5. QED
    BY <2>4, OnlyAll
<1>9. PICK d : d = Rendering!StoredParts /\ ThreeInTurn(d, a, b, c)
  BY <1>2 DEF ThreeInTurn
<1>10. ThreeInTurn(Only(d, N), Only(a, N), Only(b, N), Only(c, N))
  BY <1>9, OnlyOfThree
<1>11. ThreeInTurn(Only(d, N), InFront, TextIn, OfCalls)
  BY <1>2, <1>6, <1>7, <1>8, <1>10
<1>12. QED
  BY <1>4, <1>9, <1>11, Zenon DEF ThreeInTurn, Kept

LEMMA KeptIs ==
  ASSUME ReplyTyped, ReplyKept
  PROVE  /\ Kept \in Seq(StoredPart) /\ Len(Kept) = ContentParts + Len(reply.calls)
         /\ partOf["reasoning"] > 0 => Kept[1] = OfReasoning
         /\ partOf["text"] > 0 => Kept[ContentParts] = OfText
         /\ \A i \in 1 .. Len(reply.calls) : Kept[ContentParts + i] = OfCalls[i]
<1>1. reply \in Replies
  BY DEF ReplyTyped
<1>2. PICK x \in StoredPart, y \in StoredPart : x = OfReasoning /\ y = OfText
  BY <1>1, StoredAre
<1>3. PICK a \in Seq(StoredPart), c \in Seq(StoredPart) :
        a = InFront /\ c = OfCalls /\ Len(c) = Len(reply.calls)
  BY <1>1, StoredAre
<1>4. /\ <<x>> \in Seq(StoredPart) /\ <<y>> \in Seq(StoredPart) /\ <<>> \in Seq(StoredPart)
      /\ Len(<<x>>) = 1 /\ Len(<<y>>) = 1 /\ Len(<<>>) = 0 /\ <<x>>[1] = x /\ <<y>>[1] = y
  OBVIOUS
<1>5. PICK b \in Seq(StoredPart) : b = TextIn
  BY <1>2, <1>4 DEF TextIn
<1>6. /\ partOf["reasoning"] > 0 <=> reply.reasoning # <<>>
      /\ partOf["text"] > 0 <=> reply.text # <<>>
  BY ContentIs DEF ReplyKept
<1>7. /\ Len(a) = IF partOf["reasoning"] > 0 THEN 1 ELSE 0
      /\ partOf["reasoning"] > 0 => a[1] = x
  BY <1>2, <1>3, <1>4, <1>6 DEF InFront
<1>8. /\ Len(b) = IF partOf["text"] > 0 THEN 1 ELSE 0
      /\ partOf["text"] > 0 => b[1] = y
  BY <1>2, <1>4, <1>5, <1>6 DEF TextIn
<1>9. PICK d \in Seq(StoredPart) : d = a \o b
  BY ConcatIs
<1>10. /\ Len(d) = Len(a) + Len(b)
       /\ \A i \in 1 .. Len(a) : d[i] = a[i]
       /\ \A i \in 1 .. Len(b) : d[Len(a) + i] = b[i]
  BY <1>9, ConcatIs
<1>11. Len(d) = ContentParts
  BY <1>7, <1>8, <1>10 DEF ContentParts, OpenParts
<1>12. PICK h : h = d \o c
  OBVIOUS
<1>13. /\ h \in Seq(StoredPart) /\ Len(h) = Len(d) + Len(c)
       /\ \A i \in 1 .. Len(d) : h[i] = d[i]
       /\ \A i \in 1 .. Len(c) : h[Len(d) + i] = c[i]
  BY <1>12, ConcatIs
<1>14. Kept = h
  BY <1>3, <1>5, <1>9, <1>12 DEF Kept
<1>15. partOf["reasoning"] > 0 => h[1] = x
  <2>1. SUFFICES ASSUME partOf["reasoning"] > 0 PROVE h[1] = x
    OBVIOUS
  <2>2. Len(b) \in Nat /\ Len(a) = 1 /\ a[1] = x
    BY <1>7, <2>1
  <2>3. 1 \in 1 .. Len(a) /\ 1 \in 1 .. Len(d)
    BY <1>10, <2>2
  <2>4. QED
    BY <1>10, <1>13, <2>2, <2>3
<1>16. partOf["text"] > 0 => h[ContentParts] = y
  <2>1. SUFFICES ASSUME partOf["text"] > 0 PROVE h[ContentParts] = y
    OBVIOUS
  <2>2. Len(a) \in Nat /\ Len(b) = 1 /\ b[1] = y
    BY <1>8, <2>1
  <2>3. 1 \in 1 .. Len(b) /\ Len(a) + 1 \in 1 .. Len(d) /\ Len(d) = Len(a) + 1
    BY <1>10, <2>2
  <2>4. QED
    BY <1>10, <1>11, <1>13, <2>2, <2>3
<1>17. QED
  BY <1>2, <1>3, <1>11, <1>13, <1>14, <1>15, <1>16

(* The parts as they are shown, and as a reload would show them.           *)
Live == [i \in 1 .. Len(message) |-> [kind |-> message[i].kind, pieces |-> message[i].pieces]]

LEMMA LiveIs ==
  ASSUME ReplyTyped, ReplyKept, stage = "done", LastShown(message)
  PROVE  /\ Live \in Seq(StoredPart) /\ Len(Live) = ContentParts + Len(reply.calls)
         /\ partOf["reasoning"] > 0 => Live[partOf["reasoning"]] = OfReasoning
         /\ partOf["text"] > 0 => Live[partOf["text"]] = OfText
         /\ \A i \in 1 .. Len(reply.calls) : Live[ContentParts + i] = OfCalls[i]
<1>1. PICK m \in Seq(ShownPart) : m = message
  BY DEF ReplyTyped
<1>2. PICK n \in Nat : n = Len(m) /\ DOMAIN m = 1 .. n
  OBVIOUS
<1>3. PICK h : h = Live
  OBVIOUS
<1>4. \A i \in 1 .. n : h[i] = [kind |-> m[i].kind, pieces |-> m[i].pieces]
  BY <1>1, <1>2, <1>3 DEF Live
<1>5. h \in Seq(StoredPart) /\ Len(h) = n
  <2>1. ASSUME NEW i \in 1 .. n PROVE [kind |-> m[i].kind, pieces |-> m[i].pieces] \in StoredPart
    <3>1. PICK q \in ShownPart : q = m[i]
      BY <1>2
    <3>2. q.kind \in Kinds /\ q.pieces \in Seq(Nat)
      BY DEF ShownPart
    <3>3. QED
      BY <3>1, <3>2 DEF StoredPart
  <2>2. h = [i \in 1 .. n |-> [kind |-> m[i].kind, pieces |-> m[i].pieces]]
    BY <1>1, <1>2, <1>3 DEF Live
  <2>3. h \in [1 .. n -> StoredPart]
    BY <2>1, <2>2
  <2>4. QED
    BY <2>3, FunctionIsList
<1>6. /\ \A k \in Rendering!Content : ShowsPart(m, partOf[k], k, reply[k], "done")
      /\ ShowsCalls(m, ContentParts, reply.calls, {"complete", "error"})
  BY <1>1 DEF LastShown
<1>7. ASSUME NEW k \in Rendering!Content, partOf[k] > 0
      PROVE  h[partOf[k]] = [kind |-> k, pieces |-> reply[k]]
  <2>1. partOf[k] \in 1 .. n /\ m[partOf[k]] = [kind |-> k, pieces |-> reply[k], state |-> "done"]
    BY <1>2, <1>6, <1>7 DEF ShowsPart
  <2>2. m[partOf[k]].kind = k /\ m[partOf[k]].pieces = reply[k]
    BY <2>1
  <2>3. QED
    BY <1>4, <2>1, <2>2
<1>8. /\ partOf["reasoning"] > 0 => h[partOf["reasoning"]] = OfReasoning
      /\ partOf["text"] > 0 => h[partOf["text"]] = OfText
  BY <1>7, ContentIs DEF OfReasoning, OfText
<1>9. PICK cs \in Seq(Seq(Nat)) : cs = reply.calls
  BY DEF ReplyTyped, Replies
<1>10. PICK c \in Nat : c = ContentParts
  BY ContentIs, PlacesWithin DEF ReplyKept
<1>11. /\ n = c + Len(cs)
       /\ \A i \in 1 .. Len(cs) : m[c + i].kind = "tool-call" /\ m[c + i].pieces = cs[i]
  BY <1>2, <1>6, <1>9, <1>10 DEF ShowsCalls
<1>12. ASSUME NEW i \in 1 .. Len(cs) PROVE h[c + i] = OfCalls[i]
  <2>1. PICK j \in 1 .. n : j = c + i
    <3>1. c + i \in 1 .. n
      BY <1>11
    <3>2. QED
      BY <3>1
  <2>2. h[j] = [kind |-> "tool-call", pieces |-> cs[i]]
    BY <1>4, <1>11, <2>1
  <2>3. OfCalls[i] = [kind |-> "tool-call", pieces |-> cs[i]]
    BY <1>9 DEF OfCalls
  <2>4. QED
    BY <2>1, <2>2, <2>3
<1>13. QED
  BY <1>3, <1>5, <1>8, <1>9, <1>10, <1>11, <1>12

LEMMA LiveIsKept ==
  ASSUME ReplyTyped, ReplyKept, stage = "done", LastShown(message)
  PROVE  /\ Len(Live) = Len(Kept) /\ ElementsOf(Live) = ElementsOf(Kept)
         /\ (partOf["text"] = 1 /\ partOf["reasoning"] = 2) \/ Live = Kept
<1>a. PICK t \in Nat, r \in Nat : t = partOf["text"] /\ r = partOf["reasoning"]
  BY ContentIs DEF ReplyTyped
<1>b. PICK x, y : x = OfReasoning /\ y = OfText
  OBVIOUS
<1>1. /\ t = partOf["text"] /\ r = partOf["reasoning"]
      /\ x = OfReasoning /\ y = OfText
  BY <1>a, <1>b
<1>2. PICK c \in Nat : c = ContentParts
  BY ContentIs, PlacesWithin DEF ReplyKept
<1>3. PICK l \in Nat : l = Len(reply.calls)
  BY DEF ReplyTyped, Replies
<1>4. PICK h \in Seq(StoredPart), s \in Seq(StoredPart) : h = Live /\ s = Kept
  BY LiveIs, KeptIs
<1>5. /\ Len(h) = c + l /\ Len(s) = c + l
      /\ r > 0 => h[r] = x /\ s[1] = x
      /\ t > 0 => h[t] = y /\ s[c] = y
      /\ \A i \in 1 .. l : h[c + i] = s[c + i]
  BY <1>1, <1>2, <1>3, <1>4, LiveIs, KeptIs
<1>6. /\ Opened(t, r)
      /\ c = (IF t > 0 THEN 1 ELSE 0) + (IF r > 0 THEN 1 ELSE 0)
  BY <1>1, <1>2 DEF ReplyKept, ContentParts, OpenParts
<1>7. ASSUME NEW i \in 1 .. c + l, i > c PROVE h[i] = s[i]
  <2>1. i - c \in 1 .. l /\ i = c + (i - c)
    BY <1>7
  <2>2. QED
    BY <1>5, <2>1
<1>8. CASE t = 1 /\ r = 2
  <2>1. c = 2 /\ h[2] = s[1] /\ h[1] = s[2]
    BY <1>5, <1>6, <1>8
  <2>2. 1 \in 1 .. c + l /\ 2 \in 1 .. c + l
    BY <2>1
  <2>3. ASSUME NEW z PROVE z \in ElementsOf(h) <=> z \in ElementsOf(s)
    <3>1. ASSUME NEW i \in 1 .. c + l
          PROVE  (\E j \in 1 .. c + l : h[i] = s[j]) /\ (\E j \in 1 .. c + l : s[i] = h[j])
      <4>1. CASE i > c
        BY <1>7, <4>1
      <4>2. CASE i = 1
        BY <2>1, <2>2, <4>2
      <4>3. CASE i = 2
        BY <2>1, <2>2, <4>3
      <4>4. QED
        BY <2>1, <4>1, <4>2, <4>3
    <3>2. PICK n \in Nat : n = c + l
      OBVIOUS
    <3>3. /\ ElementsOf(h) = {h[j] : j \in 1 .. n}
          /\ ElementsOf(s) = {s[j] : j \in 1 .. n}
      BY <1>5, <3>2 DEF ElementsOf
    <3>4. \A i \in 1 .. n : (\E j \in 1 .. n : h[i] = s[j]) /\ (\E j \in 1 .. n : s[i] = h[j])
      BY <3>1, <3>2
    <3>5. CASE z \in ElementsOf(h)
      <4>1. PICK i \in 1 .. n : z = h[i]
        BY <3>3, <3>5
      <4>2. PICK j \in 1 .. n : h[i] = s[j]
        BY <3>4
      <4>3. s[j] \in ElementsOf(s)
        BY <3>3
      <4>4. QED
        BY <3>5, <4>1, <4>2, <4>3
    <3>6. CASE z \in ElementsOf(s)
      <4>1. PICK i \in 1 .. n : z = s[i]
        BY <3>3, <3>6
      <4>2. PICK j \in 1 .. n : s[i] = h[j]
        BY <3>4
      <4>3. h[j] \in ElementsOf(h)
        BY <3>3
      <4>4. QED
        BY <3>6, <4>1, <4>2, <4>3
    <3>7. QED
      BY <3>5, <3>6
  <2>4. QED
    BY <1>1, <1>4, <1>5, <1>8, <2>3
<1>9. CASE ~(t = 1 /\ r = 2)
  <2>1. ASSUME NEW i \in 1 .. c + l PROVE h[i] = s[i]
    <3>1. CASE i > c
      BY <1>7, <3>1
    <3>2. CASE ~(i > c)
      <4>1. (i = r /\ i = 1 /\ r > 0) \/ (i = t /\ i = c /\ t > 0)
        BY <1>6, <1>9, <3>2 DEF Opened
      <4>2. QED
        BY <1>5, <4>1
    <3>3. QED
      BY <3>1, <3>2
  <2>2. h = s
    BY <1>5, <2>1
  <2>3. QED
    BY <1>4, <2>2
<1>10. QED
  BY <1>8, <1>9

LEMMA ReloadIsTheSame ==
  ASSUME ReplyState
  PROVE  Rendering!ReloadShowsTheSame
<1>1. PICK sp : sp = Rendering!StoredParts
  OBVIOUS
<1>2. PICK st : st = FlattenSeq([k \in DOMAIN sp |-> IF sp[k].pieces # <<>> THEN <<sp[k]>> ELSE <<>>])
  OBVIOUS
<1>3. PICK lv : lv = [i \in DOMAIN message |-> [kind |-> message[i].kind, pieces |-> message[i].pieces]]
  OBVIOUS
<1>4. SUFFICES ASSUME stage = "done", read = 2 * Len(events), dropped = {}
               PROVE  /\ Len(lv) = Len(st) /\ Rendering!ToSet(lv) = Rendering!ToSet(st)
                      /\ (partOf["text"] = 1 /\ partOf["reasoning"] = 2) \/ lv = st
  BY <1>1, <1>2, <1>3, SameInReply DEF Rendering!ReloadShowsTheSame, Rendering!Filter
<1>5. ReplyTyped /\ ReplyKept /\ LastShown(message)
  BY <1>4, AllRead DEF ReplyState
<1>6. lv = Live
  BY <1>3, <1>5 DEF ReplyTyped, Live
<1>7. sp \in Seq(StoredPart)
  <2>1. reply \in Replies
    BY <1>5 DEF ReplyTyped
  <2>2. PICK a \in Seq(StoredPart), b \in Seq(StoredPart), c \in Seq(StoredPart) :
          a = InFront /\ b = Behind /\ c = OfCalls /\ sp = (a \o b) \o c
    BY <1>1, <2>1, StoredAre
  <2>3. QED
    BY <2>2
<1>8. st = Kept
  <2>1. PICK N : N = NotEmpty
    OBVIOUS
  <2>2. \A k \in DOMAIN sp : sp[k].pieces # <<>> <=> sp[k] \in N
    BY <1>7, <2>1 DEF NotEmpty
  <2>3. PICK u, v :
          /\ u = [k \in DOMAIN sp |-> IF sp[k].pieces # <<>> THEN <<sp[k]>> ELSE <<>>]
          /\ v = [k \in DOMAIN sp |-> IF sp[k] \in N THEN <<sp[k]>> ELSE <<>>]
    OBVIOUS
  <2>4. u = v
    BY <2>2, <2>3
  <2>5. st = Only(sp, N)
    BY <1>2, <2>3, <2>4 DEF Only
  <2>6. QED
    BY <1>1, <1>5, <2>1, <2>5, StoredKept
<1>9. /\ Len(lv) = Len(st) /\ ElementsOf(lv) = ElementsOf(st)
      /\ (partOf["text"] = 1 /\ partOf["reasoning"] = 2) \/ lv = st
  BY <1>4, <1>5, <1>6, <1>8, LiveIsKept
<1>10. lv \in Seq(StoredPart) /\ st \in Seq(StoredPart)
  BY <1>4, <1>5, <1>6, <1>8, LiveIs, KeptIs
<1>11. Rendering!ToSet(lv) = ElementsOf(lv) /\ Rendering!ToSet(st) = ElementsOf(st)
  BY <1>10 DEF Rendering!ToSet, ElementsOf
<1>12. QED
  BY <1>9, <1>11

(* The reply the model sent is the reply that is executed, shown and       *)
(* stored: whatever the order in which the deltas of text, reasoning and   *)
(* calls come, wherever a read ends and whichever events the parser loses  *)
(* on the way, every call gets its own arguments, a client that has read   *)
(* all shows every part whole and ended, nothing is shown in a part it was *)
(* not sent for, and a reload shows the same.  (runAgentLoop assembles and *)
(* emits; parseSSEStream and applySSEChunk read and show.)                 *)
THEOREM ReplyIsFaithful ==
  ASSUME ReplyBounds
  PROVE  Rendering!Spec => []Rendering!RenderingFaithful
<1>1. ASSUME ReplyState PROVE Rendering!RenderingFaithful
  BY <1>1, CallsAreWhole, ShownIsWhole, PiecesAreHome, ReloadIsTheSame DEF Rendering!RenderingFaithful
<1>2. Rendering!Init => ReplyState
  BY ReplyStart
<1>3. ReplyState /\ [Rendering!Next]_(Rendering!replyVars) => ReplyState'
  BY ReplySteps
<1>4. QED
  BY <1>1, <1>2, <1>3, PTL DEF Rendering!Spec

=============================================================================
