------------------------ MODULE ProcessSessionsProofs ------------------------
(***************************************************************************)
(* Theorems about the commands of ProcessSessions, for any number of       *)
(* calls, any output and any limits of the buffer and of an answer.        *)
(***************************************************************************)
EXTENDS ProcessSessions, TLAPS

-----------------------------------------------------------------------------
(* Texts *)


\* What Tells says of a text q of n characters.
Says(q, n, a, b) ==
    /\ \A i \in 1..n : q[i] # 0 => a < q[i] /\ q[i] <= b
    /\ \A i, j \in 1..n : i < j /\ q[i] # 0 /\ q[j] # 0 => q[i] < q[j]
    /\ \A i \in 1..(n - 1) : q[i] # 0 /\ q[i + 1] # 0 => q[i + 1] = q[i] + 1
    /\ IF n = 0 THEN a = b ELSE q[1] \in {0, a + 1} /\ q[n] \in {0, b}

LEMMA TellsIsSays == \A q, a, b : Tells(q, a, b) <=> Says(q, Len(q), a, b)
BY DEF Tells, Says, Gap

LEMMA JoinSays ==
    ASSUME NEW a \in Nat, NEW b \in Nat, NEW c \in Nat, a <= b, b <= c,
           NEW m \in Nat, NEW n \in Nat, NEW p \in [1..m -> Nat], NEW q \in [1..n -> Nat],
           NEW r \in [1..(m + n) -> Nat],
           \A i \in 1..m : r[i] = p[i],
           \A i \in 1..n : r[m + i] = q[i],
           Says(p, m, a, b), Says(q, n, b, c)
    PROVE  Says(r, m + n, a, c)
PROOF
<1>0. m + n \in Nat /\ \A i \in 1..(m + n) : i <= m \/ i - m \in 1..n
  OBVIOUS
<1>1. \A i \in 1..(m + n) : /\ i <= m => i \in 1..m /\ r[i] = p[i]
                            /\ i > m => i - m \in 1..n /\ r[i] = q[i - m]
  <2>1. ASSUME NEW i \in 1..(m + n), i > m
        PROVE  i - m \in 1..n /\ r[i] = q[i - m]
    <3>1. i - m \in 1..n /\ m + (i - m) = i
      BY <2>1
    <3>. QED  BY <3>1
  <2>. QED  BY <2>1
<1>5. ASSUME NEW i \in 1..(m + n), r[i] # 0
      PROVE  a < r[i] /\ r[i] <= c /\ (i <= m => r[i] <= b) /\ (i > m => b < r[i])
  <2>1. CASE i <= m
    BY <1>1, <1>5, <2>1 DEF Says
  <2>2. CASE i > m
    BY <1>1, <1>5, <2>2 DEF Says
  <2>. QED  BY <2>1, <2>2
<1>6. ASSUME NEW i \in 1..(m + n), NEW j \in 1..(m + n), i < j, r[i] # 0, r[j] # 0
      PROVE  r[i] < r[j]
  <2>1. CASE j <= m
    BY <1>1, <1>6, <2>1 DEF Says
  <2>2. CASE i > m
    BY <1>1, <1>6, <2>2 DEF Says
  <2>3. CASE i <= m /\ j > m
    BY <1>5, <1>6, <2>3
  <2>. QED  BY <2>1, <2>2, <2>3
<1>7. ASSUME NEW i \in 1..(m + n - 1), r[i] # 0, r[i + 1] # 0
      PROVE  r[i + 1] = r[i] + 1
  <2>1. CASE i + 1 <= m
    BY <1>1, <1>7, <2>1 DEF Says
  <2>2. CASE i > m
    <3>1. i - m \in 1..(n - 1) /\ (i + 1) - m = (i - m) + 1
      BY <2>2
    <3>2. r[i] = q[i - m] /\ r[i + 1] = q[(i - m) + 1]
      BY <1>1, <2>2, <3>1
    <3>. QED  BY <1>7, <3>1, <3>2 DEF Says
  <2>3. CASE i = m
    <3>1. r[i] = p[m] /\ r[i + 1] = q[1] /\ m # 0 /\ n # 0
      BY <1>1, <2>3
    <3>. QED  BY <1>7, <3>1 DEF Says
  <2>. QED  BY <2>1, <2>2, <2>3
<1>8. IF m + n = 0 THEN a = c ELSE r[1] \in {0, a + 1} /\ r[m + n] \in {0, c}
  <2>1. CASE m = 0 /\ n = 0
    BY <2>1 DEF Says
  <2>2. CASE m = 0 /\ n # 0
    BY <1>1, <2>2 DEF Says
  <2>3. CASE m # 0 /\ n = 0
    BY <1>1, <2>3 DEF Says
  <2>4. CASE m # 0 /\ n # 0
    <3>1. r[1] = p[1] /\ r[m + n] = q[n]
      BY <1>1, <2>4
    <3>. QED  BY <2>4, <3>1 DEF Says
  <2>. QED  BY <2>1, <2>2, <2>3, <2>4
<1>. QED  BY <1>5, <1>6, <1>7, <1>8 DEF Says

LEMMA CutSays ==
    ASSUME NEW a \in Nat, NEW b \in Nat, NEW n \in Nat, NEW h \in Nat, NEW t \in Nat, h + t < n,
           NEW q \in [1..n -> Nat], NEW r \in [1..(h + 1 + t) -> Nat],
           \A i \in 1..h : r[i] = q[i],
           r[h + 1] = 0,
           \A i \in 1..t : r[h + 1 + i] = q[n - t + i],
           Says(q, n, a, b)
    PROVE  Says(r, h + 1 + t, a, b)
PROOF
<1>1. PICK d \in Nat : h + 1 + t + d = n
  <2>1. n - (h + 1 + t) \in Nat /\ h + 1 + t + (n - (h + 1 + t)) = n
    OBVIOUS
  <2>. QED  BY <2>1
<1>2. ASSUME NEW i \in 1..(h + 1 + t)
      PROVE  /\ i <= h => i \in 1..n /\ r[i] = q[i]
             /\ i > h + 1 => i + d \in 1..n /\ r[i] = q[i + d]
             /\ i = h + 1 => r[i] = 0
  <2>1. CASE i <= h
    BY <1>1, <2>1
  <2>2. CASE i > h + 1
    <3>1. i - (h + 1) \in 1..t /\ h + 1 + (i - (h + 1)) = i
      BY <2>2
    <3>2. PICK k \in 1..t : h + 1 + k = i
      BY <3>1
    <3>3. r[i] = q[n - t + k]
      <4>1. r[h + 1 + k] = q[n - t + k]
        OBVIOUS
      <4>. QED  BY <3>2, <4>1
    <3>4. n - t + k = i + d /\ i + d \in 1..n
      BY <1>1, <3>2
    <3>5. r[i] = q[i + d]
      BY <3>3, <3>4
    <3>. QED  BY <2>2, <3>4, <3>5
  <2>3. CASE i = h + 1
    BY <2>3
  <2>. QED  BY <2>1, <2>2, <2>3
<1>3. ASSUME NEW i \in 1..(h + 1 + t), r[i] # 0
      PROVE  a < r[i] /\ r[i] <= b
  <2>1. CASE i <= h
    BY <1>2, <1>3, <2>1 DEF Says
  <2>2. CASE i > h + 1
    BY <1>2, <1>3, <2>2 DEF Says
  <2>. QED  BY <1>2, <1>3, <2>1, <2>2
<1>4. ASSUME NEW i \in 1..(h + 1 + t), NEW j \in 1..(h + 1 + t), i < j, r[i] # 0, r[j] # 0
      PROVE  r[i] < r[j]
  <2>1. PICK k \in 1..n, l \in 1..n : k < l /\ r[i] = q[k] /\ r[j] = q[l]
    <3>1. CASE j <= h
      BY <1>2, <1>4, <3>1
    <3>2. CASE i > h + 1
      <4>1. i + d \in 1..n /\ j + d \in 1..n /\ i + d < j + d
        BY <1>2, <1>4, <3>2
      <4>2. r[i] = q[i + d] /\ r[j] = q[j + d]
        BY <1>2, <1>4, <3>2
      <4>. QED  BY <4>1, <4>2
    <3>3. CASE i <= h /\ j > h + 1
      <4>1. i \in 1..n /\ j + d \in 1..n /\ i < j + d
        BY <1>2, <1>4, <3>3
      <4>2. r[i] = q[i] /\ r[j] = q[j + d]
        BY <1>2, <3>3
      <4>. QED  BY <4>1, <4>2
    <3>4. i # h + 1 /\ j # h + 1
      BY <1>2, <1>4
    <3>. QED  BY <1>4, <3>1, <3>2, <3>3, <3>4
  <2>. QED  BY <1>4, <2>1 DEF Says
<1>5. ASSUME NEW i \in 1..(h + 1 + t - 1), r[i] # 0, r[i + 1] # 0
      PROVE  r[i + 1] = r[i] + 1
  <2>. i \in 1..(h + 1 + t) /\ i + 1 \in 1..(h + 1 + t)
    OBVIOUS
  <2>1. PICK k \in 1..(n - 1) : r[i] = q[k] /\ r[i + 1] = q[k + 1]
    <3>1. CASE i + 1 <= h
      <4>1. i \in 1..(n - 1) /\ i <= h
        BY <1>1, <3>1
      <4>. QED  BY <1>2, <3>1, <4>1
    <3>2. CASE i > h + 1
      <4>1. i + d \in 1..(n - 1) /\ (i + 1) + d = (i + d) + 1
        BY <1>1, <3>2
      <4>2. r[i] = q[i + d] /\ r[i + 1] = q[(i + 1) + d]
        BY <1>2, <3>2
      <4>. QED  BY <4>1, <4>2
    <3>3. i # h + 1 /\ i + 1 # h + 1
      BY <1>2, <1>5
    <3>. QED  BY <3>1, <3>2, <3>3
  <2>. QED  BY <1>5, <2>1 DEF Says
<1>6. r[1] \in {0, a + 1} /\ r[h + 1 + t] \in {0, b}
  <2>1. r[1] \in {0, q[1]}
    BY <1>2
  <2>2. r[h + 1 + t] \in {0, q[n]}
    <3>1. CASE t = 0
      BY <3>1
    <3>2. CASE t # 0
      <4>1. t \in 1..t /\ n - t + t = n
        BY <3>2
      <4>2. r[h + 1 + t] = q[n - t + t]
        BY <4>1
      <4>. QED  BY <4>1, <4>2
    <3>. QED  BY <3>1, <3>2
  <2>3. n # 0 /\ q[1] \in {0, a + 1} /\ q[n] \in {0, b}
    BY DEF Says
  <2>. QED  BY <2>1, <2>2, <2>3
<1>. QED  BY <1>3, <1>4, <1>5, <1>6 DEF Says

-----------------------------------------------------------------------------
(* Texts as sequences *)

LEMMA Texts ==
    ASSUME NEW q \in Seq(Nat)
    PROVE  Len(q) \in Nat /\ q \in [1..Len(q) -> Nat]
OBVIOUS

LEMMA Joins ==
    ASSUME NEW p \in Seq(Nat), NEW q \in Seq(Nat)
    PROVE  /\ p \o q \in Seq(Nat) /\ Len(p \o q) = Len(p) + Len(q)
           /\ \A i \in 1..Len(p) : (p \o q)[i] = p[i]
           /\ \A i \in 1..Len(q) : (p \o q)[Len(p) + i] = q[i]
OBVIOUS

LEMMA Heads ==
    ASSUME NEW q \in Seq(Nat), NEW n \in Nat, n <= Len(q)
    PROVE  /\ TakeHead(q, n) \in Seq(Nat) /\ Len(TakeHead(q, n)) = n
           /\ \A i \in 1..n : TakeHead(q, n)[i] = q[i]
PROOF
<1>1. TakeHead(q, n) = SubSeq(q, 1, n)
  BY DEF TakeHead
<1>. QED  BY <1>1

LEMMA Tails ==
    ASSUME NEW q \in Seq(Nat), NEW n \in Nat, n <= Len(q)
    PROVE  /\ TakeTail(q, n) \in Seq(Nat) /\ Len(TakeTail(q, n)) = n
           /\ \A i \in 1..n : TakeTail(q, n)[i] = q[Len(q) - n + i]
PROOF
<1>1. TakeTail(q, n) = SubSeq(q, Len(q) - n + 1, Len(q))
  <2>1. CASE n < Len(q)
    BY <2>1 DEF TakeTail
  <2>2. CASE n = Len(q)
    <3>1. Len(q) - n + 1 = 1 /\ ~(n < Len(q))
      BY <2>2
    <3>. QED  BY <3>1 DEF TakeTail
  <2>. QED  BY <2>1, <2>2
<1>2. Len(q) - n + 1 \in 1..(Len(q) + 1) /\ Len(q) \in Nat
  OBVIOUS
<1>. QED  BY <1>1, <1>2

LEMMA Runs ==
    ASSUME NEW a \in Nat, NEW n \in Nat
    PROVE  /\ Run(a, n) \in Seq(Nat) /\ Len(Run(a, n)) = n
           /\ \A i \in 1..n : Run(a, n)[i] = a + i
BY DEF Run

\* A text of characters in a row is a run.
LEMMA IsRun ==
    ASSUME NEW a \in Nat, NEW q \in Seq(Nat), NEW n \in Nat, Len(q) = n, \A i \in 1..n : q[i] = a + i
    PROVE  q = Run(a, n)
BY DEF Run

-----------------------------------------------------------------------------
(* What a text tells *)

LEMMA RunTells ==
    ASSUME NEW a \in Nat, NEW n \in Nat
    PROVE  Tells(Run(a, n), a, a + n)
PROOF
<1>1. Len(Run(a, n)) = n /\ \A i \in 1..n : Run(a, n)[i] = a + i
  BY Runs
<1>. DEFINE q == Run(a, n)
<1>. HIDE DEF q
<1>2. \A i \in 1..n : q[i] = a + i
  BY <1>1 DEF q
<1>3. Says(q, n, a, a + n)
  BY <1>2 DEF Says
<1>. QED  BY <1>1, <1>3, TellsIsSays DEF q

LEMMA TextsTell ==
    ASSUME NEW a \in Nat, NEW b \in Nat, NEW c \in Nat, a <= b, b <= c,
           NEW p \in Seq(Nat), NEW q \in Seq(Nat), Tells(p, a, b), Tells(q, b, c)
    PROVE  Tells(p \o q, a, c)
PROOF
<1>. DEFINE r == p \o q
<1>1. r \in Seq(Nat) /\ Len(r) = Len(p) + Len(q)
  BY Joins
<1>2. (\A i \in 1..Len(p) : r[i] = p[i]) /\ \A i \in 1..Len(q) : r[Len(p) + i] = q[i]
  BY Joins
<1>3. Len(p) \in Nat /\ p \in [1..Len(p) -> Nat] /\ Len(q) \in Nat /\ q \in [1..Len(q) -> Nat]
  BY Texts
<1>4. r \in [1..(Len(p) + Len(q)) -> Nat]
  BY <1>1, Texts
<1>5. Says(p, Len(p), a, b) /\ Says(q, Len(q), b, c)
  BY TellsIsSays
<1>. HIDE DEF r
<1>6. Says(r, Len(p) + Len(q), a, c)
  BY <1>2, <1>3, <1>4, <1>5, JoinSays
<1>7. Tells(r, a, c)
  BY <1>1, <1>6, TellsIsSays
<1>. QED  BY <1>7 DEF r

\* A text from whose middle something is taken, and a gap put there.
LEMMA CutTells ==
    ASSUME NEW a \in Nat, NEW b \in Nat, NEW q \in Seq(Nat), Tells(q, a, b),
           NEW h \in Nat, NEW t \in Nat, h + t < Len(q)
    PROVE  /\ (TakeHead(q, h) \o <<Gap>>) \o TakeTail(q, t) \in Seq(Nat)
           /\ Tells((TakeHead(q, h) \o <<Gap>>) \o TakeTail(q, t), a, b)
PROOF
<1>. DEFINE x == TakeHead(q, h)
            y == TakeTail(q, t)
            z == x \o <<Gap>>
            r == z \o y
<1>0. Len(q) \in Nat /\ h <= Len(q) /\ t <= Len(q)
  BY Texts
<1>1. x \in Seq(Nat) /\ Len(x) = h /\ \A i \in 1..h : x[i] = q[i]
  BY <1>0, Heads
<1>2. y \in Seq(Nat) /\ Len(y) = t /\ \A i \in 1..t : y[i] = q[Len(q) - t + i]
  BY <1>0, Tails
<1>3. <<Gap>> \in Seq(Nat) /\ Len(<<Gap>>) = 1 /\ <<Gap>>[1] = 0
  BY DEF Gap
<1>. HIDE DEF x, y
<1>4. z \in Seq(Nat) /\ Len(z) = h + 1 /\ (\A i \in 1..h : z[i] = x[i]) /\ z[h + 1] = 0
  BY <1>1, <1>3, Joins
<1>. HIDE DEF z
<1>5. r \in Seq(Nat) /\ Len(r) = Len(z) + Len(y)
  BY <1>2, <1>4, Joins
<1>6. (\A i \in 1..Len(z) : r[i] = z[i]) /\ \A i \in 1..Len(y) : r[Len(z) + i] = y[i]
  BY <1>2, <1>4, Joins
<1>. HIDE DEF r
<1>7. q \in [1..Len(q) -> Nat] /\ r \in [1..(h + 1 + t) -> Nat]
  BY <1>2, <1>4, <1>5, Texts
<1>8. (\A i \in 1..h : r[i] = q[i]) /\ r[h + 1] = 0
  BY <1>1, <1>4, <1>6
<1>9. \A i \in 1..t : r[h + 1 + i] = q[Len(q) - t + i]
  BY <1>2, <1>4, <1>6
<1>10. Says(q, Len(q), a, b)
  BY TellsIsSays
<1>11. Says(r, h + 1 + t, a, b)
  BY <1>0, <1>7, <1>8, <1>9, <1>10, CutSays
<1>12. Tells(r, a, b)
  BY <1>2, <1>4, <1>5, <1>11, TellsIsSays
<1>. QED  BY <1>5, <1>12 DEF r, z, x, y

-----------------------------------------------------------------------------
(* Runs *)

LEMMA RunsJoin ==
    ASSUME NEW a \in Nat, NEW n \in Nat, NEW m \in Nat
    PROVE  Run(a, n) \o Run(a + n, m) = Run(a, n + m)
PROOF
<1>0. PICK e \in Nat, k \in Nat : e = a + n /\ k = n + m
  BY a + n \in Nat, n + m \in Nat
<1>. DEFINE p == Run(a, n)
            q == Run(e, m)
            r == p \o q
<1>1. p \in Seq(Nat) /\ Len(p) = n /\ \A i \in 1..n : p[i] = a + i
  BY Runs
<1>2. q \in Seq(Nat) /\ Len(q) = m /\ \A i \in 1..m : q[i] = e + i
  BY <1>0, Runs
<1>. HIDE DEF p, q
<1>3. r \in Seq(Nat) /\ Len(r) = k
  BY <1>0, <1>1, <1>2, Joins
<1>4. (\A i \in 1..n : r[i] = p[i]) /\ \A i \in 1..m : r[n + i] = q[i]
  BY <1>1, <1>2, Joins
<1>. HIDE DEF r
<1>5. ASSUME NEW i \in 1..k
      PROVE  r[i] = a + i
  <2>1. CASE i <= n
    BY <1>0, <1>1, <1>4, <2>1
  <2>2. CASE i > n
    <3>1. PICK j \in 1..m : n + j = i
      <4>1. i - n \in 1..m /\ n + (i - n) = i
        BY <1>0, <2>2
      <4>. QED  BY <4>1
    <3>2. r[i] = q[j]
      BY <1>4, <3>1
    <3>3. q[j] = e + j /\ e + j = a + (n + j)
      BY <1>0, <1>2
    <3>. QED  BY <3>1, <3>2, <3>3
  <2>. QED  BY <2>1, <2>2
<1>6. r = Run(a, k)
  BY <1>0, <1>3, <1>5, IsRun
<1>. QED  BY <1>0, <1>6 DEF r, p, q

LEMMA RunHead ==
    ASSUME NEW a \in Nat, NEW n \in Nat, NEW k \in Nat, k <= n
    PROVE  TakeHead(Run(a, n), k) = Run(a, k)
PROOF
<1>. DEFINE q == Run(a, n)
            r == TakeHead(q, k)
<1>1. q \in Seq(Nat) /\ Len(q) = n /\ \A i \in 1..n : q[i] = a + i
  BY Runs
<1>. HIDE DEF q
<1>2. r \in Seq(Nat) /\ Len(r) = k /\ \A i \in 1..k : r[i] = q[i]
  BY <1>1, Heads
<1>. HIDE DEF r
<1>3. \A i \in 1..k : r[i] = a + i
  BY <1>1, <1>2
<1>4. r = Run(a, k)
  BY <1>2, <1>3, IsRun
<1>. QED  BY <1>4 DEF r, q

LEMMA RunTail ==
    ASSUME NEW a \in Nat, NEW n \in Nat, NEW k \in Nat, k <= n
    PROVE  TakeTail(Run(a, n), k) = Run(a + n - k, k)
PROOF
<1>. DEFINE q == Run(a, n)
            r == TakeTail(q, k)
            d == a + n - k
<1>1. q \in Seq(Nat) /\ Len(q) = n /\ \A i \in 1..n : q[i] = a + i
  BY Runs
<1>0. d \in Nat
  OBVIOUS
<1>. HIDE DEF q
<1>2. r \in Seq(Nat) /\ Len(r) = k /\ \A i \in 1..k : r[i] = q[n - k + i]
  BY <1>1, Tails
<1>. HIDE DEF r
<1>3. \A i \in 1..k : r[i] = d + i
  <2>. SUFFICES ASSUME NEW i \in 1..k
                PROVE  r[i] = d + i
    OBVIOUS
  <2>1. n - k + i \in 1..n /\ a + (n - k + i) = d + i
    OBVIOUS
  <2>2. r[i] = q[n - k + i]
    BY <1>2
  <2>. QED  BY <1>1, <2>1, <2>2
<1>. HIDE DEF d
<1>4. r = Run(d, k)
  BY <1>0, <1>2, <1>3, IsRun
<1>. QED  BY <1>4 DEF r, q, d

-----------------------------------------------------------------------------
(* The buffer *)

Buffers == [head : Seq(Nat), tail : Seq(Nat), total : Nat]

\* The two parts of a budget are the budget.
LEMMA Budgets ==
    ASSUME NEW n \in Nat
    PROVE  HeadBudget(n) \in Nat /\ TailBudget(n) \in Nat /\ HeadBudget(n) + TailBudget(n) = n
BY DEF HeadBudget, TailBudget

\* What comes next is kept as long as there is room, then the first and the last of it.
LEMMA AppendRun ==
    ASSUME BufferLimit \in Nat, NEW d \in Nat, NEW k \in Nat, NEW n \in Nat \ {0},
           NEW b \in Buffers, b.total = k, Buffered(b, d + k)
    PROVE  /\ AppendOutput(b, Run(d + k, n)) \in Buffers
           /\ AppendOutput(b, Run(d + k, n)).total = k + n
           /\ Buffered(AppendOutput(b, Run(d + k, n)), d + (k + n))
PROOF
<1>1. PICK h \in Nat, t \in Nat :
         h = HeadBudget(BufferLimit) /\ t = TailBudget(BufferLimit) /\ h + t = BufferLimit
  BY Budgets
<1>2. PICK q \in Seq(Nat) : q = Run(d + k, n) /\ Len(q) = n
  <2>1. d + k \in Nat /\ n \in Nat
    OBVIOUS
  <2>. QED  BY <2>1, Runs
<1>3. PICK c : c = AppendOutput(b, q)
  OBVIOUS
<1>4. n \in Nat /\ k + n \in Nat /\ d + k \in Nat /\ (d + k) - k = d /\ (d + (k + n)) - (k + n) = d
  OBVIOUS
<1>5. Run(d, k) \o q = Run(d, k + n)
  <2>1. n \in Nat
    OBVIOUS
  <2>2. Run(d, k) \o Run(d + k, n) = Run(d, k + n)
    BY <2>1, RunsJoin
  <2>. QED  BY <1>2, <2>2
<1>5a. IF k <= BufferLimit THEN b.head = Run(d, k) /\ b.tail = <<>>
      ELSE b.head = Run(d, h) /\ b.tail = Run(d + k - t, t)
  <2>1. IF k <= BufferLimit THEN b.head = Run((d + k) - k, k) /\ b.tail = <<>>
        ELSE b.head = Run((d + k) - k, h) /\ b.tail = Run((d + k) - t, t)
    BY <1>1 DEF Buffered
  <2>2. (d + k) - k = d
    OBVIOUS
  <2>. QED  BY <2>1, <2>2
<1>6. SUFFICES ASSUME NEW u \in Seq(Nat), NEW v \in Seq(Nat),
                      c = [head |-> u, tail |-> v, total |-> k + n],
                      IF k + n <= BufferLimit THEN u = Run(d, k + n) /\ v = <<>>
                      ELSE u = Run(d, h) /\ v = Run((d + (k + n)) - t, t)
               PROVE  c \in Buffers /\ c.total = k + n /\ Buffered(c, d + (k + n))
  <2>1. CASE k + n <= BufferLimit
    <3>1. b.head = Run(d, k) /\ b.tail = <<>>
      <4>1. k <= BufferLimit
        BY <1>4, <2>1
      <4>. QED  BY <1>5a, <4>1
    <3>2. c = [head |-> b.head \o q, tail |-> b.tail, total |-> k + n]
      BY <1>2, <1>3, <2>1 DEF AppendOutput
    <3>3. c = [head |-> Run(d, k + n), tail |-> <<>>, total |-> k + n]
      BY <1>5, <3>1, <3>2
    <3>4. Run(d, k + n) \in Seq(Nat) /\ <<>> \in Seq(Nat)
      <4>1. k + n \in Nat
        BY <1>4
      <4>2. Run(d, k + n) \in Seq(Nat)
        BY <4>1, Runs
      <4>3. <<>> \in Seq(Nat)
        OBVIOUS
      <4>. QED  BY <4>2, <4>3
    <3>. QED  BY <1>2, <1>3, <1>6, <2>1, <3>3, <3>4
  <2>2. CASE ~(k + n <= BufferLimit) /\ k <= BufferLimit
    <3>1. b.head = Run(d, k)
      BY <1>5a, <2>2
    <3>2. c = [head |-> TakeHead(b.head \o q, h), tail |-> TakeTail(b.head \o q, t), total |-> k + n]
      BY <1>1, <1>2, <1>3, <2>2 DEF AppendOutput
    <3>3. h <= k + n /\ t <= k + n /\ d + (k + n) - t \in Nat
      BY <1>1, <2>2
    <3>4. TakeHead(Run(d, k + n), h) = Run(d, h)
      BY <1>4, <3>3, RunHead
    <3>5. TakeTail(Run(d, k + n), t) = Run(d + (k + n) - t, t)
      BY <1>4, <3>3, RunTail
    <3>6. Run(d, h) \in Seq(Nat) /\ Run(d + (k + n) - t, t) \in Seq(Nat)
      BY <3>3, Runs
    <3>7. c = [head |-> Run(d, h), tail |-> Run(d + (k + n) - t, t), total |-> k + n]
      BY <1>5, <3>1, <3>2, <3>4, <3>5
    <3>. QED  BY <1>2, <1>3, <1>6, <2>2, <3>6, <3>7
  <2>3. CASE k > BufferLimit
    <3>1. b.head = Run(d, h) /\ b.tail = Run(d + k - t, t)
      BY <1>5a, <2>3
    <3>2. ~(k + n <= BufferLimit) /\ ~(k <= BufferLimit)
      BY <1>4, <2>3
    <3>3. c = [head |-> b.head, tail |-> TakeTail(b.tail \o q, t), total |-> k + n]
      BY <1>1, <1>2, <1>3, <3>2 DEF AppendOutput
    <3>4. PICK m \in Nat : m = d + k - t /\ m + t = d + k
      <4>1. d + k - t \in Nat /\ (d + k - t) + t = d + k
        BY <1>1, <2>3
      <4>. QED  BY <4>1
    <3>5. b.tail \o q = Run(m, t + n)
      <4>1. n \in Nat
        OBVIOUS
      <4>2. Run(m, t) \o Run(m + t, n) = Run(m, t + n)
        BY <4>1, RunsJoin
      <4>. QED  BY <1>2, <3>1, <3>4, <4>2
    <3>6. TakeTail(Run(m, t + n), t) = Run(m + (t + n) - t, t)
      <4>1. t + n \in Nat /\ t <= t + n
        BY <1>4
      <4>. QED  BY <4>1, RunTail
    <3>7. m + (t + n) - t = d + (k + n) - t /\ d + (k + n) - t \in Nat
      BY <1>4, <3>4
    <3>8. Run(d, h) \in Seq(Nat) /\ Run(d + (k + n) - t, t) \in Seq(Nat)
      BY <3>7, Runs
    <3>9. c = [head |-> Run(d, h), tail |-> Run(d + (k + n) - t, t), total |-> k + n]
      BY <3>1, <3>3, <3>5, <3>6, <3>7
    <3>. QED  BY <1>2, <1>3, <1>6, <3>2, <3>8, <3>9
  <2>. QED  BY <2>1, <2>2, <2>3
<1>7. c \in Buffers /\ c.head = u /\ c.tail = v /\ c.total = k + n
  BY <1>4, <1>6 DEF Buffers
<1>8. Buffered(c, d + (k + n))
  BY <1>1, <1>4, <1>6, <1>7 DEF Buffered
<1>. QED  BY <1>7, <1>8

\* The buffer tells what has come since it was emptied.
LEMMA RetainedTells ==
    ASSUME BufferLimit \in Nat, NEW d \in Nat, NEW k \in Nat, NEW b \in Buffers,
           b.total = k, Buffered(b, d + k)
    PROVE  Retained(b) \in Seq(Nat) /\ Tells(Retained(b), d, d + k)
PROOF
<1>1. PICK h \in Nat, t \in Nat :
         h = HeadBudget(BufferLimit) /\ t = TailBudget(BufferLimit) /\ h + t = BufferLimit
  BY Budgets
<1>2. PICK q \in Seq(Nat) : q = Run(d, k) /\ Len(q) = k
  BY Runs
<1>3. Tells(q, d, d + k) /\ (d + k) - k = d /\ d + k \in Nat
  BY <1>2, RunTells
<1>4. CASE k <= BufferLimit
  <2>1. b.head = q /\ b.tail = <<>>
    BY <1>2, <1>3, <1>4 DEF Buffered
  <2>2. ~(k > Len(q) + Len(<<>>)) /\ q \o <<>> = q
    BY <1>2
  <2>3. Retained(b) = q
    BY <2>1, <2>2 DEF Retained
  <2>. QED  BY <1>3, <2>3
<1>5. CASE k > BufferLimit
  <2>1. b.head = Run(d, h) /\ b.tail = Run(d + k - t, t)
    BY <1>1, <1>3, <1>5 DEF Buffered
  <2>2. h + t < Len(q) /\ h <= k /\ t <= k /\ d + k - t \in Nat
    BY <1>1, <1>2, <1>5
  <2>3. Len(b.head) = h /\ Len(b.tail) = t
    BY <2>1, <2>2, Runs
  <2>4. b.total > Len(b.head) + Len(b.tail)
    BY <1>2, <2>2, <2>3
  <2>5. b.head = TakeHead(q, h)
    BY <1>2, <2>1, <2>2, RunHead
  <2>6. b.tail = TakeTail(q, t)
    BY <1>2, <2>1, <2>2, RunTail
  <2>7. Retained(b) = (b.head \o <<Gap>>) \o b.tail
    BY <2>4 DEF Retained
  <2>8. Retained(b) = (TakeHead(q, h) \o <<Gap>>) \o TakeTail(q, t)
    BY <2>5, <2>6, <2>7
  <2>9. /\ (TakeHead(q, h) \o <<Gap>>) \o TakeTail(q, t) \in Seq(Nat)
        /\ Tells((TakeHead(q, h) \o <<Gap>>) \o TakeTail(q, t), d, d + k)
    BY <1>3, <2>2, CutTells
  <2>. QED  BY <2>8, <2>9
<1>. QED  BY <1>4, <1>5

\* So does the answer, which is cut once more.
LEMMA AnswerTells ==
    ASSUME ReadLimit \in Nat \ {0}, NEW a \in Nat, NEW b \in Nat, NEW q \in Seq(Nat), Tells(q, a, b)
    PROVE  TruncateOutput(q) \in Seq(Nat) /\ Tells(TruncateOutput(q), a, b)
PROOF
<1>1. CASE Len(q) <= ReadLimit
  BY <1>1 DEF TruncateOutput
<1>2. CASE ~(Len(q) <= ReadLimit)
  <2>1. ReadLimit - 1 \in Nat /\ Len(q) \in Nat
    OBVIOUS
  <2>2. PICK h \in Nat, t \in Nat :
           h = HeadBudget(ReadLimit - 1) /\ t = TailBudget(ReadLimit - 1) /\ h + t = ReadLimit - 1
    BY <2>1, Budgets
  <2>3. h + t < Len(q)
    BY <1>2, <2>1, <2>2
  <2>4. TruncateOutput(q) = (TakeHead(q, h) \o <<Gap>>) \o TakeTail(q, t)
    BY <1>2, <2>2 DEF TruncateOutput
  <2>5. /\ (TakeHead(q, h) \o <<Gap>>) \o TakeTail(q, t) \in Seq(Nat)
        /\ Tells((TakeHead(q, h) \o <<Gap>>) \o TakeTail(q, t), a, b)
    BY <2>3, CutTells
  <2>. QED  BY <2>4, <2>5
<1>. QED  BY <1>1, <1>2

-----------------------------------------------------------------------------
(* The answers *)

OutputOK ==
    /\ produced \in [Starts -> Nat] /\ got \in [Starts -> Seq(Nat)] /\ buffer \in [Starts -> Buffers]
    /\ Told

\* What a command writes goes to its buffer.
LEMMA Writes ==
    ASSUME ProcessAssumption, OutputOK, NEW s \in Starts, NEW n \in Nat \ {0}, got' = got,
           buffer' = [buffer EXCEPT ![s] = AppendOutput(@, Run(produced[s], n))],
           produced' = [produced EXCEPT ![s] = @ + n]
    PROVE  OutputOK'
PROOF
<1>1. /\ produced[s] \in Nat /\ buffer[s] \in Buffers /\ Buffered(buffer[s], produced[s])
      /\ Tells(got[s], 0, produced[s] - buffer[s].total)
  BY DEF OutputOK, Told
<1>2. PICK d \in Nat, k \in Nat : k = buffer[s].total /\ d + k = produced[s]
  <2>1. buffer[s].total \in Nat /\ buffer[s].total <= produced[s]
    BY <1>1 DEF Buffers, Buffered
  <2>2. produced[s] - buffer[s].total \in Nat /\ (produced[s] - buffer[s].total) + buffer[s].total = produced[s]
    BY <1>1, <2>1
  <2>. QED  BY <2>1, <2>2
<1>3. PICK c : c = AppendOutput(buffer[s], Run(produced[s], n))
  OBVIOUS
<1>4. c \in Buffers /\ c.total = k + n /\ Buffered(c, d + (k + n))
  <2>1. Buffered(buffer[s], d + k) /\ buffer[s].total = k /\ BufferLimit \in Nat
    BY <1>1, <1>2 DEF ProcessAssumption
  <2>2. /\ AppendOutput(buffer[s], Run(d + k, n)) \in Buffers
        /\ AppendOutput(buffer[s], Run(d + k, n)).total = k + n
        /\ Buffered(AppendOutput(buffer[s], Run(d + k, n)), d + (k + n))
    BY <1>1, <2>1, AppendRun
  <2>. QED  BY <1>2, <1>3, <2>2
<1>5. /\ produced' \in [Starts -> Nat] /\ got' \in [Starts -> Seq(Nat)] /\ buffer' \in [Starts -> Buffers]
      /\ produced'[s] = d + (k + n) /\ buffer'[s] = c
  BY <1>2, <1>3, <1>4 DEF OutputOK
<1>6. \A r \in Starts \ {s} : produced'[r] = produced[r] /\ buffer'[r] = buffer[r]
  BY DEF OutputOK
<1>7. produced'[s] - buffer'[s].total = d /\ produced[s] - buffer[s].total = d
  <2>1. n \in Nat /\ (d + (k + n)) - (k + n) = d /\ (d + k) - k = d
    OBVIOUS
  <2>. QED  BY <1>2, <1>4, <1>5, <2>1
<1>8. ASSUME NEW r \in Starts
      PROVE  Buffered(buffer'[r], produced'[r]) /\ Tells(got'[r], 0, produced'[r] - buffer'[r].total)
  <2>1. CASE r = s
    BY <1>1, <1>4, <1>5, <1>7, <2>1
  <2>2. CASE r # s
    BY <1>6, <2>2 DEF OutputOK, Told
  <2>. QED  BY <2>1, <2>2
<1>9. Told'
  BY <1>8 DEF Told
<1>. QED  BY <1>5, <1>9 DEF OutputOK

\* An answer takes what the buffer has.
LEMMA Consumes ==
    ASSUME ProcessAssumption, OutputOK, NEW s \in Starts, NEW c, Consume(c, s), produced' = produced
    PROVE  OutputOK'
PROOF
<1>1. /\ produced[s] \in Nat /\ buffer[s] \in Buffers /\ Buffered(buffer[s], produced[s])
      /\ Tells(got[s], 0, produced[s] - buffer[s].total) /\ got[s] \in Seq(Nat)
  BY DEF OutputOK, Told
<1>2. PICK d \in Nat, k \in Nat : k = buffer[s].total /\ d + k = produced[s] /\ d = produced[s] - buffer[s].total
  <2>1. buffer[s].total \in Nat /\ buffer[s].total <= produced[s]
    BY <1>1 DEF Buffers, Buffered
  <2>2. produced[s] - buffer[s].total \in Nat /\ (produced[s] - buffer[s].total) + buffer[s].total = produced[s]
    BY <1>1, <2>1
  <2>. QED  BY <2>1, <2>2
<1>3. PICK q : q = Retained(buffer[s])
  OBVIOUS
<1>4. q \in Seq(Nat) /\ Tells(q, d, d + k)
  <2>1. Buffered(buffer[s], d + k) /\ buffer[s].total = k /\ BufferLimit \in Nat
    BY <1>1, <1>2 DEF ProcessAssumption
  <2>. QED  BY <1>1, <1>3, <2>1, RetainedTells
<1>5. PICK a : a = TruncateOutput(q)
  OBVIOUS
<1>6. a \in Seq(Nat) /\ Tells(a, d, d + k)
  <2>1. ReadLimit \in Nat \ {0} /\ d + k \in Nat
    BY DEF ProcessAssumption
  <2>. QED  BY <1>4, <1>5, <2>1, AnswerTells
<1>7. got[s] \o a \in Seq(Nat) /\ Tells(got[s] \o a, 0, d + k)
  <2>1. 0 \in Nat /\ 0 <= d /\ d <= d + k /\ d + k \in Nat /\ Tells(got[s], 0, d)
    BY <1>1, <1>2
  <2>. QED  BY <1>1, <1>6, <2>1, TextsTell, Joins
<1>8. Empty \in Buffers /\ Empty.total = 0 /\ Buffered(Empty, d + k)
  <2>1. Empty = [head |-> <<>>, tail |-> <<>>, total |-> 0] /\ Empty \in Buffers
    BY DEF Empty, Buffers
  <2>2. PICK m \in Nat : m = d + k /\ m - 0 = m
    OBVIOUS
  <2>3. <<>> = Run(m, 0)
    <3>1. <<>> \in Seq(Nat) /\ Len(<<>>) = 0 /\ \A i \in 1..0 : FALSE
      OBVIOUS
    <3>2. PICK z \in Seq(Nat) : z = <<>> /\ Len(z) = 0 /\ \A i \in 1..0 : z[i] = m + i
      BY <3>1
    <3>3. z = Run(m, 0)
      BY <3>2, IsRun
    <3>. QED  BY <3>2, <3>3
  <2>4. 0 <= BufferLimit /\ 0 <= m
    BY <2>2 DEF ProcessAssumption
  <2>5. Buffered(Empty, m)
    BY <2>1, <2>2, <2>3, <2>4 DEF Buffered
  <2>. QED  BY <2>1, <2>2, <2>5
<1>9. /\ got' = [got EXCEPT ![s] = got[s] \o a] /\ buffer' = [buffer EXCEPT ![s] = Empty]
  BY <1>3, <1>5 DEF Consume
<1>10. /\ produced' \in [Starts -> Nat] /\ got' \in [Starts -> Seq(Nat)] /\ buffer' \in [Starts -> Buffers]
       /\ got'[s] = got[s] \o a /\ buffer'[s] = Empty
       /\ \A r \in Starts \ {s} : got'[r] = got[r] /\ buffer'[r] = buffer[r]
  BY <1>7, <1>8, <1>9 DEF OutputOK
<1>11. produced'[s] - buffer'[s].total = d + k
  BY <1>1, <1>2, <1>8, <1>10
<1>12. ASSUME NEW r \in Starts
       PROVE  Buffered(buffer'[r], produced'[r]) /\ Tells(got'[r], 0, produced'[r] - buffer'[r].total)
  <2>1. CASE r = s
    BY <1>2, <1>7, <1>8, <1>10, <1>11, <2>1
  <2>2. CASE r # s
    BY <1>10, <2>2 DEF OutputOK, Told
  <2>. QED  BY <2>1, <2>2
<1>13. Told'
  BY <1>12 DEF Told
<1>. QED  BY <1>10, <1>13 DEF OutputOK

\* An operation that cannot be ended is one more character.
LEMMA EndWrites ==
    ASSUME ProcessAssumption, OutputOK, NEW s \in Starts, NEW how, EndWorkOperation(s, how), got' = got
    PROVE  OutputOK'
PROOF
<1>1. CASE buffer' = buffer /\ produced' = produced
  BY <1>1 DEF OutputOK, Told
<1>2. CASE /\ buffer'   = [buffer EXCEPT ![s] = AppendOutput(@, <<produced[s] + 1>>)]
           /\ produced' = [produced EXCEPT ![s] = @ + 1]
  <2>1. produced[s] \in Nat
    BY DEF OutputOK
  <2>2. PICK m \in Nat : m = produced[s] + 1
    BY <2>1
  <2>3. <<m>> \in Seq(Nat) /\ Len(<<m>>) = 1 /\ <<m>>[1] = produced[s] + 1
    BY <2>2
  <2>4. <<m>> = Run(produced[s], 1)
    <3>1. PICK z \in Seq(Nat) : z = <<m>> /\ Len(z) = 1 /\ z[1] = produced[s] + 1
      BY <2>3
    <3>2. \A i \in 1..1 : z[i] = produced[s] + i
      <4>1. \A i \in 1..1 : i = 1
        OBVIOUS
      <4>. QED  BY <3>1, <4>1
    <3>3. z = Run(produced[s], 1)
      BY <2>1, <3>1, <3>2, IsRun
    <3>. QED  BY <3>1, <3>3
  <2>5. <<produced[s] + 1>> = Run(produced[s], 1) /\ 1 \in Nat \ {0}
    BY <2>2, <2>4
  <2>6. buffer' = [buffer EXCEPT ![s] = AppendOutput(@, Run(produced[s], 1))]
    BY <1>2, <2>5
  <2>. QED  BY <1>2, <2>5, <2>6, Writes
<1>. QED  BY <1>1, <1>2 DEF EndWorkOperation

-----------------------------------------------------------------------------
(* The claims *)

ClaimsOK ==
    /\ claims \subseteq Starts \union Mutations
    /\ process \in [Starts -> {"none", "alive", "exited"}]
    /\ stage \in [Calls -> {"idle", "importing", "waiting", "done", "failed", "refused"}]
    /\ shuttingDown \in BOOLEAN /\ coordinator \in {"open", "closed"}
    /\ ClaimsCoverCommands /\ Begun

\* A step of one call leaves the claims of the others as they were.
LEMMA ClaimStep ==
    ASSUME ClaimsOK, NEW x \in Calls,
           NEW to \in {"idle", "importing", "waiting", "done", "failed", "refused"},
           stage' = [stage EXCEPT ![x] = to] \/ (stage' = stage /\ stage[x] = to),
           process' = process \/ (x \in Starts /\ \E p \in {"alive", "exited"} : process' = [process EXCEPT ![x] = p]),
           claims' \subseteq claims \union ({x} \cap (Starts \union Mutations)), claims \ {x} \subseteq claims',
           shuttingDown' = shuttingDown, coordinator' \in {"open", "closed"},
           coordinator' = "closed" <=> shuttingDown' /\ claims' = {},
           x \in Starts => (x \in claims' <=> process'[x] = "alive" \/ to = "importing"),
           x \in Starts => (process'[x] # "none" => to \notin {"idle", "importing"}),
           x \in Mutations => (x \in claims' <=> to = "waiting")
    PROVE  ClaimsOK'
PROOF
<1>1. /\ claims' \subseteq Starts \union Mutations
      /\ process' \in [Starts -> {"none", "alive", "exited"}]
      /\ stage' \in [Calls -> {"idle", "importing", "waiting", "done", "failed", "refused"}]
      /\ shuttingDown' \in BOOLEAN
  BY DEF ClaimsOK
<1>2. /\ \A y \in Calls \ {x} : stage'[y] = stage[y] /\ (y \in claims' <=> y \in claims)
      /\ \A y \in Starts \ {x} : process'[y] = process[y]
      /\ stage'[x] = to
  BY DEF ClaimsOK
<1>3. ASSUME NEW s \in Starts
      PROVE  /\ s \in claims' <=> process'[s] = "alive" \/ stage'[s] = "importing"
             /\ process'[s] # "none" => stage'[s] \notin {"idle", "importing"}
  <2>1. CASE s = x
    BY <1>2, <2>1
  <2>2. CASE s # x
    BY <1>2, <2>2 DEF ClaimsOK, ClaimsCoverCommands, Begun, Calls
  <2>. QED  BY <2>1, <2>2
<1>4. ASSUME NEW c \in Mutations
      PROVE  c \in claims' <=> stage'[c] = "waiting"
  <2>1. CASE c = x
    BY <1>2, <2>1
  <2>2. CASE c # x
    BY <1>2, <2>2 DEF ClaimsOK, ClaimsCoverCommands, Calls
  <2>. QED  BY <2>1, <2>2
<1>. QED  BY <1>1, <1>3, <1>4 DEF ClaimsOK, ClaimsCoverCommands, Begun

\* The last claim that is released closes the coordinator.
LEMMA Releases ==
    ASSUME ClaimsOK, NEW c, ReleaseClaim(c)
    PROVE  /\ claims' = claims \ {c} /\ coordinator' \in {"open", "closed"}
           /\ coordinator' = "closed" <=> shuttingDown /\ claims' = {}
BY DEF ClaimsOK, ClaimsCoverCommands, ReleaseClaim

LEMMA StartClaims ==
    ASSUME ProcessAssumption, ClaimsOK, NEW s \in Starts,
           Start(s) \/ StartFails(s) \/ Spawn(s) \/ Finish(s)
    PROVE  ClaimsOK'
PROOF
<1>0. /\ s \in Calls /\ s \notin Mutations /\ shuttingDown' = shuttingDown
      /\ process[s] \in {"none", "alive", "exited"}
      /\ stage[s] \in {"idle", "importing", "waiting", "done", "failed", "refused"}
      /\ coordinator \in {"open", "closed"} /\ (coordinator = "closed" <=> shuttingDown /\ claims = {})
      /\ s \in claims <=> process[s] = "alive" \/ stage[s] = "importing"
      /\ process[s] # "none" => stage[s] \notin {"idle", "importing"}
  BY DEF ProcessAssumption, ClaimsOK, ClaimsCoverCommands, Begun, Calls, Start, StartFails, Spawn, Finish
<1>1. CASE Start(s)
  <2>1. CASE shuttingDown
    <3>1. stage' = [stage EXCEPT ![s] = "refused"] /\ UNCHANGED <<process, claims, coordinator>> /\ stage[s] = "idle"
      BY <1>1, <2>1 DEF Start, Goes
    <3>. QED  BY <1>0, <3>1, ClaimStep
  <2>2. CASE ~shuttingDown
    <3>1. /\ stage[s] = "idle" /\ claims' = claims \union {s} /\ coordinator' = coordinator
          /\ \/ stage' = [stage EXCEPT ![s] = "importing"] /\ process' = process
             \/ stage' = [stage EXCEPT ![s] = "waiting"] /\ process' = [process EXCEPT ![s] = "alive"]
      BY <1>1, <2>2 DEF Start, Goes
    <3>2. CASE stage' = [stage EXCEPT ![s] = "importing"] /\ process' = process
      BY <1>0, <2>2, <3>1, <3>2, ClaimStep
    <3>3. CASE stage' = [stage EXCEPT ![s] = "waiting"] /\ process' = [process EXCEPT ![s] = "alive"]
      <4>1. process'[s] = "alive"
        BY <3>3 DEF ClaimsOK
      <4>. QED  BY <1>0, <2>2, <3>1, <3>3, <4>1, ClaimStep
    <3>. QED  BY <3>1, <3>2, <3>3
  <2>. QED  BY <1>0, <2>1, <2>2 DEF ClaimsOK
<1>2. CASE StartFails(s)
  <2>1. stage' = [stage EXCEPT ![s] = "failed"] /\ process' = process /\ stage[s] \in {"idle", "importing"}
    BY <1>2 DEF StartFails, Goes
  <2>2. claims' = claims \ {s} /\ coordinator' \in {"open", "closed"} /\ (coordinator' = "closed" <=> shuttingDown /\ claims' = {})
    BY <1>2, Releases DEF StartFails
  <2>. QED  BY <1>0, <2>1, <2>2, ClaimStep
<1>3. CASE Spawn(s)
  <2>1. /\ stage' = [stage EXCEPT ![s] = "waiting"] /\ process' = [process EXCEPT ![s] = "alive"]
        /\ stage[s] = "importing" /\ UNCHANGED <<claims, coordinator>>
    BY <1>3 DEF Spawn, Goes
  <2>2. process'[s] = "alive"
    BY <2>1 DEF ClaimsOK
  <2>. QED  BY <1>0, <2>1, <2>2, ClaimStep
<1>4. CASE Finish(s)
  <2>1. process[s] = "alive" /\ process' = [process EXCEPT ![s] = "exited"] /\ stage' = stage
    BY <1>4 DEF Finish
  <2>2. claims' = claims \ {s} /\ coordinator' \in {"open", "closed"} /\ (coordinator' = "closed" <=> shuttingDown /\ claims' = {})
    BY <1>4, Releases DEF Finish
  <2>3. process'[s] = "exited"
    BY <2>1 DEF ClaimsOK
  <2>. QED  BY <1>0, <2>1, <2>2, <2>3, ClaimStep
<1>. QED  BY <1>1, <1>2, <1>3, <1>4

\* A poll and an answer touch no claim, a mutation holds one until it ends.
LEMMA CallClaims ==
    ASSUME ProcessAssumption, ClaimsOK, NEW c \in Calls,
           \/ c \in Polls /\ Poll(c)
           \/ c \in Starts \union Polls /\ Answer(c)
           \/ c \in Mutations /\ (Mutate(c) \/ MutateEnds(c))
    PROVE  ClaimsOK'
PROOF
<1>0. /\ shuttingDown' = shuttingDown /\ process' = process
      /\ coordinator \in {"open", "closed"} /\ (coordinator = "closed" <=> shuttingDown /\ claims = {})
      /\ c \in Mutations => c \notin Starts
      /\ c \in Starts => (c \in claims <=> process[c] = "alive" \/ stage[c] = "importing")
      /\ c \in Starts => (process[c] # "none" => stage[c] \notin {"idle", "importing"})
  BY DEF ProcessAssumption, ClaimsOK, ClaimsCoverCommands, Begun, Poll, Answer, Mutate, MutateEnds
<1>1. CASE (c \in Polls /\ Poll(c)) \/ (c \in Starts \union Polls /\ Answer(c))
  <2>1. /\ UNCHANGED <<claims, coordinator>> /\ c \notin Mutations
        /\ \E to \in {"refused", "waiting", "done"} : stage' = [stage EXCEPT ![c] = to]
        /\ c \in Starts => stage[c] = "waiting"
    BY <1>1 DEF ProcessAssumption, Poll, Answer, Goes
  <2>2. PICK to \in {"refused", "waiting", "done"} : stage' = [stage EXCEPT ![c] = to]
    BY <2>1
  <2>. QED  BY <1>0, <2>1, <2>2, ClaimStep
<1>2. CASE c \in Mutations /\ Mutate(c)
  <2>1. CASE shuttingDown
    <3>1. /\ stage' = [stage EXCEPT ![c] = "refused"] /\ UNCHANGED <<claims, coordinator>>
          /\ stage[c] = "idle" /\ c \notin claims
      BY <1>2, <2>1 DEF Mutate, Goes, ClaimsOK, ClaimsCoverCommands
    <3>. QED  BY <1>0, <1>2, <3>1, ClaimStep
  <2>2. CASE ~shuttingDown
    <3>1. stage' = [stage EXCEPT ![c] = "waiting"] /\ claims' = claims \union {c} /\ coordinator' = coordinator
      BY <1>2, <2>2 DEF Mutate, Goes
    <3>. QED  BY <1>0, <1>2, <2>2, <3>1, ClaimStep
  <2>. QED  BY <2>1, <2>2
<1>3. CASE c \in Mutations /\ MutateEnds(c)
  <2>1. stage' = [stage EXCEPT ![c] = "done"]
    BY <1>3 DEF MutateEnds, Goes
  <2>2. claims' = claims \ {c} /\ coordinator' \in {"open", "closed"} /\ (coordinator' = "closed" <=> shuttingDown /\ claims' = {})
    BY <1>3, Releases DEF MutateEnds
  <2>. QED  BY <1>0, <1>3, <2>1, <2>2, ClaimStep
<1>. QED  BY <1>1, <1>2, <1>3

-----------------------------------------------------------------------------
(* The manager *)

SessionsOK ==
    /\ sessions \subseteq Starts /\ running \in [Starts -> BOOLEAN]
    /\ operation \in [Starts -> {"none", "running", "completed", "failed"}]

LEMMA Parts == IInv <=> SessionsOK /\ ClaimsOK /\ OutputOK
BY DEF IInv, TypeOK, SessionsOK, ClaimsOK, OutputOK, Buffers

LEMMA SessionsStep ==
    ASSUME ProcessAssumption, SessionsOK, Next
    PROVE  SessionsOK'
PROOF
<1>1. ASSUME NEW s \in Starts, Start(s) \/ StartFails(s) \/ Spawn(s) \/ Finish(s) \/ Expire(s) \/ \E n \in 1..MaxOutput : Output(s, n)
      PROVE  SessionsOK'
  <2>1. sessions' \subseteq sessions \union {s}
    BY <1>1 DEF Start, StartFails, Spawn, Finish, Expire, Output
  <2>2. running' = running \/ running' = [running EXCEPT ![s] = FALSE]
    BY <1>1 DEF Start, StartFails, Spawn, Finish, Expire, Output
  <2>3. operation' = operation \/ \E how \in {"none", "running", "completed", "failed"} : operation' = [operation EXCEPT ![s] = how]
    BY <1>1 DEF Start, StartFails, Spawn, Finish, Expire, Output, EndWorkOperation
  <2>. QED  BY <2>1, <2>2, <2>3 DEF SessionsOK
<1>2. ASSUME \/ \E c \in Polls : Poll(c)
             \/ \E c \in Starts \union Polls : Answer(c)
             \/ \E c \in Mutations : Mutate(c) \/ MutateEnds(c)
             \/ Shutdown
      PROVE  SessionsOK'
  <2>1. sessions' \subseteq sessions /\ running' = running /\ operation' = operation
    BY <1>2 DEF Poll, Answer, Consume, Mutate, MutateEnds, Shutdown
  <2>. QED  BY <2>1 DEF SessionsOK
<1>. QED  BY <1>1, <1>2 DEF Next

LEMMA ClaimsStep ==
    ASSUME ProcessAssumption, ClaimsOK, Next
    PROVE  ClaimsOK'
PROOF
<1>1. ASSUME NEW s \in Starts, Start(s) \/ StartFails(s) \/ Spawn(s) \/ Finish(s)
      PROVE  ClaimsOK'
  BY <1>1, StartClaims
<1>2. ASSUME NEW s \in Starts, Expire(s) \/ \E n \in 1..MaxOutput : Output(s, n)
      PROVE  ClaimsOK'
  <2>1. UNCHANGED <<claims, process, stage, shuttingDown, coordinator>>
    BY <1>2 DEF Expire, Output
  <2>. QED  BY <2>1 DEF ClaimsOK, ClaimsCoverCommands, Begun
<1>3. ASSUME NEW c \in Calls, \/ c \in Polls /\ Poll(c)
                              \/ c \in Starts \union Polls /\ Answer(c)
                              \/ c \in Mutations /\ (Mutate(c) \/ MutateEnds(c))
      PROVE  ClaimsOK'
  BY <1>3, CallClaims
<1>4. CASE Shutdown
  <2>1. /\ UNCHANGED <<claims, process, stage>> /\ shuttingDown' = TRUE
        /\ coordinator' = IF claims = {} THEN "closed" ELSE coordinator
    BY <1>4 DEF Shutdown
  <2>. QED  BY <2>1 DEF ClaimsOK, ClaimsCoverCommands, Begun
<1>. QED  BY <1>1, <1>2, <1>3, <1>4 DEF Next, Calls

LEMMA OutputStep ==
    ASSUME ProcessAssumption, OutputOK, Next
    PROVE  OutputOK'
PROOF
<1>1. ASSUME UNCHANGED <<buffer, produced, got>>
      PROVE  OutputOK'
  BY <1>1 DEF OutputOK, Told
<1>2. ASSUME NEW s \in Starts, Start(s) \/ Spawn(s) \/ Expire(s)
      PROVE  OutputOK'
  BY <1>1, <1>2 DEF Start, Spawn, Expire
<1>3. ASSUME NEW s \in Starts, StartFails(s) \/ Finish(s)
      PROVE  OutputOK'
  <2>1. got' = got /\ \E how \in {"completed", "failed"} : EndWorkOperation(s, how)
    BY <1>3 DEF StartFails, Finish
  <2>. QED  BY <2>1, EndWrites
<1>4. ASSUME NEW s \in Starts, NEW n \in 1..MaxOutput, Output(s, n)
      PROVE  OutputOK'
  <2>1. n \in Nat \ {0}
    BY DEF ProcessAssumption
  <2>2. /\ got' = got /\ produced' = [produced EXCEPT ![s] = @ + n]
        /\ buffer' = [buffer EXCEPT ![s] = AppendOutput(@, Run(produced[s], n))]
    BY <1>4 DEF Output, Run
  <2>. QED  BY <2>1, <2>2, Writes
<1>5. ASSUME NEW c \in Polls, Poll(c)
      PROVE  OutputOK'
  <2>1. produced' = produced /\ (UNCHANGED <<got, buffer>> \/ Consume(c, Of[c])) /\ Of[c] \in Starts
    BY <1>5 DEF Poll, ProcessAssumption
  <2>. QED  BY <1>1, <2>1, Consumes
<1>6. ASSUME NEW c \in Starts \union Polls, Answer(c)
      PROVE  OutputOK'
  <2>1. produced' = produced /\ Consume(c, IF c \in Starts THEN c ELSE Of[c])
        /\ (IF c \in Starts THEN c ELSE Of[c]) \in Starts
    BY <1>6 DEF Answer, ProcessAssumption
  <2>. QED  BY <2>1, Consumes
<1>7. ASSUME (\E c \in Mutations : Mutate(c) \/ MutateEnds(c)) \/ Shutdown
      PROVE  OutputOK'
  BY <1>1, <1>7 DEF Mutate, MutateEnds, Shutdown
<1>. QED  BY <1>2, <1>3, <1>4, <1>5, <1>6, <1>7 DEF Next

\* What has been told and what the buffer tells is what the command has written.
LEMMA Accounts ==
    ASSUME ProcessAssumption, OutputOK
    PROVE  OutputAccounted
PROOF
<1>1. ASSUME NEW s \in Starts
      PROVE  Tells(got[s] \o Retained(buffer[s]), 0, produced[s])
  <2>1. /\ produced[s] \in Nat /\ buffer[s] \in Buffers /\ Buffered(buffer[s], produced[s])
        /\ Tells(got[s], 0, produced[s] - buffer[s].total) /\ got[s] \in Seq(Nat)
    BY DEF OutputOK, Told
  <2>2. PICK d \in Nat, k \in Nat : k = buffer[s].total /\ d + k = produced[s] /\ d = produced[s] - buffer[s].total
    <3>1. buffer[s].total \in Nat /\ buffer[s].total <= produced[s]
      BY <2>1 DEF Buffers, Buffered
    <3>2. produced[s] - buffer[s].total \in Nat /\ (produced[s] - buffer[s].total) + buffer[s].total = produced[s]
      BY <2>1, <3>1
    <3>. QED  BY <3>1, <3>2
  <2>3. PICK q : q = Retained(buffer[s])
    OBVIOUS
  <2>4. q \in Seq(Nat) /\ Tells(q, d, d + k)
    <3>1. Buffered(buffer[s], d + k) /\ buffer[s].total = k /\ BufferLimit \in Nat
      BY <2>1, <2>2 DEF ProcessAssumption
    <3>. QED  BY <2>1, <2>3, <3>1, RetainedTells
  <2>5. 0 \in Nat /\ 0 <= d /\ d <= d + k /\ d + k \in Nat /\ Tells(got[s], 0, d)
    BY <2>1, <2>2
  <2>6. Tells(got[s] \o q, 0, d + k)
    BY <2>1, <2>4, <2>5, TextsTell
  <2>. QED  BY <2>2, <2>3, <2>6
<1>. QED  BY <1>1 DEF OutputAccounted

LEMMA Initially == ProcessAssumption /\ Init => IInv
PROOF
<1>. SUFFICES ASSUME ProcessAssumption, Init
              PROVE  IInv
  OBVIOUS
<1>1. SessionsOK /\ ClaimsOK
  BY DEF ProcessAssumption, Init, SessionsOK, ClaimsOK, ClaimsCoverCommands, Begun, Calls
<1>2. PICK e \in Seq(Nat) : e = <<>> /\ Len(e) = 0
  <2>1. <<>> \in Seq(Nat) /\ Len(<<>>) = 0
    OBVIOUS
  <2>. QED  BY <2>1
<1>3. e = Run(0, 0) /\ Tells(e, 0, 0)
  <2>1. PICK m \in Nat, z \in Seq(Nat) : m = 0 /\ z = e /\ Len(z) = 0 /\ \A i \in 1..0 : z[i] = m + i
    <3>1. \A i \in 1..0 : FALSE
      OBVIOUS
    <3>. QED  BY <1>2, <3>1
  <2>2. e = Run(0, 0)
    <3>1. z = Run(m, 0)
      BY <2>1, IsRun
    <3>. QED  BY <2>1, <3>1
  <2>3. Tells(Run(0, 0), 0, 0 + 0)
    BY RunTells
  <2>. QED  BY <2>2, <2>3
<1>4. Empty \in Buffers /\ Empty.total = 0 /\ Empty.head = e /\ Empty.tail = e
  BY <1>2 DEF Empty, Buffers
<1>5. Buffered(Empty, 0)
  <2>1. 0 <= BufferLimit
    BY DEF ProcessAssumption
  <2>. QED  BY <1>2, <1>3, <1>4, <2>1 DEF Buffered
<1>6. OutputOK
  BY <1>2, <1>3, <1>4, <1>5 DEF Init, OutputOK, Told
<1>. QED  BY <1>1, <1>6, Parts

THEOREM Invariance == ASSUME ProcessAssumption PROVE Spec => []IInv
PROOF
<1>1. IInv /\ [Next]_vars => IInv'
  <2>. SUFFICES ASSUME IInv, [Next]_vars
                PROVE  IInv'
    OBVIOUS
  <2>1. CASE Next
    <3>1. SessionsOK' /\ ClaimsOK' /\ OutputOK'
      BY <2>1, Parts, SessionsStep, ClaimsStep, OutputStep
    <3>. QED
      BY <3>1 DEF IInv, TypeOK, SessionsOK, ClaimsOK, OutputOK, Buffers
  <2>2. CASE UNCHANGED vars
    BY <2>2 DEF vars, IInv, TypeOK, ClaimsCoverCommands, Begun, Told
  <2>. QED  BY <2>1, <2>2
<1>. QED  BY <1>1, Initially, PTL DEF Spec

\* For any calls, any output and any limits: a claim is held from before a command begins
\* until it has ended, the coordinator is closed by a shutdown once none is left, and the
\* answers tell what the command wrote, each character at most once and in order, with a mark
\* where some are missing (ProcessSessionManager and HeadTailBuffer in process-sessions.ts).
THEOREM CommandsAreAccounted == ASSUME ProcessAssumption PROVE Spec => []CommandsAccounted
PROOF
<1>1. IInv => CommandsAccounted
  <2>. SUFFICES ASSUME IInv
                PROVE  CommandsAccounted
    OBVIOUS
  <2>1. ClaimsOK /\ OutputOK
    BY Parts
  <2>. QED  BY <2>1, Accounts DEF ClaimsOK, CommandsAccounted
<1>. QED  BY <1>1, Invariance, PTL
=============================================================================
