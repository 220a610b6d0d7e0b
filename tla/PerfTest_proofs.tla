------------------------------ MODULE PerfTest_proofs ------------------------------
(***************************************************************************)
(* What every deployment of a performance test keeps, for any clients,     *)
(* servers, threads, operations and numbers of messages: threads work when *)
(* their main thread has started them and not after it has seen them end,  *)
(* and, but for the normal write mode of the latency test, which passes    *)
(* words instead of messages, every answer is the answer to its question.  *)
(*                                                                         *)
(* Threads run programs: sequences made of instructions by concatenation,  *)
(* choice and loops.  What a program does in which order is stated by      *)
(* rules (Before, After, Between) that concatenation and loops preserve;   *)
(* that a loop unrolled consists of its rounds is proved by a first        *)
(* counterexample instead of induction.  Each program is shown to keep to  *)
(* the rules of its kind: a client's connection alternates between asking  *)
(* and taking the answer, a server answers what it has polled before it    *)
(* polls again, and a main thread resets the flag, starts the threads,     *)
(* wakes them and sees them end.  The rules hold of the rest of a program  *)
(* as they hold of the whole, and what is due next (Due) is all that has   *)
(* to be known of the part that has run.                                   *)
(*                                                                         *)
(* TogetherInv is the invariant of the threads of one process: rules, what *)
(* is due, and the flags.  TurnsInv counts: the questions on a connection  *)
(* are those answered, those that lie with the server, and those that a    *)
(* thread of the server has polled and owes an answer to.  SupplyInv adds  *)
(* the receives: a client posts one before it asks, so each answer that is *)
(* owed will find one.                                                     *)
(***************************************************************************)
EXTENDS PerfTest, FiniteSetTheorems, WellFoundedInduction, TLAPS

(* Wherever P is at an instruction of A, it comes to one of B with none of *)
(* X in between, ...                                                       *)
Before(P, A, B, X) ==
  \A m \in 1 .. Len(P) : P[m] \in A =>
    \E n \in (m + 1) .. Len(P) : P[n] \in B /\ \A k \in (m + 1) .. (n - 1) : P[k] \notin X

(* ... wherever it is at one of B, it has come from one of A, ... *)
After(P, A, B, X) ==
  \A n \in 1 .. Len(P) : P[n] \in B =>
    \E m \in 1 .. (n - 1) : P[m] \in A /\ \A k \in (m + 1) .. (n - 1) : P[k] \notin X

(* ... and from one of A to one of C there is one of B on the way. *)
Between(P, A, B, C) ==
  \A m, n \in 1 .. Len(P) : m < n /\ P[m] \in A /\ P[n] \in C =>
    \E k \in (m + 1) .. (n - 1) : P[k] \in B

(* A set of numbers has a first one. *)
LEMMA FirstNumber ==
  ASSUME NEW I \in SUBSET Nat, I # {}
  PROVE  \E x \in I : \A y \in I : x <= y
<1> DEFINE R == OpToRel(<, Nat)
<1>1. \A x, y \in Nat : x < y => <<x, y>> \in R
  BY DEF OpToRel
<1>2. IsWellFoundedOn(R, Nat)
  BY NatLessThanWellFounded
<1> HIDE DEF R
<1>3. PICK x \in I : \A y \in I : ~ (<<y, x>> \in R)
  BY <1>2, WFMin
<1>4. \A y \in I : x <= y
  <2> TAKE y \in I
  <2>1. x \in Nat /\ y \in Nat
    OBVIOUS
  <2>2. ~ (y < x)
    BY <1>1, <1>3, <2>1, Zenon
  <2>3. QED
    BY <2>1, <2>2
<1>5. QED
  BY <1>4

(* FlattenSeq is defined by this function. *)
Flattening(f, body, n) == f = [i \in 1 .. n |-> IF i = 1 THEN body[i] ELSE f[i - 1] \o body[i]]

(* The function by which FlattenSeq is defined exists. *)
LEMMA FlatteningExists ==
  ASSUME NEW body, NEW n \in Nat
  PROVE  \E f : Flattening(f, body, n)
<1> DEFINE T == {m \in Nat : ~ \E f : Flattening(f, body, m)}
<1> SUFFICES ASSUME T # {}
             PROVE  FALSE
  OBVIOUS
<1>1. PICK m \in T : \A k \in T : m <= k
  <2> T \in SUBSET Nat
    OBVIOUS
  <2> HIDE DEF T
  <2> QED
    BY FirstNumber
<1>2. CASE m = 0
  <2>1. Flattening([i \in 1 .. 0 |-> 0], body, 0)
    BY DEF Flattening
  <2>2. QED
    BY <1>2, <2>1
<1>3. CASE m # 0
  <2>1. m - 1 \in Nat /\ m - 1 \notin T
    BY <1>1, <1>3
  <2>2. PICK f : Flattening(f, body, m - 1)
    BY <2>1
  <2> DEFINE g == [i \in 1 .. m |-> IF i < m THEN f[i]
                                    ELSE IF m = 1 THEN body[1] ELSE f[m - 1] \o body[m]]
  <2>3. \A i \in 1 .. m : g[i] = IF i = 1 THEN body[i] ELSE g[i - 1] \o body[i]
    <3> TAKE i \in 1 .. m
    <3>1. \A k \in 1 .. (m - 1) : f[k] = IF k = 1 THEN body[k] ELSE f[k - 1] \o body[k]
      BY <2>2, Zenon DEF Flattening
    <3>2. CASE i < m
      <4>1. g[i] = f[i] /\ (i # 1 => g[i - 1] = f[i - 1])
        BY <3>2
      <4>2. i \in 1 .. (m - 1)
        BY <3>2
      <4> HIDE DEF g
      <4>3. QED
        BY <4>1, <4>2, <3>1
    <3>3. CASE i = m
      <4>1. m # 1 => g[m - 1] = f[m - 1]
        BY <3>3
      <4>2. g[m] = IF m = 1 THEN body[1] ELSE f[m - 1] \o body[m]
        BY <1>3
      <4> HIDE DEF g
      <4>3. QED
        BY <4>1, <4>2, <3>3
    <3>4. QED
      BY <3>2, <3>3
  <2>4. Flattening(g, body, m)
    <3>1. g = [i \in 1 .. m |-> g[i]]
      OBVIOUS
    <3> HIDE DEF g
    <3>2. [i \in 1 .. m |-> g[i]] = [i \in 1 .. m |-> IF i = 1 THEN body[i] ELSE g[i - 1] \o body[i]]
      BY <2>3, Zenon
    <3>3. QED
      BY <3>1, <3>2, Zenon DEF Flattening
  <2>5. QED
    BY <2>4, <1>1
<1>4. QED
  BY <1>2, <1>3

LEMMA FlattenIs ==
  ASSUME NEW S, NEW n \in Nat, NEW body \in [1 .. n -> Seq(S)]
  PROVE  IF n = 0 THEN FlattenSeq(body) = << >>
         ELSE \E f : Flattening(f, body, n) /\ FlattenSeq(body) = f[n]
<1>1. Len(body) = n
  OBVIOUS
<1>2. CASE n = 0
  <2>1. FlattenSeq(body) = body
    BY <1>1, <1>2 DEF FlattenSeq
  <2>2. QED
    BY <2>1, <1>2
<1>3. CASE n # 0
  <2> DEFINE f == CHOOSE f : Flattening(f, body, n)
  <2>1. Flattening(f, body, n)
    BY FlatteningExists, Zenon
  <2>2. FlattenSeq(body) = f[n]
    BY <1>1, <1>3 DEF FlattenSeq, Flattening
  <2>3. QED
    BY <1>3, <2>1, <2>2
<1>4. QED
  BY <1>2, <1>3

(* Instruction j of a loop unrolled is one of a round i, which lies there  *)
(* as a whole.                                                             *)
InRound(P, body, j, i, off) ==
  /\ off < j /\ j <= off + Len(body[i])
  /\ off + Len(body[i]) <= Len(P)
  /\ \A k \in 1 .. Len(body[i]) : P[off + k] = body[i][k]

(* The loop unrolled is made of its rounds. *)
LEMMA FlattenRounds ==
  ASSUME NEW S, NEW n \in Nat, NEW body \in [1 .. n -> Seq(S)]
  PROVE  /\ FlattenSeq(body) \in Seq(S)
         /\ \A j \in 1 .. Len(FlattenSeq(body)) :
              \E i \in 1 .. n, off \in Nat : InRound(FlattenSeq(body), body, j, i, off)
<1>1. CASE n = 0
  <2>1. FlattenSeq(body) = << >>
    BY <1>1, FlattenIs
  <2>2. << >> \in Seq(S) /\ Len(<< >>) = 0
    OBVIOUS
  <2>3. QED
    BY <2>1, <2>2
<1>2. CASE n # 0
  <2>1. PICK f : Flattening(f, body, n) /\ FlattenSeq(body) = f[n]
    BY <1>2, FlattenIs, Zenon
  <2> DEFINE Good(m) == /\ f[m] \in Seq(S)
                        /\ \A j \in 1 .. Len(f[m]) : \E i \in 1 .. m, off \in Nat :
                             InRound(f[m], body, j, i, off)
             T == {m \in 1 .. n : ~ Good(m)}
  <2>2. \A i \in 1 .. n : f[i] = IF i = 1 THEN body[i] ELSE f[i - 1] \o body[i]
    BY <2>1, Zenon DEF Flattening
  <2>3. ASSUME NEW m \in 1 .. n, m # 1 => Good(m - 1)
        PROVE  Good(m)
    <3>1. CASE m = 1
      <4>1. f[m] = body[1] /\ body[1] \in Seq(S)
        BY <2>2, <3>1
      <4>2. ASSUME NEW j \in 1 .. Len(f[m])
            PROVE  InRound(f[m], body, j, 1, 0)
        BY <4>1 DEF InRound
      <4>3. QED
        BY <3>1, <4>1, <4>2
    <3>2. CASE m # 1
      <4> DEFINE u == f[m - 1]  v == body[m]
      <4>1. Good(m - 1) /\ m - 1 \in 1 .. n
        BY <2>3, <3>2
      <4>2. f[m] = u \o v /\ v \in Seq(S)
        BY <2>2, <3>2
      <4>3. u \in Seq(S) /\ \A j \in 1 .. Len(u) : \E i \in 1 .. (m - 1), off \in Nat : InRound(u, body, j, i, off)
        BY <4>1
      <4> HIDE DEF u, v, Good
      <4>4. /\ u \o v \in Seq(S) /\ Len(u \o v) = Len(u) + Len(v)
            /\ \A k \in 1 .. Len(u) : (u \o v)[k] = u[k]
            /\ \A k \in 1 .. Len(v) : (u \o v)[Len(u) + k] = v[k]
        BY <4>2, <4>3
      <4>5. ASSUME NEW j \in 1 .. Len(u \o v)
            PROVE  \E i \in 1 .. m, off \in Nat : InRound(u \o v, body, j, i, off)
        <5>1. CASE j \in 1 .. Len(u)
          <6>1. PICK i \in 1 .. (m - 1), off \in Nat : InRound(u, body, j, i, off)
            BY <4>3, <5>1
          <6>2. body[i] \in Seq(S) /\ i \in 1 .. m
            OBVIOUS
          <6>3. \A k \in 1 .. Len(body[i]) : off + k \in 1 .. Len(u)
            BY <6>1, <6>2, <4>3 DEF InRound
          <6>4. InRound(u \o v, body, j, i, off)
            BY <6>1, <6>2, <6>3, <4>3, <4>2, <4>4 DEF InRound
          <6>5. QED
            BY <6>2, <6>4
        <5>2. CASE j \notin 1 .. Len(u)
          <6>1. Len(u) \in Nat /\ Len(v) \in Nat
            BY <4>2, <4>3
          <6>2. InRound(u \o v, body, j, m, Len(u))
            BY <5>2, <6>1, <4>4 DEF InRound, v
          <6>3. QED
            BY <6>1, <6>2
        <5>3. QED
          BY <5>1, <5>2
      <4>6. QED
        BY <4>2, <4>4, <4>5 DEF Good
    <3>3. QED
      BY <3>1, <3>2
  <2>4. T = {}
    <3> SUFFICES ASSUME T # {} PROVE FALSE
      OBVIOUS
    <3> HIDE DEF Good
    <3>1. PICK m \in T : \A k \in T : m <= k
      <4> T \in SUBSET Nat
        OBVIOUS
      <4> HIDE DEF T
      <4> QED
        BY FirstNumber
    <3>2. m # 1 => m - 1 \in 1 .. n /\ m - 1 \notin T
      BY <3>1
    <3>3. QED
      BY <2>3, <3>1, <3>2
  <2>5. n \in 1 .. n /\ n \notin T
    <3> HIDE DEF T
    <3> QED
      BY <1>2, <2>4
  <2>6. Good(n)
    <3> HIDE DEF Good
    <3> QED BY <2>5
  <2>7. QED
    BY <2>1, <2>6
<1>3. QED
  BY <1>1, <1>2

(* Loops keep what holds of their rounds. *)
LEMMA BeforeFlatten ==
  ASSUME NEW S, NEW n \in Nat, NEW body \in [1 .. n -> Seq(S)], NEW A, NEW B, NEW X,
         \A i \in 1 .. n : Before(body[i], A, B, X)
  PROVE  Before(FlattenSeq(body), A, B, X)
<1> DEFINE P == FlattenSeq(body)
<1>1. P \in Seq(S) /\ \A j \in 1 .. Len(P) : \E i \in 1 .. n, off \in Nat : InRound(P, body, j, i, off)
  BY FlattenRounds
<1> HIDE DEF P
<1>2. ASSUME NEW m \in 1 .. Len(P), P[m] \in A
      PROVE  \E k \in (m + 1) .. Len(P) : P[k] \in B /\ \A l \in (m + 1) .. (k - 1) : P[l] \notin X
  <2>1. PICK i \in 1 .. n, off \in Nat : InRound(P, body, m, i, off)
    BY <1>1
  <2> DEFINE b == body[i]
  <2>2. b \in Seq(S) /\ Before(b, A, B, X)
    OBVIOUS
  <2>3. /\ off < m /\ m <= off + Len(b) /\ off + Len(b) <= Len(P)
        /\ \A k \in 1 .. Len(b) : P[off + k] = b[k]
    BY <2>1 DEF InRound
  <2> HIDE DEF b
  <2>4. PICK r \in Nat : r = m - off
    BY <2>3
  <2>5. r \in 1 .. Len(b) /\ b[r] \in A
    BY <2>2, <2>3, <2>4, <1>1, <1>2, SMTT(30)
  <2>6. PICK k \in (r + 1) .. Len(b) : b[k] \in B /\ \A l \in (r + 1) .. (k - 1) : b[l] \notin X
    BY <2>2, <2>5 DEF Before
  <2>7. off + k \in (m + 1) .. Len(P) /\ P[off + k] \in B
    BY <2>2, <2>3, <2>4, <2>5, <2>6, <1>1
  <2>8. ASSUME NEW l \in (m + 1) .. (off + k - 1)
        PROVE  P[l] \notin X
    <3>1. l - off \in (r + 1) .. (k - 1) /\ l - off \in 1 .. Len(b)
      BY <2>2, <2>4, <2>5, <2>6
    <3>2. P[off + (l - off)] = b[l - off] /\ off + (l - off) = l
      BY <2>3, <3>1
    <3>3. QED
      BY <2>6, <3>1, <3>2
  <2>9. QED
    BY <2>7, <2>8
<1>3. QED
  BY <1>2 DEF Before, P

LEMMA AfterFlatten ==
  ASSUME NEW S, NEW n \in Nat, NEW body \in [1 .. n -> Seq(S)], NEW A, NEW B, NEW X,
         \A i \in 1 .. n : After(body[i], A, B, X)
  PROVE  After(FlattenSeq(body), A, B, X)
<1> DEFINE P == FlattenSeq(body)
<1>1. P \in Seq(S) /\ \A j \in 1 .. Len(P) : \E i \in 1 .. n, off \in Nat : InRound(P, body, j, i, off)
  BY FlattenRounds
<1> HIDE DEF P
<1>2. ASSUME NEW m \in 1 .. Len(P), P[m] \in B
      PROVE  \E k \in 1 .. (m - 1) : P[k] \in A /\ \A l \in (k + 1) .. (m - 1) : P[l] \notin X
  <2>1. PICK i \in 1 .. n, off \in Nat : InRound(P, body, m, i, off)
    BY <1>1
  <2> DEFINE b == body[i]
  <2>2. b \in Seq(S) /\ After(b, A, B, X)
    OBVIOUS
  <2>3. /\ off < m /\ m <= off + Len(b) /\ off + Len(b) <= Len(P)
        /\ \A k \in 1 .. Len(b) : P[off + k] = b[k]
    BY <2>1 DEF InRound
  <2> HIDE DEF b
  <2>4. PICK r \in Nat : r = m - off
    BY <2>3
  <2>5. r \in 1 .. Len(b) /\ b[r] \in B
    BY <2>2, <2>3, <2>4, <1>1, <1>2
  <2>6. PICK k \in 1 .. (r - 1) : b[k] \in A /\ \A l \in (k + 1) .. (r - 1) : b[l] \notin X
    BY <2>2, <2>5 DEF After
  <2>7. off + k \in 1 .. (m - 1) /\ P[off + k] \in A
    <3>1. k \in 1 .. Len(b) /\ off + k \in 1 .. (m - 1)
      BY <2>2, <2>4, <2>5, <2>6
    <3>2. QED
      BY <3>1, <2>3, <2>6
  <2>8. ASSUME NEW l \in (off + k + 1) .. (m - 1)
        PROVE  P[l] \notin X
    <3>1. l - off \in (k + 1) .. (r - 1) /\ l - off \in 1 .. Len(b)
      BY <2>2, <2>4, <2>5, <2>6
    <3>2. P[off + (l - off)] = b[l - off] /\ off + (l - off) = l
      BY <2>3, <3>1
    <3>3. QED
      BY <2>6, <3>1, <3>2
  <2>9. QED
    BY <2>7, <2>8
<1>3. QED
  BY <1>2 DEF After, P

(* A loop of one instruction a round. *)
LEMMA FlattenSingles ==
  ASSUME NEW n \in Nat, NEW f, DOMAIN f = 1 .. n
  PROVE  FlattenSeq([i \in 1 .. n |-> << f[i] >>]) = [i \in 1 .. n |-> f[i]]
<1> DEFINE S == {f[i] : i \in 1 .. n}
           body == [i \in 1 .. n |-> << f[i] >>]
<1>1. \A i \in 1 .. n : << f[i] >> \in Seq(S)
  OBVIOUS
<1>2. body \in [1 .. n -> Seq(S)]
  BY <1>1
<1>3. CASE n = 0
  <2>1. FlattenSeq(body) = << >>
    <3> HIDE DEF body
    <3> QED BY <1>2, <1>3, FlattenIs
  <2>2. QED
    BY <1>3, <2>1
<1>4. CASE n # 0
  <2>0. PICK g : Flattening(g, body, n) /\ FlattenSeq(body) = g[n]
    <3> HIDE DEF body, S
    <3> QED BY <1>2, <1>4, FlattenIs
  <2>1. \A i \in 1 .. n : g[i] = IF i = 1 THEN body[i] ELSE g[i - 1] \o body[i]
    <3> HIDE DEF body
    <3> QED BY <2>0, Zenon DEF Flattening
  <2>2. \A i \in 1 .. n : body[i] = << f[i] >>
    OBVIOUS
  <2> DEFINE Good(m) == g[m] = [i \in 1 .. m |-> f[i]]
             Bad == {m \in 1 .. n : ~ Good(m)}
  <2>3. ASSUME NEW m \in 1 .. n, m # 1 => Good(m - 1)
        PROVE  Good(m)
    <3> HIDE DEF body
    <3>1. CASE m = 1
      BY <2>1, <2>2, <3>1
    <3>2. CASE m # 1
      <4>1. g[m] = [i \in 1 .. (m - 1) |-> f[i]] \o << f[m] >>
        BY <2>1, <2>2, <2>3, <3>2
      <4>2. /\ [i \in 1 .. (m - 1) |-> f[i]] \in Seq(S)
            /\ << f[m] >> \in Seq(S)
            /\ [i \in 1 .. m |-> f[i]] \in Seq(S)
        BY <3>2
      <4>3. [i \in 1 .. (m - 1) |-> f[i]] \o << f[m] >> = [i \in 1 .. m |-> f[i]]
        <5> DEFINE u == [i \in 1 .. (m - 1) |-> f[i]]  w == [i \in 1 .. m |-> f[i]]
        <5>1. Len(u) = m - 1 /\ Len(w) = m
          BY <3>2
        <5>2. \A k \in 1 .. m : (u \o << f[m] >>)[k] = w[k]
          BY <5>1, <4>2
        <5>3. u \o << f[m] >> \in Seq(S) /\ Len(u \o << f[m] >>) = m
          BY <5>1, <4>2
        <5> HIDE DEF u, w
        <5>4. QED
          BY <5>1, <5>2, <5>3, <4>2
      <4>4. QED
        BY <4>1, <4>3
    <3>3. QED
      BY <3>1, <3>2
  <2>4. Bad = {}
    <3> SUFFICES ASSUME Bad # {} PROVE FALSE
      OBVIOUS
    <3> HIDE DEF Good
    <3>1. PICK m \in Bad : \A k \in Bad : m <= k
      <4> Bad \in SUBSET Nat
        OBVIOUS
      <4> HIDE DEF Bad
      <4> QED
        BY FirstNumber
    <3>2. m # 1 => m - 1 \in 1 .. n /\ m - 1 \notin Bad
      BY <3>1
    <3>3. QED
      BY <2>3, <3>1, <3>2
  <2>5. Good(n)
    <3> HIDE DEF Good
    <3> n \in 1 .. n
      BY <1>4
    <3> QED BY <2>4
  <2>6. QED
    BY <2>0, <2>5
<1>5. QED
  BY <1>3, <1>4

(* The loop over the connections of a thread for one instruction. *)
OnEach(T, t, name) == FlattenSeq([k \in 1 .. Len(T.servers) |-> On(name, AtClient(t, T.servers[k]))])

LEMMA OnEachServer ==
  ASSUME NEW T, T.servers \in Seq(Servers), NEW t, NEW name
  PROVE  OnEach(T, t, name) =
           [k \in 1 .. Len(T.servers) |-> [do |-> name, end |-> AtClient(t, T.servers[k])]]
<1> DEFINE n == Len(T.servers)
           f == [k \in 1 .. n |-> [do |-> name, end |-> AtClient(t, T.servers[k])]]
<1>1. OnEach(T, t, name) = FlattenSeq([k \in 1 .. n |-> On(name, AtClient(t, T.servers[k]))])
  BY DEF OnEach
<1>2. \A k \in 1 .. n : On(name, AtClient(t, T.servers[k])) = << f[k] >>
  BY DEF On
<1>3. DOMAIN f = 1 .. n
  OBVIOUS
<1>4. f = [k \in 1 .. n |-> f[k]]
  OBVIOUS
<1>5. n \in Nat
  OBVIOUS
<1> HIDE DEF f, n
<1>6. [k \in 1 .. n |-> On(name, AtClient(t, T.servers[k]))] = [k \in 1 .. n |-> << f[k] >>]
  BY <1>2, Zenon
<1>7. FlattenSeq([k \in 1 .. n |-> << f[k] >>]) = [k \in 1 .. n |-> f[k]]
  BY <1>3, <1>5, FlattenSingles
<1>8. OnEach(T, t, name) = f
  BY <1>1, <1>4, <1>6, <1>7, Zenon
<1>9. QED
  BY <1>8, Zenon DEF f, n

(* A and B in turn, from A on. *)
Alternates(P, A, B) == Before(P, A, B, A) /\ After(P, A, B, B)

LEMMA BeforeNone ==
  ASSUME NEW S, NEW P \in Seq(S), NEW A, NEW B, NEW X, S \cap A = {}
  PROVE  Before(P, A, B, X)
BY DEF Before

LEMMA AfterNone ==
  ASSUME NEW S, NEW P \in Seq(S), NEW A, NEW B, NEW X, S \cap B = {}
  PROVE  After(P, A, B, X)
BY DEF After

(* What holds of two programs holds of one after the other. *)
LEMMA BeforeConcat ==
  ASSUME NEW S, NEW P \in Seq(S), NEW Q \in Seq(S), NEW A, NEW B, NEW X,
         Before(P, A, B, X), Before(Q, A, B, X)
  PROVE  Before(P \o Q, A, B, X)
<1>1. /\ P \o Q \in Seq(S) /\ Len(P \o Q) = Len(P) + Len(Q)
      /\ Len(P) \in Nat /\ Len(Q) \in Nat
      /\ \A k \in 1 .. Len(P) : (P \o Q)[k] = P[k]
      /\ \A k \in 1 .. Len(Q) : (P \o Q)[Len(P) + k] = Q[k]
  OBVIOUS
<1> DEFINE R == P \o Q
<1> HIDE DEF R
<1>2. ASSUME NEW m \in 1 .. Len(R), R[m] \in A
      PROVE  \E n \in (m + 1) .. Len(R) : R[n] \in B /\ \A k \in (m + 1) .. (n - 1) : R[k] \notin X
  <2>1. CASE m \in 1 .. Len(P)
    <3>1. PICK n \in (m + 1) .. Len(P) : P[n] \in B /\ \A k \in (m + 1) .. (n - 1) : P[k] \notin X
      BY <1>1, <1>2, <2>1 DEF R, Before
    <3>2. n \in (m + 1) .. Len(R) /\ R[n] \in B
      BY <1>1, <2>1, <3>1 DEF R
    <3>3. \A k \in (m + 1) .. (n - 1) : R[k] \notin X
      BY <1>1, <2>1, <3>1 DEF R
    <3>4. QED
      BY <3>2, <3>3
  <2>2. CASE m \notin 1 .. Len(P)
    <3>0. PICK l \in Nat : l = Len(P)
      BY <1>1
    <3>1. PICK r \in 1 .. Len(Q) : m = l + r
      <4>1. m \in Nat /\ l < m /\ m <= l + Len(Q)
        BY <1>1, <2>2, <3>0 DEF R
      <4>2. m - l \in 1 .. Len(Q) /\ m = l + (m - l)
        BY <1>1, <3>0, <4>1
      <4>3. QED
        BY <4>2, Zenon
    <3>2. Q[r] \in A
      BY <1>1, <1>2, <3>0, <3>1 DEF R
    <3>3. PICK n \in (r + 1) .. Len(Q) : Q[n] \in B /\ \A k \in (r + 1) .. (n - 1) : Q[k] \notin X
      BY <3>2 DEF Before
    <3>4. l + n \in (m + 1) .. Len(R) /\ R[l + n] \in B
      BY <1>1, <3>0, <3>1, <3>3 DEF R
    <3>5. ASSUME NEW k \in (m + 1) .. (l + n - 1) PROVE R[k] \notin X
      <4>1. k - l \in (r + 1) .. (n - 1) /\ k - l \in 1 .. Len(Q) /\ l + (k - l) = k
        BY <1>1, <3>0, <3>1, <3>3
      <4>2. R[k] = Q[k - l]
        BY <1>1, <3>0, <4>1 DEF R
      <4>3. QED
        BY <4>1, <4>2, <3>3
    <3>6. QED
      BY <3>4, <3>5
  <2>3. QED
    BY <2>1, <2>2
<1>3. QED
  BY <1>2 DEF Before, R

LEMMA AfterConcat ==
  ASSUME NEW S, NEW P \in Seq(S), NEW Q \in Seq(S), NEW A, NEW B, NEW X,
         After(P, A, B, X), After(Q, A, B, X)
  PROVE  After(P \o Q, A, B, X)
<1>1. /\ P \o Q \in Seq(S) /\ Len(P \o Q) = Len(P) + Len(Q)
      /\ Len(P) \in Nat /\ Len(Q) \in Nat
      /\ \A k \in 1 .. Len(P) : (P \o Q)[k] = P[k]
      /\ \A k \in 1 .. Len(Q) : (P \o Q)[Len(P) + k] = Q[k]
  OBVIOUS
<1> DEFINE R == P \o Q
<1> HIDE DEF R
<1>2. ASSUME NEW m \in 1 .. Len(R), R[m] \in B
      PROVE  \E n \in 1 .. (m - 1) : R[n] \in A /\ \A k \in (n + 1) .. (m - 1) : R[k] \notin X
  <2>1. CASE m \in 1 .. Len(P)
    <3>1. PICK n \in 1 .. (m - 1) : P[n] \in A /\ \A k \in (n + 1) .. (m - 1) : P[k] \notin X
      BY <1>1, <1>2, <2>1 DEF R, After
    <3>2. R[n] \in A
      BY <1>1, <2>1, <3>1 DEF R
    <3>3. \A k \in (n + 1) .. (m - 1) : R[k] \notin X
      BY <1>1, <2>1, <3>1 DEF R
    <3>4. QED
      BY <3>1, <3>2, <3>3
  <2>2. CASE m \notin 1 .. Len(P)
    <3>0. PICK l \in Nat : l = Len(P)
      BY <1>1
    <3>1. PICK r \in 1 .. Len(Q) : m = l + r
      <4>1. m \in Nat /\ l < m /\ m <= l + Len(Q)
        BY <1>1, <2>2, <3>0 DEF R
      <4>2. m - l \in 1 .. Len(Q) /\ m = l + (m - l)
        BY <1>1, <3>0, <4>1
      <4>3. QED
        BY <4>2, Zenon
    <3>2. Q[r] \in B
      BY <1>1, <1>2, <3>0, <3>1 DEF R
    <3>3. PICK n \in 1 .. (r - 1) : Q[n] \in A /\ \A k \in (n + 1) .. (r - 1) : Q[k] \notin X
      BY <3>2 DEF After
    <3>4. l + n \in 1 .. (m - 1) /\ R[l + n] \in A
      BY <1>1, <3>0, <3>1, <3>3 DEF R
    <3>5. ASSUME NEW k \in (l + n + 1) .. (m - 1) PROVE R[k] \notin X
      <4>1. k - l \in (n + 1) .. (r - 1) /\ k - l \in 1 .. Len(Q) /\ l + (k - l) = k
        BY <1>1, <3>0, <3>1, <3>3
      <4>2. R[k] = Q[k - l]
        BY <1>1, <3>0, <4>1 DEF R
      <4>3. QED
        BY <4>1, <4>2, <3>3
    <3>6. QED
      BY <3>4, <3>5
  <2>3. QED
    BY <2>1, <2>2
<1>3. QED
  BY <1>2 DEF After, R

(* One instruction, others, and the one that belongs to the first. *)
LEMMA Enclosed ==
  ASSUME NEW S, NEW U \in Seq(S), NEW A, NEW B, NEW X, NEW a \in A \ B, NEW b \in B \ A,
         S \cap (A \cup B \cup X) = {}
  PROVE  Before(<< a >> \o U \o << b >>, A, B, X) /\ After(<< a >> \o U \o << b >>, A, B, X)
<1> DEFINE P == << a >> \o U \o << b >>
<1>1. PICK l \in Nat : l = Len(U)
  OBVIOUS
<1>2. /\ Len(P) = l + 2 /\ P[1] = a /\ P[l + 2] = b
      /\ \A k \in 2 .. (l + 1) : P[k] = U[k - 1] /\ U[k - 1] \in S
  <2> DEFINE Z == S \cup {a, b}
             R == << a >> \o U
  <2>1. U \in Seq(Z) /\ << a >> \in Seq(Z) /\ << b >> \in Seq(Z)
    OBVIOUS
  <2>2. R \in Seq(Z) /\ Len(R) = l + 1 /\ R[1] = a /\ \A k \in 2 .. (l + 1) : R[k] = U[k - 1]
    BY <1>1, <2>1
  <2> HIDE DEF R
  <2>3. /\ Len(R \o << b >>) = l + 2 /\ (R \o << b >>)[l + 2] = b
        /\ \A k \in 1 .. (l + 1) : (R \o << b >>)[k] = R[k]
    BY <2>1, <2>2
  <2>4. P = R \o << b >>
    BY DEF R
  <2> HIDE DEF P
  <2>5. \A k \in 2 .. (l + 1) : U[k - 1] \in S
    BY <1>1
  <2>6. QED
    BY <2>2, <2>3, <2>4, <2>5
<1> HIDE DEF P
<1>3. \A k \in 2 .. (l + 1) : P[k] \notin A /\ P[k] \notin B /\ P[k] \notin X
  BY <1>2
<1>4. \A k \in 1 .. Len(P) : (P[k] \in A => k = 1) /\ (P[k] \in B => k = l + 2)
  BY <1>2, <1>3
<1>5. Before(P, A, B, X)
  BY <1>2, <1>3, <1>4 DEF Before
<1>6. After(P, A, B, X)
  BY <1>2, <1>3, <1>4 DEF After
<1>7. QED
  BY <1>5, <1>6 DEF P

(* Two loops over the same things: as the first meets one of them once,    *)
(* and the second the same.                                                *)
LEMMA Paired ==
  ASSUME NEW S, NEW U \in Seq(S), NEW V \in Seq(S), NEW A, NEW B,
         A \cap B = {}, Len(U) = Len(V),
         \A k \in 1 .. Len(U) : /\ U[k] \in A <=> V[k] \in B
                                /\ U[k] \notin B /\ V[k] \notin A,
         \A j, k \in 1 .. Len(U) : U[j] \in A /\ U[k] \in A => j = k
  PROVE  Alternates(U \o V, A, B)
<1> DEFINE P == U \o V
<1>1. PICK l \in Nat : l = Len(U)
  OBVIOUS
<1>2. Len(P) = l + l /\ \A k \in 1 .. l : P[k] = U[k] /\ P[l + k] = V[k]
  BY <1>1
<1> HIDE DEF P
<1>3. \A m \in 1 .. Len(P) : P[m] \in A => m <= l
  <2> TAKE m \in 1 .. Len(P)
  <2>1. CASE m > l
    <3>1. m - l \in 1 .. l /\ l + (m - l) = m
      BY <1>2, <2>1
    <3>2. QED
      BY <1>1, <1>2, <3>1
  <2>2. QED
    BY <2>1
<1>4. \A m \in 1 .. Len(P) : P[m] \in B => \E k \in 1 .. l : m = l + k
  <2> TAKE m \in 1 .. Len(P)
  <2>1. CASE m > l
    <3>1. m - l \in 1 .. l /\ l + (m - l) = m
      BY <1>2, <2>1
    <3>2. QED
      BY <3>1
  <2>2. CASE m <= l
    BY <2>2, <1>1, <1>2
  <2>3. QED
    BY <2>1, <2>2
<1>5. ASSUME NEW j \in 1 .. l, P[j] \in A
      PROVE  /\ P[l + j] \in B
             /\ \A k \in (j + 1) .. (l + j - 1) : P[k] \notin A /\ P[k] \notin B
  <2>1. P[l + j] \in B
    BY <1>1, <1>2, <1>5
  <2>2. ASSUME NEW k \in (j + 1) .. (l + j - 1), P[k] \in A PROVE FALSE
    <3>1. k \in 1 .. Len(P)
      BY <1>2, <2>2
    <3>2. k <= l
      BY <1>3, <2>2, <3>1
    <3>3. U[k] \in A /\ U[j] \in A /\ k \in 1 .. l
      BY <1>2, <1>5, <2>2, <3>2
    <3>4. QED
      BY <1>1, <3>3
  <2>3. ASSUME NEW k \in (j + 1) .. (l + j - 1), P[k] \in B PROVE FALSE
    <3>1. k \in 1 .. Len(P)
      BY <1>2, <2>3
    <3>2. PICK r \in 1 .. l : k = l + r
      BY <1>4, <2>3, <3>1
    <3>3. U[r] \in A /\ U[j] \in A
      BY <1>1, <1>2, <1>5, <2>3, <3>2
    <3>4. QED
      BY <1>1, <3>2, <3>3
  <2>4. QED
    BY <2>1, <2>2, <2>3
<1>6. Before(P, A, B, A)
  <2> SUFFICES ASSUME NEW m \in 1 .. Len(P), P[m] \in A
               PROVE  \E n \in (m + 1) .. Len(P) : P[n] \in B /\ \A k \in (m + 1) .. (n - 1) : P[k] \notin A
    BY DEF Before
  <2>1. m \in 1 .. l
    BY <1>3
  <2>2. l + m \in (m + 1) .. Len(P)
    BY <1>2, <2>1
  <2>3. QED
    BY <1>5, <2>1, <2>2
<1>7. After(P, A, B, B)
  <2> SUFFICES ASSUME NEW n \in 1 .. Len(P), P[n] \in B
               PROVE  \E m \in 1 .. (n - 1) : P[m] \in A /\ \A k \in (m + 1) .. (n - 1) : P[k] \notin B
    BY DEF After
  <2>1. PICK m \in 1 .. l : n = l + m
    BY <1>4
  <2>2. P[m] \in A
    BY <1>1, <1>2, <2>1
  <2>3. m \in 1 .. (n - 1)
    BY <2>1
  <2>4. QED
    BY <1>5, <2>1, <2>2, <2>3
<1>8. QED
  BY <1>6, <1>7 DEF Alternates, P

LEMMA BetweenFromAfter ==
  ASSUME NEW S, NEW P \in Seq(S), NEW A, NEW B, NEW X, A \cap X = {}, After(P, A, B, X)
  PROVE  Between(P, X, A, B)
<1> SUFFICES ASSUME NEW m \in 1 .. Len(P), NEW n \in 1 .. Len(P), m < n, P[m] \in X, P[n] \in B
             PROVE  \E k \in (m + 1) .. (n - 1) : P[k] \in A
  BY DEF Between
<1>1. PICK k \in 1 .. (n - 1) : P[k] \in A /\ \A l \in (k + 1) .. (n - 1) : P[l] \notin X
  BY DEF After
<1>2. ~ (m > k) /\ m # k
  BY <1>1
<1>3. QED
  BY <1>1, <1>2

LEMMA BetweenFromBefore ==
  ASSUME NEW S, NEW P \in Seq(S), NEW A, NEW B, NEW C, NEW X, C \subseteq X, B \cap C = {},
         Before(P, A, B, X)
  PROVE  Between(P, A, B, C)
<1> SUFFICES ASSUME NEW m \in 1 .. Len(P), NEW n \in 1 .. Len(P), m < n, P[m] \in A, P[n] \in C
             PROVE  \E k \in (m + 1) .. (n - 1) : P[k] \in B
  BY DEF Between
<1>1. PICK k \in (m + 1) .. Len(P) : P[k] \in B /\ \A l \in (m + 1) .. (k - 1) : P[l] \notin X
  BY DEF Before
<1>2. ~ (n < k) /\ n # k
  BY <1>1
<1>3. QED
  BY <1>1, <1>2

(* Nothing of this changes as the instructions are done one by one. *)
LEMMA TailOf ==
  ASSUME NEW S, NEW P \in Seq(S), P # << >>
  PROVE  /\ Tail(P) \in Seq(S) /\ Len(P) \in Nat \ {0} /\ Len(Tail(P)) = Len(P) - 1
         /\ Head(P) = P[1] /\ Head(P) \in S
         /\ \A k \in 1 .. Len(Tail(P)) : Tail(P)[k] = P[k + 1]
OBVIOUS

LEMMA BeforeTail ==
  ASSUME NEW S, NEW P \in Seq(S), P # << >>, NEW A, NEW B, NEW X, Before(P, A, B, X)
  PROVE  Before(Tail(P), A, B, X)
<1> DEFINE Q == Tail(P)
<1>1. /\ Q \in Seq(S) /\ Len(P) \in Nat \ {0} /\ Len(Q) = Len(P) - 1
      /\ \A k \in 1 .. Len(Q) : Q[k] = P[k + 1]
  BY TailOf
<1> HIDE DEF Q
<1> SUFFICES ASSUME NEW m \in 1 .. Len(Q), Q[m] \in A
             PROVE  \E n \in (m + 1) .. Len(Q) : Q[n] \in B /\ \A k \in (m + 1) .. (n - 1) : Q[k] \notin X
  BY DEF Before, Q
<1>2. m + 1 \in 1 .. Len(P) /\ P[m + 1] \in A
  BY <1>1
<1>3. PICK n \in (m + 2) .. Len(P) : P[n] \in B /\ \A k \in (m + 2) .. (n - 1) : P[k] \notin X
  BY <1>2 DEF Before
<1>4. n - 1 \in (m + 1) .. Len(Q) /\ Q[n - 1] \in B
  BY <1>1, <1>3
<1>5. \A k \in (m + 1) .. (n - 1 - 1) : Q[k] \notin X
  BY <1>1, <1>3
<1>6. QED
  BY <1>4, <1>5

LEMMA BetweenTail ==
  ASSUME NEW S, NEW P \in Seq(S), P # << >>, NEW A, NEW B, NEW C, Between(P, A, B, C)
  PROVE  Between(Tail(P), A, B, C)
<1> DEFINE Q == Tail(P)
<1>1. /\ Q \in Seq(S) /\ Len(P) \in Nat \ {0} /\ Len(Q) = Len(P) - 1
      /\ \A k \in 1 .. Len(Q) : Q[k] = P[k + 1]
  BY TailOf
<1> HIDE DEF Q
<1> SUFFICES ASSUME NEW m \in 1 .. Len(Q), NEW n \in 1 .. Len(Q), m < n, Q[m] \in A, Q[n] \in C
             PROVE  \E k \in (m + 1) .. (n - 1) : Q[k] \in B
  BY DEF Between, Q
<1>2. /\ m + 1 \in 1 .. Len(P) /\ P[m + 1] \in A
      /\ n + 1 \in 1 .. Len(P) /\ P[n + 1] \in C
  BY <1>1
<1>3. PICK k \in (m + 2) .. n : P[k] \in B
  BY <1>2 DEF Between
<1>4. k - 1 \in (m + 1) .. (n - 1) /\ Q[k - 1] \in B
  BY <1>1, <1>3
<1>5. QED
  BY <1>4

(* What P is to do next, of A and B, is one of B. *)
Due(P, A, B) == \E n \in 1 .. Len(P) : P[n] \in B /\ \A k \in 1 .. (n - 1) : P[k] \notin A

LEMMA NextOfTail ==
  ASSUME NEW S, NEW P \in Seq(S), P # << >>, NEW A, NEW B, A \cap B = {},
         Before(P, A, B, A), Between(P, B, A, B)
  PROVE  /\ Head(P) \in A => ~ Due(P, A, B) /\ Due(Tail(P), A, B)
         /\ Head(P) \in B => Due(P, A, B) /\ ~ Due(Tail(P), A, B)
         /\ Head(P) \notin A \cup B => (Due(P, A, B) <=> Due(Tail(P), A, B))
<1> DEFINE Q == Tail(P)
           h == Head(P)
<1>1. /\ Q \in Seq(S) /\ Len(P) \in Nat \ {0} /\ Len(Q) = Len(P) - 1
      /\ \A k \in 1 .. Len(Q) : Q[k] = P[k + 1]
      /\ h = P[1]
  BY TailOf
<1> HIDE DEF Q, h
<1>2. ASSUME h \in A PROVE ~ Due(P, A, B) /\ Due(Q, A, B)
  <2>1. ~ Due(P, A, B)
    BY <1>1, <1>2 DEF Due
  <2>2. PICK n \in 2 .. Len(P) : P[n] \in B /\ \A k \in 2 .. (n - 1) : P[k] \notin A
    BY <1>1, <1>2 DEF Before
  <2>3. n - 1 \in 1 .. Len(Q) /\ Q[n - 1] \in B /\ \A k \in 1 .. (n - 1 - 1) : Q[k] \notin A
    BY <1>1, <2>2, SMTT(30)
  <2>4. QED
    BY <2>1, <2>3 DEF Due
<1>3. ASSUME h \in B PROVE Due(P, A, B) /\ ~ Due(Q, A, B)
  <2>1. Due(P, A, B)
    BY <1>1, <1>3 DEF Due
  <2>2. ASSUME NEW n \in 1 .. Len(Q), Q[n] \in B, \A k \in 1 .. (n - 1) : Q[k] \notin A
        PROVE  FALSE
    <3>1. n + 1 \in 2 .. Len(P) /\ P[n + 1] \in B
      BY <1>1, <2>2
    <3>2. PICK k \in 2 .. n : P[k] \in A
      BY <1>1, <1>3, <3>1 DEF Between
    <3>3. k - 1 \in 1 .. (n - 1) /\ Q[k - 1] \in A
      BY <1>1, <3>2
    <3>4. QED
      BY <2>2, <3>3
  <2>3. QED
    BY <2>1, <2>2 DEF Due
<1>4. ASSUME h \notin A \cup B PROVE Due(P, A, B) <=> Due(Q, A, B)
  <2>1. ASSUME NEW n \in 1 .. Len(P), P[n] \in B, \A k \in 1 .. (n - 1) : P[k] \notin A
        PROVE  Due(Q, A, B)
    <3>1. n # 1
      BY <1>1, <1>4, <2>1
    <3>2. n - 1 \in 1 .. Len(Q) /\ Q[n - 1] \in B /\ \A k \in 1 .. (n - 1 - 1) : Q[k] \notin A
      BY <1>1, <2>1, <3>1
    <3>3. QED
      BY <3>2 DEF Due
  <2>2. ASSUME NEW n \in 1 .. Len(Q), Q[n] \in B, \A k \in 1 .. (n - 1) : Q[k] \notin A
        PROVE  Due(P, A, B)
    <3>1. n + 1 \in 1 .. Len(P) /\ P[n + 1] \in B
      BY <1>1, <2>2
    <3>2. ASSUME NEW k \in 1 .. n PROVE P[k] \notin A
      <4>1. CASE k = 1
        BY <1>1, <1>4, <4>1
      <4>2. CASE k # 1
        <5>1. k - 1 \in 1 .. (n - 1) /\ k - 1 \in 1 .. Len(Q) /\ k - 1 + 1 = k
          BY <1>1, <4>2
        <5>2. QED
          BY <1>1, <2>2, <5>1
      <4>3. QED
        BY <4>1, <4>2
    <3>3. QED
      BY <3>1, <3>2 DEF Due
  <2>3. QED
    BY <2>1, <2>2 DEF Due
<1>5. QED
  BY <1>2, <1>3, <1>4 DEF Q, h

(* What V uses again it has supplied in between, and U supplies the first. *)
LEMMA FirstUse ==
  ASSUME NEW S, NEW U \in Seq(S), NEW V \in Seq(S), NEW A, NEW B,
         \A k \in 1 .. Len(U) : U[k] \notin B,
         Between(V, B, A, B),
         (\E k \in 1 .. Len(V) : V[k] \in B) => \E k \in 1 .. Len(U) : U[k] \in A
  PROVE  After(U \o V, A, B, B)
<1> DEFINE W == U \o V
<1>1. PICK l \in Nat : l = Len(U)
  OBVIOUS
<1>2. PICK h \in Nat : h = Len(V)
  OBVIOUS
<1>3. Len(W) = l + h /\ (\A k \in 1 .. l : W[k] = U[k]) /\ \A k \in 1 .. h : W[l + k] = V[k]
  BY <1>1, <1>2
<1> HIDE DEF W
<1>4. ASSUME NEW n \in 1 .. Len(W), W[n] \in B
      PROVE  \E m \in 1 .. (n - 1) : W[m] \in A /\ \A k \in (m + 1) .. (n - 1) : W[k] \notin B
  <2>1. \A k \in 1 .. l : W[k] \notin B
    BY <1>1, <1>3
  <2>2. n > l
    BY <1>3, <1>4, <2>1
  <2>3. n - l \in 1 .. h /\ V[n - l] \in B
    <3>1. n - l \in 1 .. h /\ l + (n - l) = n
      BY <1>3, <1>4, <2>2
    <3>2. W[l + (n - l)] = V[n - l]
      BY <1>3, <3>1
    <3>3. QED
      BY <1>4, <3>1, <3>2
  <2> DEFINE D == {d \in 1 .. (n - 1) : W[n - d] \in A}
  <2>4. PICK j \in 1 .. l : W[j] \in A
    BY <1>1, <1>2, <1>3, <2>3
  <2>5. n - j \in D
    <3>1. n - j \in 1 .. (n - 1) /\ n - (n - j) = j
      BY <1>3, <2>2, <2>4
    <3>2. QED
      BY <2>4, <3>1
  <2>6. D \in SUBSET Nat
    OBVIOUS
  <2>7. \A d \in D : d \in 1 .. (n - 1) /\ W[n - d] \in A
    OBVIOUS
  <2>8. \A d \in 1 .. (n - 1) : W[n - d] \in A => d \in D
    OBVIOUS
  <2> HIDE DEF D
  <2>9. PICK d \in D : \A e \in D : d <= e
    BY <2>5, <2>6, FirstNumber
  <2>10. n - d \in 1 .. (n - 1) /\ W[n - d] \in A
    BY <1>3, <2>7
  <2>11. ASSUME NEW k \in (n - d + 1) .. (n - 1), W[k] \in B
         PROVE  FALSE
    <3>0. d \in 1 .. (n - 1) /\ n \in Nat
      BY <1>3, <2>7
    <3>1. k > l
      BY <1>3, <2>1, <2>11, <3>0
    <3>2. k - l \in 1 .. h /\ l + (k - l) = k /\ k - l < n - l
      BY <1>3, <1>4, <3>0, <3>1
    <3>3. V[k - l] \in B
      <4>1. W[l + (k - l)] = V[k - l]
        BY <1>3, <3>2
      <4>2. QED
        BY <2>11, <3>2, <4>1
    <3>4. PICK i \in (k - l + 1) .. (n - l - 1) : V[i] \in A
      BY <1>2, <2>3, <3>2, <3>3 DEF Between
    <3>5. i \in 1 .. h /\ n - (l + i) \in 1 .. (n - 1) /\ n - (n - (l + i)) = l + i /\ n - (l + i) < d
      BY <1>3, <2>3, <3>0, <3>2, <3>4
    <3>6. W[l + i] \in A
      BY <1>3, <3>4, <3>5
    <3>7. n - (l + i) \in D
      BY <2>8, <3>5, <3>6
    <3>8. QED
      BY <2>9, <3>0, <3>5, <3>7
  <2>12. QED
    BY <2>10, <2>11
<1>5. QED
  BY <1>4 DEF After, W

(* A program of instructions of S that keeps to rules: triples for Before  *)
(* and for After.                                                          *)
Obeys(P, S, Bs, As) ==
  /\ P \in Seq(S)
  /\ \A r \in Bs : Before(P, r[1], r[2], r[3])
  /\ \A r \in As : After(P, r[1], r[2], r[3])

LEMMA ObeysConcat ==
  ASSUME NEW S, NEW Bs, NEW As, NEW P, NEW Q, Obeys(P, S, Bs, As), Obeys(Q, S, Bs, As)
  PROVE  Obeys(P \o Q, S, Bs, As)
<1>1. P \in Seq(S) /\ Q \in Seq(S)
  BY DEF Obeys
<1>2. P \o Q \in Seq(S)
  BY <1>1
<1>3. \A r \in Bs : Before(P \o Q, r[1], r[2], r[3])
  BY <1>1, BeforeConcat DEF Obeys
<1>4. \A r \in As : After(P \o Q, r[1], r[2], r[3])
  BY <1>1, AfterConcat DEF Obeys
<1>5. QED
  BY <1>2, <1>3, <1>4 DEF Obeys

LEMMA ObeysFlatten ==
  ASSUME NEW S, NEW Bs, NEW As, NEW n \in Nat, NEW body, body = [k \in 1 .. n |-> body[k]],
         \A k \in 1 .. n : Obeys(body[k], S, Bs, As)
  PROVE  Obeys(FlattenSeq(body), S, Bs, As)
<1>1. \A k \in 1 .. n : body[k] \in Seq(S)
  BY DEF Obeys
<1>2. body \in [1 .. n -> Seq(S)]
  BY <1>1
<1>3. FlattenSeq(body) \in Seq(S)
  BY <1>2, FlattenRounds
<1>4. \A r \in Bs : Before(FlattenSeq(body), r[1], r[2], r[3])
  BY <1>2, BeforeFlatten DEF Obeys
<1>5. \A r \in As : After(FlattenSeq(body), r[1], r[2], r[3])
  BY <1>2, AfterFlatten DEF Obeys
<1>6. QED
  BY <1>3, <1>4, <1>5 DEF Obeys

(* Instructions the rules say nothing of. *)
Free(S, Bs, As) == {x \in S : (\A r \in Bs : x \notin r[1]) /\ (\A r \in As : x \notin r[2])}

LEMMA ObeysFree ==
  ASSUME NEW S, NEW Bs, NEW As, NEW P \in Seq(Free(S, Bs, As))
  PROVE  Obeys(P, S, Bs, As)
<1>1. P \in Seq(S)
  BY DEF Free
<1>2. \A r \in Bs : Free(S, Bs, As) \cap r[1] = {}
  BY DEF Free
<1>3. \A r \in As : Free(S, Bs, As) \cap r[2] = {}
  BY DEF Free
<1>4. \A r \in Bs : Before(P, r[1], r[2], r[3])
  BY <1>2, BeforeNone
<1>5. \A r \in As : After(P, r[1], r[2], r[3])
  BY <1>3, AfterNone
<1>6. QED
  BY <1>1, <1>4, <1>5 DEF Obeys

LEMMA TwoOf ==
  ASSUME NEW S, NEW a \in S, NEW b \in S
  PROVE  /\ << a >> \o << b >> \in Seq(S) /\ Len(<< a >> \o << b >>) = 2
         /\ (<< a >> \o << b >>)[1] = a /\ (<< a >> \o << b >>)[2] = b
<1>1. << a >> \in Seq(S) /\ << b >> \in Seq(S)
  OBVIOUS
<1>2. Len(<< a >>) = 1 /\ Len(<< b >>) = 1 /\ << a >>[1] = a /\ << b >>[1] = b
  OBVIOUS
<1>3. QED
  BY <1>1, <1>2

LEMMA ConcatAssociates ==
  ASSUME NEW S, NEW P \in Seq(S), NEW Q \in Seq(S), NEW R \in Seq(S)
  PROVE  (P \o Q) \o R = P \o (Q \o R)
OBVIOUS

LEMMA FreeOne ==
  ASSUME NEW S, NEW Bs, NEW As, NEW x \in Free(S, Bs, As)
  PROVE  Obeys(<< x >>, S, Bs, As)
<1>1. << x >> \in Seq(Free(S, Bs, As))
  OBVIOUS
<1>2. QED
  BY <1>1, ObeysFree

LEMMA FreeNothing ==
  ASSUME NEW S, NEW Bs, NEW As
  PROVE  Obeys(<< >>, S, Bs, As)
<1>1. << >> \in Seq(Free(S, Bs, As))
  OBVIOUS
<1>2. QED
  BY <1>1, ObeysFree

LEMMA ObeysIf ==
  ASSUME NEW S, NEW Bs, NEW As, NEW c, NEW P, c => Obeys(P, S, Bs, As)
  PROVE  Obeys(If(c, P), S, Bs, As)
BY FreeNothing DEF If

-----------------------------------------------------------------------------
(* The worker threads of the clients: what they put and take on one of     *)
(* their connections alternates.                                           *)
(* The tests in which words are written and watched for. *)
Normal(T) == T.class = "Latency" /\ T.mode = "normal" /\ "WRITE" \in T.operations

(* Where datagrams go. *)
Mailboxes == (Workers \cup (Servers \X {1})) \X {"signals", "group"}

(* A client puts a question, and takes the answer. *)
Asks(q) == [do : {"message"}, end : {<<q, "client">>}]
             \cup [do : {"write"}, end : {<<q, "client">>}, i : Int]
Takes(q) == [do : {"poll"}, end : {<<q, "client">>}]
             \cup [do : {"watch"}, end : {<<q, "client">>}, i : Int]

(* What the thread t of a client executes, and in which order. *)
ClientOrders(T, t) ==
  [do : {"post", "message", "poll", "access"}, end : ({t} \X Servers) \X {"client"}]
    \cup [do : {"post", "poll"}, end : {Signals(t)}]
    \cup [do : {"wait", "sleep", "reset"}]
    \cup [do : {"datagram"}, to : SUBSET Mailboxes]
    \cup (IF Normal(T) THEN [do : {"write", "watch"}, end : ({t} \X Servers) \X {"client"}, i : Int]
          ELSE {})

ClientBs(t) == {<<Asks(q), Takes(q), Asks(q)>> : q \in {t} \X Servers}
ClientAs(t) == {<<Asks(q), Takes(q), Takes(q)>> : q \in {t} \X Servers}
Alternating(T, t, P) == Obeys(P, ClientOrders(T, t), ClientBs(t), ClientAs(t))

(* A receive for the answer is posted before each message. *)
Posts(q) == [do : {"post"}, end : {<<q, "client">>}]
Sends(q) == [do : {"message"}, end : {<<q, "client">>}]
Supplied(t, P) == \A q \in {t} \X Servers : After(P, Posts(q), Sends(q), Sends(q))

ClientProgram(T, t, P) == Alternating(T, t, P) /\ Supplied(t, P)

LEMMA AlternatingConcat ==
  ASSUME NEW T, NEW t, NEW P, NEW Q, Alternating(T, t, P), Alternating(T, t, Q)
  PROVE  Alternating(T, t, P \o Q)
BY ObeysConcat DEF Alternating

LEMMA ClientConcat ==
  ASSUME NEW T, NEW t, NEW P, NEW Q, ClientProgram(T, t, P), ClientProgram(T, t, Q)
  PROVE  ClientProgram(T, t, P \o Q)
<1>1. Alternating(T, t, P \o Q)
  BY AlternatingConcat DEF ClientProgram
<1>2. P \in Seq(ClientOrders(T, t)) /\ Q \in Seq(ClientOrders(T, t))
  BY DEF ClientProgram, Alternating, Obeys
<1>3. Supplied(t, P \o Q)
  BY <1>2, AfterConcat DEF ClientProgram, Supplied
<1>4. QED
  BY <1>1, <1>3 DEF ClientProgram

LEMMA ClientLoop ==
  ASSUME NEW T, NEW t, NEW n \in Nat, NEW body, body = [k \in 1 .. n |-> body[k]],
         \A k \in 1 .. n : ClientProgram(T, t, body[k])
  PROVE  ClientProgram(T, t, FlattenSeq(body))
<1>1. Alternating(T, t, FlattenSeq(body))
  BY ObeysFlatten DEF ClientProgram, Alternating
<1>2. body \in [1 .. n -> Seq(ClientOrders(T, t))]
  BY DEF ClientProgram, Alternating, Obeys
<1>3. Supplied(t, FlattenSeq(body))
  BY <1>2, AfterFlatten DEF ClientProgram, Supplied
<1>4. QED
  BY <1>1, <1>3 DEF ClientProgram

LEMMA ClientIf ==
  ASSUME NEW T, NEW t, NEW c, NEW P, c => ClientProgram(T, t, P)
  PROVE  ClientProgram(T, t, If(c, P))
<1>1. ClientProgram(T, t, << >>)
  <2>1. Alternating(T, t, << >>)
    BY FreeNothing DEF Alternating
  <2>2. Supplied(t, << >>)
    BY DEF Supplied, After
  <2>3. QED
    BY <2>1, <2>2 DEF ClientProgram
<1>2. QED
  BY <1>1 DEF If

LEMMA ClientIsSeq ==
  ASSUME NEW T, NEW t, NEW P, ClientProgram(T, t, P) \/ Alternating(T, t, P)
  PROVE  P \in Seq(ClientOrders(T, t))
BY DEF ClientProgram, Alternating, Obeys

LEMMA ClientFree ==
  ASSUME NEW T, NEW t
  PROVE  /\ \A x \in [do : {"post", "access"}, end : ({t} \X Servers) \X {"client"}] : ClientProgram(T, t, << x >>)
         /\ \A x \in [do : {"post", "poll"}, end : {Signals(t)}] : ClientProgram(T, t, << x >>)
         /\ \A x \in [do : {"wait", "sleep", "reset"}] : ClientProgram(T, t, << x >>)
         /\ \A x \in [do : {"datagram"}, to : SUBSET Mailboxes] : ClientProgram(T, t, << x >>)
<1> DEFINE F == Free(ClientOrders(T, t), ClientBs(t), ClientAs(t))
<1>1. ASSUME NEW x \in ClientOrders(T, t),
             \A q \in {t} \X Servers : x \notin Asks(q) /\ x \notin Takes(q)
      PROVE  x \in F
  <2>1. ASSUME NEW r \in ClientBs(t) PROVE x \notin r[1]
    <3>1. PICK q \in {t} \X Servers : r = <<Asks(q), Takes(q), Asks(q)>>
      BY DEF ClientBs
    <3>2. r[1] = Asks(q)
      BY <3>1
    <3>3. QED
      BY <1>1, <3>2, Zenon
  <2>2. ASSUME NEW r \in ClientAs(t) PROVE x \notin r[2]
    <3>1. PICK q \in {t} \X Servers : r = <<Asks(q), Takes(q), Takes(q)>>
      BY DEF ClientAs
    <3>2. r[2] = Takes(q)
      BY <3>1
    <3>3. QED
      BY <1>1, <3>2, Zenon
  <2>3. QED
    BY <2>1, <2>2 DEF Free
<1>2. [do : {"post", "access"}, end : ({t} \X Servers) \X {"client"}] \subseteq F
  BY <1>1 DEF ClientOrders, Asks, Takes
<1>3. [do : {"post", "poll"}, end : {Signals(t)}] \subseteq F
  <2> SUFFICES ASSUME NEW x \in [do : {"post", "poll"}, end : {Signals(t)}]
               PROVE  x \in F
    OBVIOUS
  <2>1. x \in ClientOrders(T, t)
    BY DEF ClientOrders
  <2>2. x.end = Signals(t) /\ \A q : x.end # <<q, "client">>
    BY DEF Signals
  <2>3. \A q \in {t} \X Servers : x \notin Asks(q) /\ x \notin Takes(q)
    BY <2>2 DEF Asks, Takes
  <2>4. QED
    BY <1>1, <2>1, <2>3
<1>4. [do : {"wait", "sleep", "reset"}] \subseteq F
  BY <1>1 DEF ClientOrders, Asks, Takes
<1>5. [do : {"datagram"}, to : SUBSET Mailboxes] \subseteq F
  BY <1>1 DEF ClientOrders, Asks, Takes
<1>6. \A x \in F : Alternating(T, t, << x >>)
  BY FreeOne DEF Alternating
<1>7. ASSUME NEW x, \A q \in {t} \X Servers : x \notin Sends(q)
      PROVE  Supplied(t, << x >>)
  BY <1>7 DEF Supplied, After
<1>8. \A q : \A y \in Sends(q) : y.do = "message" /\ y.end = <<q, "client">>
  BY DEF Sends
<1>9. ASSUME NEW x, x.do # "message" \/ x.end = Signals(t)
      PROVE  Supplied(t, << x >>)
  <2>1. \A q : Signals(t) # <<q, "client">>
    BY DEF Signals
  <2>2. QED
    BY <1>7, <1>8, <1>9, <2>1
<1> HIDE DEF F
<1>10. QED
  <2>1. \A x \in [do : {"post", "access"}, end : ({t} \X Servers) \X {"client"}] : x.do # "message"
    OBVIOUS
  <2>2. \A x \in [do : {"post", "poll"}, end : {Signals(t)}] : x.do # "message"
    OBVIOUS
  <2>3. \A x \in [do : {"wait", "sleep", "reset"}] : x.do # "message"
    OBVIOUS
  <2>4. \A x \in [do : {"datagram"}, to : SUBSET Mailboxes] : x.do # "message"
    OBVIOUS
  <2>5. QED
    BY <1>2, <1>3, <1>4, <1>5, <1>6, <1>9, <2>1, <2>2, <2>3, <2>4 DEF ClientProgram

LEMMA AlternatesObeys ==
  ASSUME NEW T, NEW t, NEW P \in Seq(ClientOrders(T, t)),
         \A q \in {t} \X Servers : Alternates(P, Asks(q), Takes(q))
  PROVE  Alternating(T, t, P)
<1>1. ASSUME NEW r \in ClientBs(t) PROVE Before(P, r[1], r[2], r[3])
  <2>1. PICK q \in {t} \X Servers : r = <<Asks(q), Takes(q), Asks(q)>>
    BY DEF ClientBs
  <2>2. r[1] = Asks(q) /\ r[2] = Takes(q) /\ r[3] = Asks(q)
    BY <2>1
  <2>3. QED
    BY <2>1, <2>2 DEF Alternates
<1>2. ASSUME NEW r \in ClientAs(t) PROVE After(P, r[1], r[2], r[3])
  <2>1. PICK q \in {t} \X Servers : r = <<Asks(q), Takes(q), Takes(q)>>
    BY DEF ClientAs
  <2>2. r[1] = Asks(q) /\ r[2] = Takes(q) /\ r[3] = Takes(q)
    BY <2>1
  <2>3. QED
    BY <2>1, <2>2 DEF Alternates
<1>3. QED
  BY <1>1, <1>2 DEF Alternating, Obeys

(* A message and the answer to it, or a question and its. *)
LEMMA ClientPair ==
  ASSUME NEW T, NEW t, NEW s \in Servers, NEW a, NEW b,
         \/ a = [do |-> "message", end |-> AtClient(t, s)] /\ b = [do |-> "poll", end |-> AtClient(t, s)]
         \/ /\ Normal(T)
            /\ \E i \in Int : /\ a = [do |-> "write", end |-> AtClient(t, s), i |-> i]
                              /\ b = [do |-> "watch", end |-> AtClient(t, s), i |-> i]
  PROVE  Alternating(T, t, << a >> \o << b >>)
<1> DEFINE P == << a >> \o << b >>
           p == <<t, s>>
<1>1. a \in ClientOrders(T, t) /\ b \in ClientOrders(T, t)
  BY DEF ClientOrders, AtClient
<1>2. a \in Asks(p) \ Takes(p) /\ b \in Takes(p) \ Asks(p)
  BY DEF Asks, Takes, AtClient
<1>3. \A q : q # p => a \notin Asks(q) \cup Takes(q) /\ b \notin Asks(q) \cup Takes(q)
  BY DEF Asks, Takes, AtClient
<1>4. P \in Seq(ClientOrders(T, t)) /\ Len(P) = 2 /\ P[1] = a /\ P[2] = b
  BY <1>1, TwoOf
<1> HIDE DEF P, p
<1>5. ASSUME NEW q PROVE Alternates(P, Asks(q), Takes(q))
  <2>1. CASE q = p
    BY <1>2, <1>4, <2>1 DEF Alternates, Before, After
  <2>2. CASE q # p
    BY <1>3, <1>4, <2>2 DEF Alternates, Before, After
  <2>3. QED
    BY <2>1, <2>2
<1>6. QED
  BY <1>4, <1>5, AlternatesObeys DEF P

LEMMA EachServerType ==
  ASSUME NEW T, Deployed(T), NEW t, NEW k \in 1 .. Len(T.servers)
  PROVE  Len(T.servers) \in Nat /\ T.servers[k] \in Servers
BY DEF Deployed

LEMMA ClientQuietLoop ==
  ASSUME NEW T, Deployed(T), NEW t, NEW name \in {"post", "access"}
  PROVE  ClientProgram(T, t, OnEach(T, t, name))
<1> DEFINE n == Len(T.servers)
           body == [k \in 1 .. n |-> On(name, AtClient(t, T.servers[k]))]
<1>1. OnEach(T, t, name) = FlattenSeq(body)
  BY DEF OnEach
<1>2. ASSUME NEW k \in 1 .. n PROVE ClientProgram(T, t, body[k])
  <2>1. T.servers[k] \in Servers
    BY EachServerType
  <2>2. [do |-> name, end |-> AtClient(t, T.servers[k])] \in
          [do : {"post", "access"}, end : ({t} \X Servers) \X {"client"}]
    BY <2>1 DEF AtClient
  <2>3. body[k] = << [do |-> name, end |-> AtClient(t, T.servers[k])] >>
    BY DEF On
  <2>4. \A x \in [do : {"post", "access"}, end : ({t} \X Servers) \X {"client"}] : ClientProgram(T, t, << x >>)
    BY ClientFree
  <2>5. ClientProgram(T, t, << [do |-> name, end |-> AtClient(t, T.servers[k])] >>)
    BY <2>2, <2>4, Zenon
  <2> HIDE DEF body
  <2>6. QED
    BY <2>3, <2>5, Zenon
<1>3. n \in Nat /\ body = [k \in 1 .. n |-> body[k]]
  BY DEF Deployed
<1> HIDE DEF body, n
<1>4. ClientProgram(T, t, FlattenSeq(body))
  BY <1>2, <1>3, ClientLoop
<1>5. QED
  BY <1>1, <1>4

(* The messages of a barrier, and their answers. *)
LEMMA ClientBarrierMessages ==
  ASSUME NEW T, Deployed(T), NEW t
  PROVE  Alternating(T, t, OnEach(T, t, "message") \o OnEach(T, t, "poll"))
<1> DEFINE n == Len(T.servers)
           U == [k \in 1 .. n |-> [do |-> "message", end |-> AtClient(t, T.servers[k])]]
           V == [k \in 1 .. n |-> [do |-> "poll", end |-> AtClient(t, T.servers[k])]]
           S == ClientOrders(T, t)
<1>1. T.servers \in Seq(Servers) /\ IsInjective(T.servers) /\ n \in Nat
  BY DEF Deployed
<1>2. /\ OnEach(T, t, "message") = U
      /\ OnEach(T, t, "poll") = V
  BY <1>1, OnEachServer
<1>3. \A k \in 1 .. n : T.servers[k] \in Servers
  BY <1>1
<1>4. U \in Seq(S) /\ V \in Seq(S) /\ Len(U) = n /\ Len(V) = n
  <2>1. \A k \in 1 .. n : U[k] \in S /\ V[k] \in S
    BY <1>3 DEF ClientOrders, AtClient
  <2>2. U = [k \in 1 .. n |-> U[k]] /\ V = [k \in 1 .. n |-> V[k]]
    OBVIOUS
  <2> HIDE DEF U, V, S
  <2>3. U \in [1 .. n -> S] /\ V \in [1 .. n -> S]
    BY <2>1, <2>2
  <2>4. QED
    BY <2>3, <1>1
<1>5. ASSUME NEW q \in {t} \X Servers
      PROVE  Alternates(U \o V, Asks(q), Takes(q))
  <2>1. \A k \in 1 .. n : /\ U[k] \in Asks(q) <=> T.servers[k] = q[2]
                          /\ V[k] \in Takes(q) <=> T.servers[k] = q[2]
                          /\ U[k] \notin Takes(q) /\ V[k] \notin Asks(q)
    BY DEF Asks, Takes, AtClient
  <2>2. \A j, k \in 1 .. n : T.servers[j] = T.servers[k] => j = k
    BY <1>1 DEF IsInjective
  <2>3. Asks(q) \cap Takes(q) = {}
    BY DEF Asks, Takes
  <2> HIDE DEF U, V, S, n
  <2> DEFINE A == Asks(q)  B == Takes(q)
  <2>4. \A k \in 1 .. Len(U) : /\ U[k] \in A <=> V[k] \in B
                               /\ U[k] \notin B /\ V[k] \notin A
    BY <2>1, <1>4
  <2>5. \A j, k \in 1 .. Len(U) : U[j] \in A /\ U[k] \in A => j = k
    BY <2>1, <2>2, <1>4
  <2>6. A \cap B = {} /\ Len(U) = Len(V) /\ U \in Seq(S) /\ V \in Seq(S)
    BY <2>3, <1>4
  <2> HIDE DEF A, B
  <2>7. Alternates(U \o V, A, B)
    BY <2>4, <2>5, <2>6, Paired
  <2>8. QED
    BY <2>7 DEF A, B
<1> HIDE DEF U, V, S, n
<1>6. U \o V \in Seq(S)
  BY <1>4
<1>7. Alternating(T, t, U \o V)
  BY <1>5, <1>6, AlternatesObeys DEF S
<1>8. QED
  BY <1>2, <1>7

LEMMA ClientBarrierTypes ==
  ASSUME NEW T, Deployed(T), NEW t
  PROVE  /\ OnEach(T, t, "message") \in Seq(ClientOrders(T, t))
         /\ OnEach(T, t, "poll") \in Seq(ClientOrders(T, t))
<1> SUFFICES ASSUME NEW name \in {"message", "poll"}
             PROVE  OnEach(T, t, name) \in Seq(ClientOrders(T, t))
  OBVIOUS
<1> DEFINE n == Len(T.servers)
           U == [k \in 1 .. n |-> [do |-> name, end |-> AtClient(t, T.servers[k])]]
<1>1. T.servers \in Seq(Servers) /\ n \in Nat
  BY DEF Deployed
<1>2. OnEach(T, t, name) = U
  BY <1>1, OnEachServer
<1>3. \A k \in 1 .. n : T.servers[k] \in Servers
  BY <1>1
<1>4. \A k \in 1 .. n : [do |-> name, end |-> AtClient(t, T.servers[k])] \in ClientOrders(T, t)
  BY <1>3 DEF ClientOrders, AtClient
<1>5. U \in [1 .. n -> ClientOrders(T, t)]
  BY <1>4
<1> HIDE DEF U, n
<1>6. QED
  BY <1>1, <1>2, <1>5

LEMMA ConcatOf ==
  ASSUME NEW S, NEW P \in Seq(S), NEW Q \in Seq(S), NEW l \in Nat, l = Len(P), NEW m \in Nat, m = Len(Q)
  PROVE  /\ P \o Q \in Seq(S) /\ Len(P \o Q) = l + m
         /\ \A k \in 1 .. l : (P \o Q)[k] = P[k]
         /\ \A k \in 1 .. m : (P \o Q)[l + k] = Q[k]
OBVIOUS

LEMMA IsSequence ==
  ASSUME NEW S, NEW n \in Nat, NEW f, f = [k \in 1 .. n |-> f[k]], \A k \in 1 .. n : f[k] \in S
  PROVE  f \in Seq(S) /\ Len(f) = n
<1>1. f \in [1 .. n -> S]
  OBVIOUS
<1>2. QED
  BY <1>1

(* A receive for the answer, then the message to it: one for each server. *)
LEMMA ClientBarrierSupplied ==
  ASSUME NEW T, Deployed(T), NEW t, NEW P \in Seq(ClientOrders(T, t)),
         \A q \in {t} \X Servers : \A k \in 1 .. Len(P) : P[k] \notin Sends(q)
  PROVE  Supplied(t, (OnEach(T, t, "post") \o P) \o (OnEach(T, t, "message") \o OnEach(T, t, "poll")))
<1> DEFINE n == Len(T.servers)
           A == [k \in 1 .. n |-> [do |-> "post", end |-> AtClient(t, T.servers[k])]]
           C == [k \in 1 .. n |-> [do |-> "message", end |-> AtClient(t, T.servers[k])]]
           D == [k \in 1 .. n |-> [do |-> "poll", end |-> AtClient(t, T.servers[k])]]
           S == ClientOrders(T, t)
<1>1. T.servers \in Seq(Servers) /\ IsInjective(T.servers) /\ n \in Nat
  BY DEF Deployed
<1>2. /\ OnEach(T, t, "post") = A
      /\ OnEach(T, t, "message") = C
      /\ OnEach(T, t, "poll") = D
  BY <1>1, OnEachServer
<1>3. \A k \in 1 .. n : T.servers[k] \in Servers
  BY <1>1
<1>4. /\ A \in Seq(S) /\ C \in Seq(S) /\ D \in Seq(S)
      /\ Len(A) = n /\ Len(C) = n /\ Len(D) = n
  <2>1. \A k \in 1 .. n : A[k] \in S /\ C[k] \in S /\ D[k] \in S
    BY <1>3 DEF ClientOrders, AtClient
  <2>2. A = [k \in 1 .. n |-> A[k]] /\ C = [k \in 1 .. n |-> C[k]] /\ D = [k \in 1 .. n |-> D[k]]
    OBVIOUS
  <2> HIDE DEF A, C, D, S
  <2> HIDE DEF n
  <2>3. \A f : f = [k \in 1 .. n |-> f[k]] /\ (\A k \in 1 .. n : f[k] \in S) => f \in Seq(S) /\ Len(f) = n
    BY <1>1, IsSequence
  <2>4. QED
    BY <2>1, <2>2, <2>3, Zenon
<1>5. ASSUME NEW q \in {t} \X Servers
      PROVE  After((A \o P) \o (C \o D), Posts(q), Sends(q), Sends(q))
  <2>1. \A k \in 1 .. n : /\ A[k] \in Posts(q) <=> T.servers[k] = q[2]
                          /\ C[k] \in Sends(q) <=> T.servers[k] = q[2]
                          /\ A[k] \notin Sends(q) /\ D[k] \notin Sends(q)
    BY DEF Posts, Sends, AtClient
  <2>2. \A j, k \in 1 .. n : T.servers[j] = T.servers[k] => j = k
    BY <1>1 DEF IsInjective
  <2> DEFINE p == Posts(q)  s == Sends(q)  U == A \o P  V == C \o D
  <2>3. \A k \in 1 .. Len(P) : P[k] \notin s
    OBVIOUS
  <2> HIDE DEF A, C, D, S, n, p, s
  <2>4. PICK m \in Nat : m = Len(P)
    OBVIOUS
  <2>5. P \in Seq(S)
    BY DEF S
  <2> HIDE DEF U, V
  <2>6. /\ U \in Seq(S) /\ V \in Seq(S) /\ Len(U) = n + m /\ Len(V) = n + n
        /\ (\A k \in 1 .. n : U[k] = A[k] /\ V[k] = C[k] /\ V[n + k] = D[k])
        /\ (\A k \in 1 .. m : U[n + k] = P[k])
    <3>1. U \in Seq(S) /\ Len(U) = n + m /\ (\A k \in 1 .. n : U[k] = A[k]) /\ (\A k \in 1 .. m : U[n + k] = P[k])
      <4>1. A \in Seq(S) /\ n = Len(A) /\ n \in Nat
        BY <1>1, <1>4
      <4>2. /\ A \o P \in Seq(S) /\ Len(A \o P) = n + m
            /\ (\A k \in 1 .. n : (A \o P)[k] = A[k])
            /\ (\A k \in 1 .. m : (A \o P)[n + k] = P[k])
        BY <2>4, <2>5, <4>1, ConcatOf
      <4>3. QED
        BY <4>2 DEF U
    <3>2. V \in Seq(S) /\ Len(V) = n + n /\ (\A k \in 1 .. n : V[k] = C[k] /\ V[n + k] = D[k])
      <4>1. C \in Seq(S) /\ D \in Seq(S) /\ n = Len(C) /\ n = Len(D) /\ n \in Nat
        BY <1>1, <1>4
      <4>2. /\ C \o D \in Seq(S) /\ Len(C \o D) = n + n
            /\ (\A k \in 1 .. n : (C \o D)[k] = C[k])
            /\ (\A k \in 1 .. n : (C \o D)[n + k] = D[k])
        <5>1. \A i, j \in Nat : i = Len(C) /\ j = Len(D) =>
                /\ C \o D \in Seq(S) /\ Len(C \o D) = i + j
                /\ (\A k \in 1 .. i : (C \o D)[k] = C[k])
                /\ (\A k \in 1 .. j : (C \o D)[i + k] = D[k])
          BY <4>1, ConcatOf
        <5>2. QED
          BY <4>1, <5>1
      <4>3. QED
        BY <4>2 DEF V
    <3>3. QED
      BY <3>1, <3>2
  <2>7. /\ (\A k \in 1 .. n : A[k] \in p <=> C[k] \in s)
        /\ (\A k \in 1 .. n : A[k] \notin s /\ D[k] \notin s)
        /\ \A j, k \in 1 .. n : C[j] \in s /\ C[k] \in s => j = k
    BY <2>1, <2>2 DEF p, s
  <2>8. \A k \in 1 .. Len(U) : U[k] \notin s
    <3> TAKE k \in 1 .. Len(U)
    <3>1. CASE k <= n
      <4>1. k \in 1 .. n
        BY <1>1, <2>4, <2>6, <3>1
      <4>2. QED
        BY <2>6, <2>7, <4>1
    <3>2. CASE k > n
      <4>1. k - n \in 1 .. m /\ n + (k - n) = k
        BY <1>1, <2>4, <2>6, <3>2
      <4>2. U[n + (k - n)] = P[k - n]
        BY <2>6, <4>1
      <4>3. QED
        BY <2>3, <2>4, <4>1, <4>2
    <3>3. QED
      BY <1>1, <2>4, <2>6, <3>1, <3>2
  <2>9. \A k \in 1 .. Len(V) : V[k] \in s => k \in 1 .. n
    <3> SUFFICES ASSUME NEW k \in 1 .. Len(V), k > n
                 PROVE  V[k] \notin s
      BY <1>1, <2>6
    <3>1. k - n \in 1 .. n /\ n + (k - n) = k
      BY <1>1, <2>6
    <3>2. V[n + (k - n)] = D[k - n]
      BY <2>6, <3>1
    <3>3. QED
      BY <2>7, <3>1, <3>2
  <2>10. Between(V, s, p, s)
    <3> SUFFICES ASSUME NEW j \in 1 .. Len(V), NEW k \in 1 .. Len(V), j < k, V[j] \in s, V[k] \in s
                 PROVE  FALSE
      BY DEF Between
    <3>1. j \in 1 .. n /\ k \in 1 .. n
      BY <2>9
    <3>2. j = k
      BY <2>6, <2>7, <3>1
    <3>3. QED
      BY <3>1, <3>2
  <2>11. (\E k \in 1 .. Len(V) : V[k] \in s) => \E k \in 1 .. Len(U) : U[k] \in p
    <3> SUFFICES ASSUME NEW k \in 1 .. Len(V), V[k] \in s
                 PROVE  \E j \in 1 .. Len(U) : U[j] \in p
      OBVIOUS
    <3>1. k \in 1 .. n
      BY <2>9
    <3>2. V[k] = C[k] /\ U[k] = A[k]
      BY <2>6, <3>1
    <3>3. U[k] \in p
      BY <2>7, <3>1, <3>2
    <3>4. k \in 1 .. Len(U)
      BY <1>1, <2>4, <2>6, <3>1
    <3>5. QED
      BY <3>3, <3>4
  <2>12. After(U \o V, p, s, s)
    BY <2>6, <2>8, <2>10, <2>11, FirstUse
  <2>13. QED
    BY <2>12 DEF U, V, p, s
<1> HIDE DEF A, C, D
<1>6. Supplied(t, (A \o P) \o (C \o D))
  BY <1>5 DEF Supplied
<1>7. QED
  BY <1>2, <1>6

LEMMA GlobalBarrierClientProgram ==
  ASSUME NEW T, Deployed(T), NEW t, NEW w
  PROVE  ClientProgram(T, t, GlobalBarrierClient(T, t, w))
<1> DEFINE A == OnEach(T, t, "post")
           B == If(w, Do("sleep"))
           C == OnEach(T, t, "message")
           D == OnEach(T, t, "poll")
<1>1. ClientProgram(T, t, A)
  BY ClientQuietLoop
<1>2. ClientProgram(T, t, B)
  <2>1. ClientProgram(T, t, Do("sleep"))
    BY ClientFree DEF Do
  <2>2. QED
    BY <2>1, ClientIf
<1>3. Alternating(T, t, C \o D)
  BY ClientBarrierMessages
<1>4. C \in Seq(ClientOrders(T, t)) /\ D \in Seq(ClientOrders(T, t))
  BY ClientBarrierTypes
<1>5. GlobalBarrierClient(T, t, w) = ((A \o B) \o C) \o D
  BY DEF GlobalBarrierClient, EachServer, Repeat, OnEach
<1>6. \A q \in {t} \X Servers : \A k \in 1 .. Len(B) : B[k] \notin Sends(q)
  BY DEF If, Do, Sends
<1>7. A \in Seq(ClientOrders(T, t)) /\ B \in Seq(ClientOrders(T, t))
  BY <1>1, <1>2, ClientIsSeq
<1> HIDE DEF B
<1>8. Supplied(t, (A \o B) \o (C \o D))
  BY <1>6, <1>7, ClientBarrierSupplied
<1> HIDE DEF A, C, D
<1>9. ((A \o B) \o C) \o D = (A \o B) \o (C \o D)
  BY <1>4, <1>7, ConcatAssociates, SMTT(30)
<1>10. Alternating(T, t, A) /\ Alternating(T, t, B)
  BY <1>1, <1>2 DEF ClientProgram
<1>11. Alternating(T, t, (A \o B) \o (C \o D))
  <2>1. Alternating(T, t, A \o B)
    BY <1>10, AlternatingConcat
  <2>2. QED
    BY <1>3, <2>1, AlternatingConcat
<1>12. QED
  BY <1>5, <1>8, <1>9, <1>11 DEF ClientProgram

(* The operations a test can be on. *)
LegalOps(T) ==
  IF T.class = "Latency" THEN T.operations \cap {"WRITE", "READ", "SEND_RECEIVE"}
  ELSE {"WRITE", "READ", "SEND_RECEIVE", "FETCH_ADD", "COMPARE_SWAP", "none"}

(* The local barrier is there. *)
HasWait(P) == \E k \in 1 .. Len(P) : P[k] = [do |-> "wait"]

LEMMA WaitStays ==
  ASSUME NEW S, NEW P \in Seq(S), NEW Q \in Seq(S), HasWait(P)
  PROVE  HasWait(P \o Q)
<1>1. PICK k \in 1 .. Len(P) : P[k] = [do |-> "wait"]
  BY DEF HasWait
<1>2. k \in 1 .. Len(P \o Q) /\ (P \o Q)[k] = P[k]
  OBVIOUS
<1>3. QED
  BY <1>1, <1>2 DEF HasWait

LEMMA WaitComes ==
  ASSUME NEW S, NEW P \in Seq(S), [do |-> "wait"] \in S
  PROVE  HasWait(P \o Do("wait"))
<1> DEFINE w == [do |-> "wait"]
           k == Len(P) + 1
<1>1. << w >> \in Seq(S) /\ Len(<< w >>) = 1 /\ << w >>[1] = w
  OBVIOUS
<1> HIDE DEF w
<1>2. k \in 1 .. Len(P \o << w >>) /\ (P \o << w >>)[k] = w
  BY <1>1
<1>3. HasWait(P \o << w >>)
  BY <1>2 DEF HasWait, w
<1>4. QED
  BY <1>3 DEF Do, w

LEMMA ClientPlain ==
  ASSUME NEW T, NEW t, NEW name \in {"wait", "sleep", "reset"}
  PROVE  ClientProgram(T, t, Do(name))
<1> DEFINE x == [do |-> name]
<1>1. x \in [do : {"wait", "sleep", "reset"}]
  OBVIOUS
<1>2. \A y \in [do : {"wait", "sleep", "reset"}] : ClientProgram(T, t, << y >>)
  BY ClientFree
<1>3. ClientProgram(T, t, << x >>)
  BY <1>1, <1>2, Zenon
<1>4. QED
  BY <1>3 DEF Do

LEMMA ClientQuiet ==
  ASSUME NEW T, NEW t, NEW s \in Servers, NEW name \in {"post", "access"}
  PROVE  ClientProgram(T, t, On(name, AtClient(t, s)))
<1> DEFINE x == [do |-> name, end |-> AtClient(t, s)]
           S == [do : {"post", "access"}, end : ({t} \X Servers) \X {"client"}]
<1>1. x \in S
  BY DEF AtClient
<1>2. \A y \in S : ClientProgram(T, t, << y >>)
  BY ClientFree
<1>3. ClientProgram(T, t, << x >>)
  BY <1>1, <1>2, Zenon
<1>4. QED
  BY <1>3 DEF On

(* A message and its answer, with the receive for it before. *)
LEMMA ClientMessagePoll ==
  ASSUME NEW T, NEW t, NEW s \in Servers
  PROVE  /\ Alternating(T, t, On("message", AtClient(t, s)) \o On("poll", AtClient(t, s)))
         /\ On("message", AtClient(t, s)) \in Seq(ClientOrders(T, t))
         /\ On("poll", AtClient(t, s)) \in Seq(ClientOrders(T, t))
<1> DEFINE a == [do |-> "message", end |-> AtClient(t, s)]
           b == [do |-> "poll", end |-> AtClient(t, s)]
<1>1. a \in ClientOrders(T, t) /\ b \in ClientOrders(T, t)
  BY DEF ClientOrders, AtClient
<1>2. On("message", AtClient(t, s)) = << a >> /\ On("poll", AtClient(t, s)) = << b >>
  BY DEF On
<1>3. Alternating(T, t, << a >> \o << b >>)
  BY ClientPair
<1>4. << a >> \in Seq(ClientOrders(T, t)) /\ << b >> \in Seq(ClientOrders(T, t))
  BY <1>1
<1> HIDE DEF a, b
<1>5. QED
  BY <1>2, <1>3, <1>4

LEMMA PostMessagePoll ==
  ASSUME NEW T, NEW t, NEW s \in Servers
  PROVE  ClientProgram(T, t, On("post", AtClient(t, s)) \o On("message", AtClient(t, s))
                               \o On("poll", AtClient(t, s)))
<1> DEFINE A == On("post", AtClient(t, s))
           B == On("message", AtClient(t, s))
           C == On("poll", AtClient(t, s))
           a == [do |-> "post", end |-> AtClient(t, s)]
           b == [do |-> "message", end |-> AtClient(t, s)]
           c == [do |-> "poll", end |-> AtClient(t, s)]
           S == ClientOrders(T, t)
<1>1. ClientProgram(T, t, A)
  BY ClientQuiet
<1>2. Alternating(T, t, B \o C) /\ B \in Seq(S) /\ C \in Seq(S)
  BY ClientMessagePoll
<1>3. A = << a >> /\ B = << b >> /\ C = << c >>
  BY DEF On
<1>4. a \in S /\ b \in S /\ c \in S
  BY DEF ClientOrders, AtClient
<1>5. ASSUME NEW q
      PROVE  After(<< a >> \o (<< b >> \o << c >>), Posts(q), Sends(q), Sends(q))
  <2>1. (b \in Sends(q) => a \in Posts(q)) /\ a \notin Sends(q) /\ c \notin Sends(q)
    BY DEF Sends, Posts
  <2> DEFINE U == << a >>  V == << b >> \o << c >>
  <2> HIDE DEF a, b, c, S
  <2>2. V \in Seq(S) /\ Len(V) = 2 /\ V[1] = b /\ V[2] = c
    BY <1>4, TwoOf
  <2>3. U \in Seq(S) /\ Len(U) = 1 /\ U[1] = a
    BY <1>4
  <2> HIDE DEF U, V
  <2>4. Between(V, Sends(q), Posts(q), Sends(q))
    BY <2>1, <2>2 DEF Between
  <2>5. \A k \in 1 .. Len(U) : U[k] \notin Sends(q)
    BY <2>1, <2>3
  <2>6. (\E k \in 1 .. Len(V) : V[k] \in Sends(q)) => \E k \in 1 .. Len(U) : U[k] \in Posts(q)
    BY <2>1, <2>2, <2>3
  <2>7. After(U \o V, Posts(q), Sends(q), Sends(q))
    BY <2>2, <2>3, <2>4, <2>5, <2>6, FirstUse
  <2>8. QED
    BY <2>7 DEF U, V
<1> HIDE DEF a, b, c
<1>6. Supplied(t, A \o (B \o C))
  BY <1>3, <1>5 DEF Supplied
<1> HIDE DEF A, B, C
<1>7. (A \o B) \o C = A \o (B \o C)
  BY <1>1, <1>2, ClientIsSeq, ConcatAssociates, SMTT(30)
<1>8. Alternating(T, t, A \o (B \o C))
  BY <1>1, <1>2, AlternatingConcat DEF ClientProgram
<1>9. QED
  BY <1>6, <1>7, <1>8 DEF A, B, C, ClientProgram

(* The loops of the tests. *)
LEMMA WindowClientProgram ==
  ASSUME NEW T, Deployed(T), NEW t
  PROVE  ClientProgram(T, t, WindowClient(T, t)) /\ ClientProgram(T, t, LatencyClientWriteImmediate(T, t))
<1> DEFINE n == Len(T.servers)
           round == [k \in 1 .. n |-> On("post", AtClient(t, T.servers[k]))
                       \o On("message", AtClient(t, T.servers[k])) \o On("poll", AtClient(t, T.servers[k]))]
           body == [i \in 1 .. T.iterations |-> FlattenSeq(round)]
<1>1. WindowClient(T, t) = FlattenSeq(body) /\ LatencyClientWriteImmediate(T, t) = FlattenSeq(body)
  BY DEF WindowClient, LatencyClientWriteImmediate, Iterate, EachServer, Repeat
<1>2. n \in Nat /\ T.iterations \in Nat
  BY DEF Deployed
<1>3. \A k \in 1 .. n : T.servers[k] \in Servers
  BY EachServerType
<1>4. \A k \in 1 .. n : ClientProgram(T, t, round[k])
  BY <1>3, PostMessagePoll
<1>5. round = [k \in 1 .. n |-> round[k]]
  OBVIOUS
<1> HIDE DEF n, round
<1>6. ClientProgram(T, t, FlattenSeq(round))
  BY <1>2, <1>4, <1>5, ClientLoop
<1>7. body = [i \in 1 .. T.iterations |-> body[i]] /\ \A i \in 1 .. T.iterations : ClientProgram(T, t, body[i])
  BY <1>6
<1> HIDE DEF body
<1>8. ClientProgram(T, t, FlattenSeq(body))
  BY <1>2, <1>7, ClientLoop
<1>9. QED
  BY <1>1, <1>8

LEMMA OneSidedProgram ==
  ASSUME NEW T, Deployed(T), NEW t
  PROVE  ClientProgram(T, t, OneSided(T, t)) /\ ClientProgram(T, t, LatencyClientRead(T, t))
<1> DEFINE body == [i \in 1 .. T.iterations |-> OnEach(T, t, "access")]
<1>1. OneSided(T, t) = FlattenSeq(body) /\ LatencyClientRead(T, t) = FlattenSeq(body)
  BY DEF OneSided, LatencyClientRead, Iterate, EachServer, Repeat, OnEach
<1>2. T.iterations \in Nat
  BY DEF Deployed
<1>3. body = [i \in 1 .. T.iterations |-> body[i]] /\ \A i \in 1 .. T.iterations : ClientProgram(T, t, body[i])
  BY ClientQuietLoop
<1> HIDE DEF body
<1>4. ClientProgram(T, t, FlattenSeq(body))
  BY <1>2, <1>3, ClientLoop
<1>5. QED
  BY <1>1, <1>4

(* Here the receive for the next answer follows the last one. *)
LEMMA MessagePollPost ==
  ASSUME NEW T, NEW t, NEW s \in Servers
  PROVE  LET P == On("message", AtClient(t, s)) \o On("poll", AtClient(t, s)) \o On("post", AtClient(t, s))
         IN  /\ Alternating(T, t, P)
             /\ \A q : Before(P, Sends(q), Posts(q), Sends(q))
             /\ P \in Seq([do : {"post", "message", "poll"}, end : {AtClient(t, s)}])
<1> DEFINE a == [do |-> "message", end |-> AtClient(t, s)]
           b == [do |-> "poll", end |-> AtClient(t, s)]
           c == [do |-> "post", end |-> AtClient(t, s)]
           R == [do : {"post", "message", "poll"}, end : {AtClient(t, s)}]
           P == (<< a >> \o << b >>) \o << c >>
<1>1. On("message", AtClient(t, s)) = << a >> /\ On("poll", AtClient(t, s)) = << b >>
      /\ On("post", AtClient(t, s)) = << c >>
  BY DEF On
<1>2. Alternating(T, t, << a >> \o << b >>)
  BY ClientPair
<1>3. ClientProgram(T, t, On("post", AtClient(t, s)))
  BY ClientQuiet
<1>4. Alternating(T, t, << c >>)
  BY <1>1, <1>3 DEF ClientProgram
<1>5. a \in R /\ b \in R /\ c \in R
  OBVIOUS
<1>6. \A q : (a \in Sends(q) => c \in Posts(q)) /\ b \notin Sends(q) /\ c \notin Sends(q)
  BY DEF Sends, Posts
<1> HIDE DEF a, b, c, R
<1>7. P \in Seq(R) /\ Len(P) = 3 /\ P[1] = a /\ P[2] = b /\ P[3] = c
  <2>1. << a >> \o << b >> \in Seq(R) /\ Len(<< a >> \o << b >>) = 2
        /\ (<< a >> \o << b >>)[1] = a /\ (<< a >> \o << b >>)[2] = b
    BY <1>5, TwoOf
  <2>2. << c >> \in Seq(R) /\ Len(<< c >>) = 1 /\ << c >>[1] = c
    BY <1>5
  <2> DEFINE U == << a >> \o << b >>  V == << c >>
  <2> HIDE DEF U, V
  <2>3. U \o V \in Seq(R) /\ Len(U \o V) = 3 /\ (U \o V)[1] = U[1] /\ (U \o V)[2] = U[2] /\ (U \o V)[3] = V[1]
    BY <2>1, <2>2 DEF U, V
  <2>4. QED
    BY <2>1, <2>2, <2>3 DEF U, V
<1>8. Alternating(T, t, P)
  BY <1>2, <1>4, AlternatingConcat
<1> HIDE DEF P
<1>9. \A q : Before(P, Sends(q), Posts(q), Sends(q))
  BY <1>6, <1>7 DEF Before
<1>10. QED
  BY <1>1, <1>7, <1>8, <1>9 DEF P, R

LEMMA SendReceiveProgram ==
  ASSUME NEW T, Deployed(T), NEW t
  PROVE  ClientProgram(T, t, LatencyClientSendReceive(T, t))
<1> DEFINE n == Len(T.servers)
           round == [k \in 1 .. n |-> On("message", AtClient(t, T.servers[k]))
                       \o On("poll", AtClient(t, T.servers[k])) \o On("post", AtClient(t, T.servers[k]))]
           body == [i \in 1 .. T.iterations |-> FlattenSeq(round)]
           W == FlattenSeq(body)
           U == OnEach(T, t, "post")
           R == [do : {"post", "message", "poll"}, end : {AtClient(t, T.servers[k]) : k \in 1 .. n}]
<1>1. LatencyClientSendReceive(T, t) = U \o W
  BY DEF LatencyClientSendReceive, Iterate, EachServer, Repeat, OnEach
<1>2. n \in Nat /\ T.iterations \in Nat
  BY DEF Deployed
<1>3. \A k \in 1 .. n : T.servers[k] \in Servers
  BY EachServerType
<1>4. ASSUME NEW k \in 1 .. n
      PROVE  /\ Alternating(T, t, round[k])
             /\ \A q : Before(round[k], Sends(q), Posts(q), Sends(q))
             /\ round[k] \in Seq(R)
  <2>1. round[k] \in Seq([do : {"post", "message", "poll"}, end : {AtClient(t, T.servers[k])}])
    BY <1>3, MessagePollPost
  <2>2. [do : {"post", "message", "poll"}, end : {AtClient(t, T.servers[k])}] \subseteq R
    OBVIOUS
  <2>3. /\ Alternating(T, t, round[k])
        /\ \A q : Before(round[k], Sends(q), Posts(q), Sends(q))
    BY <1>3, MessagePollPost
  <2> DEFINE Rk == [do : {"post", "message", "poll"}, end : {AtClient(t, T.servers[k])}]
             P == round[k]
  <2> HIDE DEF R, Rk, P
  <2>4. P \in Seq(Rk) /\ Rk \subseteq R
    BY <2>1, <2>2 DEF Rk, P
  <2>5. P \in Seq(R)
    BY <2>4
  <2>6. QED
    BY <2>3, <2>5 DEF P
<1>5. round = [k \in 1 .. n |-> round[k]] /\ body = [i \in 1 .. T.iterations |-> body[i]]
  OBVIOUS
<1>6. \A i \in 1 .. T.iterations : body[i] = FlattenSeq(round)
  OBVIOUS
<1>7. R \subseteq ClientOrders(T, t)
  BY <1>3 DEF ClientOrders, AtClient
<1>8. U = [k \in 1 .. n |-> [do |-> "post", end |-> AtClient(t, T.servers[k])]]
  BY OnEachServer DEF Deployed
<1>9. ASSUME NEW q, NEW x \in R, x \in Sends(q)
      PROVE  \E k \in 1 .. Len(U) : U[k] \in Posts(q)
  <2>1. PICK k \in 1 .. n : x.end = AtClient(t, T.servers[k])
    OBVIOUS
  <2>2. x.end = <<q, "client">>
    BY <1>9 DEF Sends
  <2>3. k \in 1 .. Len(U) /\ U[k] = [do |-> "post", end |-> AtClient(t, T.servers[k])]
    BY <1>2, <1>8
  <2>4. U[k] \in Posts(q)
    BY <2>1, <2>2, <2>3 DEF Posts
  <2>5. QED
    BY <2>3, <2>4
<1>10. \A q : \A k \in 1 .. Len(U) : U[k] \notin Sends(q)
  BY <1>2, <1>8 DEF Sends
<1>11. \A q : Posts(q) \cap Sends(q) = {}
  BY DEF Posts, Sends
<1>12. ClientProgram(T, t, U)
  BY ClientQuietLoop
<1> HIDE DEF n, round, R, U
<1>13. /\ Alternating(T, t, FlattenSeq(round))
       /\ \A q : Before(FlattenSeq(round), Sends(q), Posts(q), Sends(q))
       /\ FlattenSeq(round) \in Seq(R)
  <2>1. round \in [1 .. n -> Seq(R)]
    BY <1>4, <1>5
  <2>2. FlattenSeq(round) \in Seq(R)
    BY <1>2, <2>1, FlattenRounds
  <2>3. \A q : Before(FlattenSeq(round), Sends(q), Posts(q), Sends(q))
    BY <1>2, <1>4, <2>1, BeforeFlatten
  <2>4. Alternating(T, t, FlattenSeq(round))
    BY <1>2, <1>4, <1>5, ObeysFlatten DEF Alternating
  <2>5. QED
    BY <2>2, <2>3, <2>4
<1> HIDE DEF body
<1>14. /\ Alternating(T, t, W)
       /\ \A q : Before(W, Sends(q), Posts(q), Sends(q))
       /\ W \in Seq(R)
  <2>1. body \in [1 .. T.iterations -> Seq(R)]
    BY <1>5, <1>6, <1>13
  <2>2. W \in Seq(R)
    BY <1>2, <2>1, FlattenRounds
  <2>3. \A q : Before(W, Sends(q), Posts(q), Sends(q))
    BY <1>2, <1>6, <1>13, <2>1, BeforeFlatten
  <2>4. Alternating(T, t, W)
    BY <1>2, <1>5, <1>6, <1>13, ObeysFlatten DEF Alternating
  <2>5. QED
    BY <2>2, <2>3, <2>4
<1> HIDE DEF W
<1>15. U \in Seq(ClientOrders(T, t)) /\ W \in Seq(ClientOrders(T, t))
  BY <1>7, <1>12, <1>14, ClientIsSeq
<1>16. ASSUME NEW q PROVE After(U \o W, Posts(q), Sends(q), Sends(q))
  <2>1. Between(W, Sends(q), Posts(q), Sends(q))
    BY <1>11, <1>14, <1>15, BetweenFromBefore
  <2>2. (\E k \in 1 .. Len(W) : W[k] \in Sends(q)) => \E k \in 1 .. Len(U) : U[k] \in Posts(q)
    BY <1>9, <1>14
  <2>3. QED
    BY <1>10, <1>15, <2>1, <2>2, FirstUse
<1>17. Supplied(t, U \o W)
  BY <1>16 DEF Supplied
<1>18. Alternating(T, t, U \o W)
  BY <1>12, <1>14, AlternatingConcat DEF ClientProgram
<1>19. QED
  BY <1>1, <1>17, <1>18 DEF ClientProgram

LEMMA WriteNormalProgram ==
  ASSUME NEW T, Deployed(T), NEW t, Normal(T)
  PROVE  ClientProgram(T, t, LatencyClientWriteNormal(T, t))
<1> DEFINE n == Len(T.servers)
           round(i) == [k \in 1 .. n |-> Nth("write", AtClient(t, T.servers[k]), i - 1)
                                           \o Nth("watch", AtClient(t, T.servers[k]), i - 1)]
           body == [i \in 1 .. T.iterations |->
                      If((i - 1) % T.slots = 0, Do("reset")) \o FlattenSeq(round(i))]
<1>1. LatencyClientWriteNormal(T, t) = FlattenSeq(body)
  BY DEF LatencyClientWriteNormal, Iterate, EachServer, Repeat
<1>2. n \in Nat /\ T.iterations \in Nat
  BY DEF Deployed
<1>3. \A k \in 1 .. n : T.servers[k] \in Servers
  BY EachServerType
<1>4. ASSUME NEW i \in 1 .. T.iterations, NEW k \in 1 .. n
      PROVE  ClientProgram(T, t, Nth("write", AtClient(t, T.servers[k]), i - 1)
                                           \o Nth("watch", AtClient(t, T.servers[k]), i - 1))
  <2> DEFINE a == [do |-> "write", end |-> AtClient(t, T.servers[k]), i |-> i - 1]
             b == [do |-> "watch", end |-> AtClient(t, T.servers[k]), i |-> i - 1]
  <2>1. Alternating(T, t, << a >> \o << b >>)
    <3>1. i - 1 \in Int
      BY <1>2
    <3>2. QED
      BY <3>1, <1>3, ClientPair
  <2>2. \A q : a \notin Sends(q) /\ b \notin Sends(q)
    BY DEF Sends
  <2>3. Nth("write", AtClient(t, T.servers[k]), i - 1) = << a >> /\ Nth("watch", AtClient(t, T.servers[k]), i - 1) = << b >>
    BY DEF Nth
  <2> HIDE DEF a, b
  <2>4. Len(<< a >> \o << b >>) = 2 /\ (<< a >> \o << b >>)[1] = a /\ (<< a >> \o << b >>)[2] = b
    BY TwoOf
  <2>5. Supplied(t, << a >> \o << b >>)
    BY <2>2, <2>4 DEF Supplied, After
  <2>6. QED
    BY <2>1, <2>3, <2>5 DEF ClientProgram
<1>5. ASSUME NEW i \in 1 .. T.iterations
      PROVE  ClientProgram(T, t, FlattenSeq(round(i)))
  <2> DEFINE r == round(i)
  <2>1. r = [k \in 1 .. n |-> r[k]] /\ \A k \in 1 .. n : ClientProgram(T, t, r[k])
    BY <1>4
  <2> HIDE DEF r
  <2>2. ClientProgram(T, t, FlattenSeq(r))
    BY <1>2, <2>1, ClientLoop
  <2>3. QED
    BY <2>2 DEF r
<1>6. ASSUME NEW i \in 1 .. T.iterations
      PROVE  ClientProgram(T, t, If((i - 1) % T.slots = 0, Do("reset")))
  BY ClientPlain, ClientIf
<1>7. body = [i \in 1 .. T.iterations |-> body[i]]
  OBVIOUS
<1>8. ASSUME NEW i \in 1 .. T.iterations
      PROVE  ClientProgram(T, t, body[i])
  BY <1>5, <1>6, ClientConcat
<1> HIDE DEF body
<1>9. ClientProgram(T, t, FlattenSeq(body))
  BY <1>2, <1>7, <1>8, ClientLoop
<1>10. QED
  BY <1>1, <1>9

LEMMA ClientTimes ==
  ASSUME NEW T, NEW t, NEW n \in Nat, NEW P, ClientProgram(T, t, P)
  PROVE  ClientProgram(T, t, Times(n, P))
<1> DEFINE body == [k \in 1 .. n |-> P]
<1>1. Times(n, P) = FlattenSeq(body)
  BY DEF Times, Repeat
<1>2. body = [k \in 1 .. n |-> body[k]] /\ \A k \in 1 .. n : ClientProgram(T, t, body[k])
  OBVIOUS
<1> HIDE DEF body
<1>3. QED
  BY <1>1, <1>2, ClientLoop

LEMMA BudgetType ==
  ASSUME NEW T, Deployed(T), T.class \in {"Multicast", "MulticastLatency"}
  PROVE  ThreadBudget(T) \in Nat \ {0} /\ Rounds(T) \in Nat /\ ServerBudget(T) \in Nat
<1>1. T.threads \in Nat \ {0} /\ T.iterations \in Nat
  BY CountAssumption DEF Deployed
<1>2. ThreadBudget(T) \in Nat \ {0}
  <2>1. CASE T.class = "MulticastLatency"
    BY <2>1 DEF ThreadBudget
  <2>2. CASE T.class = "Multicast"
    <3> DEFINE b == T.budget  n == T.threads  d == b \div n
    <3>1. b \in Nat /\ b >= n /\ n \in Nat \ {0}
      BY <1>1, <2>2 DEF Deployed
    <3>2. ThreadBudget(T) = d
      BY <2>2 DEF ThreadBudget
    <3> HIDE DEF b, n
    <3>3. d \in Nat \ {0}
      BY <3>1
    <3>4. QED
      BY <3>2, <3>3
  <2>3. QED
    BY <2>1, <2>2
<1>3. ServerBudget(T) \in Nat
  <2> DEFINE b == ThreadBudget(T)  n == T.threads
  <2>1. b \in Nat /\ n \in Nat /\ ServerBudget(T) = b * n
    BY <1>1, <1>2 DEF ServerBudget
  <2> HIDE DEF b, n
  <2>2. QED
    BY <2>1
<1>4. Rounds(T) \in Nat
  <2> DEFINE b == ThreadBudget(T)  i == T.iterations
  <2>1. b \in Nat \ {0} /\ i \in Nat /\ Rounds(T) = i \div b
    BY <1>1, <1>2 DEF Rounds
  <2> HIDE DEF b, i
  <2>2. QED
    BY <2>1
<1>5. QED
  BY <1>2, <1>3, <1>4

LEMMA ClientSignals ==
  ASSUME NEW T, NEW t, NEW name \in {"post", "poll"}
  PROVE  ClientProgram(T, t, On(name, Signals(t)))
<1> DEFINE x == [do |-> name, end |-> Signals(t)]
           S == [do : {"post", "poll"}, end : {Signals(t)}]
<1>1. x \in S
  OBVIOUS
<1>2. \A y \in S : ClientProgram(T, t, << y >>)
  BY ClientFree
<1>3. ClientProgram(T, t, << x >>)
  BY <1>1, <1>2, Zenon
<1>4. QED
  BY <1>3 DEF On

LEMMA ClientCast ==
  ASSUME NEW T, NEW t, Deployed(T)
  PROVE  ClientProgram(T, t, Datagram({Group(w) : w \in EveryServer(T)}))
<1> DEFINE to == {Group(w) : w \in EveryServer(T)}
           x == [do |-> "datagram", to |-> to]
           S == [do : {"datagram"}, to : SUBSET Mailboxes]
<1>1. to \subseteq Mailboxes
  <2> SUFFICES ASSUME NEW k \in DOMAIN T.servers
               PROVE  Group(<<T.servers[k], 1>>) \in Mailboxes
    BY DEF EveryServer, MulticastWorker
  <2>1. T.servers[k] \in Servers
    BY DEF Deployed
  <2>2. QED
    BY <2>1 DEF Group, Mailboxes
<1> HIDE DEF to
<1>2. x \in S
  BY <1>1
<1>3. \A y \in S : ClientProgram(T, t, << y >>)
  BY ClientFree
<1>4. ClientProgram(T, t, << x >>)
  BY <1>2, <1>3, Zenon
<1>5. QED
  BY <1>4 DEF Datagram, to

LEMMA WaitIsFirst ==
  ASSUME NEW S, NEW P \in Seq(S), [do |-> "wait"] \in S
  PROVE  HasWait(Do("wait") \o P)
<1> DEFINE w == [do |-> "wait"]
<1>1. << w >> \in Seq(S) /\ Len(<< w >>) = 1 /\ << w >>[1] = w
  OBVIOUS
<1> HIDE DEF w
<1>2. HasWait(<< w >>)
  BY <1>1 DEF HasWait, w
<1>3. HasWait(<< w >> \o P)
  BY <1>1, <1>2, WaitStays
<1>4. QED
  BY <1>3 DEF Do, w

LEMMA WaitIsOrder ==
  ASSUME NEW T, NEW t
  PROVE  [do |-> "wait"] \in ClientOrders(T, t)
BY DEF ClientOrders

LEMMA ClientWaitFirst ==
  ASSUME NEW T, NEW t, NEW P, ClientProgram(T, t, P)
  PROVE  ClientProgram(T, t, Do("wait") \o P) /\ HasWait(Do("wait") \o P)
BY ClientPlain, ClientConcat, ClientIsSeq, WaitIsFirst, WaitIsOrder

LEMMA ClientWaitThen ==
  ASSUME NEW T, NEW t, NEW P, NEW Q, ClientProgram(T, t, P), ClientProgram(T, t, Q)
  PROVE  ClientProgram(T, t, P \o Do("wait") \o Q) /\ HasWait(P \o Do("wait") \o Q)
<1>1. P \in Seq(ClientOrders(T, t)) /\ Q \in Seq(ClientOrders(T, t))
  BY ClientIsSeq
<1>2. HasWait(P \o Do("wait"))
  BY <1>1, WaitComes, WaitIsOrder
<1>3. ClientProgram(T, t, P \o Do("wait"))
  BY ClientPlain, ClientConcat
<1>4. P \o Do("wait") \in Seq(ClientOrders(T, t))
  BY <1>3, ClientIsSeq
<1>5. HasWait((P \o Do("wait")) \o Q)
  BY <1>1, <1>2, <1>4, WaitStays
<1>6. ClientProgram(T, t, (P \o Do("wait")) \o Q)
  BY <1>3, ClientConcat
<1>7. QED
  BY <1>5, <1>6

LEMMA MulticastClientProgram ==
  ASSUME NEW T, Deployed(T), NEW t, T.class \in {"Multicast", "MulticastLatency"}
  PROVE  /\ ClientProgram(T, t, MCClientPerfRun(T, t)) /\ HasWait(MCClientPerfRun(T, t))
         /\ ClientProgram(T, t, MCClientPerfLatRun(T, t)) /\ HasWait(MCClientPerfLatRun(T, t))
<1> DEFINE signals == Times(Len(T.servers), On("post", Signals(t)))
           answers == Times(Len(T.servers), On("poll", Signals(t)))
           cast == Datagram({Group(w) : w \in EveryServer(T)})
           one == Times(Rounds(T), Times(ThreadBudget(T), cast) \o answers \o signals)
           two == Times(Rounds(T), cast \o answers \o signals)
<1>1. MCClientPerfRun(T, t) = (Do("wait") \o signals) \o one
  BY DEF MCClientPerfRun
<1>2. MCClientPerfLatRun(T, t) = (Do("wait") \o signals) \o two
  BY DEF MCClientPerfLatRun
<1>3. ThreadBudget(T) \in Nat /\ Rounds(T) \in Nat /\ Len(T.servers) \in Nat
  BY BudgetType DEF Deployed
<1>4. ClientProgram(T, t, signals) /\ ClientProgram(T, t, answers)
  BY <1>3, ClientSignals, ClientTimes
<1>5. ClientProgram(T, t, cast)
  BY ClientCast
<1> HIDE DEF signals, answers, cast
<1>6. ClientProgram(T, t, one)
  BY <1>3, <1>4, <1>5, ClientTimes, ClientConcat
<1>7. ClientProgram(T, t, two)
  BY <1>3, <1>4, <1>5, ClientTimes, ClientConcat
<1>8. ClientProgram(T, t, Do("wait") \o signals) /\ HasWait(Do("wait") \o signals)
  BY <1>4, ClientWaitFirst
<1> HIDE DEF one, two
<1>9. ASSUME NEW Q, ClientProgram(T, t, Q)
      PROVE  ClientProgram(T, t, (Do("wait") \o signals) \o Q) /\ HasWait((Do("wait") \o signals) \o Q)
  BY <1>8, <1>9, ClientConcat, ClientIsSeq, WaitStays
<1>10. QED
  BY <1>1, <1>2, <1>6, <1>7, <1>9

LEMMA OldReliableProgram ==
  ASSUME NEW T, Deployed(T), NEW t
  PROVE  /\ ClientProgram(T, t, RemoteMemoryPerfRun(T, t)) /\ HasWait(RemoteMemoryPerfRun(T, t))
         /\ ClientProgram(T, t, FetchAndAddPerfRun(T, t)) /\ HasWait(FetchAndAddPerfRun(T, t))
<1> DEFINE n == Len(T.servers)
           one == [i \in 1 .. T.iterations |->
                     On("access", AtClient(t, T.servers[1 + ((i - 1) % Len(T.servers))]))]
           two == [i \in 1 .. T.iterations |-> On("access", AtClient(t, T.servers[1]))]
<1>1. RemoteMemoryPerfRun(T, t) = Do("wait") \o FlattenSeq(one)
  BY DEF RemoteMemoryPerfRun, Iterate, Repeat
<1>2. FetchAndAddPerfRun(T, t) = Do("wait") \o FlattenSeq(two)
  BY DEF FetchAndAddPerfRun, Iterate, Repeat
<1>3. T.iterations \in Nat /\ n \in Nat \ {0}
  BY DEF Deployed
<1>4. \A i \in 1 .. T.iterations : 1 + ((i - 1) % n) \in 1 .. n
  <2> TAKE i \in 1 .. T.iterations
  <2> DEFINE m == T.iterations
  <2>1. m \in Nat /\ i \in 1 .. m
    BY <1>3
  <2> HIDE DEF m, n
  <2>2. (i - 1) % n \in 0 .. (n - 1)
    BY <1>3, <2>1
  <2>3. QED
    BY <1>3, <2>2
<1>5. \A k \in 1 .. n : T.servers[k] \in Servers
  BY DEF Deployed
<1>6. \A i \in 1 .. T.iterations : ClientProgram(T, t, one[i]) /\ ClientProgram(T, t, two[i])
  <2> TAKE i \in 1 .. T.iterations
  <2>1. T.servers[1] \in Servers /\ T.servers[1 + ((i - 1) % Len(T.servers))] \in Servers
    BY <1>3, <1>4, <1>5
  <2>2. QED
    BY <2>1, ClientQuiet
<1>7. one = [i \in 1 .. T.iterations |-> one[i]] /\ two = [i \in 1 .. T.iterations |-> two[i]]
  OBVIOUS
<1> HIDE DEF one, two
<1>8. ClientProgram(T, t, FlattenSeq(one)) /\ ClientProgram(T, t, FlattenSeq(two))
  BY <1>3, <1>6, <1>7, ClientLoop
<1>9. QED
  BY <1>1, <1>2, <1>8, ClientWaitFirst

LEMMA EndBarrierClientProgram ==
  ASSUME NEW T, Deployed(T), NEW t
  PROVE  ClientProgram(T, t, EndBarrierClient(T, t))
BY GlobalBarrierClientProgram, ClientIf DEF EndBarrierClient

(* What a client's worker runs, whatever test it is. *)
LEMMA ClientRunProgram ==
  ASSUME NEW T, Deployed(T), NEW t, NEW op \in LegalOps(T)
  PROVE  ClientProgram(T, t, ClientRun(T, t, op)) /\ HasWait(ClientRun(T, t, op))
<1> DEFINE Good(P) == ClientProgram(T, t, P) /\ HasWait(P)
           B == GlobalBarrierClient(T, t, TRUE)
           E == EndBarrierClient(T, t)
<1>1. ClientProgram(T, t, B) /\ ClientProgram(T, t, E)
  BY GlobalBarrierClientProgram, EndBarrierClientProgram
<1>2. ClientProgram(T, t, OneSided(T, t)) /\ ClientProgram(T, t, WindowClient(T, t))
  BY OneSidedProgram, WindowClientProgram
<1>3. ASSUME NEW Q, ClientProgram(T, t, Q)
      PROVE  Good(B \o Do("wait") \o Q) /\ Good((B \o Do("wait") \o Q) \o E)
  <2>1. Good(B \o Do("wait") \o Q)
    BY <1>1, <1>3, ClientWaitThen
  <2>2. QED
    BY <1>1, <2>1, ClientConcat, ClientIsSeq, WaitStays
<1>4. CASE T.class = "Latency"
  <2> DEFINE Q == CASE op = "WRITE" /\ T.mode = "normal"    -> LatencyClientWriteNormal(T, t)
                    [] op = "WRITE" /\ T.mode = "immediate" -> LatencyClientWriteImmediate(T, t)
                    [] op = "READ"                          -> LatencyClientRead(T, t)
                    [] op = "SEND_RECEIVE"                  -> LatencyClientSendReceive(T, t)
  <2>1. op \in {"WRITE", "READ", "SEND_RECEIVE"} /\ op \in T.operations
    BY <1>4 DEF LegalOps
  <2>2. ClientProgram(T, t, Q)
    <3>1. CASE op = "WRITE" /\ T.mode = "normal"
      BY <1>4, <2>1, <3>1, WriteNormalProgram DEF Normal
    <3>2. CASE op = "WRITE" /\ T.mode = "immediate"
      BY <3>2, WindowClientProgram
    <3>3. CASE op = "READ"
      BY <3>3, OneSidedProgram
    <3>4. CASE op = "SEND_RECEIVE"
      BY <3>4, SendReceiveProgram
    <3>5. QED
      BY <1>4, <2>1, <3>1, <3>2, <3>3, <3>4 DEF Deployed
  <2>3. ClientRun(T, t, op) = B \o Do("wait") \o Q
    BY <1>4 DEF ClientRun, LatencyClientRun
  <2> HIDE DEF Q
  <2>4. QED
    BY <1>3, <2>2, <2>3
<1> DEFINE W == IF UsesWindow(T, op) THEN WindowClient(T, t) ELSE OneSided(T, t)
<1>5. ClientProgram(T, t, W)
  BY <1>2
<1>6. CASE T.class \in {"Bandwidth", "OperationsCount"}
  <2>1. ClientRun(T, t, op) = B \o Do("wait") \o W \o E
    BY <1>6 DEF ClientRun, BandwidthClientRun, OperationsCountClientRun
  <2> HIDE DEF W, B, E
  <2>2. QED
    BY <1>3, <1>5, <2>1
<1>7. CASE T.class \in {"AtomicsBandwidth", "AtomicsOperationsCount"}
  <2>1. ClientRun(T, t, op) = B \o Do("wait") \o OneSided(T, t) \o E
    BY <1>7 DEF ClientRun, AtomicsBandwidthClientRun, AtomicsOperationsCountClientRun
  <2>2. QED
    BY <1>2, <1>3, <2>1
<1>8. CASE T.class = "AtomicsLatency"
  <2>1. ClientRun(T, t, op) = B \o Do("wait") \o OneSided(T, t)
    BY <1>8 DEF ClientRun, AtomicsLatencyClientRun
  <2>2. QED
    BY <1>2, <1>3, <2>1
<1>9. CASE T.class \in {"Multicast", "MulticastLatency"}
  <2>1. ClientRun(T, t, op) \in {MCClientPerfRun(T, t), MCClientPerfLatRun(T, t)}
    BY <1>9 DEF ClientRun
  <2>2. QED
    BY <1>9, <2>1, MulticastClientProgram
<1>10. CASE T.class \in {"RemoteMemory", "FetchAndAdd"}
  <2>1. ClientRun(T, t, op) \in {RemoteMemoryPerfRun(T, t), FetchAndAddPerfRun(T, t)}
    BY <1>10 DEF ClientRun
  <2>2. QED
    BY <2>1, OldReliableProgram
<1>11. QED
  BY <1>4, <1>6, <1>7, <1>8, <1>9, <1>10 DEF Deployed, Classes

(* The worker threads of the servers: they poll a question and answer it,  *)
(* and know whom to answer before.                                         *)
(* A server takes a question, and answers it. *)
Polls == {[do |-> "poll"]}
Answers == {[do |-> "message"]}

(* What the worker w of a server executes, and in which order. *)
ServerOrders(T, w) ==
  [do : {"wait", "respond", "post", "poll", "message", "allConnected"}]
    \cup [do : {"post", "poll"}, end : {Group(w)}]
    \cup [do : {"datagram"}, to : SUBSET Mailboxes]
    \cup (IF Normal(T) THEN [do : {"await", "return"}, i : Int] ELSE {})

ServerBs == {<<Polls, Answers, Polls>>}
ServerAs == {<<Polls, Answers, Answers \cup {[do |-> "respond"]}>>}
ServerProgram(T, w, P) == Obeys(P, ServerOrders(T, w), ServerBs, ServerAs)

LEMMA ServerFree ==
  ASSUME NEW T, NEW w, NEW x \in ServerOrders(T, w), x # [do |-> "poll"], x # [do |-> "message"]
  PROVE  ServerProgram(T, w, << x >>)
<1>1. \A r \in ServerBs : x \notin r[1]
  BY DEF ServerBs, Polls
<1>2. \A r \in ServerAs : x \notin r[2]
  BY DEF ServerAs, Answers
<1>3. x \in Free(ServerOrders(T, w), ServerBs, ServerAs)
  BY <1>1, <1>2 DEF Free
<1>4. QED
  BY <1>3, FreeOne DEF ServerProgram

LEMMA ServerPlain ==
  ASSUME NEW T, NEW w, NEW name \in {"wait", "respond", "post", "allConnected"}
  PROVE  ServerProgram(T, w, Do(name))
<1> DEFINE x == [do |-> name]
<1>1. x \in ServerOrders(T, w) /\ x # [do |-> "poll"] /\ x # [do |-> "message"]
  BY DEF ServerOrders
<1>2. ServerProgram(T, w, << x >>)
  BY <1>1, ServerFree
<1>3. QED
  BY <1>2 DEF Do

LEMMA ServerGroup ==
  ASSUME NEW T, NEW w, NEW name \in {"post", "poll"}
  PROVE  ServerProgram(T, w, On(name, Group(w)))
<1> DEFINE x == [do |-> name, end |-> Group(w)]
<1>1. x \in ServerOrders(T, w)
  BY DEF ServerOrders
<1>2. x # [do |-> "poll"] /\ x # [do |-> "message"]
  <2>1. "end" \in DOMAIN x /\ "end" \notin DOMAIN [do |-> "poll"] /\ "end" \notin DOMAIN [do |-> "message"]
    OBVIOUS
  <2>2. QED
    BY <2>1
<1>3. ServerProgram(T, w, << x >>)
  BY <1>1, <1>2, ServerFree
<1>4. QED
  BY <1>3 DEF On

LEMMA ServerCast ==
  ASSUME NEW T, NEW w, NEW to \in SUBSET Mailboxes
  PROVE  ServerProgram(T, w, Datagram(to))
<1> DEFINE x == [do |-> "datagram", to |-> to]
<1>1. x \in ServerOrders(T, w) /\ x # [do |-> "poll"] /\ x # [do |-> "message"]
  BY DEF ServerOrders
<1>2. ServerProgram(T, w, << x >>)
  BY <1>1, ServerFree
<1>3. QED
  BY <1>2 DEF Datagram

LEMMA ServerConcat ==
  ASSUME NEW T, NEW w, NEW P, NEW Q, ServerProgram(T, w, P), ServerProgram(T, w, Q)
  PROVE  ServerProgram(T, w, P \o Q)
BY ObeysConcat DEF ServerProgram

LEMMA ServerLoop ==
  ASSUME NEW T, NEW w, NEW n \in Nat, NEW body, body = [k \in 1 .. n |-> body[k]],
         \A k \in 1 .. n : ServerProgram(T, w, body[k])
  PROVE  ServerProgram(T, w, FlattenSeq(body))
BY ObeysFlatten DEF ServerProgram

LEMMA ServerIf ==
  ASSUME NEW T, NEW w, NEW c, NEW P, c => ServerProgram(T, w, P)
  PROVE  ServerProgram(T, w, If(c, P))
BY ObeysIf DEF ServerProgram

LEMMA ServerNothing ==
  ASSUME NEW T, NEW w
  PROVE  ServerProgram(T, w, << >>)
BY FreeNothing DEF ServerProgram

LEMMA ServerIsSeq ==
  ASSUME NEW T, NEW w, NEW P, ServerProgram(T, w, P)
  PROVE  P \in Seq(ServerOrders(T, w))
BY DEF ServerProgram, Obeys

LEMMA ServerTimes ==
  ASSUME NEW T, NEW w, NEW n \in Nat, NEW P, ServerProgram(T, w, P)
  PROVE  ServerProgram(T, w, Times(n, P))
<1> DEFINE body == [k \in 1 .. n |-> P]
<1>1. Times(n, P) = FlattenSeq(body)
  BY DEF Times, Repeat
<1>2. body = [k \in 1 .. n |-> body[k]] /\ \A k \in 1 .. n : ServerProgram(T, w, body[k])
  OBVIOUS
<1> HIDE DEF body
<1>3. QED
  BY <1>1, <1>2, ServerLoop

(* A question, receives for more, and the answer. *)
LEMMA ServerAnswer ==
  ASSUME NEW T, NEW w, NEW U \in Seq([do : {"post"}])
  PROVE  ServerProgram(T, w, Do("poll") \o U \o Do("message"))
<1> DEFINE S == [do : {"post"}]
           a == [do |-> "poll"]  b == [do |-> "message"]
           P == << a >> \o U \o << b >>
           X == Answers \cup {[do |-> "respond"]}
           O == ServerOrders(T, w)
<1>1. a \in Polls \ Answers /\ b \in Answers \ Polls
  BY DEF Polls, Answers
<1>2. S \cap (Polls \cup Answers \cup Polls) = {} /\ S \cap (Polls \cup Answers \cup X) = {}
  BY DEF Polls, Answers
<1>3. a \in O /\ b \in O /\ S \subseteq O
  BY DEF ServerOrders
<1> HIDE DEF S, a, b, X, O
<1>4. Before(P, Polls, Answers, Polls)
  BY <1>1, <1>2, Enclosed DEF S
<1>5. After(P, Polls, Answers, X)
  BY <1>1, <1>2, Enclosed DEF S
<1>6. P \in Seq(O)
  <2>1. U \in Seq(S)
    BY DEF S
  <2>2. U \in Seq(O)
    BY <1>3, <2>1
  <2>3. << a >> \in Seq(O) /\ << b >> \in Seq(O)
    BY <1>3
  <2>4. QED
    BY <2>2, <2>3
<1> HIDE DEF P
<1>7. \A r \in ServerBs : Before(P, r[1], r[2], r[3])
  BY <1>4 DEF ServerBs
<1>8. \A r \in ServerAs : After(P, r[1], r[2], r[3])
  <2> SUFFICES ASSUME NEW r \in ServerAs PROVE After(P, r[1], r[2], r[3])
    OBVIOUS
  <2>1. r = <<Polls, Answers, X>>
    BY DEF ServerAs, X
  <2>2. r[1] = Polls /\ r[2] = Answers /\ r[3] = X
    BY <2>1
  <2>3. QED
    BY <1>5, <2>2
<1>9. ServerProgram(T, w, P)
  BY <1>6, <1>7, <1>8 DEF ServerProgram, Obeys, O
<1>10. QED
  BY <1>9 DEF P, a, b, Do

LEMMA PostsType ==
  ASSUME NEW c, NEW d
  PROVE  /\ << >> \in Seq([do : {"post"}]) /\ Do("post") \in Seq([do : {"post"}])
         /\ If(c, Do("post")) \in Seq([do : {"post"}])
         /\ If(c, Do("post")) \o If(d, Do("post")) \in Seq([do : {"post"}])
<1>1. [do |-> "post"] \in [do : {"post"}]
  OBVIOUS
<1> DEFINE S == [do : {"post"}]  p == [do |-> "post"]
<1>2. p \in S
  OBVIOUS
<1> HIDE DEF S, p
<1>3. << p >> \in Seq(S) /\ << >> \in Seq(S)
  BY <1>2
<1>4. Do("post") = << p >>
  BY DEF Do, p
<1>5. \A x : If(x, << p >>) \in Seq(S)
  BY <1>3 DEF If
<1>6. If(c, << p >>) \o If(d, << p >>) \in Seq(S)
  BY <1>5
<1>7. QED
  BY <1>3, <1>4, <1>5, <1>6 DEF S

LEMMA ServerPollMessage ==
  ASSUME NEW T, NEW w
  PROVE  ServerProgram(T, w, Do("poll") \o Do("message"))
<1>1. Do("poll") \o << >> = Do("poll")
  <2>1. Do("poll") \in Seq([do : {"poll"}])
    BY DEF Do
  <2>2. QED
    BY <2>1
<1>2. ServerProgram(T, w, Do("poll") \o << >> \o Do("message"))
  BY ServerAnswer, PostsType
<1>3. QED
  BY <1>1, <1>2

LEMMA WriteImmediateServerProgram ==
  ASSUME NEW T, Deployed(T), NEW w
  PROVE  ServerProgram(T, w, LatencyServerWriteImmediate(T))
<1> DEFINE n == T.iterations - 1
           body == [i \in 1 .. n |-> Do("poll") \o Do("post") \o Do("message")]
           D == Do("poll")  E == Do("message")
           O == ServerOrders(T, w)
<1>1. LatencyServerWriteImmediate(T) = ((Do("post") \o FlattenSeq(body)) \o D) \o E
  BY DEF LatencyServerWriteImmediate, Repeat
<1>2. n \in Nat
  BY DEF Deployed
<1>3. body = [i \in 1 .. n |-> body[i]] /\ \A i \in 1 .. n : ServerProgram(T, w, body[i])
  BY ServerAnswer, PostsType
<1> HIDE DEF body, n
<1>4. ServerProgram(T, w, Do("post") \o FlattenSeq(body))
  BY <1>2, <1>3, ServerLoop, ServerPlain, ServerConcat
<1>5. ServerProgram(T, w, D \o E)
  BY ServerPollMessage
<1>6. D \in Seq(O) /\ E \in Seq(O)
  BY DEF ServerOrders, Do
<1> DEFINE C == Do("post") \o FlattenSeq(body)
<1>7. C \in Seq(O)
  BY <1>4, ServerIsSeq
<1> HIDE DEF C, D, E, O
<1>8. (C \o D) \o E = C \o (D \o E)
  BY <1>6, <1>7, ConcatAssociates
<1>9. ServerProgram(T, w, C \o (D \o E))
  BY <1>4, <1>5, ServerConcat DEF C
<1>10. QED
  BY <1>1, <1>8, <1>9 DEF C

LEMMA SendReceiveServerProgram ==
  ASSUME NEW T, Deployed(T), NEW w
  PROVE  ServerProgram(T, w, LatencyServerSendReceive(T))
<1> DEFINE n == T.iterations
           body == [i \in 1 .. n |-> Do("poll") \o Do("post") \o Do("message")]
<1>1. LatencyServerSendReceive(T) = Do("post") \o FlattenSeq(body)
  BY DEF LatencyServerSendReceive, Iterate, Repeat
<1>2. n \in Nat
  BY DEF Deployed
<1>3. body = [i \in 1 .. n |-> body[i]] /\ \A i \in 1 .. n : ServerProgram(T, w, body[i])
  BY ServerAnswer, PostsType
<1> HIDE DEF body, n
<1>4. QED
  BY <1>1, <1>2, <1>3, ServerLoop, ServerPlain, ServerConcat

LEMMA WindowServerProgram ==
  ASSUME NEW T, Deployed(T), NEW w
  PROVE  ServerProgram(T, w, WindowServer(T))
<1> DEFINE n == T.iterations
           more(i) == If(i < n, Do("post"))
           last(i) == If(i = n /\ client_count(T) > 1, Do("post"))
           body == [i \in 1 .. n |-> ((Do("poll") \o more(i)) \o last(i)) \o Do("message")]
<1>1. WindowServer(T) = Do("post") \o FlattenSeq(body)
  BY DEF WindowServer, GlobalBarrierServerPrepare, Repeat
<1>2. n \in Nat
  BY DEF Deployed
<1>3. ASSUME NEW i \in 1 .. n PROVE ServerProgram(T, w, body[i])
  <2> DEFINE U == more(i)  V == last(i)  D == Do("poll")
  <2>1. U \in Seq([do : {"post"}]) /\ V \in Seq([do : {"post"}])
        /\ U \o V \in Seq([do : {"post"}])
    BY PostsType
  <2>2. (D \o U) \o V = D \o (U \o V)
    <3> DEFINE O == [do : {"post", "poll"}]
    <3>1. [do : {"post"}] \subseteq O /\ [do |-> "poll"] \in O
      OBVIOUS
    <3>2. D \in Seq(O)
      BY <3>1 DEF Do
    <3>3. U \in Seq(O) /\ V \in Seq(O)
      <4> DEFINE S == [do : {"post"}]
      <4>1. S \subseteq O /\ U \in Seq(S) /\ V \in Seq(S)
        BY <2>1, <3>1
      <4> HIDE DEF S, O, U, V
      <4>2. QED
        BY <4>1
    <3> HIDE DEF D, U, V, O
    <3>4. QED
      BY <3>2, <3>3, ConcatAssociates
  <2>3. ServerProgram(T, w, (D \o (U \o V)) \o Do("message"))
    BY <2>1, ServerAnswer
  <2>4. body[i] = ((D \o U) \o V) \o Do("message")
    OBVIOUS
  <2> HIDE DEF D, U, V, body
  <2>5. QED
    BY <2>2, <2>3, <2>4
<1>4. body = [i \in 1 .. n |-> body[i]]
  OBVIOUS
<1> HIDE DEF body, n
<1>5. QED
  BY <1>1, <1>2, <1>3, <1>4, ServerLoop, ServerPlain, ServerConcat

LEMMA WriteNormalServerProgram ==
  ASSUME NEW T, Deployed(T), Normal(T), NEW w
  PROVE  ServerProgram(T, w, LatencyServerWriteNormal(T))
<1> DEFINE n == T.iterations
           body == [i \in 1 .. n |-> << [do |-> "await", i |-> i - 1], [do |-> "return", i |-> i - 1] >>]
<1>1. LatencyServerWriteNormal(T) = FlattenSeq(body)
  BY DEF LatencyServerWriteNormal, Iterate, Repeat
<1>2. n \in Nat
  BY DEF Deployed
<1>3. ASSUME NEW i \in 1 .. n PROVE ServerProgram(T, w, body[i])
  <2> DEFINE a == [do |-> "await", i |-> i - 1]  b == [do |-> "return", i |-> i - 1]
  <2>1. a \in ServerOrders(T, w) /\ b \in ServerOrders(T, w)
    BY <1>2 DEF ServerOrders
  <2>2. a # [do |-> "poll"] /\ a # [do |-> "message"] /\ b # [do |-> "poll"] /\ b # [do |-> "message"]
    <3>1. "i" \in DOMAIN a /\ "i" \in DOMAIN b /\ "i" \notin DOMAIN [do |-> "poll"] /\ "i" \notin DOMAIN [do |-> "message"]
      OBVIOUS
    <3>2. QED
      BY <3>1
  <2>3. body[i] = << a, b >>
    OBVIOUS
  <2> HIDE DEF a, b
  <2>4. ServerProgram(T, w, << a >>) /\ ServerProgram(T, w, << b >>)
    BY <2>1, <2>2, ServerFree
  <2>5. << a, b >> = << a >> \o << b >>
    <3> DEFINE O == ServerOrders(T, w)
               P == << a, b >>  Q == << a >> \o << b >>
    <3>1. Q \in Seq(O) /\ Len(Q) = 2 /\ Q[1] = a /\ Q[2] = b
      BY <2>1, TwoOf
    <3>2. P \in Seq(O) /\ Len(P) = 2 /\ P[1] = a /\ P[2] = b
      BY <2>1
    <3> HIDE DEF P, Q, O
    <3>3. P = Q
      BY <3>1, <3>2
    <3>4. QED
      BY <3>3 DEF P, Q
  <2>6. QED
    BY <2>3, <2>4, <2>5, ServerConcat
<1>4. body = [i \in 1 .. n |-> body[i]]
  OBVIOUS
<1> HIDE DEF body, n
<1>5. QED
  BY <1>1, <1>2, <1>3, <1>4, ServerLoop

(* The nodes in the order in which a server goes through them. *)
Nodes(T) == SetToSeq(T.clients \X (1 .. T.threads))

LEMMA DeployedFinite ==
  ASSUME NEW T, Deployed(T)
  PROVE  /\ IsFiniteSet(T.clients) /\ client_count(T) \in Nat \ {0}
         /\ client_count(T) <= Cardinality(Clients) /\ Cardinality(Clients) \in Nat
         /\ T.threads \in Nat \ {0} /\ T.threads <= MaxThreads /\ MaxThreads \in Nat
<1>1. T.clients \subseteq Clients /\ IsFiniteSet(Clients) /\ T.clients # {}
  BY CountAssumption DEF Deployed
<1>2. IsFiniteSet(T.clients) /\ Cardinality(T.clients) <= Cardinality(Clients)
  BY <1>1, FS_Subset
<1>3. Cardinality(T.clients) \in Nat /\ Cardinality(Clients) \in Nat
  BY <1>1, <1>2, FS_CardinalityType
<1>4. Cardinality(T.clients) # 0
  BY <1>1, <1>2, FS_EmptySet
<1>5. T.threads \in 1 .. MaxThreads /\ MaxThreads \in Nat \ {0}
  BY CountAssumption DEF Deployed
<1>6. QED
  BY <1>2, <1>3, <1>4, <1>5 DEF client_count

LEMMA NodesType ==
  ASSUME NEW T, Deployed(T)
  PROVE  /\ Nodes(T) \in Seq(Threads) /\ Len(Nodes(T)) \in Nat
         /\ \A j, k \in 1 .. Len(Nodes(T)) : Nodes(T)[j] = Nodes(T)[k] => j = k
<1> DEFINE S == T.clients \X (1 .. T.threads)
           n == Cardinality(S)
<1>1. IsFiniteSet(T.clients) /\ T.threads \in Nat
  BY DeployedFinite
<1>2. IsFiniteSet(1 .. T.threads)
  <2>1. T.threads \in Int /\ 1 \in Int
    BY <1>1
  <2>2. QED
    BY <2>1, FS_Interval
<1>3. IsFiniteSet(S)
  BY <1>1, <1>2, FS_Product
<1> HIDE DEF S
<1>4. n \in Nat /\ ExistsBijection(1 .. n, S)
  BY <1>3, FS_CardinalityType
<1>5. \E f \in [1 .. n -> S] : IsInjective(f)
  BY <1>4 DEF ExistsBijection, Bijection, Injection
<1>6. Nodes(T) \in [1 .. n -> S] /\ IsInjective(Nodes(T))
  <2>1. Nodes(T) = CHOOSE f \in [1 .. n -> S] : IsInjective(f)
    BY DEF Nodes, SetToSeq, S
  <2> HIDE DEF n
  <2>2. QED
    BY <1>5, <2>1
<1>7. S \subseteq Threads
  BY DeployedFinite DEF S, Threads, Deployed
<1> HIDE DEF n
<1>8. Nodes(T) \in Seq(Threads) /\ Len(Nodes(T)) = n
  BY <1>4, <1>6, <1>7
<1>9. DOMAIN Nodes(T) = 1 .. n
  BY <1>6
<1>10. QED
  BY <1>4, <1>6, <1>8, <1>9 DEF IsInjective

(* The workers of a process. *)
Crew(T, p) ==
  IF p \in Clients THEN ThreadsOf(T, p)
  ELSE IF T.class \in {"Latency", "Bandwidth", "OperationsCount"} THEN ServerThreadsOf(T, p)
  ELSE IF T.class \in {"Multicast", "MulticastLatency"} THEN {MulticastWorker(p)}
  ELSE {}

LEMMA CrewType ==
  ASSUME NEW T, Deployed(T), NEW p \in Processes
  PROVE  /\ p \in Clients => Crew(T, p) \subseteq Threads
         /\ p \in Servers => Crew(T, p) \subseteq ServerThreads
         /\ \A w \in Crew(T, p) : w[1] = p
<1>1. p \in Clients => Crew(T, p) \subseteq Threads /\ \A w \in Crew(T, p) : w[1] = p
  BY DeployedFinite DEF Crew, ThreadsOf, Threads
<1>2. ASSUME p \in Servers PROVE Crew(T, p) \subseteq ServerThreads /\ \A w \in Crew(T, p) : w[1] = p
  <2> DEFINE c == client_count(T)  C == Cardinality(Clients)  n == T.threads
  <2>1. /\ c \in Nat \ {0} /\ c <= C /\ C \in Nat
        /\ n \in Nat \ {0} /\ n <= MaxThreads /\ MaxThreads \in Nat
    BY DeployedFinite
  <2> HIDE DEF c, C, n
  <2>2. c * n <= MaxThreads * C /\ 1 <= MaxThreads * C /\ c * n \in Nat /\ MaxThreads * C \in Nat
    <3>1. c * n <= C * n
      BY <2>1
    <3>2. C * n <= C * MaxThreads
      BY <2>1
    <3>3. C * MaxThreads = MaxThreads * C /\ c * n \in Nat /\ C * n \in Nat /\ C * MaxThreads \in Nat
      BY <2>1
    <3>4. 1 <= c * n
      BY <2>1
    <3>5. QED
      BY <3>1, <3>2, <3>3, <3>4
  <2>3. p \notin Clients
    BY <1>2, RolesAssumption
  <2>4. \A k \in 1 .. c * n : k \in 1 .. MaxThreads * C
    BY <2>2
  <2>5. 1 \in 1 .. MaxThreads * C
    BY <2>2
  <2>6. ServerThreadsOf(T, p) = {p} \X (1 .. c * n) /\ ServerThreads = Servers \X (1 .. MaxThreads * C)
    BY DEF ServerThreadsOf, ServerThreadCount, ServerThreads, c, C, n
  <2>7. ServerThreadsOf(T, p) \subseteq ServerThreads /\ MulticastWorker(p) \in ServerThreads
    BY <1>2, <2>4, <2>5, <2>6 DEF MulticastWorker
  <2>8. QED
    BY <2>3, <2>6, <2>7 DEF Crew, MulticastWorker
<1>3. QED
  BY <1>1, <1>2 DEF Processes

LEMMA MulticastServerProgram ==
  ASSUME NEW T, Deployed(T), NEW w, T.class \in {"Multicast", "MulticastLatency"}
  PROVE  ServerProgram(T, w, MCServerPerfRun(T, w))
<1> DEFINE receives == Times(ServerBudget(T), On("post", Group(w)))
           polls == Times(ServerBudget(T), On("poll", Group(w)))
           n == Len(Nodes(T))
           body == [k \in 1 .. n |-> Datagram({Signals(AtServer(Nodes(T)[k], w[1])[1][1])})]
           signal == FlattenSeq(body)
           round == (polls \o receives) \o signal
<1>1. MCServerPerfRun(T, w) = (receives \o Do("allConnected")) \o Times(Rounds(T), round)
  BY DEF MCServerPerfRun, EachClient, Repeat, Nodes
<1>2. ServerBudget(T) \in Nat /\ Rounds(T) \in Nat
  BY BudgetType
<1>3. ServerProgram(T, w, receives) /\ ServerProgram(T, w, polls)
  BY <1>2, ServerGroup, ServerTimes
<1>4. n \in Nat /\ \A k \in 1 .. n : Nodes(T)[k] \in Threads
  BY NodesType
<1>5. ASSUME NEW k \in 1 .. n PROVE ServerProgram(T, w, body[k])
  <2>1. {Signals(AtServer(Nodes(T)[k], w[1])[1][1])} \in SUBSET Mailboxes
    BY <1>4 DEF Signals, AtServer, Mailboxes, Workers
  <2>2. QED
    BY <2>1, ServerCast
<1>6. body = [k \in 1 .. n |-> body[k]]
  OBVIOUS
<1> HIDE DEF body, n, receives, polls
<1>7. ServerProgram(T, w, signal)
  BY <1>4, <1>5, <1>6, ServerLoop
<1> HIDE DEF signal
<1>8. ServerProgram(T, w, round)
  BY <1>3, <1>7, ServerConcat
<1> HIDE DEF round
<1>9. ServerProgram(T, w, Times(Rounds(T), round))
  BY <1>2, <1>8, ServerTimes
<1>10. QED
  BY <1>1, <1>3, <1>9, ServerConcat, ServerPlain

LEMMA RespondProgram ==
  ASSUME NEW T, NEW w, NEW P, ServerProgram(T, w, P)
  PROVE  /\ ServerProgram(T, w, (Do("wait") \o Do("respond")) \o P)
         /\ HasWait((Do("wait") \o Do("respond")) \o P)
<1>1. ServerProgram(T, w, Do("wait") \o Do("respond"))
  BY ServerPlain, ServerConcat
<1>2. [do |-> "wait"] \in ServerOrders(T, w) /\ Do("respond") \in Seq(ServerOrders(T, w))
      /\ P \in Seq(ServerOrders(T, w)) /\ Do("wait") \o Do("respond") \in Seq(ServerOrders(T, w))
  <2>1. [do |-> "wait"] \in ServerOrders(T, w)
    BY DEF ServerOrders
  <2>2. QED
    BY <2>1, <1>1, ServerPlain, ServerIsSeq
<1>3. HasWait(Do("wait") \o Do("respond"))
  BY <1>2, WaitIsFirst
<1>4. HasWait((Do("wait") \o Do("respond")) \o P)
  BY <1>2, <1>3, WaitStays
<1>5. QED
  BY <1>1, <1>4, ServerConcat

(* What a server's worker runs. *)
LEMMA ServerRunProgram ==
  ASSUME NEW T, Deployed(T), NEW s \in Servers, NEW w \in Crew(T, s), NEW op \in LegalOps(T)
  PROVE  /\ ServerProgram(T, w, ServerRun(T, w, op))
         /\ T.class \notin {"Multicast", "MulticastLatency"} => HasWait(ServerRun(T, w, op))
<1> DEFINE B == Do("wait") \o Do("respond")
           Good(P) == ServerProgram(T, w, P) /\ HasWait(P)
<1>1. s \notin Clients
  BY RolesAssumption
<1>2. ASSUME NEW Q, ServerProgram(T, w, Q) PROVE Good(B \o Q)
  BY <1>2, RespondProgram
<1>3. ServerProgram(T, w, WindowServer(T)) /\ ServerProgram(T, w, << >>) /\ ServerProgram(T, w, Do("post"))
      /\ \A c : ServerProgram(T, w, If(c, Do("post")))
  BY WindowServerProgram, ServerNothing, ServerPlain, ServerIf
<1>4. CASE T.class = "Latency"
  <2> DEFINE Q == CASE op = "WRITE" /\ T.mode = "normal"    -> LatencyServerWriteNormal(T)
                    [] op = "WRITE" /\ T.mode = "immediate" -> LatencyServerWriteImmediate(T)
                    [] op = "READ"                          -> << >>
                    [] op = "SEND_RECEIVE"                  -> LatencyServerSendReceive(T)
  <2>1. op \in {"WRITE", "READ", "SEND_RECEIVE"} /\ op \in T.operations
    BY <1>4 DEF LegalOps
  <2>2. ServerProgram(T, w, Q)
    <3>1. CASE op = "WRITE" /\ T.mode = "normal"
      BY <1>4, <2>1, <3>1, WriteNormalServerProgram DEF Normal
    <3>2. CASE op = "WRITE" /\ T.mode = "immediate"
      BY <3>2, WriteImmediateServerProgram
    <3>3. CASE op = "READ"
      BY <3>3, <1>3
    <3>4. CASE op = "SEND_RECEIVE"
      BY <3>4, SendReceiveServerProgram
    <3>5. QED
      BY <1>4, <2>1, <3>1, <3>2, <3>3, <3>4 DEF Deployed
  <2>3. ServerRun(T, w, op) = B \o Q
    BY <1>4 DEF ServerRun, LatencyServerRun
  <2> HIDE DEF Q
  <2>4. QED
    BY <1>2, <2>2, <2>3
<1>5. CASE T.class = "Bandwidth"
  <2> DEFINE Q == IF UsesWindow(T, op) THEN WindowServer(T) ELSE If(client_count(T) > 1, Do("post"))
  <2>1. ServerProgram(T, w, Q)
    BY <1>3
  <2>2. ServerRun(T, w, op) = B \o Q
    BY <1>5 DEF ServerRun, BandwidthServerRun, GlobalBarrierServerPrepare
  <2> HIDE DEF Q
  <2>3. QED
    BY <1>2, <2>1, <2>2
<1>6. CASE T.class = "OperationsCount"
  <2> DEFINE Q == IF UsesWindow(T, op) THEN WindowServer(T)
                  ELSE If(client_count(T) > 1 /\ op = "READ", Do("post"))
  <2>1. ServerProgram(T, w, Q)
    BY <1>3
  <2>2. ServerRun(T, w, op) = B \o Q
    BY <1>6 DEF ServerRun, OperationsCountServerRun, GlobalBarrierServerPrepare
  <2> HIDE DEF Q
  <2>3. QED
    BY <1>2, <2>1, <2>2
<1>7. CASE T.class \in {"Multicast", "MulticastLatency"}
  <2>1. ServerRun(T, w, op) = MCServerPerfRun(T, w)
    BY <1>7 DEF ServerRun, MCServerPerfLatRun
  <2>2. QED
    BY <1>7, <2>1, MulticastServerProgram
<1>8. T.class \in {"Latency", "Bandwidth", "OperationsCount", "Multicast", "MulticastLatency"}
  BY <1>1 DEF Crew
<1>9. QED
  BY <1>4, <1>5, <1>6, <1>7, <1>8

(* The main threads. *)
(* The same, by the main thread and on a connection; and how it has        *)
(* threads work.                                                           *)
PollsAt(q) == {[do |-> "poll", end |-> <<q, "server">>]}
AnswersAt(q) == {[do |-> "message", end |-> <<q, "server">>]}
Prepares(T) == [do : {"prepare"}, op : LegalOps(T)]
Launches(T, p) == [do : {"launch"}, workers : SUBSET Crew(T, p), op : LegalOps(T)]
LaunchesOf(T, p, v) == {x \in Launches(T, p) : v \in x.workers}
Notifies == {[do |-> "notify"]}
Joins(T, p) == {[do |-> "join", workers |-> Crew(T, p)]}

CalmOrders(T, p) ==
  [do : {"startServer", "allConnected", "disconnected", "serve", "sleep", "user", "gather"}]
    \cup [do : {"allReady"}, workers : SUBSET Crew(T, p)]
    \cup [do : {"connect", "identify"}, end : LinkEnds]
    \cup (IF p \in Servers THEN [do : {"poll", "message"}, end : (Threads \X {p}) \X {"server"}] ELSE {})

MainOrders(T, p) ==
  CalmOrders(T, p) \cup Prepares(T) \cup Launches(T, p) \cup Notifies \cup Joins(T, p)

(* A server's main thread answers what it polls. *)
CalmBs(p) == {<<PollsAt(q), AnswersAt(q), PollsAt(q)>> : q \in Threads \X {p}}
CalmAs(p) == {<<PollsAt(q), AnswersAt(q), AnswersAt(q)>> : q \in Threads \X {p}}
CalmProgram(T, p, P) == Obeys(P, CalmOrders(T, p), CalmBs(p), CalmAs(p))

(* The flag is reset before threads start, and they end before they are    *)
(* started again.                                                          *)
LaunchBs(T, p) ==
  {<<Notifies, Joins(T, p), MainOrders(T, p)>>}
    \cup {<<LaunchesOf(T, p, v), Joins(T, p), LaunchesOf(T, p, v)>> : v \in Crew(T, p)}
LaunchAs(T, p) == {<<Prepares(T), Launches(T, p), Notifies>>}

MainProgram(T, p, P) ==
  /\ Obeys(P, MainOrders(T, p), CalmBs(p), CalmAs(p))
  /\ Obeys(P, MainOrders(T, p), LaunchBs(T, p), LaunchAs(T, p))

LEMMA ObeysWider ==
  ASSUME NEW S, NEW R, NEW Bs, NEW As, NEW P, S \subseteq R, Obeys(P, S, Bs, As)
  PROVE  Obeys(P, R, Bs, As)
<1>1. P \in Seq(S)
  BY DEF Obeys
<1>2. P \in Seq(R)
  BY <1>1
<1>3. QED
  BY <1>2 DEF Obeys

LEMMA CalmIsApart ==
  ASSUME NEW T, NEW p
  PROVE  /\ CalmOrders(T, p) \cap (Prepares(T) \cup Launches(T, p) \cup Notifies \cup Joins(T, p)) = {}
         /\ \A q : (PollsAt(q) \cup AnswersAt(q)) \cap
                     (Prepares(T) \cup Launches(T, p) \cup Notifies \cup Joins(T, p)) = {}
         /\ \A x \in CalmOrders(T, p) \cup Prepares(T) \cup Launches(T, p) \cup Notifies : x \notin Joins(T, p)
         /\ \A x \in CalmOrders(T, p) \cup Prepares(T) \cup Launches(T, p) \cup Joins(T, p) : x \notin Notifies
         /\ \A x \in CalmOrders(T, p) \cup Prepares(T) \cup Notifies \cup Joins(T, p) : x \notin Launches(T, p)
         /\ \A x \in CalmOrders(T, p) \cup Launches(T, p) \cup Notifies \cup Joins(T, p) : x \notin Prepares(T)
<1>1. \A x \in CalmOrders(T, p) : x.do \notin {"prepare", "launch", "notify", "join"}
  BY DEF CalmOrders
<1>2. /\ \A x \in Prepares(T) : x.do = "prepare"
      /\ \A x \in Launches(T, p) : x.do = "launch"
      /\ \A x \in Notifies : x.do = "notify"
      /\ \A x \in Joins(T, p) : x.do = "join"
  BY DEF Prepares, Launches, Notifies, Joins
<1>3. \A q : \A x \in PollsAt(q) \cup AnswersAt(q) : x.do \in {"poll", "message"}
  BY DEF PollsAt, AnswersAt
<1>4. QED
  BY <1>1, <1>2, <1>3

LEMMA CalmIsMain ==
  ASSUME NEW T, NEW p, NEW P, CalmProgram(T, p, P)
  PROVE  MainProgram(T, p, P)
<1>1. CalmOrders(T, p) \subseteq MainOrders(T, p)
  BY DEF MainOrders
<1>2. Obeys(P, MainOrders(T, p), CalmBs(p), CalmAs(p))
  BY <1>1, ObeysWider DEF CalmProgram
<1>3. P \in Seq(CalmOrders(T, p))
  BY DEF CalmProgram, Obeys
<1>4. CalmOrders(T, p) \subseteq Free(MainOrders(T, p), LaunchBs(T, p), LaunchAs(T, p))
  <2> SUFFICES ASSUME NEW x \in CalmOrders(T, p)
               PROVE  x \in Free(MainOrders(T, p), LaunchBs(T, p), LaunchAs(T, p))
    OBVIOUS
  <2>1. x \notin Notifies /\ x \notin Launches(T, p)
    BY CalmIsApart
  <2>2. \A v : x \notin LaunchesOf(T, p, v)
    BY <2>1 DEF LaunchesOf
  <2>3. ASSUME NEW r \in LaunchBs(T, p) PROVE x \notin r[1]
    BY <2>1, <2>2 DEF LaunchBs
  <2>4. ASSUME NEW r \in LaunchAs(T, p) PROVE x \notin r[2]
    BY <2>1 DEF LaunchAs
  <2>5. QED
    BY <1>1, <2>3, <2>4 DEF Free
<1>5. P \in Seq(Free(MainOrders(T, p), LaunchBs(T, p), LaunchAs(T, p)))
  BY <1>3, <1>4
<1>6. QED
  BY <1>2, <1>5, ObeysFree DEF MainProgram

LEMMA MainConcat ==
  ASSUME NEW T, NEW p, NEW P, NEW Q, MainProgram(T, p, P), MainProgram(T, p, Q)
  PROVE  MainProgram(T, p, P \o Q)
BY ObeysConcat DEF MainProgram

LEMMA MainLoop ==
  ASSUME NEW T, NEW p, NEW n \in Nat, NEW body, body = [k \in 1 .. n |-> body[k]],
         \A k \in 1 .. n : MainProgram(T, p, body[k])
  PROVE  MainProgram(T, p, FlattenSeq(body))
BY ObeysFlatten DEF MainProgram

LEMMA CalmConcat ==
  ASSUME NEW T, NEW p, NEW P, NEW Q, CalmProgram(T, p, P), CalmProgram(T, p, Q)
  PROVE  CalmProgram(T, p, P \o Q)
BY ObeysConcat DEF CalmProgram

LEMMA CalmLoop ==
  ASSUME NEW T, NEW p, NEW n \in Nat, NEW body, body = [k \in 1 .. n |-> body[k]],
         \A k \in 1 .. n : CalmProgram(T, p, body[k])
  PROVE  CalmProgram(T, p, FlattenSeq(body))
BY ObeysFlatten DEF CalmProgram

LEMMA CalmIf ==
  ASSUME NEW T, NEW p, NEW c, NEW P, c => CalmProgram(T, p, P)
  PROVE  CalmProgram(T, p, If(c, P))
BY ObeysIf DEF CalmProgram

LEMMA CalmNothing ==
  ASSUME NEW T, NEW p
  PROVE  CalmProgram(T, p, << >>)
BY FreeNothing DEF CalmProgram

LEMMA CalmOne ==
  ASSUME NEW T, NEW p, NEW x \in CalmOrders(T, p), x.do \notin {"poll", "message"}
  PROVE  CalmProgram(T, p, << x >>)
<1>1. ASSUME NEW r \in CalmBs(p) PROVE x \notin r[1]
  BY DEF CalmBs, PollsAt
<1>2. ASSUME NEW r \in CalmAs(p) PROVE x \notin r[2]
  BY DEF CalmAs, AnswersAt
<1>3. x \in Free(CalmOrders(T, p), CalmBs(p), CalmAs(p))
  BY <1>1, <1>2 DEF Free
<1>4. QED
  BY <1>3, FreeOne DEF CalmProgram

LEMMA CalmPlain ==
  ASSUME NEW T, NEW p,
         NEW name \in {"startServer", "allConnected", "disconnected", "serve", "sleep", "user", "gather"}
  PROVE  CalmProgram(T, p, Do(name))
<1> DEFINE x == [do |-> name]
<1>1. x \in CalmOrders(T, p) /\ x.do \notin {"poll", "message"}
  BY DEF CalmOrders
<1>2. CalmProgram(T, p, << x >>)
  BY <1>1, CalmOne
<1>3. QED
  BY <1>2 DEF Do

LEMMA CalmReady ==
  ASSUME NEW T, NEW p, NEW W \in SUBSET Crew(T, p)
  PROVE  CalmProgram(T, p, AllReady(W))
<1> DEFINE x == [do |-> "allReady", workers |-> W]
<1>1. x \in CalmOrders(T, p) /\ x.do \notin {"poll", "message"}
  BY DEF CalmOrders
<1>2. CalmProgram(T, p, << x >>)
  BY <1>1, CalmOne
<1>3. QED
  BY <1>2 DEF AllReady

(* A thread of a client connects. *)
LEMMA CalmConnect ==
  ASSUME NEW T, NEW p, NEW e \in LinkEnds, NEW name \in {"connect", "identify"}
  PROVE  CalmProgram(T, p, On(name, e))
<1> DEFINE x == [do |-> name, end |-> e]
<1>1. x \in CalmOrders(T, p) /\ x.do \notin {"poll", "message"}
  BY DEF CalmOrders
<1>2. CalmProgram(T, p, << x >>)
  BY <1>1, CalmOne
<1>3. QED
  BY <1>2 DEF On

LEMMA CalmConnects ==
  ASSUME NEW T, Deployed(T), NEW p, NEW t \in Threads, NEW name \in {"connect", "identify"}
  PROVE  CalmProgram(T, p, OnEach(T, t, name))
<1> DEFINE n == Len(T.servers)
           body == [k \in 1 .. n |-> On(name, AtClient(t, T.servers[k]))]
<1>1. OnEach(T, t, name) = FlattenSeq(body)
  BY DEF OnEach
<1>2. ASSUME NEW k \in 1 .. n PROVE CalmProgram(T, p, body[k])
  <2>1. AtClient(t, T.servers[k]) \in LinkEnds
    BY EachServerType DEF AtClient, LinkEnds, Connections
  <2>2. QED
    BY <2>1, CalmConnect
<1>3. n \in Nat /\ body = [k \in 1 .. n |-> body[k]]
  BY DEF Deployed
<1> HIDE DEF body, n
<1>4. QED
  BY <1>1, <1>2, <1>3, CalmLoop

(* The barrier of a server. *)
OnEachOf(T, s, name) == FlattenSeq([k \in 1 .. Len(Nodes(T)) |-> On(name, AtServer(Nodes(T)[k], s))])

LEMMA CalmBarrierMessages ==
  ASSUME NEW T, Deployed(T), NEW s \in Servers
  PROVE  /\ CalmProgram(T, s, OnEachOf(T, s, "poll") \o OnEachOf(T, s, "message"))
         /\ OnEachOf(T, s, "poll") \in Seq(CalmOrders(T, s))
         /\ OnEachOf(T, s, "message") \in Seq(CalmOrders(T, s))
<1> DEFINE n == Len(Nodes(T))
           N == Nodes(T)
           U == [k \in 1 .. n |-> [do |-> "poll", end |-> AtServer(N[k], s)]]
           V == [k \in 1 .. n |-> [do |-> "message", end |-> AtServer(N[k], s)]]
           S == CalmOrders(T, s)
<1>1. n \in Nat /\ (\A k \in 1 .. n : N[k] \in Threads) /\ \A j, k \in 1 .. n : N[j] = N[k] => j = k
  BY NodesType
<1>2. OnEachOf(T, s, "poll") = U /\ OnEachOf(T, s, "message") = V
  <2>1. DOMAIN U = 1 .. n /\ DOMAIN V = 1 .. n /\ U = [k \in 1 .. n |-> U[k]] /\ V = [k \in 1 .. n |-> V[k]]
    OBVIOUS
  <2>2. /\ OnEachOf(T, s, "poll") = FlattenSeq([k \in 1 .. n |-> << U[k] >>])
        /\ OnEachOf(T, s, "message") = FlattenSeq([k \in 1 .. n |-> << V[k] >>])
    BY DEF OnEachOf, On
  <2> HIDE DEF U, V, n
  <2>3. /\ FlattenSeq([k \in 1 .. n |-> << U[k] >>]) = U
        /\ FlattenSeq([k \in 1 .. n |-> << V[k] >>]) = V
    BY <1>1, <2>1, FlattenSingles, SMTT(30)
  <2>4. QED
    BY <2>2, <2>3
<1>3. U \in Seq(S) /\ V \in Seq(S) /\ Len(U) = n /\ Len(V) = n
  <2>1. \A k \in 1 .. n : U[k] \in S /\ V[k] \in S
    BY <1>1 DEF CalmOrders, AtServer
  <2>2. U = [k \in 1 .. n |-> U[k]] /\ V = [k \in 1 .. n |-> V[k]]
    OBVIOUS
  <2> HIDE DEF U, V, S
  <2>3. U \in [1 .. n -> S] /\ V \in [1 .. n -> S]
    BY <2>1, <2>2
  <2>4. QED
    BY <2>3, <1>1
<1>4. ASSUME NEW q \in Threads \X {s}
      PROVE  Alternates(U \o V, PollsAt(q), AnswersAt(q))
  <2>1. \A k \in 1 .. n : /\ U[k] \in PollsAt(q) <=> N[k] = q[1]
                          /\ V[k] \in AnswersAt(q) <=> N[k] = q[1]
                          /\ U[k] \notin AnswersAt(q) /\ V[k] \notin PollsAt(q)
    BY DEF PollsAt, AnswersAt, AtServer
  <2>2. \A j, k \in 1 .. n : N[j] = N[k] => j = k
    BY <1>1
  <2>3. PollsAt(q) \cap AnswersAt(q) = {}
    BY DEF PollsAt, AnswersAt
  <2> HIDE DEF U, V, S, n, N
  <2> DEFINE A == PollsAt(q)  B == AnswersAt(q)
  <2>4. \A k \in 1 .. Len(U) : /\ U[k] \in A <=> V[k] \in B
                               /\ U[k] \notin B /\ V[k] \notin A
    BY <2>1, <1>3
  <2>5. \A j, k \in 1 .. Len(U) : U[j] \in A /\ U[k] \in A => j = k
    BY <2>1, <2>2, <1>3
  <2>6. A \cap B = {} /\ Len(U) = Len(V) /\ U \in Seq(S) /\ V \in Seq(S)
    BY <2>3, <1>3
  <2> HIDE DEF A, B
  <2>7. Alternates(U \o V, A, B)
    BY <2>4, <2>5, <2>6, Paired
  <2>8. QED
    BY <2>7 DEF A, B
<1> HIDE DEF U, V, S, n, N
<1> DEFINE P == U \o V
<1>5. P \in Seq(S)
  BY <1>3
<1> HIDE DEF P
<1>6. ASSUME NEW r \in CalmBs(s) PROVE Before(P, r[1], r[2], r[3])
  <2>1. PICK q \in Threads \X {s} : r = <<PollsAt(q), AnswersAt(q), PollsAt(q)>>
    BY DEF CalmBs
  <2>2. r[1] = PollsAt(q) /\ r[2] = AnswersAt(q) /\ r[3] = PollsAt(q)
    BY <2>1
  <2>3. QED
    BY <1>4, <2>2 DEF Alternates, P
<1>7. ASSUME NEW r \in CalmAs(s) PROVE After(P, r[1], r[2], r[3])
  <2>1. PICK q \in Threads \X {s} : r = <<PollsAt(q), AnswersAt(q), AnswersAt(q)>>
    BY DEF CalmAs
  <2>2. r[1] = PollsAt(q) /\ r[2] = AnswersAt(q) /\ r[3] = AnswersAt(q)
    BY <2>1
  <2>3. QED
    BY <1>4, <2>2 DEF Alternates, P
<1>8. CalmProgram(T, s, P)
  BY <1>5, <1>6, <1>7 DEF CalmProgram, Obeys, S
<1>9. QED
  BY <1>2, <1>3, <1>8 DEF P, S

LEMMA GlobalBarrierServerProgram ==
  ASSUME NEW T, Deployed(T), NEW s \in Servers, NEW prepare
  PROVE  CalmProgram(T, s, GlobalBarrierServer(T, s, prepare))
<1> DEFINE A == If(prepare, Do("gather"))
           B == OnEachOf(T, s, "poll")
           C == OnEachOf(T, s, "message")
           S == CalmOrders(T, s)
<1>1. GlobalBarrierServer(T, s, prepare) = (A \o B) \o C
  BY DEF GlobalBarrierServer, EachClient, Repeat, OnEachOf, Nodes
<1>2. CalmProgram(T, s, A)
  BY CalmPlain, CalmIf
<1>3. CalmProgram(T, s, B \o C) /\ B \in Seq(S) /\ C \in Seq(S)
  BY CalmBarrierMessages
<1>4. A \in Seq(S)
  BY <1>2 DEF CalmProgram, Obeys
<1> HIDE DEF A, B, C, S
<1>5. (A \o B) \o C = A \o (B \o C)
  BY <1>3, <1>4, ConcatAssociates
<1>6. QED
  BY <1>1, <1>2, <1>3, <1>5, CalmConcat

LEMMA EndBarrierServerProgram ==
  ASSUME NEW T, Deployed(T), NEW s \in Servers, NEW prepare
  PROVE  CalmProgram(T, s, EndBarrierServer(T, s, prepare))
BY GlobalBarrierServerProgram, CalmIf DEF EndBarrierServer

(* The instructions of a phase, from starting the threads to waiting for   *)
(* their end, whatever calm comes between.                                 *)
LEMMA PhaseProgram ==
  ASSUME NEW T, NEW p, NEW op \in LegalOps(T), NEW G, CalmProgram(T, p, G)
  PROVE  MainProgram(T, p, (ReadyThreads(Crew(T, p), op) \o G) \o RunThreads(Crew(T, p)))
<1> DEFINE M == MainOrders(T, p)
           pr == [do |-> "prepare", op |-> op]
           la == [do |-> "launch", workers |-> Crew(T, p), op |-> op]
           ar == [do |-> "allReady", workers |-> Crew(T, p)]
           no == [do |-> "notify"]
           jo == [do |-> "join", workers |-> Crew(T, p)]
           A == Prepares(T)  L == Launches(T, p)  N == Notifies  J == Joins(T, p)
           C == CalmOrders(T, p)
           P == (((<< pr >> \o << la >>) \o << ar >>) \o G) \o (<< no >> \o << jo >>)
<1>1. (ReadyThreads(Crew(T, p), op) \o G) \o RunThreads(Crew(T, p)) = P
  BY DEF ReadyThreads, RunThreads, Prepare, Launch, AllReady, Do
<1>2. pr \in A /\ la \in L /\ ar \in C /\ no \in N /\ jo \in J
  BY DEF Prepares, Launches, CalmOrders, Notifies, Joins
<1>3. \A v \in Crew(T, p) : la \in LaunchesOf(T, p, v)
  BY <1>2 DEF LaunchesOf
<1>4. G \in Seq(C) /\ Obeys(G, C, CalmBs(p), CalmAs(p))
  BY DEF CalmProgram, Obeys
<1>5. /\ A \subseteq M /\ L \subseteq M /\ N \subseteq M /\ J \subseteq M /\ C \subseteq M
  BY DEF MainOrders
<1>6. /\ C \cap (A \cup L \cup N \cup J) = {}
      /\ A \cap (C \cup L \cup N \cup J) = {}
      /\ L \cap (A \cup C \cup N \cup J) = {}
      /\ N \cap (A \cup L \cup C \cup J) = {}
  BY CalmIsApart
<1>7. \A q : (PollsAt(q) \cup AnswersAt(q)) \cap (A \cup L \cup N \cup J) = {}
  BY CalmIsApart
<1>8. \A v : LaunchesOf(T, p, v) \subseteq L
  BY DEF LaunchesOf
<1>9. CalmProgram(T, p, << ar >>)
  <2>1. CalmProgram(T, p, AllReady(Crew(T, p)))
    BY CalmReady
  <2>2. QED
    BY <2>1 DEF AllReady
<1>10. \A x \in {pr, la, ar, no, jo} : << x >> \in Seq({x}) /\ << x >> \in Seq(M)
  BY <1>2, <1>5
<1>11. G \in Seq(M)
  BY <1>4, <1>5
<1> HIDE DEF pr, la, ar, no, jo, A, L, N, J, C, M
<1>12. << pr >> \in Seq(M) /\ << la >> \in Seq(M) /\ << ar >> \in Seq(M)
       /\ << no >> \in Seq(M) /\ << jo >> \in Seq(M)
  BY <1>10
(* The polls of a server. *)
<1>13. Obeys(P, M, CalmBs(p), CalmAs(p))
  <2>1. ASSUME NEW x \in {pr, la, no, jo} PROVE Obeys(<< x >>, M, CalmBs(p), CalmAs(p))
    <3>1. x \in A \cup L \cup N \cup J
      BY <1>2, <2>1
    <3>2. \A q : x \notin PollsAt(q) /\ x \notin AnswersAt(q)
      BY <1>7, <3>1
    <3>3. ASSUME NEW r \in CalmBs(p) PROVE x \notin r[1]
      BY <3>2 DEF CalmBs
    <3>4. ASSUME NEW r \in CalmAs(p) PROVE x \notin r[2]
      BY <3>2 DEF CalmAs
    <3>5. x \in M
      BY <1>5, <3>1
    <3>6. x \in Free(M, CalmBs(p), CalmAs(p))
      BY <3>3, <3>4, <3>5 DEF Free
    <3>7. QED
      BY <3>6, FreeOne
  <2>2. Obeys(<< ar >>, M, CalmBs(p), CalmAs(p)) /\ Obeys(G, M, CalmBs(p), CalmAs(p))
    BY <1>4, <1>5, <1>9, ObeysWider DEF CalmProgram, C
  <2>3. Obeys(<< pr >>, M, CalmBs(p), CalmAs(p)) /\ Obeys(<< la >>, M, CalmBs(p), CalmAs(p))
        /\ Obeys(<< no >>, M, CalmBs(p), CalmAs(p)) /\ Obeys(<< jo >>, M, CalmBs(p), CalmAs(p))
    BY <2>1
  <2>4. Obeys((<< pr >> \o << la >>) \o << ar >>, M, CalmBs(p), CalmAs(p))
    BY <2>2, <2>3, ObeysConcat
  <2>5. Obeys(((<< pr >> \o << la >>) \o << ar >>) \o G, M, CalmBs(p), CalmAs(p))
    BY <2>2, <2>4, ObeysConcat
  <2>6. Obeys(<< no >> \o << jo >>, M, CalmBs(p), CalmAs(p))
    BY <2>3, ObeysConcat
  <2>7. QED
    BY <2>5, <2>6, ObeysConcat
<1>14. P \in Seq(M)
  BY <1>13 DEF Obeys
(* The parts in the order that shows one rule after the other. *)
<1> DEFINE Q == ((<< pr >> \o << la >>) \o << ar >>) \o G
           U == (<< ar >> \o G) \o << no >>
           V == (<< ar >> \o G) \o (<< no >> \o << jo >>)
<1>15. P = Q \o (<< no >> \o << jo >>)
  OBVIOUS
<1>16. P = (<< pr >> \o << la >>) \o V
  BY <1>11, <1>12
<1>17. P = << pr >> \o ((<< la >> \o U) \o << jo >>)
  BY <1>11, <1>12
<1>18. U \in Seq(C \cup N) /\ V \in Seq(C \cup N \cup J) /\ Q \in Seq(A \cup L \cup C)
       /\ << pr >> \in Seq(A)
  BY <1>2, <1>4
<1>19. C \cup N \subseteq M /\ C \cup N \cup J \subseteq M /\ A \cup L \cup C \subseteq M
  BY <1>5
<1> HIDE DEF P, Q, U, V
<1>20. Before(P, N, J, M)
  <2>1. Before(<< no >> \o << >> \o << jo >>, N, J, M)
    <3>1. no \in N \ J /\ jo \in J \ N
      BY <1>2, <1>6
    <3>2. << >> \in Seq({})
      OBVIOUS
    <3>3. {} \cap (N \cup J \cup M) = {}
      OBVIOUS
    <3>4. QED
      BY <3>1, <3>2, <3>3, Enclosed
  <2>2. << no >> \o << >> = << no >>
    OBVIOUS
  <2>3. Before(<< no >> \o << jo >>, N, J, M)
    BY <2>1, <2>2
  <2>4. Q \in Seq(M) /\ << no >> \o << jo >> \in Seq(M)
    BY <1>12, <1>18, <1>19
  <2>5. Before(Q, N, J, M)
    BY <1>6, <1>18, BeforeNone
  <2>6. QED
    BY <1>15, <2>3, <2>4, <2>5, BeforeConcat
<1>21. ASSUME NEW v \in Crew(T, p)
       PROVE  Before(P, LaunchesOf(T, p, v), J, LaunchesOf(T, p, v))
  <2> DEFINE K == LaunchesOf(T, p, v)
  <2>1. la \in K \ J /\ jo \in J \ K /\ K \subseteq L
    BY <1>2, <1>3, <1>6, <1>8
  <2> HIDE DEF K
  <2>2. (C \cup N) \cap (K \cup J \cup K) = {}
    BY <1>6, <2>1
  <2>3. Before((<< la >> \o U) \o << jo >>, K, J, K)
    BY <1>18, <2>1, <2>2, Enclosed
  <2>4. Before(<< pr >>, K, J, K)
    BY <1>6, <1>18, <2>1, BeforeNone, ZenonT(40)
  <2>5. (<< la >> \o U) \o << jo >> \in Seq(M)
    <3>1. U \in Seq(M)
      BY <1>18, <1>19
    <3>2. QED
      BY <3>1, <1>12
  <2>6. QED
    BY <1>12, <1>17, <2>3, <2>4, <2>5, BeforeConcat DEF K
<1>22. After(P, A, L, N)
  <2>1. pr \in A \ L /\ la \in L \ A
    BY <1>2, <1>6
  <2>2. After(<< pr >> \o << >> \o << la >>, A, L, N)
    <3>1. << >> \in Seq({})
      OBVIOUS
    <3>2. {} \cap (A \cup L \cup N) = {}
      OBVIOUS
    <3>3. QED
      BY <2>1, <3>1, <3>2, Enclosed
  <2>3. << pr >> \o << >> = << pr >>
    OBVIOUS
  <2>4. After(V, A, L, N)
    BY <1>6, <1>18, AfterNone
  <2>5. V \in Seq(M) /\ << pr >> \o << la >> \in Seq(M)
    BY <1>12, <1>18, <1>19
  <2>6. QED
    BY <1>16, <2>2, <2>3, <2>4, <2>5, AfterConcat
<1>23. ASSUME NEW r \in LaunchBs(T, p) PROVE Before(P, r[1], r[2], r[3])
  <2>1. CASE r = <<N, J, M>>
    BY <1>20, <2>1
  <2>2. CASE \E v \in Crew(T, p) : r = <<LaunchesOf(T, p, v), J, LaunchesOf(T, p, v)>>
    BY <1>21, <2>2
  <2>3. QED
    BY <2>1, <2>2 DEF LaunchBs, N, J, M
<1>24. ASSUME NEW r \in LaunchAs(T, p) PROVE After(P, r[1], r[2], r[3])
  <2>1. r = <<A, L, N>>
    BY DEF LaunchAs, A, L, N
  <2>2. QED
    BY <1>22, <2>1
<1>25. MainProgram(T, p, P)
  BY <1>13, <1>14, <1>23, <1>24 DEF MainProgram, Obeys, M
<1>26. QED
  BY <1>1, <1>25 DEF P, pr, la, ar, no, jo

LEMMA ShortPhaseProgram ==
  ASSUME NEW T, NEW p, NEW op \in LegalOps(T)
  PROVE  MainProgram(T, p, ReadyThreads(Crew(T, p), op) \o RunThreads(Crew(T, p)))
<1> DEFINE S == MainOrders(T, p)
           R == ReadyThreads(Crew(T, p), op)
<1>1. MainProgram(T, p, (R \o << >>) \o RunThreads(Crew(T, p)))
  BY CalmNothing, PhaseProgram
<1>2. R \in Seq(S)
  BY DEF ReadyThreads, Prepare, Launch, AllReady, MainOrders, Prepares, Launches, CalmOrders
<1> HIDE DEF R, S
<1>3. R \o << >> = R
  BY <1>2
<1>4. QED
  BY <1>1, <1>3 DEF R

(* What holds of a main thread's program as long as it runs. *)
MainKeeps(T, p, P) ==
  /\ P \in Seq(MainOrders(T, p))
  /\ Before(P, Notifies, Joins(T, p), MainOrders(T, p))
  /\ Between(P, Notifies, Prepares(T), Launches(T, p))
  /\ \A v \in Crew(T, p) : Between(P, LaunchesOf(T, p, v), Joins(T, p), LaunchesOf(T, p, v))
  /\ p \in Servers /\ T.class \in {"Multicast", "MulticastLatency"} =>
       Before(P, Launches(T, p), Joins(T, p), MainOrders(T, p))
  /\ \A q \in Threads \X {p} : /\ Before(P, PollsAt(q), AnswersAt(q), PollsAt(q))
                               /\ Between(P, AnswersAt(q), PollsAt(q), AnswersAt(q))

LEMMA NextIsNot ==
  ASSUME NEW S, NEW P \in Seq(S), NEW A, NEW B, NEW X, After(P, A, B, X)
  PROVE  ~ Due(P, A, B)
<1> SUFFICES ASSUME NEW n \in 1 .. Len(P), P[n] \in B, \A k \in 1 .. (n - 1) : P[k] \notin A
             PROVE  FALSE
  BY DEF Due
<1>1. PICK m \in 1 .. (n - 1) : P[m] \in A
  BY DEF After
<1>2. QED
  BY <1>1

LEMMA CalmKeeps ==
  ASSUME NEW T, NEW p, NEW P, Obeys(P, MainOrders(T, p), CalmBs(p), CalmAs(p))
  PROVE  \A q \in Threads \X {p} : /\ Before(P, PollsAt(q), AnswersAt(q), PollsAt(q))
                                   /\ Between(P, AnswersAt(q), PollsAt(q), AnswersAt(q))
                                   /\ ~ Due(P, PollsAt(q), AnswersAt(q))
<1> SUFFICES ASSUME NEW q \in Threads \X {p}
             PROVE  /\ Before(P, PollsAt(q), AnswersAt(q), PollsAt(q))
                    /\ Between(P, AnswersAt(q), PollsAt(q), AnswersAt(q))
                    /\ ~ Due(P, PollsAt(q), AnswersAt(q))
  OBVIOUS
<1>1. P \in Seq(MainOrders(T, p))
  BY DEF Obeys
<1>2. Before(P, PollsAt(q), AnswersAt(q), PollsAt(q))
  <2>1. <<PollsAt(q), AnswersAt(q), PollsAt(q)>> \in CalmBs(p)
    BY DEF CalmBs
  <2>2. QED
    BY <2>1 DEF Obeys
<1>3. After(P, PollsAt(q), AnswersAt(q), AnswersAt(q))
  <2>1. <<PollsAt(q), AnswersAt(q), AnswersAt(q)>> \in CalmAs(p)
    BY DEF CalmAs
  <2>2. QED
    BY <2>1 DEF Obeys
<1>4. PollsAt(q) \cap AnswersAt(q) = {}
  BY DEF PollsAt, AnswersAt
<1>5. QED
  BY <1>1, <1>2, <1>3, <1>4, BetweenFromAfter, NextIsNot

LEMMA MainProgramKeeps ==
  ASSUME NEW T, NEW p, NEW P, MainProgram(T, p, P), T.class \notin {"Multicast", "MulticastLatency"}
  PROVE  MainKeeps(T, p, P) /\ \A q \in Threads \X {p} : ~ Due(P, PollsAt(q), AnswersAt(q))
<1>1. /\ Obeys(P, MainOrders(T, p), CalmBs(p), CalmAs(p))
      /\ Obeys(P, MainOrders(T, p), LaunchBs(T, p), LaunchAs(T, p))
  BY DEF MainProgram
<1>2. P \in Seq(MainOrders(T, p))
  BY <1>1 DEF Obeys
<1>3. Before(P, Notifies, Joins(T, p), MainOrders(T, p))
  <2>1. <<Notifies, Joins(T, p), MainOrders(T, p)>> \in LaunchBs(T, p)
    BY DEF LaunchBs
  <2>2. QED
    BY <1>1, <2>1 DEF Obeys
<1>4. Between(P, Notifies, Prepares(T), Launches(T, p))
  <2>1. <<Prepares(T), Launches(T, p), Notifies>> \in LaunchAs(T, p)
    BY DEF LaunchAs
  <2>2. After(P, Prepares(T), Launches(T, p), Notifies)
    BY <1>1, <2>1 DEF Obeys
  <2>3. Prepares(T) \cap Notifies = {}
    BY CalmIsApart
  <2>4. QED
    BY <1>2, <2>2, <2>3, BetweenFromAfter
<1>5. ASSUME NEW v \in Crew(T, p)
      PROVE  Between(P, LaunchesOf(T, p, v), Joins(T, p), LaunchesOf(T, p, v))
  <2>1. <<LaunchesOf(T, p, v), Joins(T, p), LaunchesOf(T, p, v)>> \in LaunchBs(T, p)
    BY DEF LaunchBs
  <2>2. Before(P, LaunchesOf(T, p, v), Joins(T, p), LaunchesOf(T, p, v))
    BY <1>1, <2>1 DEF Obeys
  <2>3. Joins(T, p) \cap LaunchesOf(T, p, v) = {}
    BY CalmIsApart DEF LaunchesOf
  <2>4. QED
    BY <1>2, <2>2, <2>3, BetweenFromBefore
<1>6. QED
  BY <1>1, <1>2, <1>3, <1>4, <1>5, CalmKeeps DEF MainKeeps

-----------------------------------------------------------------------------
(* The main threads of the tests. *)
LEMMA OpsAreLegal ==
  ASSUME NEW T
  PROVE  /\ \A k \in 1 .. Len(TwoSided) : TwoSided[k] \in T.operations => TwoSided[k] \in LegalOps(T)
         /\ T.class # "Latency" => \A k \in 1 .. Len(Atomics) : Atomics[k] \in LegalOps(T)
         /\ Len(TwoSided) \in Nat /\ Len(Atomics) \in Nat
         /\ T.class # "Latency" => "none" \in LegalOps(T)
BY DEF TwoSided, Atomics, LegalOps

LEMMA MainIf ==
  ASSUME NEW T, NEW p, NEW c, NEW P, c => MainProgram(T, p, P)
  PROVE  MainProgram(T, p, If(c, P))
BY ObeysIf DEF MainProgram

LEMMA MainCalm ==
  ASSUME NEW T, NEW p
  PROVE  /\ \A name \in {"startServer", "allConnected", "disconnected", "serve", "sleep", "user"} :
              MainProgram(T, p, Do(name))
         /\ MainProgram(T, p, << >>)
BY CalmPlain, CalmNothing, CalmIsMain

LEMMA LatencyServerMainProgram ==
  ASSUME NEW T, Deployed(T), NEW s \in Servers, T.class = "Latency"
  PROVE  MainProgram(T, s, LatencyServerMain(T, s))
<1> DEFINE C == ServerThreadsOf(T, s)
           phase(op) == (ReadyThreads(C, op) \o GlobalBarrierServer(T, s, TRUE)) \o RunThreads(C)
           body == [k \in 1 .. Len(TwoSided) |-> If(TwoSided[k] \in T.operations, phase(TwoSided[k]))]
<1>1. LatencyServerMain(T, s) = (Do("startServer") \o FlattenSeq(body)) \o Do("disconnected")
  BY DEF LatencyServerMain, Phases, Repeat, hasTestOperation
<1>2. C = Crew(T, s)
  BY RolesAssumption DEF Crew
<1>3. ASSUME NEW k \in 1 .. Len(TwoSided) PROVE MainProgram(T, s, body[k])
  <2>1. CASE TwoSided[k] \in T.operations
    BY <1>2, <2>1, OpsAreLegal, GlobalBarrierServerProgram, PhaseProgram, MainIf
  <2>2. CASE TwoSided[k] \notin T.operations
    BY <2>2, MainIf
  <2>3. QED
    BY <2>1, <2>2
<1>4. body = [k \in 1 .. Len(TwoSided) |-> body[k]]
  OBVIOUS
<1> HIDE DEF body
<1>5. MainProgram(T, s, FlattenSeq(body))
  BY <1>3, <1>4, OpsAreLegal, MainLoop
<1>6. QED
  BY <1>1, <1>5, MainCalm, MainConcat

LEMMA BandwidthServerMainProgram ==
  ASSUME NEW T, Deployed(T), NEW s \in Servers, T.class \in {"Bandwidth", "OperationsCount"}
  PROVE  MainProgram(T, s, BandwidthServerMain(T, s)) /\ MainProgram(T, s, OperationsCountServerMain(T, s))
<1> DEFINE C == ServerThreadsOf(T, s)
           phase(op) == ((ReadyThreads(C, op) \o GlobalBarrierServer(T, s, TRUE)) \o RunThreads(C))
                          \o EndBarrierServer(T, s, FALSE)
           body == [k \in 1 .. Len(TwoSided) |-> If(TwoSided[k] \in T.operations, phase(TwoSided[k]))]
<1>1. /\ BandwidthServerMain(T, s) = (Do("startServer") \o FlattenSeq(body)) \o Do("disconnected")
      /\ OperationsCountServerMain(T, s) =
           ((Do("startServer") \o Do("allConnected")) \o FlattenSeq(body)) \o Do("disconnected")
  BY DEF BandwidthServerMain, OperationsCountServerMain, Phases, Repeat, hasTestOperation
<1>2. C = Crew(T, s)
  BY RolesAssumption DEF Crew
<1>3. ASSUME NEW k \in 1 .. Len(TwoSided) PROVE MainProgram(T, s, body[k])
  <2>1. CASE TwoSided[k] \in T.operations
    <3>1. MainProgram(T, s, (ReadyThreads(C, TwoSided[k]) \o GlobalBarrierServer(T, s, TRUE)) \o RunThreads(C))
      BY <1>2, <2>1, OpsAreLegal, GlobalBarrierServerProgram, PhaseProgram
    <3>2. MainProgram(T, s, EndBarrierServer(T, s, FALSE))
      BY EndBarrierServerProgram, CalmIsMain
    <3>3. QED
      BY <3>1, <3>2, MainConcat, MainIf
  <2>2. CASE TwoSided[k] \notin T.operations
    BY <2>2, MainIf
  <2>3. QED
    BY <2>1, <2>2
<1>4. body = [k \in 1 .. Len(TwoSided) |-> body[k]]
  OBVIOUS
<1> HIDE DEF body
<1>5. MainProgram(T, s, FlattenSeq(body))
  BY <1>3, <1>4, OpsAreLegal, MainLoop
<1>6. QED
  BY <1>1, <1>5, MainCalm, MainConcat

LEMMA AtomicsServerMainProgram ==
  ASSUME NEW T, Deployed(T), NEW s \in Servers
  PROVE  /\ MainProgram(T, s, AtomicsBandwidthServerMain(T, s))
         /\ MainProgram(T, s, AtomicsLatencyServerMain(T, s))
<1> DEFINE n == Len(Atomics)
           one == [k \in 1 .. n |-> If(Atomics[k] \in T.operations,
                     GlobalBarrierServer(T, s, TRUE) \o EndBarrierServer(T, s, TRUE))]
           two == [k \in 1 .. n |-> If(Atomics[k] \in T.operations, GlobalBarrierServer(T, s, TRUE))]
<1>1. /\ AtomicsBandwidthServerMain(T, s) =
           ((Do("startServer") \o FlattenSeq(one)) \o Do("allConnected")) \o Do("disconnected")
      /\ AtomicsLatencyServerMain(T, s) =
           ((Do("startServer") \o FlattenSeq(two)) \o Do("allConnected")) \o Do("disconnected")
  BY DEF AtomicsBandwidthServerMain, AtomicsLatencyServerMain, Phases, Repeat, hasTestOperation
<1>2. MainProgram(T, s, GlobalBarrierServer(T, s, TRUE)) /\ MainProgram(T, s, EndBarrierServer(T, s, TRUE))
  BY GlobalBarrierServerProgram, EndBarrierServerProgram, CalmIsMain
<1>3. \A k \in 1 .. n : MainProgram(T, s, one[k]) /\ MainProgram(T, s, two[k])
  BY <1>2, MainConcat, MainIf
<1>4. one = [k \in 1 .. n |-> one[k]] /\ two = [k \in 1 .. n |-> two[k]] /\ n \in Nat
  BY OpsAreLegal
<1> HIDE DEF one, two, n
<1>5. MainProgram(T, s, FlattenSeq(one)) /\ MainProgram(T, s, FlattenSeq(two))
  BY <1>3, <1>4, MainLoop
<1>6. QED
  BY <1>1, <1>5, MainCalm, MainConcat

LEMMA OldServerMainProgram ==
  ASSUME NEW T, NEW s
  PROVE  MainProgram(T, s, OldServerMain(T, s))
BY MainCalm, MainConcat DEF OldServerMain

LEMMA SetupClientProgram ==
  ASSUME NEW T, Deployed(T), NEW c \in Clients
  PROVE  /\ MainProgram(T, c, SetupClient(T, c, LatencyClientThread))
         /\ MainProgram(T, c, SetupClient(T, c, BandwidthClientThread))
         /\ MainProgram(T, c, SetupClient(T, c, OperationsCountClientThread))
         /\ MainProgram(T, c, SetupClient(T, c, AtomicsBandwidthClientThread))
         /\ MainProgram(T, c, SetupClient(T, c, AtomicsOperationsCountClientThread))
         /\ MainProgram(T, c, SetupClient(T, c, AtomicsLatencyClientThread))
<1> DEFINE n == T.threads
           one == [k \in 1 .. n |-> OnEach(T, <<c, k>>, "connect") \o OnEach(T, <<c, k>>, "identify")]
           two == [k \in 1 .. n |-> OnEach(T, <<c, k>>, "connect")]
<1>1. /\ SetupClient(T, c, LatencyClientThread) = FlattenSeq(one)
      /\ SetupClient(T, c, BandwidthClientThread) = FlattenSeq(one)
      /\ SetupClient(T, c, OperationsCountClientThread) = FlattenSeq(one)
      /\ SetupClient(T, c, AtomicsBandwidthClientThread) = FlattenSeq(two)
      /\ SetupClient(T, c, AtomicsOperationsCountClientThread) = FlattenSeq(two)
      /\ SetupClient(T, c, AtomicsLatencyClientThread) = FlattenSeq(two)
  BY DEF SetupClient, LatencyClientThread, BandwidthClientThread, OperationsCountClientThread,
         AtomicsBandwidthClientThread, AtomicsOperationsCountClientThread, AtomicsLatencyClientThread,
         OnEach, EachServer, Repeat
<1>2. n \in Nat /\ \A k \in 1 .. n : <<c, k>> \in Threads
  BY DeployedFinite DEF Threads
<1>3. \A k \in 1 .. n : CalmProgram(T, c, one[k]) /\ CalmProgram(T, c, two[k])
  BY <1>2, CalmConnects, CalmConcat
<1>4. one = [k \in 1 .. n |-> one[k]] /\ two = [k \in 1 .. n |-> two[k]]
  OBVIOUS
<1> HIDE DEF one, two, n
<1>5. CalmProgram(T, c, FlattenSeq(one)) /\ CalmProgram(T, c, FlattenSeq(two))
  BY <1>2, <1>3, <1>4, CalmLoop
<1>6. QED
  BY <1>1, <1>5, CalmIsMain

LEMMA TwoSidedClientMainProgram ==
  ASSUME NEW T, Deployed(T), NEW c \in Clients
  PROVE  /\ MainProgram(T, c, LatencyClientMain(T, c))
         /\ MainProgram(T, c, BandwidthClientMain(T, c))
         /\ MainProgram(T, c, OperationsCountClientMain(T, c))
<1> DEFINE C == ThreadsOf(T, c)
           n == Len(TwoSided)
           one == [k \in 1 .. n |-> If(TwoSided[k] \in T.operations,
                     (ReadyThreads(C, TwoSided[k]) \o Do("sleep")) \o RunThreads(C))]
           two == [k \in 1 .. n |-> If(TwoSided[k] \in T.operations,
                     (ReadyThreads(C, TwoSided[k]) \o If(TwoSided[k] # "READ", Do("sleep"))) \o RunThreads(C))]
<1>1. /\ LatencyClientMain(T, c) = SetupClient(T, c, LatencyClientThread) \o FlattenSeq(one)
      /\ BandwidthClientMain(T, c) = SetupClient(T, c, BandwidthClientThread) \o FlattenSeq(two)
      /\ OperationsCountClientMain(T, c) = SetupClient(T, c, OperationsCountClientThread) \o FlattenSeq(two)
  BY DEF LatencyClientMain, BandwidthClientMain, OperationsCountClientMain, Phases, Repeat, hasTestOperation
<1>2. C = Crew(T, c)
  BY DEF Crew
<1>3. ASSUME NEW k \in 1 .. n PROVE MainProgram(T, c, one[k]) /\ MainProgram(T, c, two[k])
  <2>1. CASE TwoSided[k] \in T.operations
    <3>1. CalmProgram(T, c, Do("sleep")) /\ CalmProgram(T, c, If(TwoSided[k] # "READ", Do("sleep")))
      BY CalmPlain, CalmIf
    <3>2. TwoSided[k] \in LegalOps(T)
      BY <2>1, OpsAreLegal
    <3>3. /\ MainProgram(T, c, (ReadyThreads(C, TwoSided[k]) \o Do("sleep")) \o RunThreads(C))
          /\ MainProgram(T, c, (ReadyThreads(C, TwoSided[k]) \o If(TwoSided[k] # "READ", Do("sleep"))) \o RunThreads(C))
      BY <1>2, <3>1, <3>2, PhaseProgram
    <3>4. QED
      BY <3>3, MainIf
  <2>2. CASE TwoSided[k] \notin T.operations
    BY <2>2, MainIf
  <2>3. QED
    BY <2>1, <2>2
<1>4. one = [k \in 1 .. n |-> one[k]] /\ two = [k \in 1 .. n |-> two[k]] /\ n \in Nat
  BY OpsAreLegal
<1> HIDE DEF one, two, n
<1>5. MainProgram(T, c, FlattenSeq(one)) /\ MainProgram(T, c, FlattenSeq(two))
  BY <1>3, <1>4, MainLoop
<1>6. QED
  BY <1>1, <1>5, SetupClientProgram, MainConcat

LEMMA AtomicsClientMainProgram ==
  ASSUME NEW T, Deployed(T), NEW c \in Clients, T.class # "Latency"
  PROVE  /\ MainProgram(T, c, AtomicsBandwidthClientMain(T, c))
         /\ MainProgram(T, c, AtomicsOperationsCountClientMain(T, c))
         /\ MainProgram(T, c, AtomicsLatencyClientMain(T, c))
<1> DEFINE C == ThreadsOf(T, c)
           n == Len(Atomics)
           body == [k \in 1 .. n |-> If(Atomics[k] \in T.operations, ReadyThreads(C, Atomics[k]) \o RunThreads(C))]
<1>1. /\ AtomicsBandwidthClientMain(T, c) = SetupClient(T, c, AtomicsBandwidthClientThread) \o FlattenSeq(body)
      /\ AtomicsOperationsCountClientMain(T, c) =
           SetupClient(T, c, AtomicsOperationsCountClientThread) \o FlattenSeq(body)
      /\ AtomicsLatencyClientMain(T, c) = SetupClient(T, c, AtomicsLatencyClientThread) \o FlattenSeq(body)
  BY DEF AtomicsBandwidthClientMain, AtomicsOperationsCountClientMain, AtomicsLatencyClientMain,
         AtomicsClientMain, Phases, Repeat, hasTestOperation
<1>2. C = Crew(T, c)
  BY DEF Crew
<1>3. ASSUME NEW k \in 1 .. n PROVE MainProgram(T, c, body[k])
  BY <1>2, OpsAreLegal, ShortPhaseProgram, MainIf
<1>4. body = [k \in 1 .. n |-> body[k]] /\ n \in Nat
  BY OpsAreLegal
<1> HIDE DEF body, n
<1>5. MainProgram(T, c, FlattenSeq(body))
  BY <1>3, <1>4, MainLoop
<1>6. QED
  BY <1>1, <1>5, SetupClientProgram, MainConcat

(* The old tests start each thread once. *)
None(P, A) == \A k \in 1 .. Len(P) : P[k] \notin A
Once(P, A) == \A j, k \in 1 .. Len(P) : P[j] \in A /\ P[k] \in A => j = k

LEMMA NoneOf ==
  ASSUME NEW S, NEW P \in Seq(S), NEW A, S \cap A = {}
  PROVE  None(P, A) /\ Once(P, A)
<1>1. \A k \in 1 .. Len(P) : P[k] \in S
  OBVIOUS
<1>2. QED
  BY <1>1 DEF None, Once

LEMMA OnceConcat ==
  ASSUME NEW S, NEW P \in Seq(S), NEW Q \in Seq(S), NEW A, Once(P, A), Once(Q, A),
         None(P, A) \/ None(Q, A)
  PROVE  /\ Once(P \o Q, A)
         /\ None(P, A) /\ None(Q, A) => None(P \o Q, A)
<1> DEFINE R == P \o Q
<1>1. PICK l \in Nat : l = Len(P)
  OBVIOUS
<1>2. PICK m \in Nat : m = Len(Q)
  OBVIOUS
<1>3. Len(R) = l + m /\ (\A k \in 1 .. l : R[k] = P[k]) /\ \A k \in 1 .. m : R[l + k] = Q[k]
  BY <1>1, <1>2
<1> HIDE DEF R
<1>4. \A k \in 1 .. Len(R) : k \in 1 .. l \/ \E j \in 1 .. m : k = l + j
  <2> TAKE k \in 1 .. Len(R)
  <2>1. CASE k > l
    <3>1. k - l \in 1 .. m /\ k = l + (k - l)
      BY <1>3, <2>1
    <3>2. QED
      BY <3>1
  <2>2. QED
    BY <2>1
<1>5. CASE None(P, A)
  <2>1. \A k \in 1 .. Len(R) : R[k] \in A => \E j \in 1 .. m : k = l + j /\ Q[j] \in A
    BY <1>1, <1>3, <1>4, <1>5 DEF None
  <2>2. Once(R, A)
    BY <1>2, <2>1 DEF Once
  <2>3. None(Q, A) => None(R, A)
    BY <1>2, <2>1 DEF None
  <2>4. QED
    BY <2>2, <2>3 DEF R
<1>6. CASE None(Q, A)
  <2>1. \A k \in 1 .. Len(R) : R[k] \in A => k \in 1 .. l /\ P[k] \in A
    BY <1>2, <1>3, <1>4, <1>6 DEF None
  <2>2. Once(R, A)
    BY <1>1, <2>1 DEF Once
  <2>3. None(P, A) => None(R, A)
    BY <1>1, <2>1 DEF None
  <2>4. QED
    BY <2>2, <2>3 DEF R
<1>7. QED
  BY <1>5, <1>6

LEMMA OnceFlatten ==
  ASSUME NEW S, NEW n \in Nat, NEW body \in [1 .. n -> Seq(S)], NEW A, NEW r,
         \A i \in 1 .. n : Once(body[i], A) /\ (i # r => None(body[i], A))
  PROVE  Once(FlattenSeq(body), A)
<1>1. CASE n = 0
  <2>1. FlattenSeq(body) = << >>
    BY <1>1, FlattenIs
  <2>2. Len(<< >>) = 0
    OBVIOUS
  <2>3. QED
    BY <2>1, <2>2 DEF Once
<1>2. CASE n # 0
  <2>1. PICK f : Flattening(f, body, n) /\ FlattenSeq(body) = f[n]
    BY <1>2, FlattenIs, Zenon
  <2> DEFINE Good(m) == /\ f[m] \in Seq(S)
                        /\ Once(f[m], A)
                        /\ (\A i \in 1 .. m : i # r) => None(f[m], A)
             T == {m \in 1 .. n : ~ Good(m)}
  <2>2. \A i \in 1 .. n : f[i] = IF i = 1 THEN body[i] ELSE f[i - 1] \o body[i]
    BY <2>1, Zenon DEF Flattening
  <2>3. ASSUME NEW m \in 1 .. n, m # 1 => Good(m - 1)
        PROVE  Good(m)
    <3>1. CASE m = 1
      <4>1. f[m] = body[1] /\ body[1] \in Seq(S)
        BY <2>2, <3>1
      <4>2. QED
        BY <3>1, <4>1
    <3>2. CASE m # 1
      <4> DEFINE u == f[m - 1]  v == body[m]
      <4>1. Good(m - 1) /\ m - 1 \in 1 .. n
        BY <2>3, <3>2
      <4>2. f[m] = u \o v /\ v \in Seq(S) /\ u \in Seq(S)
        BY <2>2, <3>2, <4>1
      <4>3. Once(u, A) /\ Once(v, A) /\ (m # r => None(v, A)) /\ ((\A i \in 1 .. (m - 1) : i # r) => None(u, A))
        BY <4>1
      <4>4. None(u, A) \/ None(v, A)
        <5>1. CASE m = r
          <6>1. \A i \in 1 .. (m - 1) : i # r
            BY <5>1
          <6>2. QED
            BY <4>3, <6>1
        <5>2. QED
          BY <4>3, <5>1
      <4> HIDE DEF u, v, Good
      <4>5. u \o v \in Seq(S) /\ Once(u \o v, A) /\ (None(u, A) /\ None(v, A) => None(u \o v, A))
        BY <4>2, <4>3, <4>4, OnceConcat
      <4>6. (\A i \in 1 .. m : i # r) => None(u \o v, A)
        <5> SUFFICES ASSUME \A i \in 1 .. m : i # r PROVE None(u \o v, A)
          OBVIOUS
        <5>1. m # r /\ \A i \in 1 .. (m - 1) : i # r
          OBVIOUS
        <5>2. QED
          BY <4>3, <4>5, <5>1
      <4>7. QED
        BY <4>2, <4>5, <4>6 DEF Good
    <3>3. QED
      BY <3>1, <3>2
  <2>4. T = {}
    <3> SUFFICES ASSUME T # {} PROVE FALSE
      OBVIOUS
    <3> HIDE DEF Good
    <3>1. PICK m \in T : \A k \in T : m <= k
      <4> T \in SUBSET Nat
        OBVIOUS
      <4> HIDE DEF T
      <4> QED
        BY FirstNumber
    <3>2. m # 1 => m - 1 \in 1 .. n /\ m - 1 \notin T
      BY <3>1
    <3>3. QED
      BY <2>3, <3>1, <3>2
  <2>5. n \in 1 .. n /\ n \notin T
    <3> HIDE DEF T
    <3> QED
      BY <1>2, <2>4
  <2>6. Good(n)
    <3> HIDE DEF Good
    <3> QED BY <2>5
  <2>7. QED
    BY <2>1, <2>6
<1>3. QED
  BY <1>1, <1>2

LEMMA SplitBetween ==
  ASSUME NEW S, NEW R, NEW P \in Seq(S), NEW Q \in Seq(R), NEW A, NEW B, NEW C,
         S \cap A = {}, R \cap C = {}
  PROVE  Between(P \o Q, A, B, C)
<1> DEFINE W == P \o Q
<1>1. PICK l \in Nat : l = Len(P)
  OBVIOUS
<1>2. PICK m \in Nat : m = Len(Q)
  OBVIOUS
<1>3. Len(W) = l + m /\ (\A k \in 1 .. l : W[k] \in S) /\ \A k \in 1 .. m : W[l + k] \in R
  <2>1. P \in Seq(S \cup R) /\ Q \in Seq(S \cup R)
    OBVIOUS
  <2>2. Len(W) = l + m /\ (\A k \in 1 .. l : W[k] = P[k]) /\ \A k \in 1 .. m : W[l + k] = Q[k]
    BY <1>1, <1>2, <2>1
  <2>3. (\A k \in 1 .. l : P[k] \in S) /\ \A k \in 1 .. m : Q[k] \in R
    BY <1>1, <1>2
  <2>4. QED
    BY <2>2, <2>3
<1> HIDE DEF W
<1>4. ASSUME NEW i \in 1 .. Len(W), NEW j \in 1 .. Len(W), i < j, W[i] \in A, W[j] \in C
      PROVE  FALSE
  <2>1. i > l
    BY <1>3, <1>4
  <2>2. j - l \in 1 .. m /\ j = l + (j - l)
    BY <1>3, <1>4, <2>1
  <2>3. W[j] \in R
    BY <1>3, <2>2, Zenon
  <2>4. QED
    BY <1>4, <2>3
<1>5. QED
  BY <1>4 DEF Between, W

LEMMA OnceBetween ==
  ASSUME NEW S, NEW P \in Seq(S), NEW A, NEW B, Once(P, A)
  PROVE  Between(P, A, B, A)
BY DEF Once, Between

(* A client has no polls in its main thread. *)
LEMMA ClientIsCalm ==
  ASSUME NEW T, NEW c \in Clients, NEW P \in Seq(MainOrders(T, c))
  PROVE  Obeys(P, MainOrders(T, c), CalmBs(c), CalmAs(c))
<1>1. c \notin Servers
  BY RolesAssumption
<1>2. \A x \in MainOrders(T, c) : x.do \notin {"poll", "message"}
  BY <1>1 DEF MainOrders, CalmOrders, Prepares, Launches, Notifies, Joins
<1>3. \A q : \A x \in PollsAt(q) \cup AnswersAt(q) : x.do \in {"poll", "message"}
  BY DEF PollsAt, AnswersAt
<1>4. MainOrders(T, c) \subseteq Free(MainOrders(T, c), CalmBs(c), CalmAs(c))
  <2> SUFFICES ASSUME NEW x \in MainOrders(T, c) PROVE x \in Free(MainOrders(T, c), CalmBs(c), CalmAs(c))
    OBVIOUS
  <2>1. \A q : x \notin PollsAt(q) /\ x \notin AnswersAt(q)
    BY <1>2, <1>3
  <2>2. ASSUME NEW r \in CalmBs(c) PROVE x \notin r[1]
    BY <2>1 DEF CalmBs
  <2>3. ASSUME NEW r \in CalmAs(c) PROVE x \notin r[2]
    BY <2>1 DEF CalmAs
  <2>4. QED
    BY <2>2, <2>3 DEF Free
<1>5. P \in Seq(Free(MainOrders(T, c), CalmBs(c), CalmAs(c)))
  BY <1>4
<1>6. QED
  BY <1>5, ObeysFree

(* A worker is started among calm. *)
LEMMA OneLaunch ==
  ASSUME NEW T, Deployed(T), T.class # "Latency", NEW c \in Clients, NEW k \in 1 .. T.threads,
         NEW X \in Seq(CalmOrders(T, c)), NEW Y \in Seq(CalmOrders(T, c))
  PROVE  LET P == (X \o Launch({<<c, k>>}, "none")) \o Y
         IN /\ P \in Seq(CalmOrders(T, c) \cup Launches(T, c))
            /\ \A v : /\ Once(P, LaunchesOf(T, c, v))
                      /\ v # <<c, k>> => None(P, LaunchesOf(T, c, v))
<1> DEFINE la == [do |-> "launch", workers |-> {<<c, k>>}, op |-> "none"]
           C == CalmOrders(T, c)  L == Launches(T, c)
           S == C \cup L
           P == (X \o << la >>) \o Y
<1>1. la \in L
  <2>1. <<c, k>> \in Crew(T, c)
    BY DEF Crew, ThreadsOf
  <2>2. "none" \in LegalOps(T)
    BY OpsAreLegal
  <2>3. QED
    BY <2>1, <2>2 DEF Launches
<1>2. \A v : /\ LaunchesOf(T, c, v) \subseteq L
             /\ v # <<c, k>> => la \notin LaunchesOf(T, c, v)
  BY DEF LaunchesOf
<1>3. C \cap L = {}
  BY CalmIsApart
<1>4. Launch({<<c, k>>}, "none") = << la >>
  BY DEF Launch
<1> HIDE DEF la, C, L
<1>5. X \in Seq(S) /\ Y \in Seq(S) /\ << la >> \in Seq(S) /\ X \o << la >> \in Seq(S)
  <2>1. X \in Seq(C) /\ Y \in Seq(C) /\ C \subseteq S /\ la \in S
    BY <1>1 DEF C
  <2> HIDE DEF S
  <2>2. X \in Seq(S) /\ Y \in Seq(S) /\ << la >> \in Seq(S)
    BY <2>1
  <2>3. QED
    BY <2>2
<1>6. ASSUME NEW v
      PROVE  /\ Once(P, LaunchesOf(T, c, v))
             /\ v # <<c, k>> => None(P, LaunchesOf(T, c, v))
  <2> DEFINE A == LaunchesOf(T, c, v)
  <2>1. C \cap A = {} /\ (v # <<c, k>> => la \notin A)
    BY <1>2, <1>3
  <2> HIDE DEF A
  <2>2. None(X, A) /\ Once(X, A) /\ None(Y, A) /\ Once(Y, A)
    BY <2>1, NoneOf DEF C
  <2>3. Len(<< la >>) = 1 /\ << la >>[1] = la
    OBVIOUS
  <2>4. Once(<< la >>, A) /\ (v # <<c, k>> => None(<< la >>, A))
    BY <2>1, <2>3 DEF Once, None
  <2>5. Once(X \o << la >>, A) /\ (v # <<c, k>> => None(X \o << la >>, A))
    BY <1>5, <2>2, <2>4, OnceConcat
  <2>6. Once(P, A) /\ (v # <<c, k>> => None(P, A))
    BY <1>5, <2>2, <2>5, OnceConcat
  <2>7. QED
    BY <2>6 DEF A
<1>7. P \in Seq(S)
  BY <1>5
<1>8. QED
  BY <1>4, <1>6, <1>7 DEF C, L

LEMMA LaunchLoop ==
  ASSUME NEW T, Deployed(T), NEW c \in Clients, NEW body, body = [k \in 1 .. T.threads |-> body[k]],
         \A k \in 1 .. T.threads :
           /\ body[k] \in Seq(CalmOrders(T, c) \cup Launches(T, c))
           /\ \A v : /\ Once(body[k], LaunchesOf(T, c, v))
                     /\ v # <<c, k>> => None(body[k], LaunchesOf(T, c, v))
  PROVE  /\ FlattenSeq(body) \in Seq(CalmOrders(T, c) \cup Launches(T, c))
         /\ \A v \in Crew(T, c) : Once(FlattenSeq(body), LaunchesOf(T, c, v))
<1> DEFINE S == CalmOrders(T, c) \cup Launches(T, c)
           n == T.threads
<1>1. n \in Nat
  BY DeployedFinite
<1>2. body \in [1 .. n -> Seq(S)]
  OBVIOUS
<1>3. \A v \in Crew(T, c) : v = <<c, v[2]>>
  BY DEF Crew, ThreadsOf
<1> HIDE DEF S, n
<1>4. FlattenSeq(body) \in Seq(S)
  BY <1>1, <1>2, FlattenRounds
<1>5. ASSUME NEW v \in Crew(T, c) PROVE Once(FlattenSeq(body), LaunchesOf(T, c, v))
  <2>1. \A k : k # v[2] => v # <<c, k>>
    BY <1>3
  <2>2. \A k \in 1 .. n : Once(body[k], LaunchesOf(T, c, v))
                          /\ (k # v[2] => None(body[k], LaunchesOf(T, c, v)))
    BY <2>1 DEF n
  <2>3. QED
    BY <1>1, <1>2, <2>2, OnceFlatten, ZenonT(40)
<1>6. QED
  BY <1>4, <1>5 DEF S

(* Threads started once each, told to go on, and waited for. *)
LEMMA OldClientKeeps ==
  ASSUME NEW T, NEW c \in Clients, NEW U \in Seq(CalmOrders(T, c) \cup Launches(T, c)),
         \A v \in Crew(T, c) : Once(U, LaunchesOf(T, c, v))
  PROVE  LET P == U \o RunThreads(Crew(T, c))
         IN MainKeeps(T, c, P) /\ \A q \in Threads \X {c} : ~ Due(P, PollsAt(q), AnswersAt(q))
<1> DEFINE M == MainOrders(T, c)
           no == [do |-> "notify"]
           jo == [do |-> "join", workers |-> Crew(T, c)]
           A == Prepares(T)  L == Launches(T, c)  N == Notifies  J == Joins(T, c)
           C == CalmOrders(T, c)
           Z == << no >> \o << jo >>
           P == U \o Z
<1>1. RunThreads(Crew(T, c)) = Z
  BY DEF RunThreads, Do
<1>2. no \in N /\ jo \in J
  BY DEF Notifies, Joins
<1>3. C \cup L \subseteq M /\ N \subseteq M /\ J \subseteq M
  BY DEF MainOrders
<1>4. /\ (C \cup L) \cap N = {} /\ (N \cup J) \cap L = {} /\ N \cap J = {}
  BY CalmIsApart
<1>5. \A v : LaunchesOf(T, c, v) \subseteq L
  BY DEF LaunchesOf
<1>6. c \notin Servers
  BY RolesAssumption
<1> HIDE DEF M, no, jo, A, L, N, J, C
<1>7. << no >> \in Seq(N \cup J) /\ << jo >> \in Seq(N \cup J) /\ << no >> \in Seq(M) /\ << jo >> \in Seq(M)
  BY <1>2, <1>3
<1>8. Z \in Seq(N \cup J) /\ Z \in Seq(M)
  BY <1>7
<1>9. U \in Seq(C \cup L) /\ U \in Seq(M)
  BY <1>3 DEF C, L
<1>10. Before(Z, N, J, M)
  <2>1. Before(<< no >> \o << >> \o << jo >>, N, J, M)
    <3>1. no \in N \ J /\ jo \in J \ N
      BY <1>2, <1>4
    <3>2. << >> \in Seq({})
      OBVIOUS
    <3>3. {} \cap (N \cup J \cup M) = {}
      OBVIOUS
    <3>4. QED
      BY <3>1, <3>2, <3>3, Enclosed
  <2>2. << no >> \o << >> = << no >>
    OBVIOUS
  <2>3. QED
    BY <2>1, <2>2
<1> HIDE DEF Z, P
<1>11. P \in Seq(M)
  BY <1>8, <1>9 DEF P
<1>12. Before(P, N, J, M)
  <2>1. Before(U, N, J, M)
    BY <1>4, <1>9, BeforeNone
  <2>2. QED
    BY <1>8, <1>9, <1>10, <2>1, BeforeConcat DEF P
<1>13. Between(P, N, A, L)
  BY <1>4, <1>8, <1>9, SplitBetween DEF P
<1>14. ASSUME NEW v \in Crew(T, c) PROVE Between(P, LaunchesOf(T, c, v), J, LaunchesOf(T, c, v))
  <2>1. (N \cup J) \cap LaunchesOf(T, c, v) = {}
    BY <1>4, <1>5
  <2>2. None(Z, LaunchesOf(T, c, v)) /\ Once(Z, LaunchesOf(T, c, v))
    BY <1>8, <2>1, NoneOf
  <2>3. Once(P, LaunchesOf(T, c, v))
    BY <1>8, <1>9, <2>2, OnceConcat DEF P
  <2>4. QED
    BY <1>11, <2>3, OnceBetween
<1>15. Obeys(P, M, CalmBs(c), CalmAs(c))
  BY <1>11, ClientIsCalm DEF M
<1>16. \A q \in Threads \X {c} : /\ Before(P, PollsAt(q), AnswersAt(q), PollsAt(q))
                                 /\ Between(P, AnswersAt(q), PollsAt(q), AnswersAt(q))
                                 /\ ~ Due(P, PollsAt(q), AnswersAt(q))
  BY <1>15, CalmKeeps DEF M
<1>17. MainKeeps(T, c, P)
  BY <1>6, <1>11, <1>12, <1>13, <1>14, <1>16 DEF MainKeeps, M, N, J, A, L
<1>18. QED
  BY <1>1, <1>16, <1>17 DEF P

LEMMA ConnectsType ==
  ASSUME NEW T, Deployed(T), NEW c \in Clients, NEW k \in 1 .. T.threads
  PROVE  /\ OnEach(T, <<c, k>>, "connect") \in Seq(CalmOrders(T, c))
         /\ On("connect", AtClient(<<c, k>>, T.servers[1])) \in Seq(CalmOrders(T, c))
<1>1. <<c, k>> \in Threads
  BY DeployedFinite DEF Threads
<1>2. CalmProgram(T, c, OnEach(T, <<c, k>>, "connect"))
  BY <1>1, CalmConnects
<1>3. AtClient(<<c, k>>, T.servers[1]) \in LinkEnds
  <2>1. T.servers[1] \in Servers
    BY DEF Deployed
  <2>2. QED
    BY <1>1, <2>1 DEF AtClient, LinkEnds, Connections
<1>4. CalmProgram(T, c, On("connect", AtClient(<<c, k>>, T.servers[1])))
  BY <1>3, CalmConnect
<1>5. QED
  BY <1>2, <1>4 DEF CalmProgram, Obeys

LEMMA UserAndLoop ==
  ASSUME NEW T, NEW c, NEW F \in Seq(CalmOrders(T, c) \cup Launches(T, c)),
         \A v \in Crew(T, c) : Once(F, LaunchesOf(T, c, v))
  PROVE  /\ Do("user") \o F \in Seq(CalmOrders(T, c) \cup Launches(T, c))
         /\ \A v \in Crew(T, c) : Once(Do("user") \o F, LaunchesOf(T, c, v))
         /\ F \o Do("user") \in Seq(CalmOrders(T, c) \cup Launches(T, c))
         /\ \A v \in Crew(T, c) : Once(F \o Do("user"), LaunchesOf(T, c, v))
<1> DEFINE C == CalmOrders(T, c)  L == Launches(T, c)  S == C \cup L  D == Do("user")
<1>1. D \in Seq(C)
  BY CalmPlain DEF CalmProgram, Obeys
<1>2. C \cap L = {} /\ \A v : LaunchesOf(T, c, v) \subseteq L
  BY CalmIsApart DEF LaunchesOf
<1>3. C \subseteq S /\ F \in Seq(S)
  OBVIOUS
<1> HIDE DEF C, S, D, L
<1>4. D \in Seq(S)
  BY <1>1, <1>3
<1>5. \A v : None(D, LaunchesOf(T, c, v)) /\ Once(D, LaunchesOf(T, c, v))
  <2> TAKE v
  <2>1. C \cap LaunchesOf(T, c, v) = {}
    BY <1>2
  <2>2. QED
    BY <1>1, <2>1, NoneOf
<1>6. D \o F \in Seq(S) /\ F \o D \in Seq(S)
  BY <1>3, <1>4
<1>7. \A v \in Crew(T, c) : Once(D \o F, LaunchesOf(T, c, v)) /\ Once(F \o D, LaunchesOf(T, c, v))
  BY <1>3, <1>4, <1>5, OnceConcat
<1>8. QED
  BY <1>6, <1>7 DEF C, L, S, D

LEMMA OldClientMainKeeps ==
  ASSUME NEW T, Deployed(T), T.class # "Latency", NEW c \in Clients,
         NEW P \in {MulticastClientMain(T, c), RemoteMemoryClientMain(T, c), FetchAndAddClientMain(T, c)}
  PROVE  MainKeeps(T, c, P) /\ \A q \in Threads \X {c} : ~ Due(P, PollsAt(q), AnswersAt(q))
<1> DEFINE n == T.threads
           one == [k \in 1 .. n |-> OnEach(T, <<c, k>>, "connect") \o Launch({<<c, k>>}, "none")]
           two == [k \in 1 .. n |-> (On("connect", AtClient(<<c, k>>, T.servers[1]))
                                       \o Launch({<<c, k>>}, "none")) \o AllReady({<<c, k>>})]
           R == RunThreads(ThreadsOf(T, c))
           D == Do("user")
           C == CalmOrders(T, c)  L == Launches(T, c)
<1>1. /\ MulticastClientMain(T, c) = (D \o FlattenSeq(one)) \o R
      /\ RemoteMemoryClientMain(T, c) = (FlattenSeq(one) \o D) \o R
      /\ FetchAndAddClientMain(T, c) = (FlattenSeq(two) \o D) \o R
  BY DEF MulticastClientMain, RemoteMemoryClientMain, FetchAndAddClientMain, MCClientPerfThread,
         RemoteMemoryPerfThread, FetchAndAddPerfThread, OnEach, EachServer, Repeat
<1>2. ThreadsOf(T, c) = Crew(T, c)
  BY DEF Crew
<1>3. ASSUME NEW k \in 1 .. n
      PROVE  /\ one[k] \in Seq(C \cup L)
             /\ \A v : /\ Once(one[k], LaunchesOf(T, c, v))
                       /\ v # <<c, k>> => None(one[k], LaunchesOf(T, c, v))
  <2> DEFINE X == OnEach(T, <<c, k>>, "connect")  K == Launch({<<c, k>>}, "none")
             W == (X \o K) \o << >>
  <2>1. X \in Seq(C) /\ << >> \in Seq(C)
    BY ConnectsType
  <2>2. /\ W \in Seq(C \cup L)
        /\ \A v : /\ Once(W, LaunchesOf(T, c, v))
                  /\ v # <<c, k>> => None(W, LaunchesOf(T, c, v))
    BY <2>1, OneLaunch
  <2>3. K \in Seq({[do |-> "launch", workers |-> {<<c, k>>}, op |-> "none"]})
    BY DEF Launch
  <2>4. W = X \o K
    <3> DEFINE B == {[do |-> "launch", workers |-> {<<c, k>>}, op |-> "none"]}
    <3>1. X \in Seq(C) /\ K \in Seq(B)
      BY <2>1, <2>3
    <3> HIDE DEF X, K, B, C
    <3>2. X \in Seq(C \cup B) /\ K \in Seq(C \cup B)
      BY <3>1
    <3>3. QED
      BY <3>2
  <2>5. one[k] = X \o K
    OBVIOUS
  <2> HIDE DEF W, X, K, one, C, L
  <2>6. QED
    BY <2>2, <2>4, <2>5
<1>4. ASSUME NEW k \in 1 .. n
      PROVE  /\ two[k] \in Seq(C \cup L)
             /\ \A v : /\ Once(two[k], LaunchesOf(T, c, v))
                       /\ v # <<c, k>> => None(two[k], LaunchesOf(T, c, v))
  <2> DEFINE X == On("connect", AtClient(<<c, k>>, T.servers[1]))  Y == AllReady({<<c, k>>})
  <2>1. X \in Seq(C)
    BY ConnectsType
  <2>2. Y \in Seq(C)
    <3>1. {<<c, k>>} \in SUBSET Crew(T, c)
      BY <1>2 DEF ThreadsOf
    <3>2. CalmProgram(T, c, Y)
      BY <3>1, CalmReady
    <3>3. QED
      BY <3>2 DEF CalmProgram, Obeys
  <2> DEFINE W == (X \o Launch({<<c, k>>}, "none")) \o Y
  <2>3. /\ W \in Seq(C \cup L)
        /\ \A v : /\ Once(W, LaunchesOf(T, c, v))
                  /\ v # <<c, k>> => None(W, LaunchesOf(T, c, v))
    BY <2>1, <2>2, OneLaunch
  <2>4. two[k] = W
    OBVIOUS
  <2> HIDE DEF W, two
  <2>5. QED
    BY <2>3, <2>4
<1>5. one = [k \in 1 .. n |-> one[k]] /\ two = [k \in 1 .. n |-> two[k]]
  OBVIOUS
<1> HIDE DEF one, two
<1>6. /\ FlattenSeq(one) \in Seq(C \cup L) /\ FlattenSeq(two) \in Seq(C \cup L)
      /\ \A v \in Crew(T, c) : /\ Once(FlattenSeq(one), LaunchesOf(T, c, v))
                               /\ Once(FlattenSeq(two), LaunchesOf(T, c, v))
  BY <1>3, <1>4, <1>5, LaunchLoop
<1>7. PICK U \in {D \o FlattenSeq(one), FlattenSeq(one) \o D, FlattenSeq(two) \o D} : P = U \o R
  BY <1>1
<1>8. U \in Seq(C \cup L) /\ \A v \in Crew(T, c) : Once(U, LaunchesOf(T, c, v))
  BY <1>6, UserAndLoop
<1>9. QED
  BY <1>2, <1>7, <1>8, OldClientKeeps

LEMMA MulticastServerMainKeeps ==
  ASSUME NEW T, Deployed(T), NEW s \in Servers, T.class \in {"Multicast", "MulticastLatency"}
  PROVE  /\ MainKeeps(T, s, MulticastServerMain(T, s))
         /\ \A q \in Threads \X {s} : ~ Due(MulticastServerMain(T, s), PollsAt(q), AnswersAt(q))
<1> DEFINE M == MainOrders(T, s)
           st == [do |-> "startServer"]
           la == [do |-> "launch", workers |-> {MulticastWorker(s)}, op |-> "none"]
           jo == [do |-> "join", workers |-> {MulticastWorker(s)}]
           A == Prepares(T)  L == Launches(T, s)  N == Notifies  J == Joins(T, s)
           C == CalmOrders(T, s)
           P == (<< st >> \o << la >>) \o << jo >>
<1>1. MulticastServerMain(T, s) = P
  BY DEF MulticastServerMain, Do, Launch
<1>2. Crew(T, s) = {MulticastWorker(s)}
  BY RolesAssumption DEF Crew
<1>3. "none" \in LegalOps(T)
  BY OpsAreLegal
<1>4. st \in C /\ la \in L /\ jo \in J
  BY <1>2, <1>3 DEF CalmOrders, Launches, Joins
<1>5. C \subseteq M /\ L \subseteq M /\ J \subseteq M
  BY DEF MainOrders
<1>6. (C \cup L \cup J) \cap N = {} /\ C \cap L = {} /\ C \cap J = {} /\ L \cap J = {}
  BY CalmIsApart
<1>7. \A q : PollsAt(q) \cap (L \cup J) = {} /\ AnswersAt(q) \cap (L \cup J) = {}
  BY CalmIsApart
<1>8. \A q : st \notin PollsAt(q) /\ st \notin AnswersAt(q)
  BY DEF PollsAt, AnswersAt
<1>9. \A v : LaunchesOf(T, s, v) \subseteq L
  BY DEF LaunchesOf
<1> HIDE DEF M, st, la, jo, A, L, N, J, C
<1>10. << st >> \in Seq(M) /\ << la >> \in Seq(M) /\ << jo >> \in Seq(M) /\ << st >> \in Seq(C)
       /\ << st >> \in Seq(C \cup L \cup J) /\ << la >> \in Seq(C \cup L \cup J) /\ << jo >> \in Seq(C \cup L \cup J)
  BY <1>4, <1>5
<1>11. P = << st >> \o (<< la >> \o << jo >>)
  BY <1>10, ConcatAssociates
<1>12. << la >> \o << jo >> \in Seq(M) /\ P \in Seq(M) /\ P \in Seq(C \cup L \cup J)
  BY <1>10
<1> HIDE DEF P
<1>13. Before(P, L, J, M)
  <2>1. Before(<< la >> \o << >> \o << jo >>, L, J, M)
    <3>1. la \in L \ J /\ jo \in J \ L
      BY <1>4, <1>6
    <3>2. << >> \in Seq({})
      OBVIOUS
    <3>3. {} \cap (L \cup J \cup M) = {}
      OBVIOUS
    <3>4. QED
      BY <3>1, <3>2, <3>3, Enclosed
  <2>2. << la >> \o << >> = << la >>
    OBVIOUS
  <2>3. Before(<< st >>, L, J, M)
    BY <1>6, <1>10, BeforeNone
  <2>4. QED
    BY <1>10, <1>11, <1>12, <2>1, <2>2, <2>3, BeforeConcat
<1>14. Before(P, N, J, M)
  BY <1>6, <1>12, BeforeNone
<1>15. Between(P, N, A, L)
  <2>1. \A k \in 1 .. Len(P) : P[k] \notin N
    <3>1. \A k \in 1 .. Len(P) : P[k] \in C \cup L \cup J
      BY <1>12
    <3>2. QED
      BY <1>6, <3>1
  <2>2. QED
    BY <2>1 DEF Between
<1>16. ASSUME NEW v PROVE Between(P, LaunchesOf(T, s, v), J, LaunchesOf(T, s, v))
  <2>1. Before(P, LaunchesOf(T, s, v), J, M)
    BY <1>9, <1>13 DEF Before
  <2>2. LaunchesOf(T, s, v) \subseteq M /\ J \cap LaunchesOf(T, s, v) = {}
    BY <1>5, <1>6, <1>9
  <2>3. QED
    BY <1>12, <2>1, <2>2, BetweenFromBefore
<1>17. ASSUME NEW q
       PROVE  /\ Before(P, PollsAt(q), AnswersAt(q), PollsAt(q))
              /\ Between(P, AnswersAt(q), PollsAt(q), AnswersAt(q))
              /\ ~ Due(P, PollsAt(q), AnswersAt(q))
  <2> DEFINE S == {st} \cup L \cup J
  <2>1. S \cap PollsAt(q) = {} /\ S \cap AnswersAt(q) = {}
    BY <1>7, <1>8
  <2>2. P \in Seq(S)
    <3>1. st \in S /\ la \in S /\ jo \in S
      BY <1>4
    <3> HIDE DEF S
    <3>2. << st >> \in Seq(S) /\ << la >> \in Seq(S) /\ << jo >> \in Seq(S)
      BY <3>1
    <3>3. QED
      BY <3>2 DEF P
  <2> HIDE DEF S
  <2>3. \A k \in 1 .. Len(P) : P[k] \notin PollsAt(q) /\ P[k] \notin AnswersAt(q)
    <3>1. \A k \in 1 .. Len(P) : P[k] \in S
      BY <2>2
    <3>2. QED
      BY <2>1, <3>1
  <2>4. QED
    BY <2>3 DEF Before, Between, Due
<1>18. MainKeeps(T, s, P)
  BY <1>12, <1>13, <1>14, <1>15, <1>16, <1>17 DEF MainKeeps, M, N, J, A, L
<1>19. QED
  BY <1>1, <1>17, <1>18 DEF P

(* What the main thread of a process runs. *)
MainOf(T, p) ==
  IF p \in T.clients THEN ClientMain(T, p)
  ELSE IF p \in ToSet(T.servers) THEN ServerMain(T, p)
  ELSE << >>

LEMMA MainOfKeeps ==
  ASSUME NEW T, Deployed(T), NEW p \in Processes
  PROVE  /\ MainKeeps(T, p, MainOf(T, p))
         /\ \A q \in Threads \X {p} : ~ Due(MainOf(T, p), PollsAt(q), AnswersAt(q))
<1> DEFINE Good(P) == MainKeeps(T, p, P) /\ \A q \in Threads \X {p} : ~ Due(P, PollsAt(q), AnswersAt(q))
<1>1. ASSUME p \in T.clients
      PROVE  Good(MainOf(T, p))
  <2>1. p \in Clients /\ MainOf(T, p) = ClientMain(T, p)
    BY <1>1 DEF Deployed, MainOf
  <2>2. CASE T.class \notin {"Multicast", "MulticastLatency", "RemoteMemory", "FetchAndAdd"}
    <3>1. MainProgram(T, p, ClientMain(T, p))
      <4>1. CASE T.class = "Latency"
        BY <2>1, <4>1, TwoSidedClientMainProgram DEF ClientMain
      <4>2. CASE T.class = "Bandwidth"
        BY <2>1, <4>2, TwoSidedClientMainProgram DEF ClientMain
      <4>3. CASE T.class = "OperationsCount"
        BY <2>1, <4>3, TwoSidedClientMainProgram DEF ClientMain
      <4>4. CASE T.class = "AtomicsBandwidth"
        BY <2>1, <4>4, AtomicsClientMainProgram DEF ClientMain
      <4>5. CASE T.class = "AtomicsOperationsCount"
        BY <2>1, <4>5, AtomicsClientMainProgram DEF ClientMain
      <4>6. CASE T.class = "AtomicsLatency"
        BY <2>1, <4>6, AtomicsClientMainProgram DEF ClientMain
      <4>7. QED
        BY <2>2, <4>1, <4>2, <4>3, <4>4, <4>5, <4>6 DEF Deployed, Classes
    <3>2. QED
      BY <2>1, <2>2, <3>1, MainProgramKeeps
  <2>3. CASE T.class \in {"Multicast", "MulticastLatency", "RemoteMemory", "FetchAndAdd"}
    <3>1. ClientMain(T, p) \in {MulticastClientMain(T, p), RemoteMemoryClientMain(T, p), FetchAndAddClientMain(T, p)}
      BY <2>3 DEF ClientMain, MulticastLatClientMain
    <3>2. T.class # "Latency"
      BY <2>3
    <3>3. QED
      BY <2>1, <3>1, <3>2, OldClientMainKeeps
  <2>4. QED
    BY <2>2, <2>3
<1>2. ASSUME p \notin T.clients, p \in ToSet(T.servers)
      PROVE  Good(MainOf(T, p))
  <2>1. p \in Servers /\ MainOf(T, p) = ServerMain(T, p)
    BY <1>2 DEF Deployed, MainOf, ToSet
  <2>2. CASE T.class \notin {"Multicast", "MulticastLatency"}
    <3>1. MainProgram(T, p, ServerMain(T, p))
      <4>1. CASE T.class = "Latency"
        BY <2>1, <4>1, LatencyServerMainProgram DEF ServerMain
      <4>2. CASE T.class = "Bandwidth"
        BY <2>1, <4>2, BandwidthServerMainProgram DEF ServerMain
      <4>3. CASE T.class = "OperationsCount"
        BY <2>1, <4>3, BandwidthServerMainProgram DEF ServerMain
      <4>4. CASE T.class \in {"AtomicsBandwidth", "AtomicsOperationsCount", "AtomicsLatency"}
        BY <2>1, <4>4, AtomicsServerMainProgram DEF ServerMain, AtomicsOperationsCountServerMain
      <4>5. CASE T.class \in {"RemoteMemory", "FetchAndAdd"}
        BY <2>1, <4>5, OldServerMainProgram DEF ServerMain
      <4>6. QED
        BY <2>2, <4>1, <4>2, <4>3, <4>4, <4>5 DEF Deployed, Classes
    <3>2. QED
      BY <2>1, <2>2, <3>1, MainProgramKeeps
  <2>3. CASE T.class \in {"Multicast", "MulticastLatency"}
    <3>1. ServerMain(T, p) = MulticastServerMain(T, p)
      BY <2>3 DEF ServerMain, MulticastLatServerMain
    <3>2. QED
      BY <2>1, <2>3, <3>1, MulticastServerMainKeeps
  <2>4. QED
    BY <2>2, <2>3
<1>3. ASSUME p \notin T.clients, p \notin ToSet(T.servers)
      PROVE  Good(MainOf(T, p))
  <2>1. MainOf(T, p) = << >> /\ << >> \in Seq(MainOrders(T, p)) /\ Len(<< >>) = 0
    BY <1>3 DEF MainOf
  <2>2. QED
    BY <2>1 DEF MainKeeps, Before, Between, Due
<1>4. QED
  BY <1>1, <1>2, <1>3

(* What holds of a worker's program as long as it runs. *)
WorkerKeeps(T, w, P) ==
  IF w \in ServerThreads
  THEN /\ P \in Seq(ServerOrders(T, w))
       /\ Before(P, Polls, Answers, Polls)
       /\ Between(P, Answers, Polls, Answers)
       /\ Between(P, {[do |-> "respond"]}, Polls, Answers)
  ELSE /\ P \in Seq(ClientOrders(T, w))
       /\ \A q \in {w} \X Servers : /\ Before(P, Asks(q), Takes(q), Asks(q))
                                    /\ Between(P, Takes(q), Asks(q), Takes(q))
                                    /\ Between(P, Sends(q), Posts(q), Sends(q))

(* Everybody keeps to the rules. *)
TodoOK ==
  /\ test \in Tests
  /\ todo = [w \in Everybody |-> todo[w]]
  /\ signaled \in [Processes -> BOOLEAN]
  /\ waiting \in [Workers -> {"no", "asleep", "woken"}]
  /\ \A p \in Processes : MainKeeps(test, p, todo[p])
  /\ \A w \in Workers : WorkerKeeps(test, w, todo[w])

(* Who works has been started, and woken once the flag was set; whoever    *)
(* has anything left will be waited for before it is started again.        *)
Launched ==
  \A w \in Workers :
    /\ todo[w] # << >> => w \in Crew(test, w[1])
    /\ waiting[w] # "no" => At(w, "wait")
    /\ waiting[w] = "woken" => At(w[1], "join")
    /\ signaled[w[1]] /\ ~ At(w[1], "join") => todo[w] = << >>
    /\ todo[w] # << >> => ~ Due(todo[w[1]], Joins(test, w[1]), LaunchesOf(test, w[1], w))

(* No thread is started while the flag is set. *)
Reset == \A p \in Processes : signaled[p] => ~ Due(todo[p], Prepares(test), Launches(test, p))

(* The inductive invariant of starting together. *)
TogetherInv == TodoOK /\ StartedTogether /\ Launched /\ Reset

LEMMA KindOf ==
  ASSUME NEW T, NEW p, NEW x \in MainOrders(T, p)
  PROVE  /\ x.do = "join" <=> x \in Joins(T, p)
         /\ x.do = "notify" <=> x \in Notifies
         /\ x.do = "launch" <=> x \in Launches(T, p)
         /\ x.do = "prepare" <=> x \in Prepares(T)
<1>1. \A y \in CalmOrders(T, p) : y.do \notin {"prepare", "launch", "notify", "join"}
  BY DEF CalmOrders
<1>2. /\ \A y \in Prepares(T) : y.do = "prepare"
      /\ \A y \in Launches(T, p) : y.do = "launch"
      /\ \A y \in Notifies : y.do = "notify"
      /\ \A y \in Joins(T, p) : y.do = "join"
  BY DEF Prepares, Launches, Notifies, Joins
<1>3. x \in CalmOrders(T, p) \cup Prepares(T) \cup Launches(T, p) \cup Notifies \cup Joins(T, p)
  BY DEF MainOrders
<1>4. QED
  BY <1>1, <1>2, <1>3

LEMMA NotNextOfTail ==
  ASSUME NEW S, NEW P \in Seq(S), P # << >>, NEW A, NEW B, ~ Due(P, A, B), Head(P) \notin A
  PROVE  ~ Due(Tail(P), A, B)
<1> DEFINE Q == Tail(P)
<1>1. /\ Q \in Seq(S) /\ Len(P) \in Nat \ {0} /\ Len(Q) = Len(P) - 1
      /\ \A k \in 1 .. Len(Q) : Q[k] = P[k + 1]
      /\ Head(P) = P[1]
  BY TailOf
<1> HIDE DEF Q
<1> SUFFICES ASSUME NEW n \in 1 .. Len(Q), Q[n] \in B, \A k \in 1 .. (n - 1) : Q[k] \notin A
             PROVE  FALSE
  BY DEF Due, Q
<1>2. n + 1 \in 1 .. Len(P) /\ P[n + 1] \in B
  BY <1>1
<1>3. ASSUME NEW k \in 1 .. n PROVE P[k] \notin A
  <2>1. CASE k = 1
    BY <1>1, <2>1
  <2>2. CASE k # 1
    <3>1. k - 1 \in 1 .. (n - 1) /\ k - 1 \in 1 .. Len(Q) /\ k - 1 + 1 = k
      BY <1>1, <2>2
    <3>2. QED
      BY <1>1, <3>1
  <2>3. QED
    BY <2>1, <2>2
<1>4. QED
  BY <1>2, <1>3 DEF Due

LEMMA NextIsHead ==
  ASSUME NEW S, NEW P \in Seq(S), P # << >>, NEW A, NEW B, Head(P) \in B
  PROVE  Due(P, A, B)
<1>1. 1 \in 1 .. Len(P) /\ P[1] = Head(P)
  BY TailOf
<1>2. QED
  BY <1>1 DEF Due

LEMMA NotNextAfterHead ==
  ASSUME NEW S, NEW P \in Seq(S), P # << >>, NEW A, NEW B, NEW C, Between(P, A, B, C), Head(P) \in A
  PROVE  ~ Due(Tail(P), B, C)
<1> DEFINE Q == Tail(P)
<1>1. /\ Q \in Seq(S) /\ Len(P) \in Nat \ {0} /\ Len(Q) = Len(P) - 1
      /\ \A k \in 1 .. Len(Q) : Q[k] = P[k + 1]
      /\ Head(P) = P[1]
  BY TailOf
<1> HIDE DEF Q
<1> SUFFICES ASSUME NEW n \in 1 .. Len(Q), Q[n] \in C, \A k \in 1 .. (n - 1) : Q[k] \notin B
             PROVE  FALSE
  BY DEF Due, Q
<1>2. n + 1 \in 2 .. Len(P) /\ P[n + 1] \in C
  BY <1>1
<1>3. PICK k \in 2 .. n : P[k] \in B
  BY <1>1, <1>2 DEF Between
<1>4. k - 1 \in 1 .. (n - 1) /\ Q[k - 1] \in B
  BY <1>1, <1>3
<1>5. QED
  BY <1>4

LEMMA NextInstruction ==
  ASSUME NEW S, NEW P \in Seq(S), P # << >>, NEW A, NEW B, Before(P, A, B, S), Head(P) \in A
  PROVE  Tail(P) # << >> /\ Head(Tail(P)) \in B
<1> DEFINE Q == Tail(P)
<1>1. /\ Q \in Seq(S) /\ Len(P) \in Nat \ {0} /\ Len(Q) = Len(P) - 1
      /\ \A k \in 1 .. Len(Q) : Q[k] = P[k + 1]
      /\ Head(P) = P[1] /\ \A k \in 1 .. Len(P) : P[k] \in S
  BY TailOf
<1> HIDE DEF Q
<1>2. PICK n \in 2 .. Len(P) : P[n] \in B /\ \A k \in 2 .. (n - 1) : P[k] \notin S
  BY <1>1 DEF Before
<1>3. n = 2
  BY <1>1, <1>2
<1>4. 1 \in 1 .. Len(Q) /\ Q[1] \in B
  BY <1>1, <1>2, <1>3
<1>5. Q # << >> /\ Head(Q) = Q[1]
  BY <1>1, <1>4
<1>6. QED
  BY <1>4, <1>5 DEF Q

LEMMA MainKeepsTail ==
  ASSUME NEW T, NEW p, NEW P, P # << >>, MainKeeps(T, p, P)
  PROVE  MainKeeps(T, p, Tail(P))
<1>1. P \in Seq(MainOrders(T, p))
  BY DEF MainKeeps
<1>2. Tail(P) \in Seq(MainOrders(T, p))
  BY <1>1, TailOf
<1>3. QED
  BY <1>1, <1>2, BeforeTail, BetweenTail DEF MainKeeps

LEMMA WorkerKeepsTail ==
  ASSUME NEW T, NEW w, NEW P, P # << >>, WorkerKeeps(T, w, P)
  PROVE  WorkerKeeps(T, w, Tail(P))
<1>1. CASE w \in ServerThreads
  <2>1. P \in Seq(ServerOrders(T, w))
    BY <1>1 DEF WorkerKeeps
  <2>2. Tail(P) \in Seq(ServerOrders(T, w))
    BY <2>1, TailOf
  <2>3. QED
    BY <1>1, <2>1, <2>2, BeforeTail, BetweenTail DEF WorkerKeeps
<1>2. CASE w \notin ServerThreads
  <2>1. P \in Seq(ClientOrders(T, w))
    BY <1>2 DEF WorkerKeeps
  <2>2. Tail(P) \in Seq(ClientOrders(T, w))
    BY <2>1, TailOf
  <2>3. QED
    BY <1>2, <2>1, <2>2, BeforeTail, BetweenTail DEF WorkerKeeps
<1>3. QED
  BY <1>1, <1>2

LEMMA NothingKeeps ==
  ASSUME NEW T, NEW w
  PROVE  WorkerKeeps(T, w, << >>)
<1>1. << >> \in Seq(ServerOrders(T, w)) /\ << >> \in Seq(ClientOrders(T, w)) /\ Len(<< >>) = 0
  OBVIOUS
<1>2. QED
  BY <1>1 DEF WorkerKeeps, Before, Between

(* A fresh run waits first for its process, ... *)
Fresh(w, P) ==
  /\ w \in ServerThreads => ~ Due(P, Polls, Answers)
  /\ w \notin ServerThreads => \A q \in {w} \X Servers : /\ ~ Due(P, Asks(q), Takes(q))
                                                    /\ ~ Due(P, Posts(q), Sends(q))

LEMMA ClientProgramKeeps ==
  ASSUME NEW T, NEW w, w \notin ServerThreads, NEW P, ClientProgram(T, w, P)
  PROVE  WorkerKeeps(T, w, P) /\ Fresh(w, P)
<1>1. P \in Seq(ClientOrders(T, w))
  BY ClientIsSeq
<1>2. ASSUME NEW q \in {w} \X Servers
      PROVE  /\ Before(P, Asks(q), Takes(q), Asks(q))
             /\ Between(P, Takes(q), Asks(q), Takes(q))
             /\ ~ Due(P, Asks(q), Takes(q))
             /\ Between(P, Sends(q), Posts(q), Sends(q))
             /\ ~ Due(P, Posts(q), Sends(q))
  <2>1. <<Asks(q), Takes(q), Asks(q)>> \in ClientBs(w) /\ <<Asks(q), Takes(q), Takes(q)>> \in ClientAs(w)
    BY DEF ClientBs, ClientAs
  <2>2. Before(P, Asks(q), Takes(q), Asks(q)) /\ After(P, Asks(q), Takes(q), Takes(q))
    BY <2>1 DEF ClientProgram, Alternating, Obeys
  <2>3. Asks(q) \cap Takes(q) = {}
    BY DEF Asks, Takes
  <2>4. After(P, Posts(q), Sends(q), Sends(q))
    BY DEF ClientProgram, Supplied
  <2>5. Posts(q) \cap Sends(q) = {}
    BY DEF Posts, Sends
  <2>6. QED
    BY <1>1, <2>2, <2>3, <2>4, <2>5, BetweenFromAfter, NextIsNot
<1>3. QED
  BY <1>1, <1>2 DEF WorkerKeeps, Fresh

LEMMA ServerProgramKeeps ==
  ASSUME NEW T, NEW w \in ServerThreads, NEW P, ServerProgram(T, w, P)
  PROVE  WorkerKeeps(T, w, P) /\ Fresh(w, P)
<1> DEFINE R == {[do |-> "respond"]}  X == Answers \cup R
<1>1. P \in Seq(ServerOrders(T, w))
  BY ServerIsSeq
<1>2. <<Polls, Answers, Polls>> \in ServerBs /\ <<Polls, Answers, X>> \in ServerAs
  BY DEF ServerBs, ServerAs
<1>3. Before(P, Polls, Answers, Polls) /\ After(P, Polls, Answers, X)
  BY <1>2 DEF ServerProgram, Obeys
<1>4. Polls \cap X = {}
  BY DEF Polls, Answers
<1>5. Between(P, X, Polls, Answers) /\ ~ Due(P, Polls, Answers)
  BY <1>1, <1>3, <1>4, BetweenFromAfter, NextIsNot
<1>6. Between(P, Answers, Polls, Answers) /\ Between(P, R, Polls, Answers)
  BY <1>5 DEF Between
<1>7. QED
  BY <1>1, <1>3, <1>5, <1>6 DEF WorkerKeeps, Fresh

(* ... unless nobody has to wait for that. *)
LEMMA RunKeeps ==
  ASSUME Deployed(test), NEW p \in Processes, NEW w \in Crew(test, p), NEW op \in LegalOps(test)
  PROVE  /\ WorkerKeeps(test, w, Run(w, op)) /\ Fresh(w, Run(w, op))
         /\ ~ (p \in Servers /\ test.class \in {"Multicast", "MulticastLatency"}) => HasWait(Run(w, op))
<1>1. CASE p \in Clients
  <2>1. w \in Threads
    BY <1>1, CrewType
  <2>2. w \notin ServerThreads
    BY <2>1, RolesAssumption DEF Threads, ServerThreads
  <2>3. ClientProgram(test, w, Run(w, op)) /\ HasWait(Run(w, op))
    BY <2>2, ClientRunProgram DEF Run
  <2>4. QED
    BY <2>2, <2>3, ClientProgramKeeps
<1>2. CASE p \in Servers
  <2>1. w \in ServerThreads
    BY <1>2, CrewType
  <2>2. /\ ServerProgram(test, w, Run(w, op))
        /\ test.class \notin {"Multicast", "MulticastLatency"} => HasWait(Run(w, op))
    BY <1>2, <2>1, ServerRunProgram DEF Run
  <2>3. QED
    BY <1>2, <2>1, <2>2, ServerProgramKeeps
<1>3. QED
  BY <1>1, <1>2 DEF Processes

LEMMA WorkerType ==
  ASSUME NEW w \in Workers
  PROVE  w[1] \in Processes /\ w \in Everybody /\ w \notin Processes
BY RolesAssumption DEF Workers, Threads, ServerThreads, Processes, Everybody

LEMMA TogetherInit ==
  ASSUME Init
  PROVE  TogetherInv
<1>1. test \in Tests /\ Deployed(test)
  BY DeploymentAssumption DEF Init
<1>2. \A w \in Workers : todo[w] = << >>
  BY WorkerType DEF Init
<1>3. \A p \in Processes : todo[p] = MainOf(test, p)
  BY DEF Init, Everybody, Main, MainOf, m_rdma_addresses
<1>4. todo = [w \in Everybody |-> todo[w]]
  BY DEF Init
<1>5. \A p \in Processes : MainKeeps(test, p, todo[p])
  BY <1>1, <1>3, MainOfKeeps
<1>6. \A w \in Workers : WorkerKeeps(test, w, todo[w])
  BY <1>2, NothingKeeps
<1>7. /\ signaled = [p \in Processes |-> FALSE] /\ waiting = [w \in Workers |-> "no"]
  BY DEF Init
<1>8. TodoOK
  BY <1>1, <1>4, <1>5, <1>6, <1>7 DEF TodoOK
<1>9. StartedTogether /\ Launched /\ Reset
  BY <1>2, <1>7 DEF StartedTogether, Working, Launched, Reset
<1>10. QED
  BY <1>8, <1>9 DEF TogetherInv

(* A main thread goes on, neither starting threads nor waking them. *)
LEMMA MainGoesOn ==
  ASSUME TogetherInv, NEW p \in Processes, todo[p] # << >>,
         todo' = [todo EXCEPT ![p] = Tail(@)], test' = test, waiting' = waiting,
         Head(todo[p]).do \notin {"notify", "launch"},
         Head(todo[p]).do = "prepare" => signaled' = [signaled EXCEPT ![p] = FALSE],
         Head(todo[p]).do # "prepare" => signaled' = signaled,
         Head(todo[p]).do = "join" => \A v \in Head(todo[p]).workers : todo[v] = << >>
  PROVE  TogetherInv'
<1> DEFINE P == todo[p]
           h == Head(P)
<1>1. /\ TodoOK /\ StartedTogether /\ Launched /\ Reset
  BY DEF TogetherInv
<1>2. MainKeeps(test, p, P) /\ P \in Seq(MainOrders(test, p)) /\ P # << >>
  BY <1>1 DEF TodoOK, MainKeeps
<1>3. h \in MainOrders(test, p)
  BY <1>2, TailOf
<1>4. /\ todo'[p] = Tail(P)
      /\ \A x \in Everybody : x # p => todo'[x] = todo[x]
      /\ todo' = [w \in Everybody |-> todo'[w]]
  BY <1>1 DEF TodoOK, Everybody
<1>5. \A w \in Workers : w # p /\ todo'[w] = todo[w]
  BY <1>4, WorkerType
<1>6. ASSUME h.do = "join", NEW w \in Workers, w[1] = p
      PROVE  todo[w] = << >>
  <2>1. h \in Joins(test, p)
    BY <1>3, <1>6, KindOf
  <2>2. h.workers = Crew(test, p)
    BY <2>1 DEF Joins
  <2>3. todo[w] # << >> => w \in Crew(test, p)
    BY <1>1, <1>6 DEF Launched
  <2>4. QED
    BY <1>6, <2>2, <2>3
<1>7. ASSUME NEW w \in Workers, w[1] = p
      PROVE  ~ Working(w) /\ waiting[w] # "woken" /\ (waiting[w] # "no" => At(w, "wait"))
  <2>1. /\ Working(w) => At(p, "join")
        /\ waiting[w] = "woken" => At(p, "join")
        /\ waiting[w] # "no" => At(w, "wait")
    BY <1>1, <1>7 DEF StartedTogether, Launched
  <2>2. At(p, "join") => todo[w] = << >>
    BY <1>6, <1>7 DEF At
  <2>3. todo[w] = << >> => ~ Working(w) /\ ~ At(w, "wait")
    BY DEF Working, At
  <2>4. QED
    BY <2>1, <2>2, <2>3
<1>8. ASSUME NEW w \in Workers, w[1] # p
      PROVE  todo'[w[1]] = todo[w[1]] /\ signaled'[w[1]] = signaled[w[1]]
  <2>1. w[1] \in Everybody /\ w[1] \in Processes
    BY WorkerType DEF Everybody
  <2>2. signaled \in [Processes -> BOOLEAN]
    BY <1>1 DEF TodoOK
  <2>3. QED
    BY <1>4, <1>8, <2>1, <2>2
<1>9. /\ signaled' \in [Processes -> BOOLEAN]
      /\ signaled'[p] => signaled[p] /\ h.do # "prepare"
  <2>1. signaled \in [Processes -> BOOLEAN]
    BY <1>1 DEF TodoOK
  <2>2. QED
    BY <2>1
<1> HIDE DEF P, h
<1>10. TodoOK'
  <2>1. \A q \in Processes : MainKeeps(test, q, todo'[q])
    <3> TAKE q \in Processes
    <3>1. CASE q = p
      <4>1. MainKeeps(test, p, Tail(P))
        BY <1>2, MainKeepsTail
      <4>2. todo'[q] = Tail(P)
        BY <1>4, <3>1
      <4>3. QED
        BY <3>1, <4>1, <4>2
    <3>2. CASE q # p
      <4>1. todo'[q] = todo[q]
        BY <1>4, <3>2 DEF Everybody
      <4>2. QED
        BY <1>1, <4>1 DEF TodoOK
    <3>3. QED
      BY <3>1, <3>2
  <2>2. \A w \in Workers : WorkerKeeps(test, w, todo'[w])
    BY <1>1, <1>5 DEF TodoOK
  <2>3. QED
    BY <1>1, <1>4, <1>9, <2>1, <2>2 DEF TodoOK
<1>11. StartedTogether'
  <2> SUFFICES ASSUME NEW w \in Workers, Working(w)'
               PROVE  At(w[1], "join")'
    BY DEF StartedTogether
  <2>1. Working(w)
    BY <1>5 DEF Working
  <2>2. w[1] # p
    BY <1>7, <2>1
  <2>3. At(w[1], "join")
    BY <1>1, <2>1 DEF StartedTogether
  <2>4. QED
    BY <1>8, <2>2, <2>3 DEF At
<1>12. Launched'
  <2> SUFFICES ASSUME NEW w \in Workers
               PROVE  /\ todo'[w] # << >> => w \in Crew(test, w[1])
                      /\ waiting'[w] # "no" => At(w, "wait")'
                      /\ waiting'[w] = "woken" => At(w[1], "join")'
                      /\ signaled'[w[1]] /\ ~ At(w[1], "join")' => todo'[w] = << >>
                      /\ todo'[w] # << >> => ~ Due(todo'[w[1]], Joins(test, w[1]), LaunchesOf(test, w[1], w))
    BY DEF Launched
  <2>1. /\ todo[w] # << >> => w \in Crew(test, w[1])
        /\ waiting[w] # "no" => At(w, "wait")
        /\ waiting[w] = "woken" => At(w[1], "join")
        /\ signaled[w[1]] /\ ~ At(w[1], "join") => todo[w] = << >>
        /\ todo[w] # << >> => ~ Due(todo[w[1]], Joins(test, w[1]), LaunchesOf(test, w[1], w))
    BY <1>1 DEF Launched
  <2>2. todo'[w] = todo[w] /\ waiting'[w] = waiting[w] /\ (At(w, "wait") => At(w, "wait")')
    BY <1>5 DEF At
  <2>3. CASE w[1] # p
    <3>1. (At(w[1], "join") <=> At(w[1], "join")') /\ todo'[w[1]] = todo[w[1]] /\ signaled'[w[1]] = signaled[w[1]]
      BY <1>8, <2>3 DEF At
    <3>2. QED
      BY <2>1, <2>2, <3>1
  <2>4. CASE w[1] = p
    <3>1. waiting[w] # "woken"
      BY <1>7, <2>4
    <3>2. signaled'[p] => todo[w] = << >>
      <4>1. CASE h.do = "join"
        BY <1>6, <2>4, <4>1
      <4>2. CASE h.do # "join"
        <5>1. ~ At(p, "join")
          BY <4>2 DEF At, h, P
        <5>2. QED
          BY <1>9, <2>1, <2>4, <5>1
      <4>3. QED
        BY <4>1, <4>2
    <3>3. todo[w] # << >> => ~ Due(todo'[p], Joins(test, p), LaunchesOf(test, p, w))
      <4> SUFFICES ASSUME todo[w] # << >>
                   PROVE  ~ Due(todo'[p], Joins(test, p), LaunchesOf(test, p, w))
        OBVIOUS
      <4>1. h.do # "join"
        BY <1>6, <2>4
      <4>2. h \notin Joins(test, p)
        BY <1>3, <4>1, KindOf
      <4>3. ~ Due(P, Joins(test, p), LaunchesOf(test, p, w))
        BY <2>1, <2>4 DEF P
      <4>4. ~ Due(Tail(P), Joins(test, p), LaunchesOf(test, p, w))
        BY <1>2, <4>2, <4>3, NotNextOfTail DEF h
      <4>5. todo'[p] = Tail(P)
        BY <1>4
      <4>6. QED
        BY <4>4, <4>5
    <3>4. QED
      BY <2>1, <2>2, <2>4, <3>1, <3>2, <3>3
  <2>5. QED
    BY <2>3, <2>4
<1>13. Reset'
  <2> SUFFICES ASSUME NEW q \in Processes, signaled'[q]
               PROVE  ~ Due(todo'[q], Prepares(test), Launches(test, q))
    BY DEF Reset
  <2>1. CASE q # p
    <3>1. todo'[q] = todo[q] /\ signaled[q]
      <4>1. signaled \in [Processes -> BOOLEAN]
        BY <1>1 DEF TodoOK
      <4>2. signaled'[q] = signaled[q]
        BY <2>1, <4>1
      <4>3. QED
        BY <1>4, <2>1, <4>2 DEF Everybody
    <3>2. QED
      BY <1>1, <3>1 DEF Reset
  <2>2. CASE q = p
    <3>1. signaled[p] /\ h.do # "prepare"
      BY <1>9, <2>2
    <3>2. ~ Due(P, Prepares(test), Launches(test, p))
      BY <1>1, <3>1 DEF Reset, P
    <3>3. h \notin Prepares(test)
      BY <1>3, <3>1, KindOf
    <3>4. ~ Due(Tail(P), Prepares(test), Launches(test, p))
      BY <1>2, <3>2, <3>3, NotNextOfTail DEF h
    <3>5. todo'[q] = Tail(P)
      BY <1>4, <2>2
    <3>6. QED
      BY <2>2, <3>4, <3>5
  <2>3. QED
    BY <2>1, <2>2
<1>14. QED
  BY <1>10, <1>11, <1>12, <1>13 DEF TogetherInv

(* A main thread wakes its threads. *)
LEMMA MainWakes ==
  ASSUME TogetherInv, NEW p \in Processes, Notify(p)
  PROVE  TogetherInv'
<1> DEFINE P == todo[p]
           h == Head(P)
<1>1. /\ TodoOK /\ StartedTogether /\ Launched /\ Reset
  BY DEF TogetherInv
<1>2. MainKeeps(test, p, P) /\ P \in Seq(MainOrders(test, p)) /\ P # << >> /\ h.do = "notify"
  BY <1>1 DEF TodoOK, MainKeeps, Notify, At
<1>3. h \in MainOrders(test, p) /\ h \in Notifies
  BY <1>2, TailOf, KindOf
<1>4. /\ todo'[p] = Tail(P)
      /\ \A x \in Everybody : x # p => todo'[x] = todo[x]
      /\ todo' = [w \in Everybody |-> todo'[w]]
  BY <1>1 DEF TodoOK, Everybody, Notify, Step
<1>5. \A w \in Workers : w # p /\ todo'[w] = todo[w]
  BY <1>4, WorkerType
<1>6. test' = test /\ signaled' = [signaled EXCEPT ![p] = TRUE] /\ signaled \in [Processes -> BOOLEAN]
      /\ waiting' = [w \in Workers |->
           IF w \in OwnWorkers(p) /\ waiting[w] = "asleep" THEN "woken" ELSE waiting[w]]
  BY <1>1 DEF Notify, TodoOK
<1>7. At(p, "join")'
  <2>1. Before(P, Notifies, Joins(test, p), MainOrders(test, p))
    BY <1>2 DEF MainKeeps
  <2>2. Tail(P) # << >> /\ Head(Tail(P)) \in Joins(test, p)
    BY <1>2, <1>3, <2>1, NextInstruction
  <2>3. Head(Tail(P)).do = "join"
    BY <2>2 DEF Joins
  <2>4. QED
    BY <1>4, <2>2, <2>3 DEF At
<1>8. ~ Due(Tail(P), Prepares(test), Launches(test, p))
  <2>1. Between(P, Notifies, Prepares(test), Launches(test, p))
    BY <1>2 DEF MainKeeps
  <2>2. QED
    BY <1>2, <1>3, <2>1, NotNextAfterHead
<1>9. ASSUME NEW w \in Workers, w[1] # p
      PROVE  todo'[w[1]] = todo[w[1]] /\ signaled'[w[1]] = signaled[w[1]] /\ waiting'[w] = waiting[w]
  <2>1. w[1] \in Everybody /\ w[1] \in Processes /\ w \notin OwnWorkers(p)
    BY <1>9, WorkerType DEF Everybody, OwnWorkers
  <2>2. QED
    BY <1>4, <1>6, <1>9, <2>1
<1> HIDE DEF P, h
<1>10. TodoOK'
  <2>1. \A q \in Processes : MainKeeps(test, q, todo'[q])
    <3> TAKE q \in Processes
    <3>1. CASE q = p
      BY <1>2, <1>4, <3>1, MainKeepsTail
    <3>2. CASE q # p
      <4>1. todo'[q] = todo[q]
        BY <1>4, <3>2 DEF Everybody
      <4>2. QED
        BY <1>1, <4>1 DEF TodoOK
    <3>3. QED
      BY <3>1, <3>2
  <2>2. \A w \in Workers : WorkerKeeps(test, w, todo'[w])
    BY <1>1, <1>5 DEF TodoOK
  <2>3. signaled' \in [Processes -> BOOLEAN] /\ waiting' \in [Workers -> {"no", "asleep", "woken"}]
    BY <1>1, <1>6 DEF TodoOK
  <2>4. QED
    BY <1>1, <1>4, <1>6, <2>1, <2>2, <2>3 DEF TodoOK
<1>11. StartedTogether'
  <2> SUFFICES ASSUME NEW w \in Workers, Working(w)'
               PROVE  At(w[1], "join")'
    BY DEF StartedTogether
  <2>1. Working(w)
    BY <1>5 DEF Working
  <2>2. At(w[1], "join")
    BY <1>1, <2>1 DEF StartedTogether
  <2>3. CASE w[1] = p
    BY <1>7, <2>3
  <2>4. CASE w[1] # p
    BY <1>9, <2>2, <2>4 DEF At
  <2>5. QED
    BY <2>3, <2>4
<1>12. Launched'
  <2> SUFFICES ASSUME NEW w \in Workers
               PROVE  /\ todo'[w] # << >> => w \in Crew(test, w[1])
                      /\ waiting'[w] # "no" => At(w, "wait")'
                      /\ waiting'[w] = "woken" => At(w[1], "join")'
                      /\ signaled'[w[1]] /\ ~ At(w[1], "join")' => todo'[w] = << >>
                      /\ todo'[w] # << >> => ~ Due(todo'[w[1]], Joins(test, w[1]), LaunchesOf(test, w[1], w))
    BY <1>6 DEF Launched
  <2>1. /\ todo[w] # << >> => w \in Crew(test, w[1])
        /\ waiting[w] # "no" => At(w, "wait")
        /\ waiting[w] = "woken" => At(w[1], "join")
        /\ signaled[w[1]] /\ ~ At(w[1], "join") => todo[w] = << >>
        /\ todo[w] # << >> => ~ Due(todo[w[1]], Joins(test, w[1]), LaunchesOf(test, w[1], w))
    BY <1>1 DEF Launched
  <2>2. todo'[w] = todo[w] /\ (waiting'[w] # "no" => waiting[w] # "no") /\ (At(w, "wait") => At(w, "wait")')
    BY <1>5, <1>6 DEF At
  <2>3. CASE w[1] # p
    <3>1. /\ (At(w[1], "join") <=> At(w[1], "join")') /\ todo'[w[1]] = todo[w[1]]
          /\ signaled'[w[1]] = signaled[w[1]] /\ waiting'[w] = waiting[w]
      BY <1>9, <2>3 DEF At
    <3>2. QED
      BY <2>1, <2>2, <3>1
  <2>4. CASE w[1] = p
    <3>1. todo[w] # << >> => ~ Due(todo'[p], Joins(test, p), LaunchesOf(test, p, w))
      <4> SUFFICES ASSUME todo[w] # << >>
                   PROVE  ~ Due(todo'[p], Joins(test, p), LaunchesOf(test, p, w))
        OBVIOUS
      <4>1. h.do # "join"
        BY <1>2
      <4>2. h \notin Joins(test, p)
        BY <1>3, <4>1, KindOf
      <4>3. ~ Due(P, Joins(test, p), LaunchesOf(test, p, w))
        BY <2>1, <2>4 DEF P
      <4>4. QED
        BY <1>2, <1>4, <4>2, <4>3, NotNextOfTail DEF h
    <3>2. QED
      BY <1>7, <2>1, <2>2, <2>4, <3>1
  <2>5. QED
    BY <2>3, <2>4
<1>13. Reset'
  <2> SUFFICES ASSUME NEW q \in Processes, signaled'[q]
               PROVE  ~ Due(todo'[q], Prepares(test), Launches(test, q))
    BY <1>6 DEF Reset
  <2>1. CASE q # p
    <3>1. todo'[q] = todo[q] /\ signaled[q]
      BY <1>4, <1>6, <2>1 DEF Everybody
    <3>2. QED
      BY <1>1, <3>1 DEF Reset
  <2>2. CASE q = p
    BY <1>4, <1>8, <2>2
  <2>3. QED
    BY <2>1, <2>2
<1>14. QED
  BY <1>10, <1>11, <1>12, <1>13 DEF TogetherInv

(* The threads that a main thread starts had ended, and start afresh. *)
LEMMA NewThreads ==
  ASSUME TogetherInv, NEW p \in Processes, LaunchThreads(p)
  PROVE  /\ Head(todo[p]) \in Launches(test, p)
         /\ todo'[p] = Tail(todo[p])
         /\ \A q \in Processes : q # p => todo'[q] = todo[q]
         /\ \A v \in Workers : v \notin Head(todo[p]).workers => todo'[v] = todo[v]
         /\ \A v \in Head(todo[p]).workers :
              /\ v \in Workers /\ v[1] = p /\ v \in Crew(test, p)
              /\ todo[v] = << >>
              /\ WorkerKeeps(test, v, todo'[v]) /\ Fresh(v, todo'[v])
              /\ ~ (p \in Servers /\ test.class \in {"Multicast", "MulticastLatency"}) => HasWait(todo'[v])
<1> DEFINE P == todo[p]
           h == Head(P)
<1>1. TodoOK /\ Launched
  BY DEF TogetherInv
<1>2. /\ MainKeeps(test, p, P) /\ P \in Seq(MainOrders(test, p)) /\ P # << >> /\ h.do = "launch"
      /\ Deployed(test)
  BY <1>1, DeploymentAssumption DEF TodoOK, MainKeeps, LaunchThreads, At
<1>3. /\ h \in Launches(test, p)
      /\ h.workers \subseteq Crew(test, p) /\ h.op \in LegalOps(test)
  <2>1. h \in MainOrders(test, p)
    BY <1>2, TailOf
  <2>2. h \in Launches(test, p)
    BY <1>2, <2>1, KindOf
  <2>3. QED
    BY <2>2 DEF Launches
<1>4. todo' = [w \in Everybody |->
         IF w = p THEN Tail(P) ELSE IF w \in h.workers THEN Run(w, h.op) ELSE todo[w]]
  BY DEF LaunchThreads
<1>5. \A w \in Workers : w \in Everybody /\ w # p /\ w \notin Processes
  BY WorkerType DEF Everybody
<1>6. \A v \in h.workers : v \in Workers /\ v[1] = p /\ v \in Crew(test, p)
  BY <1>2, <1>3, CrewType DEF Workers, Processes
<1>7. ASSUME NEW v \in Workers
      PROVE  todo'[v] = IF v \in h.workers THEN Run(v, h.op) ELSE todo[v]
  BY <1>4, <1>5
<1>8. /\ todo'[p] = Tail(P)
      /\ \A q \in Processes : q # p => todo'[q] = todo[q]
  <2>1. ASSUME NEW q \in Processes PROVE q \in Everybody /\ q \notin h.workers
    BY <1>5, <1>6 DEF Everybody
  <2>2. QED
    BY <1>4, <2>1
<1>9. ASSUME NEW v \in h.workers
      PROVE  todo[v] = << >>
  <2>1. h \in LaunchesOf(test, p, v)
    BY <1>3 DEF LaunchesOf
  <2>2. Due(P, Joins(test, p), LaunchesOf(test, p, v))
    BY <1>2, <2>1, NextIsHead
  <2>3. QED
    BY <1>1, <1>6, <2>2 DEF Launched
<1>10. ASSUME NEW v \in h.workers
       PROVE  /\ WorkerKeeps(test, v, todo'[v]) /\ Fresh(v, todo'[v])
              /\ ~ (p \in Servers /\ test.class \in {"Multicast", "MulticastLatency"}) => HasWait(todo'[v])
  <2>1. todo'[v] = Run(v, h.op)
    BY <1>6, <1>7
  <2>2. /\ WorkerKeeps(test, v, Run(v, h.op)) /\ Fresh(v, Run(v, h.op))
        /\ ~ (p \in Servers /\ test.class \in {"Multicast", "MulticastLatency"}) => HasWait(Run(v, h.op))
    BY <1>2, <1>3, RunKeeps
  <2>3. QED
    BY <2>1, <2>2
<1>11. QED
  BY <1>3, <1>6, <1>7, <1>8, <1>9, <1>10

(* A main thread starts threads. *)
LEMMA MainLaunches ==
  ASSUME TogetherInv, NEW p \in Processes, LaunchThreads(p)
  PROVE  TogetherInv'
<1> DEFINE P == todo[p]
           h == Head(P)
<1>1. /\ TodoOK /\ StartedTogether /\ Launched /\ Reset
  BY DEF TogetherInv
<1>2. /\ MainKeeps(test, p, P) /\ P \in Seq(MainOrders(test, p)) /\ P # << >> /\ h.do = "launch"
      /\ Deployed(test)
  BY <1>1, DeploymentAssumption DEF TodoOK, MainKeeps, LaunchThreads, At
<1>3. h \in Launches(test, p) /\ h.workers \subseteq Crew(test, p)
  BY NewThreads DEF Launches
<1>4. /\ test' = test /\ signaled' = signaled /\ waiting' = waiting
      /\ signaled \in [Processes -> BOOLEAN]
  BY <1>1 DEF LaunchThreads, threads, TodoOK
<1>5. \A w \in Workers : w[1] \in Processes
  BY WorkerType
<1>6. \A v \in Workers : v \notin h.workers => todo'[v] = todo[v]
  BY NewThreads
<1>7. /\ todo'[p] = Tail(P)
      /\ \A q \in Processes : q # p => todo'[q] = todo[q]
  BY NewThreads
<1>8. todo' = [w \in Everybody |-> todo'[w]]
  <2>1. DOMAIN todo' = Everybody
    BY DEF LaunchThreads
  <2>2. QED
    BY <2>1 DEF LaunchThreads
<1>9. \A v \in h.workers : v \in Workers /\ v[1] = p
  BY NewThreads
<1>10. ASSUME NEW v \in h.workers
       PROVE  /\ waiting[v] = "no"
              /\ ~ Due(Tail(P), Joins(test, p), LaunchesOf(test, p, v))
  <2>1. h \in LaunchesOf(test, p, v) /\ v \in Crew(test, p) /\ todo[v] = << >>
    BY <1>3, NewThreads DEF LaunchesOf
  <2>2. waiting[v] = "no"
    BY <1>1, <1>9, <2>1 DEF Launched, At
  <2>3. Between(P, LaunchesOf(test, p, v), Joins(test, p), LaunchesOf(test, p, v))
    BY <1>2, <2>1 DEF MainKeeps
  <2>4. ~ Due(Tail(P), Joins(test, p), LaunchesOf(test, p, v))
    BY <1>2, <2>1, <2>3, NotNextAfterHead
  <2>5. QED
    BY <2>2, <2>4
<1>11. ~ signaled[p]
  <2>1. Due(P, Prepares(test), Launches(test, p))
    BY <1>2, <1>3, NextIsHead
  <2>2. QED
    BY <1>1, <2>1 DEF Reset
<1>12. ~ At(p, "join")
  BY <1>2 DEF At
<1>13. ASSUME NEW v \in h.workers
       PROVE  /\ WorkerKeeps(test, v, todo'[v])
              /\ HasWait(todo'[v]) \/ At(p, "join")'
  <2>1. /\ WorkerKeeps(test, v, todo'[v])
        /\ ~ (p \in Servers /\ test.class \in {"Multicast", "MulticastLatency"}) => HasWait(todo'[v])
    BY NewThreads
  <2>2. ASSUME p \in Servers, test.class \in {"Multicast", "MulticastLatency"}
        PROVE  At(p, "join")'
    <3>1. Before(P, Launches(test, p), Joins(test, p), MainOrders(test, p))
      BY <1>2, <2>2 DEF MainKeeps
    <3>2. Tail(P) # << >> /\ Head(Tail(P)) \in Joins(test, p)
      BY <1>2, <1>3, <3>1, NextInstruction
    <3>3. Head(Tail(P)).do = "join"
      BY <3>2 DEF Joins
    <3>4. QED
      BY <1>7, <3>2, <3>3 DEF At
  <2>3. QED
    BY <2>1, <2>2
<1> HIDE DEF P, h
<1>14. TodoOK'
  <2>1. \A q \in Processes : MainKeeps(test, q, todo'[q])
    <3> TAKE q \in Processes
    <3>1. CASE q = p
      <4>1. MainKeeps(test, p, Tail(P))
        BY <1>2, MainKeepsTail
      <4>2. todo'[q] = Tail(P)
        BY <1>7, <3>1
      <4>3. QED
        BY <3>1, <4>1, <4>2
    <3>2. CASE q # p
      <4>1. todo'[q] = todo[q]
        BY <1>7, <3>2
      <4>2. QED
        BY <1>1, <4>1 DEF TodoOK
    <3>3. QED
      BY <3>1, <3>2
  <2>2. \A w \in Workers : WorkerKeeps(test, w, todo'[w])
    <3> TAKE w \in Workers
    <3>1. CASE w \in h.workers
      BY <1>13, <3>1
    <3>2. CASE w \notin h.workers
      <4>1. todo'[w] = todo[w]
        BY <1>6, <3>2
      <4>2. QED
        BY <1>1, <4>1 DEF TodoOK
    <3>3. QED
      BY <3>1, <3>2
  <2>3. QED
    BY <1>1, <1>4, <1>8, <2>1, <2>2 DEF TodoOK
<1>15. StartedTogether'
  <2> SUFFICES ASSUME NEW w \in Workers, Working(w)'
               PROVE  At(w[1], "join")'
    BY DEF StartedTogether
  <2>1. CASE w \in h.workers
    <3>1. HasWait(todo'[w]) => ~ Working(w)'
      <4> SUFFICES ASSUME HasWait(todo'[w]) PROVE FALSE
        OBVIOUS
      <4>1. PICK k \in 1 .. Len(todo'[w]) : todo'[w][k] = [do |-> "wait"]
        BY DEF HasWait
      <4>2. ASSUME NEW S, todo'[w] \in Seq(S) PROVE DOMAIN todo'[w] = 1 .. Len(todo'[w])
        BY <4>2
      <4>3. DOMAIN todo'[w] = 1 .. Len(todo'[w])
        BY <1>13, <2>1, <4>2 DEF WorkerKeeps
      <4>4. k \in DOMAIN todo'[w] /\ todo'[w][k].do = "wait"
        BY <4>1, <4>3
      <4>5. QED
        BY <4>4 DEF Working
    <3>2. At(p, "join")'
      BY <1>13, <2>1, <3>1
    <3>3. QED
      BY <1>9, <2>1, <3>2
  <2>2. CASE w \notin h.workers
    <3>1. todo'[w] = todo[w]
      BY <1>6, <2>2
    <3>2. At(w[1], "join")
      BY <1>1, <3>1 DEF StartedTogether, Working
    <3>3. w[1] # p
      BY <1>12, <3>2
    <3>4. QED
      BY <1>5, <1>7, <3>2, <3>3 DEF At
  <2>3. QED
    BY <2>1, <2>2
<1>16. Launched'
  <2> SUFFICES ASSUME NEW w \in Workers
               PROVE  /\ todo'[w] # << >> => w \in Crew(test, w[1])
                      /\ waiting[w] # "no" => At(w, "wait")'
                      /\ waiting[w] = "woken" => At(w[1], "join")'
                      /\ signaled[w[1]] /\ ~ At(w[1], "join")' => todo'[w] = << >>
                      /\ todo'[w] # << >> => ~ Due(todo'[w[1]], Joins(test, w[1]), LaunchesOf(test, w[1], w))
    BY <1>4 DEF Launched
  <2>1. CASE w \in h.workers
    <3>1. w[1] = p /\ w \in Crew(test, p)
      BY <1>3, <1>9, <2>1
    <3>2. waiting[w] = "no" /\ ~ Due(todo'[p], Joins(test, p), LaunchesOf(test, p, w))
      BY <1>7, <1>10, <2>1
    <3>3. QED
      BY <1>11, <3>1, <3>2
  <2>2. CASE w \notin h.workers
    <3>1. todo'[w] = todo[w] /\ (At(w, "wait") <=> At(w, "wait")')
      BY <1>6, <2>2 DEF At
    <3>2. /\ todo[w] # << >> => w \in Crew(test, w[1])
          /\ waiting[w] # "no" => At(w, "wait")
          /\ waiting[w] = "woken" => At(w[1], "join")
          /\ signaled[w[1]] /\ ~ At(w[1], "join") => todo[w] = << >>
          /\ todo[w] # << >> => ~ Due(todo[w[1]], Joins(test, w[1]), LaunchesOf(test, w[1], w))
      BY <1>1 DEF Launched
    <3>3. CASE w[1] = p
      <4>1. waiting[w] # "woken" /\ ~ signaled[w[1]]
        BY <1>11, <1>12, <3>2, <3>3
      <4>2. ASSUME todo[w] # << >>
            PROVE  ~ Due(todo'[p], Joins(test, p), LaunchesOf(test, p, w))
        <5>1. ~ Due(P, Joins(test, p), LaunchesOf(test, p, w))
          BY <3>2, <3>3, <4>2 DEF P
        <5>2. h \notin Joins(test, p)
          BY <1>2, <1>3 DEF Joins
        <5>3. ~ Due(Tail(P), Joins(test, p), LaunchesOf(test, p, w))
          BY <1>2, <5>1, <5>2, NotNextOfTail DEF h
        <5>4. QED
          BY <1>7, <5>3
      <4>3. QED
        BY <3>1, <3>2, <3>3, <4>1, <4>2
    <3>4. CASE w[1] # p
      <4>1. todo'[w[1]] = todo[w[1]] /\ (At(w[1], "join") <=> At(w[1], "join")')
        BY <1>5, <1>7, <3>4 DEF At
      <4>2. QED
        BY <3>1, <3>2, <4>1
    <3>5. QED
      BY <3>3, <3>4
  <2>3. QED
    BY <2>1, <2>2
<1>17. Reset'
  <2> SUFFICES ASSUME NEW q \in Processes, signaled[q]
               PROVE  ~ Due(todo'[q], Prepares(test), Launches(test, q))
    BY <1>4 DEF Reset
  <2>1. q # p
    BY <1>11
  <2>2. todo'[q] = todo[q]
    BY <1>7, <2>1
  <2>3. QED
    BY <1>1, <2>2 DEF Reset
<1>18. QED
  BY <1>14, <1>15, <1>16, <1>17 DEF TogetherInv

(* A worker goes on, past the local barrier only when it has been told to. *)
LEMMA WorkerGoesOn ==
  ASSUME TogetherInv, NEW w \in Workers, todo[w] # << >>,
         todo' = [todo EXCEPT ![w] = Tail(@)], test' = test, signaled' = signaled,
         Head(todo[w]).do # "wait" => waiting' = waiting,
         Head(todo[w]).do = "wait" =>
           /\ waiting' = [waiting EXCEPT ![w] = "no"]
           /\ waiting[w] = "woken" \/ signaled[w[1]]
  PROVE  TogetherInv'
<1> DEFINE P == todo[w]
           h == Head(P)
<1>1. /\ TodoOK /\ StartedTogether /\ Launched /\ Reset
  BY DEF TogetherInv
<1>2. WorkerKeeps(test, w, P) /\ P # << >>
  BY <1>1 DEF TodoOK
<1>3. /\ todo'[w] = Tail(P)
      /\ \A x \in Everybody : x # w => todo'[x] = todo[x]
      /\ todo' = [x \in Everybody |-> todo'[x]]
  BY <1>1, WorkerType DEF TodoOK
<1>4. \A q \in Processes : q \in Everybody /\ q # w /\ todo'[q] = todo[q]
  BY <1>3, WorkerType DEF Everybody
<1>5. /\ waiting' \in [Workers -> {"no", "asleep", "woken"}]
      /\ \A v \in Workers : v # w => waiting'[v] = waiting[v] /\ todo'[v] = todo[v]
      /\ waiting'[w] = "no"
  <2>1. waiting \in [Workers -> {"no", "asleep", "woken"}]
    BY <1>1 DEF TodoOK
  <2>2. \A v \in Workers : v # w => todo'[v] = todo[v]
    BY <1>3, WorkerType
  <2>3. h.do # "wait" => waiting[w] = "no"
    BY <1>1 DEF Launched, At
  <2>4. CASE h.do = "wait"
    <3>1. waiting' = [waiting EXCEPT ![w] = "no"]
      BY <2>4
    <3>2. QED
      BY <2>1, <2>2, <3>1
  <2>5. CASE h.do # "wait"
    <3>1. waiting' = waiting
      BY <2>5
    <3>2. QED
      BY <2>1, <2>2, <2>3, <2>5, <3>1
  <2>6. QED
    BY <2>4, <2>5
<1>6. h.do = "wait" => At(w[1], "join")
  BY <1>1 DEF Launched
<1>7. ASSUME Working(w)', h.do # "wait"
      PROVE  Working(w)
  <2>1. PICK S : P \in Seq(S)
    BY <1>2 DEF WorkerKeeps
  <2>2. /\ Tail(P) \in Seq(S) /\ Len(P) \in Nat \ {0} /\ Len(Tail(P)) = Len(P) - 1
        /\ h = P[1]
        /\ \A k \in 1 .. Len(Tail(P)) : Tail(P)[k] = P[k + 1]
    BY <1>2, <2>1, TailOf
  <2>3. DOMAIN P = 1 .. Len(P) /\ DOMAIN Tail(P) = 1 .. Len(Tail(P))
    BY <2>1, <2>2
  <2>4. \A k \in DOMAIN Tail(P) : Tail(P)[k].do # "wait"
    BY <1>3, <1>7 DEF Working
  <2>5. ASSUME NEW k \in 1 .. Len(P)
        PROVE  P[k].do # "wait"
    <3>1. CASE k = 1
      BY <1>7, <2>2, <3>1
    <3>2. CASE k # 1
      <4> HIDE DEF P
      <4>1. k - 1 \in 1 .. Len(Tail(P)) /\ (k - 1) + 1 = k
        BY <2>2, <3>2
      <4>2. Tail(P)[k - 1] = P[(k - 1) + 1]
        BY <2>2, <4>1
      <4>3. Tail(P)[k - 1].do # "wait"
        BY <2>3, <2>4, <4>1
      <4>4. QED
        BY <4>1, <4>2, <4>3
    <3>3. QED
      BY <3>1, <3>2
  <2>6. QED
    BY <1>2, <2>3, <2>5 DEF Working
<1> HIDE DEF P, h
<1>8. TodoOK'
  <2>1. \A q \in Processes : MainKeeps(test, q, todo'[q])
    BY <1>1, <1>4 DEF TodoOK
  <2>2. \A v \in Workers : WorkerKeeps(test, v, todo'[v])
    <3> TAKE v \in Workers
    <3>1. CASE v = w
      <4>1. WorkerKeeps(test, w, Tail(P))
        BY <1>2, WorkerKeepsTail
      <4>2. todo'[v] = Tail(P)
        BY <1>3, <3>1
      <4>3. QED
        BY <3>1, <4>1, <4>2
    <3>2. CASE v # w
      <4>1. todo'[v] = todo[v]
        BY <1>5, <3>2
      <4>2. QED
        BY <1>1, <4>1 DEF TodoOK
    <3>3. QED
      BY <3>1, <3>2
  <2>3. QED
    BY <1>1, <1>3, <1>5, <2>1, <2>2 DEF TodoOK
<1>9. \A v \in Workers : /\ v[1] \in Processes /\ todo'[v[1]] = todo[v[1]]
                         /\ At(v[1], "join") <=> At(v[1], "join")'
  BY <1>4, WorkerType DEF At
<1>10. StartedTogether'
  <2> SUFFICES ASSUME NEW v \in Workers, Working(v)'
               PROVE  At(v[1], "join")'
    BY DEF StartedTogether
  <2>1. CASE v = w
    <3>1. CASE h.do = "wait"
      BY <1>6, <1>9, <2>1, <3>1
    <3>2. CASE h.do # "wait"
      <4>1. Working(w)
        BY <1>7, <2>1, <3>2
      <4>2. QED
        BY <1>1, <1>9, <2>1, <4>1 DEF StartedTogether
    <3>3. QED
      BY <3>1, <3>2
  <2>2. CASE v # w
    <3>1. Working(v)
      BY <1>5, <2>2 DEF Working
    <3>2. QED
      BY <1>1, <1>9, <3>1 DEF StartedTogether
  <2>3. QED
    BY <2>1, <2>2
<1>11. Launched'
  <2> SUFFICES ASSUME NEW v \in Workers
               PROVE  /\ todo'[v] # << >> => v \in Crew(test, v[1])
                      /\ waiting'[v] # "no" => At(v, "wait")'
                      /\ waiting'[v] = "woken" => At(v[1], "join")'
                      /\ signaled[v[1]] /\ ~ At(v[1], "join")' => todo'[v] = << >>
                      /\ todo'[v] # << >> => ~ Due(todo'[v[1]], Joins(test, v[1]), LaunchesOf(test, v[1], v))
    BY DEF Launched
  <2>1. /\ todo[v] # << >> => v \in Crew(test, v[1])
        /\ waiting[v] # "no" => At(v, "wait")
        /\ waiting[v] = "woken" => At(v[1], "join")
        /\ signaled[v[1]] /\ ~ At(v[1], "join") => todo[v] = << >>
        /\ todo[v] # << >> => ~ Due(todo[v[1]], Joins(test, v[1]), LaunchesOf(test, v[1], v))
    BY <1>1 DEF Launched
  <2>2. CASE v = w
    <3>1. todo[v] # << >> /\ waiting'[v] = "no"
      BY <1>2, <1>5, <2>2 DEF P
    <3>2. QED
      BY <1>9, <2>1, <3>1
  <2>3. CASE v # w
    <3>1. todo'[v] = todo[v] /\ waiting'[v] = waiting[v] /\ (At(v, "wait") <=> At(v, "wait")')
      BY <1>5, <2>3 DEF At
    <3>2. QED
      BY <1>9, <2>1, <3>1
  <2>4. QED
    BY <2>2, <2>3
<1>12. Reset'
  BY <1>1, <1>4 DEF Reset
<1>13. QED
  BY <1>8, <1>10, <1>11, <1>12 DEF TogetherInv

(* A worker goes to sleep at the local barrier. *)
LEMMA WorkerWaits ==
  ASSUME TogetherInv, NEW w \in Workers, Wait(w)
  PROVE  TogetherInv'
<1>1. /\ TodoOK /\ StartedTogether /\ Launched /\ Reset
  BY DEF TogetherInv
<1>2. /\ todo' = todo /\ test' = test /\ signaled' = signaled
      /\ waiting' = [waiting EXCEPT ![w] = "asleep"] /\ At(w, "wait")
  BY DEF Wait
<1>3. waiting \in [Workers -> {"no", "asleep", "woken"}]
  BY <1>1 DEF TodoOK
<1>4. /\ waiting' \in [Workers -> {"no", "asleep", "woken"}] /\ waiting'[w] = "asleep"
      /\ \A v \in Workers : v # w => waiting'[v] = waiting[v]
  BY <1>2, <1>3
<1>5. TodoOK'
  BY <1>1, <1>2, <1>4 DEF TodoOK
<1>6. StartedTogether'
  BY <1>1, <1>2 DEF StartedTogether, Working, At
<1>7. Launched'
  <2> SUFFICES ASSUME NEW v \in Workers
               PROVE  /\ todo[v] # << >> => v \in Crew(test, v[1])
                      /\ waiting'[v] # "no" => At(v, "wait")
                      /\ waiting'[v] = "woken" => At(v[1], "join")
                      /\ signaled[v[1]] /\ ~ At(v[1], "join") => todo[v] = << >>
                      /\ todo[v] # << >> => ~ Due(todo[v[1]], Joins(test, v[1]), LaunchesOf(test, v[1], v))
    BY <1>2 DEF Launched, At
  <2>1. /\ todo[v] # << >> => v \in Crew(test, v[1])
        /\ waiting[v] # "no" => At(v, "wait")
        /\ waiting[v] = "woken" => At(v[1], "join")
        /\ signaled[v[1]] /\ ~ At(v[1], "join") => todo[v] = << >>
        /\ todo[v] # << >> => ~ Due(todo[v[1]], Joins(test, v[1]), LaunchesOf(test, v[1], v))
    BY <1>1 DEF Launched
  <2>2. QED
    BY <1>2, <1>4, <2>1
<1>8. Reset'
  BY <1>1, <1>2 DEF Reset
<1>9. QED
  BY <1>5, <1>6, <1>7, <1>8 DEF TogetherInv

(* Nothing that the threads of a process share changes. *)
LEMMA NothingGoesOn ==
  ASSUME TogetherInv, UNCHANGED <<todo, test, signaled, waiting>>
  PROVE  TogetherInv'
<1>1. TodoOK => TodoOK'
  BY DEF TodoOK
<1>2. StartedTogether => StartedTogether'
  BY DEF StartedTogether, Working, At
<1>3. Launched => Launched'
  BY DEF Launched, At
<1>4. Reset => Reset'
  BY DEF Reset
<1>5. QED
  BY <1>1, <1>2, <1>3, <1>4 DEF TogetherInv

LEMMA WorkerStepTogether ==
  ASSUME TogetherInv, NEW w \in Workers, WorkerStep(w)
  PROVE  TogetherInv'
<1> DEFINE Goes == /\ todo[w] # << >> /\ Head(todo[w]).do # "wait"
                   /\ Step(w) /\ test' = test /\ signaled' = signaled /\ waiting' = waiting
<1>1. Goes => TogetherInv'
  BY WorkerGoesOn DEF Step
<1>2. Wait(w) => TogetherInv'
  BY WorkerWaits
<1>3. ASSUME Go(w) PROVE TogetherInv'
  BY <1>3, WorkerGoesOn DEF Go, At, Step
<1>4. ReadNodeID(w) \/ AccessRemote(w) \/ SendDatagram(w) => Goes
  BY DEF ReadNodeID, AccessRemote, SendDatagram, At, threads
<1>5. ResetMemory(w) \/ WriteQuestion(w) \/ WatchAnswer(w) \/ AwaitQuestion(w) \/ ReturnAnswer(w) => Goes
  BY DEF ResetMemory, WriteQuestion, WatchAnswer, AwaitQuestion, ReturnAnswer, At, threads
<1>6. PostReceive(w) \/ SendMessage(w) \/ PollReceive(w) => Goes
  BY DEF PostReceive, SendMessage, PollReceive, At, threads
<1>7. Proceed(w) \/ Sleep(w) => Goes
  BY DEF Proceed, Sleep, Waits, threads
<1> HIDE DEF Goes
<1>8. QED
  BY <1>1, <1>2, <1>3, <1>4, <1>5, <1>6, <1>7 DEF WorkerStep, WorkerOnly, Exchange

LEMMA ProcessStepTogether ==
  ASSUME TogetherInv, NEW p \in Processes, ProcessStep(p)
  PROVE  TogetherInv'
<1> DEFINE Goes == /\ todo[p] # << >> /\ Head(todo[p]).do \notin {"notify", "launch", "prepare"}
                   /\ Step(p) /\ test' = test /\ signaled' = signaled /\ waiting' = waiting
                   /\ Head(todo[p]).do = "join" => \A v \in Head(todo[p]).workers : todo[v] = << >>
<1>1. Goes => TogetherInv'
  BY MainGoesOn DEF Step
<1>2. Notify(p) => TogetherInv'
  BY MainWakes
<1>3. LaunchThreads(p) => TogetherInv'
  BY MainLaunches
<1>4. ASSUME PrepareThreads(p) PROVE TogetherInv'
  BY <1>4, MainGoesOn DEF PrepareThreads, At, Step
<1>5. StartServer(p) \/ Connect(p) \/ WriteNodeID(p) => Goes
  BY DEF StartServer, Connect, WriteNodeID, At, threads
<1>6. ASSUME Gather(p) PROVE TogetherInv'
  <2>1. test' = test /\ signaled' = signaled /\ waiting' = waiting
    BY <1>6 DEF Gather, threads
  <2>2. CASE Step(p)
    <3>1. todo[p] # << >> /\ Head(todo[p]).do = "gather"
      BY <1>6 DEF Gather, At
    <3>2. QED
      BY <1>1, <2>1, <2>2, <3>1
  <2>3. CASE UNCHANGED todo
    BY <2>1, <2>3, NothingGoesOn
  <2>4. QED
    BY <1>6, <2>2, <2>3 DEF Gather
<1>7. PostReceive(p) \/ SendMessage(p) \/ PollReceive(p) => Goes
  BY DEF PostReceive, SendMessage, PollReceive, At, threads
<1>8. ASSUME Proceed(p) PROVE Goes
  <2>1. Head(todo[p]).do = "join" => \A v \in Head(todo[p]).workers : todo[v] = << >>
    BY <1>8 DEF Proceed, Holds
  <2>2. QED
    BY <1>8, <2>1 DEF Proceed, Waits, threads
<1>9. Sleep(p) => Goes
  BY DEF Sleep, threads
<1> HIDE DEF Goes
<1>10. QED
  BY <1>1, <1>2, <1>3, <1>4, <1>5, <1>6, <1>7, <1>8, <1>9 DEF ProcessStep, MainOnly, Exchange

LEMMA TogetherStep ==
  ASSUME TogetherInv, [Next]_vars
  PROVE  TogetherInv'
<1>1. CASE Next
  BY <1>1, WorkerStepTogether, ProcessStepTogether DEF Next
<1>2. CASE UNCHANGED vars
  <2>1. UNCHANGED <<todo, test, signaled, waiting>>
    BY <1>2 DEF vars, threads
  <2>2. QED
    BY <2>1, NothingGoesOn
<1>3. QED
  BY <1>1, <1>2

(* Whatever the deployment, a worker is past its local barrier only        *)
(* while the main thread of its process waits for it to end: nobody        *)
(* begins an operation before runThreads, and nobody is still in one       *)
(* when the next is prepared.                                              *)
THEOREM StartTogether == Spec => []StartedTogether
<1>1. Init => TogetherInv
  BY TogetherInit
<1>2. TogetherInv /\ [Next]_vars => TogetherInv'
  BY TogetherStep
<1>3. TogetherInv => StartedTogether
  BY DEF TogetherInv
<1>4. QED
  BY <1>1, <1>2, <1>3, PTL DEF Spec

(* The node that a server's worker answers. *)
NodeOf(w) == <<NodeIDs[m_respond_conn_id[w]], w[1]>>

(* It has polled a question on q and not answered yet. *)
Owes(w, q) ==
  IF w \in Servers THEN q[2] = w /\ Due(todo[w], PollsAt(q), AnswersAt(q))
  ELSE NodeOf(w) = q /\ Due(todo[w], Polls, Answers)

Owing(q) == {w \in AtServers : Owes(w, q)}
(* The client has asked on q and not taken the answer yet. *)
AwaitsAnswer(q) == Due(todo[q[1]], Asks(q), Takes(q))

(* The types of what is counted. *)
Counts ==
  /\ {asked, answered, taken} \subseteq [Connections -> Nat]
  /\ completed \in [Ends -> Nat]
  /\ m_respond_conn_id = [w \in ServerThreads |-> m_respond_conn_id[w]]

(* Nothing is lost between question and answer: a question is answered,    *)
(* lies with the server, or is owed an answer; an answer lies with the     *)
(* client or has been taken.                                               *)
Balanced(q) ==
  /\ asked[q] = taken[q] + (IF AwaitsAnswer(q) THEN 1 ELSE 0)
  /\ answered[q] = taken[q] + completed[<<q, "client">>]
  /\ asked[q] = answered[q] + completed[<<q, "server">>] + Cardinality(Owing(q))

Balance == \A q \in Connections : Balanced(q)

(* Taking turns, also where AnswersInTurn makes an exception. *)
EachInTurn ==
  \A q \in Connections :
    taken[q] <= answered[q] /\ answered[q] <= asked[q] /\ asked[q] <= taken[q] + 1

(* The inductive invariant of taking turns. After a fault nothing          *)
(* happens.                                                                *)
TurnsInv == ~ Normal(test) =>
  /\ Counts
  /\ IF fault THEN EachInTurn ELSE Balance

LEMMA SendersType ==
  /\ \A q \in Connections : /\ q = <<q[1], q[2]>> /\ q[1] \in Threads /\ q[2] \in Servers
                            /\ <<q, "client">> \in Ends /\ <<q, "server">> \in Ends
  /\ \A w \in Threads : w \in Workers /\ w \notin ServerThreads /\ w \notin AtServers /\ w \notin Processes
  /\ \A w \in ServerThreads : w \in Workers /\ w \notin Threads /\ w \notin Processes
  /\ \A s \in Servers : s \in Processes /\ s \notin Workers /\ s \notin Clients
BY RolesAssumption DEF Connections, Ends, LinkEnds, Threads, ServerThreads, Workers, Processes, AtServers

LEMMA AtServersFinite ==
  /\ IsFiniteSet(AtServers)
  /\ \A q : IsFiniteSet(Owing(q)) /\ Cardinality(Owing(q)) \in Nat
<1>1. IsFiniteSet(Servers) /\ Cardinality(Clients) \in Nat /\ MaxThreads \in Nat
  BY CountAssumption, FS_CardinalityType
<1>2. IsFiniteSet(1 .. MaxThreads * Cardinality(Clients))
  <2>1. MaxThreads * Cardinality(Clients) \in Int
    BY <1>1
  <2>2. QED
    BY <2>1, FS_Interval
<1>3. IsFiniteSet(ServerThreads)
  BY <1>1, <1>2, FS_Product DEF ServerThreads
<1>4. IsFiniteSet(AtServers)
  BY <1>1, <1>3, FS_Union DEF AtServers
<1>5. ASSUME NEW q PROVE IsFiniteSet(Owing(q)) /\ Cardinality(Owing(q)) \in Nat
  <2>1. Owing(q) \subseteq AtServers
    BY DEF Owing
  <2>2. IsFiniteSet(Owing(q))
    BY <1>4, <2>1, FS_Subset
  <2>3. QED
    BY <2>2, FS_CardinalityType
<1>6. QED
  BY <1>4, <1>5

(* The ends that threads use. *)
LEMMA ClientEnd ==
  ASSUME TogetherInv, ~ Normal(test), NEW w \in Threads, todo[w] # << >>
  PROVE  /\ Head(todo[w]).do \notin {"write", "watch", "await", "return", "respond"}
         /\ At(w, "message") => End(w) \in ({w} \X Servers) \X {"client"}
         /\ At(w, "poll") => End(w) \in (({w} \X Servers) \X {"client"}) \cup {Signals(w)}
         /\ \A q \in {w} \X Servers :
              /\ Head(todo[w]) \in Asks(q) <=> At(w, "message") /\ End(w) = <<q, "client">>
              /\ Head(todo[w]) \in Takes(q) <=> At(w, "poll") /\ End(w) = <<q, "client">>
         /\ At(w, "datagram") => Head(todo[w]).to \subseteq Mailboxes
<1> DEFINE h == Head(todo[w])
<1>1. todo[w] \in Seq(ClientOrders(test, w))
  BY SendersType DEF TogetherInv, TodoOK, WorkerKeeps
<1>2. h \in ClientOrders(test, w)
  BY <1>1, TailOf
<1> HIDE DEF h
<1>3. \/ h \in [do : {"post", "message", "poll", "access"}, end : ({w} \X Servers) \X {"client"}]
      \/ h \in [do : {"post", "poll"}, end : {Signals(w)}]
      \/ h \in [do : {"wait", "sleep", "reset"}]
      \/ h \in [do : {"datagram"}, to : SUBSET Mailboxes]
  BY <1>2 DEF ClientOrders
<1>4. CASE h \in [do : {"post", "message", "poll", "access"}, end : ({w} \X Servers) \X {"client"}]
  <2>1. /\ h.do \in {"post", "message", "poll", "access"} /\ h.end \in ({w} \X Servers) \X {"client"}
        /\ h = [do |-> h.do, end |-> h.end] /\ "end" \in DOMAIN h /\ "i" \notin DOMAIN h
    BY <1>4
  <2>2. End(w) = h.end
    BY <2>1 DEF End, h
  <2>3. \A q : /\ h \in Asks(q) <=> h.do = "message" /\ h.end = <<q, "client">>
               /\ h \in Takes(q) <=> h.do = "poll" /\ h.end = <<q, "client">>
    BY <2>1 DEF Asks, Takes
  <2>4. QED
    BY <2>1, <2>2, <2>3 DEF At, h
<1>5. CASE h \in [do : {"post", "poll"}, end : {Signals(w)}]
  <2>1. /\ h.do \in {"post", "poll"} /\ h.end = Signals(w) /\ "end" \in DOMAIN h
    BY <1>5
  <2>2. End(w) = Signals(w)
    BY <2>1 DEF End, h
  <2>3. \A q : Signals(w) # <<q, "client">>
    BY DEF Signals
  <2>4. \A q : h \notin Asks(q) /\ h \notin Takes(q)
    <3>1. \A q : \A x \in Asks(q) \cup Takes(q) : x.end = <<q, "client">>
      BY DEF Asks, Takes
    <3>2. QED
      BY <2>1, <2>3, <3>1
  <2>5. QED
    BY <2>1, <2>2, <2>3, <2>4 DEF At, h
<1>6. CASE h \in [do : {"wait", "sleep", "reset"}] \/ h \in [do : {"datagram"}, to : SUBSET Mailboxes]
  <2>1. h.do \in {"wait", "sleep", "reset", "datagram"} /\ (h.do = "datagram" => h.to \subseteq Mailboxes)
    BY <1>6
  <2>2. \A q : \A x \in Asks(q) \cup Takes(q) : x.do \in {"message", "write", "poll", "watch"}
    BY DEF Asks, Takes
  <2>3. \A q : h \notin Asks(q) /\ h \notin Takes(q)
    BY <2>1, <2>2
  <2>4. QED
    BY <2>1, <2>3 DEF At, h
<1>7. QED
  BY <1>3, <1>4, <1>5, <1>6

LEMMA ServerEnd ==
  ASSUME TogetherInv, ~ Normal(test), NEW w \in ServerThreads, todo[w] # << >>
  PROVE  /\ Head(todo[w]).do \notin {"write", "watch", "await", "return", "reset"}
         /\ At(w, "message") => End(w) = <<NodeOf(w), "server">>
         /\ At(w, "poll") => End(w) \in {<<NodeOf(w), "server">>, Group(w)}
         /\ Head(todo[w]) \in Answers <=> At(w, "message")
         /\ Head(todo[w]) \in Polls <=> At(w, "poll") /\ End(w) = <<NodeOf(w), "server">>
         /\ At(w, "datagram") => Head(todo[w]).to \subseteq Mailboxes
         /\ At(w, "respond") => Head(todo[w]) = [do |-> "respond"]
<1> DEFINE h == Head(todo[w])
<1>1. todo[w] \in Seq(ServerOrders(test, w))
  BY SendersType DEF TogetherInv, TodoOK, WorkerKeeps
<1>2. h \in ServerOrders(test, w)
  BY <1>1, TailOf
<1> HIDE DEF h
<1>3. \/ h \in [do : {"wait", "respond", "post", "poll", "message", "allConnected"}]
      \/ h \in [do : {"post", "poll"}, end : {Group(w)}]
      \/ h \in [do : {"datagram"}, to : SUBSET Mailboxes]
  BY <1>2 DEF ServerOrders
<1>4. CASE h \in [do : {"wait", "respond", "post", "poll", "message", "allConnected"}]
  <2>1. /\ h.do \in {"wait", "respond", "post", "poll", "message", "allConnected"}
        /\ h = [do |-> h.do] /\ "end" \notin DOMAIN h
    BY <1>4
  <2>2. End(w) = <<NodeOf(w), "server">>
    BY <2>1 DEF End, NodeOf, h
  <2>3. /\ h \in Answers <=> h.do = "message"
        /\ h \in Polls <=> h.do = "poll"
    BY <2>1 DEF Answers, Polls
  <2>4. QED
    BY <2>1, <2>2, <2>3 DEF At, h
<1>5. CASE h \in [do : {"post", "poll"}, end : {Group(w)}]
  <2>1. /\ h.do \in {"post", "poll"} /\ h.end = Group(w) /\ "end" \in DOMAIN h
    BY <1>5
  <2>2. End(w) = Group(w) /\ Group(w) # <<NodeOf(w), "server">>
    BY <2>1 DEF End, Group, h
  <2>3. h \notin Polls /\ h \notin Answers
    BY <2>1 DEF Polls, Answers
  <2>4. QED
    BY <2>1, <2>2, <2>3 DEF At, h
<1>6. CASE h \in [do : {"datagram"}, to : SUBSET Mailboxes]
  BY <1>6 DEF At, h, Polls, Answers
<1>7. QED
  BY <1>3, <1>4, <1>5, <1>6

LEMMA MainEnd ==
  ASSUME TogetherInv, NEW p \in Processes, todo[p] # << >>
  PROVE  /\ Head(todo[p]).do \notin {"post", "datagram"}
         /\ p \notin Servers => Head(todo[p]).do \notin {"poll", "message"}
         /\ p \in Servers /\ (At(p, "poll") \/ At(p, "message")) => End(p) \in (Threads \X {p}) \X {"server"}
         /\ \A q : /\ Head(todo[p]) \in PollsAt(q) <=>
                        p \in Servers /\ At(p, "poll") /\ End(p) = <<q, "server">>
                   /\ Head(todo[p]) \in AnswersAt(q) <=>
                        p \in Servers /\ At(p, "message") /\ End(p) = <<q, "server">>
<1> DEFINE h == Head(todo[p])
<1>1. todo[p] \in Seq(MainOrders(test, p))
  BY DEF TogetherInv, TodoOK, MainKeeps
<1>2. h \in MainOrders(test, p)
  BY <1>1, TailOf
<1> HIDE DEF h
<1>3. \/ h.do \notin {"poll", "message", "post", "datagram"}
      \/ p \in Servers /\ h \in [do : {"poll", "message"}, end : (Threads \X {p}) \X {"server"}]
  BY <1>2 DEF MainOrders, CalmOrders, Prepares, Launches, Notifies, Joins
<1>4. \A q : \A x \in PollsAt(q) \cup AnswersAt(q) : x.do \in {"poll", "message"}
  BY DEF PollsAt, AnswersAt
<1>5. CASE h.do \notin {"poll", "message", "post", "datagram"}
  <2>1. \A q : h \notin PollsAt(q) /\ h \notin AnswersAt(q)
    BY <1>4, <1>5
  <2>2. QED
    BY <1>5, <2>1 DEF At, h
<1>6. CASE p \in Servers /\ h \in [do : {"poll", "message"}, end : (Threads \X {p}) \X {"server"}]
  <2>1. /\ h.do \in {"poll", "message"} /\ h.end \in (Threads \X {p}) \X {"server"}
        /\ h = [do |-> h.do, end |-> h.end] /\ "end" \in DOMAIN h
    BY <1>6
  <2>2. End(p) = h.end
    BY <2>1 DEF End, h
  <2>3. \A q : /\ h \in PollsAt(q) <=> h.do = "poll" /\ h.end = <<q, "server">>
               /\ h \in AnswersAt(q) <=> h.do = "message" /\ h.end = <<q, "server">>
    BY <2>1 DEF PollsAt, AnswersAt
  <2>4. QED
    BY <1>6, <2>1, <2>2, <2>3 DEF At, h
<1>7. QED
  BY <1>3, <1>5, <1>6

(* A client's thread owes nothing, and asks again when it has its answer. *)
LEMMA AwaitsAfter ==
  ASSUME TogetherInv, ~ Normal(test), NEW w \in Everybody, todo[w] # << >>,
         todo' = [todo EXCEPT ![w] = Tail(@)], NEW q \in Connections
  PROVE  /\ w = q[1] /\ At(w, "message") /\ End(w) = <<q, "client">> =>
              ~ AwaitsAnswer(q) /\ AwaitsAnswer(q)'
         /\ w = q[1] /\ At(w, "poll") /\ End(w) = <<q, "client">> =>
              AwaitsAnswer(q) /\ ~ AwaitsAnswer(q)'
         /\ ~ (w = q[1] /\ (At(w, "message") \/ At(w, "poll")) /\ End(w) = <<q, "client">>) =>
              (AwaitsAnswer(q)' <=> AwaitsAnswer(q))
<1> DEFINE P == todo[w]
<1>1. q[1] \in Threads /\ q[2] \in Servers /\ q = <<q[1], q[2]>> /\ q[1] \in Everybody
  BY SendersType DEF Everybody
<1>2. todo = [x \in Everybody |-> todo[x]]
  BY DEF TogetherInv, TodoOK
<1>3. CASE w # q[1]
  <2>1. todo'[q[1]] = todo[q[1]]
    BY <1>1, <1>2, <1>3
  <2>2. QED
    BY <1>3, <2>1 DEF AwaitsAnswer
<1>4. CASE w = q[1]
  <2>1. w \in Threads /\ q \in {w} \X Servers
    BY <1>1, <1>4
  <2>2. /\ P \in Seq(ClientOrders(test, w)) /\ P # << >>
        /\ Before(P, Asks(q), Takes(q), Asks(q)) /\ Between(P, Takes(q), Asks(q), Takes(q))
    BY <2>1, SendersType DEF TogetherInv, TodoOK, WorkerKeeps
  <2>3. Asks(q) \cap Takes(q) = {}
    BY DEF Asks, Takes
  <2>4. todo'[w] = Tail(P)
    BY <1>2
  <2>5. /\ Head(P) \in Asks(q) <=> At(w, "message") /\ End(w) = <<q, "client">>
        /\ Head(P) \in Takes(q) <=> At(w, "poll") /\ End(w) = <<q, "client">>
    BY <2>1, ClientEnd
  <2>6. (AwaitsAnswer(q) <=> Due(P, Asks(q), Takes(q))) /\ (AwaitsAnswer(q)' <=> Due(Tail(P), Asks(q), Takes(q)))
    BY <1>4, <2>4 DEF AwaitsAnswer
  <2> HIDE DEF P
  <2>7. /\ Head(P) \in Asks(q) => ~ Due(P, Asks(q), Takes(q)) /\ Due(Tail(P), Asks(q), Takes(q))
        /\ Head(P) \in Takes(q) => Due(P, Asks(q), Takes(q)) /\ ~ Due(Tail(P), Asks(q), Takes(q))
        /\ Head(P) \notin Asks(q) \cup Takes(q) =>
             (Due(P, Asks(q), Takes(q)) <=> Due(Tail(P), Asks(q), Takes(q)))
    BY <2>2, <2>3, NextOfTail
  <2>8. QED
    BY <1>4, <2>5, <2>6, <2>7
<1>5. QED
  BY <1>3, <1>4

(* Somebody at a server who polls a question owes its answer. *)
LEMMA OwesAfter ==
  ASSUME TogetherInv, ~ Normal(test), NEW w \in AtServers, todo[w] # << >>,
         todo' = [todo EXCEPT ![w] = Tail(@)], m_respond_conn_id' = m_respond_conn_id,
         NEW q \in Connections
  PROVE  /\ At(w, "poll") /\ End(w) = <<q, "server">> => ~ Owes(w, q) /\ Owes(w, q)'
         /\ At(w, "message") /\ End(w) = <<q, "server">> => Owes(w, q) /\ ~ Owes(w, q)'
         /\ ~ ((At(w, "poll") \/ At(w, "message")) /\ End(w) = <<q, "server">>) =>
              (Owes(w, q)' <=> Owes(w, q))
<1> DEFINE P == todo[w]
<1>1. todo = [x \in Everybody |-> todo[x]] /\ w \in Everybody
  BY SendersType DEF TogetherInv, TodoOK, Everybody, AtServers
<1>2. todo'[w] = Tail(P) /\ P # << >>
  BY <1>1
<1>3. q = <<q[1], q[2]>> /\ q[1] \in Threads /\ q[2] \in Servers
  BY SendersType
<1>4. CASE w \in Servers
  <2>1. w \in Processes
    BY <1>4, SendersType
  <2>2. CASE q[2] # w
    <3>1. (At(w, "poll") \/ At(w, "message")) => End(w) # <<q, "server">>
      <4>1. (At(w, "poll") \/ At(w, "message")) => End(w) \in (Threads \X {w}) \X {"server"}
        BY <1>4, <2>1, MainEnd
      <4>2. <<q, "server">> \notin (Threads \X {w}) \X {"server"}
        BY <1>3, <2>2
      <4>3. QED
        BY <4>1, <4>2
    <3>2. ~ Owes(w, q) /\ ~ Owes(w, q)'
      BY <1>4, <2>2 DEF Owes
    <3>3. QED
      BY <3>1, <3>2
  <2>3. CASE q[2] = w
    <3>1. q \in Threads \X {w}
      BY <1>3, <2>3
    <3>2. /\ P \in Seq(MainOrders(test, w))
          /\ Before(P, PollsAt(q), AnswersAt(q), PollsAt(q)) /\ Between(P, AnswersAt(q), PollsAt(q), AnswersAt(q))
      BY <2>1, <3>1 DEF TogetherInv, TodoOK, MainKeeps
    <3>3. PollsAt(q) \cap AnswersAt(q) = {}
      BY DEF PollsAt, AnswersAt
    <3>4. /\ Head(P) \in PollsAt(q) <=> At(w, "poll") /\ End(w) = <<q, "server">>
          /\ Head(P) \in AnswersAt(q) <=> At(w, "message") /\ End(w) = <<q, "server">>
      BY <1>4, <2>1, MainEnd
    <3>5. /\ Owes(w, q) <=> Due(P, PollsAt(q), AnswersAt(q))
          /\ Owes(w, q)' <=> Due(Tail(P), PollsAt(q), AnswersAt(q))
      BY <1>2, <1>4, <2>3 DEF Owes
    <3> HIDE DEF P
    <3>6. /\ Head(P) \in PollsAt(q) => ~ Due(P, PollsAt(q), AnswersAt(q)) /\ Due(Tail(P), PollsAt(q), AnswersAt(q))
          /\ Head(P) \in AnswersAt(q) => Due(P, PollsAt(q), AnswersAt(q)) /\ ~ Due(Tail(P), PollsAt(q), AnswersAt(q))
          /\ Head(P) \notin PollsAt(q) \cup AnswersAt(q) =>
               (Due(P, PollsAt(q), AnswersAt(q)) <=> Due(Tail(P), PollsAt(q), AnswersAt(q)))
      BY <1>2, <3>2, <3>3, NextOfTail
    <3>7. QED
      BY <3>4, <3>5, <3>6
  <2>4. QED
    BY <2>2, <2>3
<1>5. CASE w \notin Servers
  <2>1. w \in ServerThreads
    BY <1>5 DEF AtServers
  <2>2. /\ P \in Seq(ServerOrders(test, w))
        /\ Before(P, Polls, Answers, Polls) /\ Between(P, Answers, Polls, Answers)
    BY <2>1, SendersType DEF TogetherInv, TodoOK, WorkerKeeps
  <2>3. Polls \cap Answers = {}
    BY DEF Polls, Answers
  <2>4. /\ Head(P) \in Polls <=> At(w, "poll") /\ End(w) = <<NodeOf(w), "server">>
        /\ Head(P) \in Answers <=> At(w, "message")
        /\ At(w, "message") => End(w) = <<NodeOf(w), "server">>
        /\ At(w, "poll") => End(w) \in {<<NodeOf(w), "server">>, Group(w)}
    BY <2>1, ServerEnd
  <2>5. /\ Owes(w, q) <=> NodeOf(w) = q /\ Due(P, Polls, Answers)
        /\ Owes(w, q)' <=> NodeOf(w) = q /\ Due(Tail(P), Polls, Answers)
    BY <1>2, <1>5 DEF Owes, NodeOf
  <2>6. CASE NodeOf(w) # q
    <3>1. Group(w) # <<q, "server">>
      BY DEF Group
    <3>2. QED
      BY <2>4, <2>5, <2>6, <3>1
  <2>7. CASE NodeOf(w) = q
    <3>1. Group(w) # <<q, "server">>
      BY DEF Group
    <3> HIDE DEF P
    <3>2. /\ Head(P) \in Polls => ~ Due(P, Polls, Answers) /\ Due(Tail(P), Polls, Answers)
          /\ Head(P) \in Answers => Due(P, Polls, Answers) /\ ~ Due(Tail(P), Polls, Answers)
          /\ Head(P) \notin Polls \cup Answers =>
               (Due(P, Polls, Answers) <=> Due(Tail(P), Polls, Answers))
      BY <1>2, <2>2, <2>3, NextOfTail
    <3>3. QED
      BY <2>4, <2>5, <2>7, <3>1, <3>2
  <2>8. QED
    BY <2>6, <2>7
<1>6. QED
  BY <1>4, <1>5

(* What others at the servers owe does not change. *)
LEMMA OthersOwe ==
  ASSUME TogetherInv, NEW w \in Everybody, todo' = [todo EXCEPT ![w] = Tail(@)],
         NEW v \in AtServers, v # w, m_respond_conn_id'[v] = m_respond_conn_id[v], NEW q
  PROVE  Owes(v, q)' <=> Owes(v, q)
<1>1. todo = [x \in Everybody |-> todo[x]] /\ v \in Everybody
  BY SendersType DEF TogetherInv, TodoOK, Everybody, AtServers
<1>2. todo'[v] = todo[v]
  BY <1>1
<1>3. QED
  BY <1>2 DEF Owes, NodeOf

LEMMA OwingAfter ==
  ASSUME TogetherInv, ~ Normal(test), NEW w \in Everybody, todo[w] # << >>,
         todo' = [todo EXCEPT ![w] = Tail(@)], m_respond_conn_id' = m_respond_conn_id,
         NEW q \in Connections
  PROVE  /\ w \in AtServers /\ At(w, "poll") /\ End(w) = <<q, "server">> =>
              Cardinality(Owing(q))' = Cardinality(Owing(q)) + 1
         /\ w \in AtServers /\ At(w, "message") /\ End(w) = <<q, "server">> =>
              Cardinality(Owing(q))' = Cardinality(Owing(q)) - 1
         /\ ~ (w \in AtServers /\ (At(w, "poll") \/ At(w, "message")) /\ End(w) = <<q, "server">>) =>
              Cardinality(Owing(q))' = Cardinality(Owing(q))
<1> DEFINE O == Owing(q)
           N == {v \in AtServers : Owes(v, q)'}
<1>1. O = {v \in AtServers : Owes(v, q)} /\ Owing(q)' = N
  BY DEF Owing
<1>2. \A v \in AtServers : v # w => (Owes(v, q)' <=> Owes(v, q))
  BY OthersOwe
<1>3. IsFiniteSet(O)
  BY AtServersFinite
<1>4. ASSUME w \in AtServers, At(w, "poll"), End(w) = <<q, "server">>
      PROVE  Cardinality(N) = Cardinality(O) + 1
  <2>1. ~ Owes(w, q) /\ Owes(w, q)'
    BY <1>4, OwesAfter
  <2>2. w \notin O /\ N = O \cup {w}
    BY <1>1, <1>2, <1>4, <2>1
  <2> HIDE DEF O, N
  <2>3. QED
    BY <1>3, <2>2, FS_AddElement
<1>5. ASSUME w \in AtServers, At(w, "message"), End(w) = <<q, "server">>
      PROVE  Cardinality(N) = Cardinality(O) - 1
  <2>1. Owes(w, q) /\ ~ Owes(w, q)'
    BY <1>5, OwesAfter
  <2>2. w \in O /\ N = O \ {w}
    BY <1>1, <1>2, <1>5, <2>1
  <2> HIDE DEF O, N
  <2>3. QED
    BY <1>3, <2>2, FS_RemoveElement
<1>6. ASSUME ~ (w \in AtServers /\ (At(w, "poll") \/ At(w, "message")) /\ End(w) = <<q, "server">>)
      PROVE  N = O
  <2>1. w \in AtServers => (Owes(w, q)' <=> Owes(w, q))
    BY <1>6, OwesAfter
  <2>2. QED
    BY <1>1, <1>2, <2>1
<1>7. Cardinality(Owing(q))' = Cardinality(N)
  BY <1>1
<1> HIDE DEF N
<1>8. QED
  BY <1>4, <1>5, <1>6, <1>7

(* The numbers of a connection. *)
LEMMA NumbersType ==
  ASSUME Counts, NEW q \in Connections
  PROVE  /\ asked[q] \in Nat /\ answered[q] \in Nat /\ taken[q] \in Nat
         /\ completed[<<q, "client">>] \in Nat /\ completed[<<q, "server">>] \in Nat
         /\ Cardinality(Owing(q)) \in Nat
<1>1. <<q, "client">> \in Ends /\ <<q, "server">> \in Ends
  BY SendersType
<1>2. QED
  BY <1>1, AtServersFinite DEF Counts

(* Balance says more than taking turns. *)
LEMMA TurnsFromBalance ==
  ASSUME Counts, Balance
  PROVE  EachInTurn
<1> SUFFICES ASSUME NEW q \in Connections
             PROVE  taken[q] <= answered[q] /\ answered[q] <= asked[q] /\ asked[q] <= taken[q] + 1
  BY DEF EachInTurn
<1>1. Balanced(q)
  BY DEF Balance
<1>2. QED
  BY <1>1, NumbersType DEF Balanced

LEMMA BalanceStays ==
  ASSUME Balance, UNCHANGED <<asked, answered, taken>>,
         \A q \in Connections : /\ completed'[<<q, "client">>] = completed[<<q, "client">>]
                                /\ completed'[<<q, "server">>] = completed[<<q, "server">>]
                                /\ AwaitsAnswer(q)' <=> AwaitsAnswer(q)
                                /\ Cardinality(Owing(q))' = Cardinality(Owing(q))
  PROVE  Balance'
<1> SUFFICES ASSUME NEW q \in Connections
             PROVE  Balanced(q)'
  BY DEF Balance
<1>1. Balanced(q)
  BY DEF Balance
<1>2. QED
  BY <1>1 DEF Balanced

(* A receive is completed, or a completion polled. *)
LEMMA CompletedChanges ==
  ASSUME Counts, NEW e, NEW n, e \in Ends => n \in Nat, completed' = [completed EXCEPT ![e] = n]
  PROVE  /\ completed' \in [Ends -> Nat]
         /\ \A d \in Ends : completed'[d] = IF d = e THEN n ELSE completed[d]
<1>1. completed \in [Ends -> Nat]
  BY DEF Counts
<1>2. \A d \in Ends : completed'[d] = IF d = e THEN n ELSE completed[d]
  BY <1>1
<1>3. completed' = [d \in Ends |-> completed'[d]]
  BY <1>1
<1>4. \A d \in Ends : completed'[d] \in Nat
  BY <1>1, <1>2
<1>5. QED
  BY <1>2, <1>3, <1>4

LEMMA AskTurns ==
  ASSUME TogetherInv, TurnsInv, ~ Normal(test), ~ fault, NEW w \in Threads, SendMessage(w), fault' = fault
  PROVE  TurnsInv'
<1> DEFINE r == Conn(w)
<1>1. /\ Counts /\ Balance
  BY DEF TurnsInv
<1>2. /\ todo[w] # << >> /\ At(w, "message") /\ todo' = [todo EXCEPT ![w] = Tail(@)]
      /\ test' = test /\ m_respond_conn_id' = m_respond_conn_id /\ taken' = taken
      /\ w \in Everybody /\ w \notin AtServers
  BY SendersType DEF SendMessage, Step, At, memories, Everybody
<1>3. End(w) = <<r, "client">> /\ r \in {w} \X Servers
  <2>1. End(w) \in ({w} \X Servers) \X {"client"}
    BY <1>2, ClientEnd
  <2>2. QED
    BY <2>1 DEF Conn
<1>4. r \in Connections /\ r[1] = w
  BY <1>3 DEF Connections
<1>5. /\ completed' = [completed EXCEPT ![<<r, "server">>] = @ + 1]
      /\ asked' = [asked EXCEPT ![r] = @ + 1]
      /\ answered' = [answered EXCEPT ![r] = @]
  BY <1>2 DEF SendMessage, Other, queues
<1> HIDE DEF r
<1>6. /\ asked \in [Connections -> Nat] /\ answered \in [Connections -> Nat] /\ taken \in [Connections -> Nat]
  BY <1>1 DEF Counts
<1>7. /\ asked' \in [Connections -> Nat] /\ answered' = answered
      /\ \A q \in Connections : asked'[q] = IF q = r THEN asked[q] + 1 ELSE asked[q]
  <2>1. answered' = answered
    BY <1>4, <1>5, <1>6
  <2>2. \A q \in Connections : asked'[q] = IF q = r THEN asked[q] + 1 ELSE asked[q]
    BY <1>4, <1>5, <1>6
  <2>3. asked' = [q \in Connections |-> asked'[q]]
    BY <1>5, <1>6
  <2>4. \A q \in Connections : asked'[q] \in Nat
    BY <1>6, <2>2
  <2>5. QED
    BY <2>1, <2>2, <2>3, <2>4
<1>8. /\ completed' \in [Ends -> Nat]
      /\ \A d \in Ends : completed'[d] = IF d = <<r, "server">> THEN completed[d] + 1 ELSE completed[d]
  <2> DEFINE e == <<r, "server">>
             n == completed[e] + 1
  <2>1. e \in Ends => n \in Nat
    BY <1>1 DEF Counts
  <2>2. completed' = [completed EXCEPT ![e] = n]
    BY <1>5
  <2> HIDE DEF n
  <2>3. /\ completed' \in [Ends -> Nat]
        /\ \A d \in Ends : completed'[d] = IF d = e THEN n ELSE completed[d]
    BY <1>1, <2>1, <2>2, CompletedChanges
  <2>4. QED
    BY <2>3 DEF n
<1>9. Counts'
  BY <1>1, <1>2, <1>6, <1>7, <1>8 DEF Counts
<1>10. Balance'
  <2> SUFFICES ASSUME NEW q \in Connections
               PROVE  Balanced(q)'
    BY DEF Balance
  <2>1. Balanced(q)
    BY <1>1 DEF Balance
  <2>2. Cardinality(Owing(q))' = Cardinality(Owing(q))
    BY <1>2, OwingAfter
  <2>3. /\ completed'[<<q, "client">>] = completed[<<q, "client">>]
        /\ completed'[<<q, "server">>] = completed[<<q, "server">>] + (IF q = r THEN 1 ELSE 0)
    BY <1>8, NumbersType, <1>1, SendersType
  <2>4. CASE q = r
    <3>1. ~ AwaitsAnswer(q) /\ AwaitsAnswer(q)'
      BY <1>2, <1>3, <1>4, <2>4, AwaitsAfter
    <3>2. asked'[q] = asked[q] + 1 /\ answered'[q] = answered[q] /\ taken'[q] = taken[q]
      BY <1>2, <1>7, <2>4
    <3>3. completed'[<<q, "server">>] = completed[<<q, "server">>] + 1
      BY <2>3, <2>4
    <3>4. /\ asked[q] = taken[q] /\ answered[q] = taken[q] + completed[<<q, "client">>]
          /\ asked[q] = answered[q] + completed[<<q, "server">>] + Cardinality(Owing(q))
      BY <1>1, <2>1, <3>1, NumbersType DEF Balanced
    <3>5. asked'[q] = taken'[q] + (IF AwaitsAnswer(q)' THEN 1 ELSE 0)
      BY <3>1, <3>2, <3>4
    <3>6. answered'[q] = taken'[q] + completed'[<<q, "client">>]
      BY <2>3, <3>2, <3>4
    <3>7. asked'[q] = answered'[q] + completed'[<<q, "server">>] + Cardinality(Owing(q))'
      BY <1>1, <2>2, <3>2, <3>3, <3>4, NumbersType
    <3>8. QED
      BY <3>5, <3>6, <3>7 DEF Balanced
  <2>5. CASE q # r
    <3>1. End(w) # <<q, "client">>
      BY <1>3, <2>5
    <3>2. AwaitsAnswer(q)' <=> AwaitsAnswer(q)
      BY <1>2, <3>1, AwaitsAfter
    <3>3. asked'[q] = asked[q] /\ answered'[q] = answered[q] /\ taken'[q] = taken[q]
      BY <1>2, <1>7, <2>5
    <3>4. completed'[<<q, "server">>] = completed[<<q, "server">>]
      BY <1>1, <2>3, <2>5, NumbersType
    <3>5. QED
      BY <2>1, <2>2, <2>3, <3>2, <3>3, <3>4 DEF Balanced
  <2>6. QED
    BY <2>4, <2>5
<1>11. QED
  BY <1>9, <1>10 DEF TurnsInv

(* A server sends the answer to what it has polled. *)
LEMMA AnswerTurns ==
  ASSUME TogetherInv, TurnsInv, ~ Normal(test), ~ fault, NEW w \in AtServers, SendMessage(w), fault' = fault
  PROVE  TurnsInv'
<1> DEFINE r == Conn(w)
<1>1. /\ Counts /\ Balance
  BY DEF TurnsInv
<1>2. /\ todo[w] # << >> /\ At(w, "message") /\ todo' = [todo EXCEPT ![w] = Tail(@)]
      /\ test' = test /\ m_respond_conn_id' = m_respond_conn_id /\ taken' = taken
      /\ w \in Everybody /\ w \notin Threads
  BY SendersType DEF SendMessage, Step, At, memories, Everybody, AtServers
<1>3. End(w) = <<r, "server">>
  <2>1. CASE w \in Servers
    <3>1. End(w) \in (Threads \X {w}) \X {"server"}
      BY <1>2, <2>1, SendersType, MainEnd
    <3>2. QED
      BY <3>1 DEF Conn
  <2>2. CASE w \in ServerThreads
    <3>1. End(w) = <<NodeOf(w), "server">>
      BY <1>2, <2>2, ServerEnd
    <3>2. QED
      BY <3>1 DEF Conn
  <2>3. QED
    BY <2>1, <2>2 DEF AtServers
<1>4. /\ completed' = [completed EXCEPT ![<<r, "client">>] = @ + 1]
      /\ asked' = [asked EXCEPT ![r] = @]
      /\ answered' = [answered EXCEPT ![r] = @ + 1]
  BY <1>2 DEF SendMessage, Other, queues
<1> HIDE DEF r
<1>5. /\ asked \in [Connections -> Nat] /\ answered \in [Connections -> Nat] /\ taken \in [Connections -> Nat]
  BY <1>1 DEF Counts
<1>6. /\ answered' \in [Connections -> Nat] /\ asked' = asked
      /\ \A q \in Connections : answered'[q] = IF q = r THEN answered[q] + 1 ELSE answered[q]
  <2>1. asked' = asked
    BY <1>4, <1>5
  <2>2. \A q \in Connections : answered'[q] = IF q = r THEN answered[q] + 1 ELSE answered[q]
    BY <1>4, <1>5
  <2>3. answered' = [q \in Connections |-> answered'[q]]
    BY <1>4, <1>5
  <2>4. \A q \in Connections : answered'[q] \in Nat
    BY <1>5, <2>2
  <2>5. QED
    BY <2>1, <2>2, <2>3, <2>4
<1>7. /\ completed' \in [Ends -> Nat]
      /\ \A d \in Ends : completed'[d] = IF d = <<r, "client">> THEN completed[d] + 1 ELSE completed[d]
  <2> DEFINE e == <<r, "client">>
             n == completed[e] + 1
  <2>1. e \in Ends => n \in Nat
    BY <1>1 DEF Counts
  <2>2. completed' = [completed EXCEPT ![e] = n]
    BY <1>4
  <2> HIDE DEF n
  <2>3. /\ completed' \in [Ends -> Nat]
        /\ \A d \in Ends : completed'[d] = IF d = e THEN n ELSE completed[d]
    BY <1>1, <2>1, <2>2, CompletedChanges
  <2>4. QED
    BY <2>3 DEF n
<1>8. Counts'
  BY <1>1, <1>2, <1>5, <1>6, <1>7 DEF Counts
<1>9. Balance'
  <2> SUFFICES ASSUME NEW q \in Connections
               PROVE  Balanced(q)'
    BY DEF Balance
  <2>1. Balanced(q)
    BY <1>1 DEF Balance
  <2>n. /\ asked[q] \in Nat /\ answered[q] \in Nat /\ taken[q] \in Nat
        /\ completed[<<q, "client">>] \in Nat /\ completed[<<q, "server">>] \in Nat
        /\ Cardinality(Owing(q)) \in Nat
    BY <1>1, NumbersType
  <2>2. AwaitsAnswer(q)' <=> AwaitsAnswer(q)
    <3>1. w # q[1]
      BY <1>2, SendersType
    <3>2. QED
      BY <1>2, <3>1, AwaitsAfter
  <2>3. /\ completed'[<<q, "server">>] = completed[<<q, "server">>]
        /\ completed'[<<q, "client">>] = completed[<<q, "client">>] + (IF q = r THEN 1 ELSE 0)
    BY <1>7, NumbersType, <1>1, SendersType
  <2>4. asked'[q] = taken'[q] + (IF AwaitsAnswer(q)' THEN 1 ELSE 0)
    BY <1>2, <1>6, <2>1, <2>2 DEF Balanced
  <2>5. CASE q = r
    <3>1. Cardinality(Owing(q))' = Cardinality(Owing(q)) - 1
      BY <1>2, <1>3, <2>5, OwingAfter
    <3>2. asked'[q] = asked[q] /\ answered'[q] = answered[q] + 1 /\ taken'[q] = taken[q]
      BY <1>2, <1>6, <2>5
    <3>3. completed'[<<q, "client">>] = completed[<<q, "client">>] + 1
      BY <2>3, <2>5
    <3>4. /\ answered[q] = taken[q] + completed[<<q, "client">>]
          /\ asked[q] = answered[q] + completed[<<q, "server">>] + Cardinality(Owing(q))
      BY <2>1 DEF Balanced
    <3>5. answered'[q] = taken'[q] + completed'[<<q, "client">>]
      BY <2>n, <3>2, <3>3, <3>4
    <3>6. asked'[q] = answered'[q] + completed'[<<q, "server">>] + Cardinality(Owing(q))'
      BY <2>n, <2>3, <3>1, <3>2, <3>4
    <3>7. QED
      BY <2>4, <3>5, <3>6 DEF Balanced
  <2>6. CASE q # r
    <3>1. End(w) # <<q, "server">>
      BY <1>3, <2>6
    <3>2. Cardinality(Owing(q))' = Cardinality(Owing(q))
      BY <1>2, <3>1, OwingAfter
    <3>3. asked'[q] = asked[q] /\ answered'[q] = answered[q] /\ taken'[q] = taken[q]
      BY <1>2, <1>6, <2>6
    <3>4. completed'[<<q, "client">>] = completed[<<q, "client">>]
      BY <2>n, <2>3, <2>6
    <3>5. QED
      BY <2>1, <2>2, <2>3, <3>2, <3>3, <3>4 DEF Balanced
  <2>7. QED
    BY <2>5, <2>6
<1>10. QED
  BY <1>8, <1>9 DEF TurnsInv

(* A client takes an answer, or polls a signal. *)
LEMMA TakeTurns ==
  ASSUME TogetherInv, TurnsInv, ~ Normal(test), ~ fault, NEW w \in Threads, PollReceive(w)
  PROVE  TurnsInv'
<1> DEFINE e == End(w)
           n == completed[e] - 1
<1>1. /\ Counts /\ Balance
  BY DEF TurnsInv
<1>2. /\ todo[w] # << >> /\ At(w, "poll") /\ todo' = [todo EXCEPT ![w] = Tail(@)]
      /\ test' = test /\ m_respond_conn_id' = m_respond_conn_id
      /\ asked' = asked /\ answered' = answered /\ fault' = fault
      /\ w \in Everybody /\ w \notin AtServers
  BY SendersType DEF PollReceive, Step, At, memories, Everybody
<1>3. e \in (({w} \X Servers) \X {"client"}) \cup {Signals(w)}
  BY <1>2, ClientEnd
<1>4. /\ completed[e] > 0 /\ completed' = [completed EXCEPT ![e] = n]
      /\ taken' = [q \in Connections |-> IF e = <<q, "client">> THEN taken[q] + 1 ELSE taken[q]]
  BY DEF PollReceive
<1> HIDE DEF e
<1>5. e \in Ends => n \in Nat
  BY <1>1, <1>4 DEF Counts
<1> HIDE DEF n
<1>6. /\ completed' \in [Ends -> Nat]
      /\ \A d \in Ends : completed'[d] = IF d = e THEN n ELSE completed[d]
  BY <1>1, <1>4, <1>5, CompletedChanges
<1>7. \A q \in Connections : taken[q] \in Nat
  BY <1>1, NumbersType
<1>8. Counts'
  <2>1. taken' \in [Connections -> Nat]
    BY <1>4, <1>7
  <2>2. QED
    BY <1>1, <1>2, <1>6, <2>1 DEF Counts
<1>9. Balance'
  <2> SUFFICES ASSUME NEW q \in Connections
               PROVE  Balanced(q)'
    BY DEF Balance
  <2>1. Balanced(q)
    BY <1>1 DEF Balance
  <2>n. /\ asked[q] \in Nat /\ answered[q] \in Nat /\ taken[q] \in Nat
        /\ completed[<<q, "client">>] \in Nat /\ completed[<<q, "server">>] \in Nat
        /\ Cardinality(Owing(q)) \in Nat
    BY <1>1, NumbersType
  <2>2. Cardinality(Owing(q))' = Cardinality(Owing(q))
    BY <1>2, OwingAfter
  <2>3. completed'[<<q, "server">>] = completed[<<q, "server">>]
    <3>1. e # <<q, "server">>
      BY <1>3 DEF Signals
    <3>2. QED
      BY <1>6, <3>1, SendersType
  <2>4. asked'[q] = answered'[q] + completed'[<<q, "server">>] + Cardinality(Owing(q))'
    BY <1>2, <2>1, <2>2, <2>3 DEF Balanced
  <2>5. CASE e = <<q, "client">>
    <3>1. w = q[1]
      BY <1>3, <2>5, SendersType DEF Signals
    <3>2. AwaitsAnswer(q) /\ ~ AwaitsAnswer(q)'
      BY <1>2, <2>5, <3>1, AwaitsAfter DEF e
    <3>3. taken'[q] = taken[q] + 1
      BY <1>4, <2>5
    <3>4. completed'[<<q, "client">>] = completed[<<q, "client">>] - 1
      BY <1>6, <2>5, SendersType DEF n
    <3>5. asked[q] = taken[q] + 1 /\ answered[q] = taken[q] + completed[<<q, "client">>]
      BY <2>1, <3>2 DEF Balanced
    <3>6. asked'[q] = taken'[q] + (IF AwaitsAnswer(q)' THEN 1 ELSE 0)
      BY <1>2, <2>n, <3>2, <3>3, <3>5
    <3>7. answered'[q] = taken'[q] + completed'[<<q, "client">>]
      BY <1>2, <2>n, <3>3, <3>4, <3>5, SMTT(30)
    <3>8. QED
      BY <2>4, <3>6, <3>7 DEF Balanced
  <2>6. CASE e # <<q, "client">>
    <3>1. AwaitsAnswer(q)' <=> AwaitsAnswer(q)
      BY <1>2, <2>6, AwaitsAfter DEF e
    <3>2. taken'[q] = taken[q]
      BY <1>4, <2>6
    <3>3. completed'[<<q, "client">>] = completed[<<q, "client">>]
      BY <1>6, <2>6, SendersType
    <3>4. QED
      BY <1>2, <2>1, <2>4, <3>1, <3>2, <3>3 DEF Balanced
  <2>7. QED
    BY <2>5, <2>6
<1>10. QED
  BY <1>2, <1>8, <1>9 DEF TurnsInv

(* A server polls a question, or a datagram of its group. *)
LEMMA QuestionTurns ==
  ASSUME TogetherInv, TurnsInv, ~ Normal(test), ~ fault, NEW w \in AtServers, PollReceive(w)
  PROVE  TurnsInv'
<1> DEFINE e == End(w)
           n == completed[e] - 1
<1>1. /\ Counts /\ Balance
  BY DEF TurnsInv
<1>2. /\ todo[w] # << >> /\ At(w, "poll") /\ todo' = [todo EXCEPT ![w] = Tail(@)]
      /\ test' = test /\ m_respond_conn_id' = m_respond_conn_id
      /\ asked' = asked /\ answered' = answered /\ fault' = fault
      /\ w \in Everybody /\ w \notin Threads
  BY SendersType DEF PollReceive, Step, At, memories, Everybody, AtServers
<1>3. \A q \in Connections : e # <<q, "client">>
  <2>1. CASE w \in Servers
    <3>1. e \in (Threads \X {w}) \X {"server"}
      BY <1>2, <2>1, SendersType, MainEnd
    <3>2. QED
      BY <3>1
  <2>2. CASE w \in ServerThreads
    <3>1. e \in {<<NodeOf(w), "server">>, Group(w)}
      BY <1>2, <2>2, ServerEnd
    <3>2. QED
      BY <3>1 DEF Group
  <2>3. QED
    BY <2>1, <2>2 DEF AtServers
<1>4. /\ completed[e] > 0 /\ completed' = [completed EXCEPT ![e] = n]
      /\ taken' = [q \in Connections |-> IF e = <<q, "client">> THEN taken[q] + 1 ELSE taken[q]]
  BY DEF PollReceive
<1> HIDE DEF e
<1>5. e \in Ends => n \in Nat
  BY <1>1, <1>4 DEF Counts
<1> HIDE DEF n
<1>6. /\ completed' \in [Ends -> Nat]
      /\ \A d \in Ends : completed'[d] = IF d = e THEN n ELSE completed[d]
  BY <1>1, <1>4, <1>5, CompletedChanges
<1>7. taken' = taken
  <2>1. taken \in [Connections -> Nat]
    BY <1>1 DEF Counts
  <2>2. QED
    BY <1>3, <1>4, <2>1
<1>8. Counts'
  BY <1>1, <1>2, <1>6, <1>7 DEF Counts
<1>9. Balance'
  <2> SUFFICES ASSUME NEW q \in Connections
               PROVE  Balanced(q)'
    BY DEF Balance
  <2>1. Balanced(q)
    BY <1>1 DEF Balance
  <2>n. /\ asked[q] \in Nat /\ answered[q] \in Nat /\ taken[q] \in Nat
        /\ completed[<<q, "client">>] \in Nat /\ completed[<<q, "server">>] \in Nat
        /\ Cardinality(Owing(q)) \in Nat
    BY <1>1, NumbersType
  <2>2. AwaitsAnswer(q)' <=> AwaitsAnswer(q)
    <3>1. w # q[1]
      BY <1>2, SendersType
    <3>2. QED
      BY <1>2, <3>1, AwaitsAfter
  <2>3. completed'[<<q, "client">>] = completed[<<q, "client">>]
    BY <1>3, <1>6, SendersType
  <2>4. /\ asked'[q] = taken'[q] + (IF AwaitsAnswer(q)' THEN 1 ELSE 0)
        /\ answered'[q] = taken'[q] + completed'[<<q, "client">>]
    BY <1>2, <1>7, <2>1, <2>2, <2>3 DEF Balanced
  <2>5. asked[q] = answered[q] + completed[<<q, "server">>] + Cardinality(Owing(q))
    BY <2>1 DEF Balanced
  <2>6. asked'[q] = answered'[q] + completed'[<<q, "server">>] + Cardinality(Owing(q))'
    <3>1. CASE e = <<q, "server">>
      <4>1. Cardinality(Owing(q))' = Cardinality(Owing(q)) + 1
        BY <1>2, <3>1, OwingAfter DEF e
      <4>2. completed'[<<q, "server">>] = completed[<<q, "server">>] - 1
        BY <1>6, <3>1, SendersType DEF n
      <4>3. QED
        BY <1>2, <2>n, <2>5, <4>1, <4>2
    <3>2. CASE e # <<q, "server">>
      <4>1. Cardinality(Owing(q))' = Cardinality(Owing(q))
        BY <1>2, <3>2, OwingAfter DEF e
      <4>2. completed'[<<q, "server">>] = completed[<<q, "server">>]
        BY <1>6, <3>2, SendersType
      <4>3. QED
        BY <1>2, <2>5, <4>1, <4>2
    <3>3. QED
      BY <3>1, <3>2
  <2>7. QED
    BY <2>4, <2>6 DEF Balanced
<1>10. QED
  BY <1>2, <1>8, <1>9 DEF TurnsInv

(* A message that finds no receive changes nothing but the program. *)
LEMMA FaultTurns ==
  ASSUME TogetherInv, TurnsInv, ~ Normal(test), ~ fault, NEW w, SendMessage(w), fault'
  PROVE  TurnsInv'
<1>1. Counts /\ EachInTurn
  BY TurnsFromBalance DEF TurnsInv
<1>2. UNCHANGED <<completed, asked, answered, taken, m_respond_conn_id>>
  BY DEF SendMessage, queues, memories
<1>3. Counts' /\ EachInTurn'
  BY <1>1, <1>2 DEF Counts, EachInTurn
<1>4. QED
  BY <1>3 DEF TurnsInv

LEMMA SendTurns ==
  ASSUME TogetherInv, TurnsInv, ~ Normal(test), ~ fault, NEW w \in Everybody, SendMessage(w)
  PROVE  TurnsInv'
<1>1. CASE fault'
  BY <1>1, FaultTurns
<1>2. CASE ~ fault'
  <2>1. fault' = fault
    BY <1>2 DEF SendMessage
  <2>2. w \in Threads \/ w \in AtServers
    <3>1. w \in Clients /\ w \notin Servers => Head(todo[w]).do # "message"
      BY MainEnd DEF SendMessage, At, Processes
    <3>2. QED
      BY <3>1 DEF Everybody, Processes, Workers, AtServers, SendMessage, At
  <2>3. QED
    BY <2>1, <2>2, AskTurns, AnswerTurns
<1>3. QED
  BY <1>1, <1>2

LEMMA PollTurns ==
  ASSUME TogetherInv, TurnsInv, ~ Normal(test), ~ fault, NEW w \in Everybody, PollReceive(w)
  PROVE  TurnsInv'
<1>1. w \in Threads \/ w \in AtServers
  <2>1. w \in Clients /\ w \notin Servers => Head(todo[w]).do # "poll"
    BY MainEnd DEF PollReceive, At, Processes
  <2>2. QED
    BY <2>1 DEF Everybody, Processes, Workers, AtServers, PollReceive, At
<1>2. QED
  BY <1>1, TakeTurns, QuestionTurns

(* What else somebody does is no part of an exchange. *)
LEMMA QuietTurns ==
  ASSUME TogetherInv, TurnsInv, ~ Normal(test), ~ fault, NEW w \in Everybody, todo[w] # << >>,
         Head(todo[w]).do \notin {"poll", "message"},
         Step(w), UNCHANGED <<completed, asked, answered, taken, m_respond_conn_id, fault>>
  PROVE  TurnsInv'
<1>1. Counts /\ Balance
  BY DEF TurnsInv
<1>2. Counts'
  BY <1>1 DEF Counts
<1>3. \A q \in Connections : /\ AwaitsAnswer(q)' <=> AwaitsAnswer(q)
                             /\ Cardinality(Owing(q))' = Cardinality(Owing(q))
  <2> TAKE q \in Connections
  <2>1. todo' = [todo EXCEPT ![w] = Tail(@)] /\ ~ At(w, "poll") /\ ~ At(w, "message")
    BY DEF Step, At
  <2>2. AwaitsAnswer(q)' <=> AwaitsAnswer(q)
    BY <2>1, AwaitsAfter
  <2>3. Cardinality(Owing(q))' = Cardinality(Owing(q))
    BY <2>1, OwingAfter
  <2>4. QED
    BY <2>2, <2>3
<1>4. Balance'
  BY <1>1, <1>3, BalanceStays
<1>5. QED
  BY <1>2, <1>4 DEF TurnsInv

(* A datagram goes to a mailbox, which is at the end of no connection. *)
LEMMA DatagramTurns ==
  ASSUME TogetherInv, TurnsInv, ~ Normal(test), ~ fault, NEW w \in Workers, SendDatagram(w)
  PROVE  TurnsInv'
<1>1. Counts /\ Balance
  BY DEF TurnsInv
<1>2. /\ todo[w] # << >> /\ At(w, "datagram") /\ w \in Everybody
      /\ UNCHANGED <<asked, answered, taken, m_respond_conn_id, fault>>
      /\ todo' = [todo EXCEPT ![w] = Tail(@)]
  BY DEF SendDatagram, At, history, memories, Step, Everybody
<1>3. Head(todo[w]).to \subseteq Mailboxes
  BY <1>2, ClientEnd, ServerEnd DEF Workers
<1>4. completed' = [e \in Ends |->
         IF e \in Head(todo[w]).to /\ posted[e] > 0 THEN completed[e] + 1 ELSE completed[e]]
  BY DEF SendDatagram
<1>5. completed \in [Ends -> Nat]
  BY <1>1 DEF Counts
<1>6. completed' \in [Ends -> Nat]
  BY <1>4, <1>5
<1>7. Counts'
  BY <1>1, <1>2, <1>6 DEF Counts
<1>8. ASSUME NEW q \in Connections
      PROVE  /\ completed'[<<q, "client">>] = completed[<<q, "client">>]
             /\ completed'[<<q, "server">>] = completed[<<q, "server">>]
             /\ AwaitsAnswer(q)' <=> AwaitsAnswer(q)
             /\ Cardinality(Owing(q))' = Cardinality(Owing(q))
  <2>1. <<q, "client">> \notin Mailboxes /\ <<q, "server">> \notin Mailboxes
    BY DEF Mailboxes
  <2>2. /\ completed'[<<q, "client">>] = completed[<<q, "client">>]
        /\ completed'[<<q, "server">>] = completed[<<q, "server">>]
    BY <1>3, <1>4, <2>1, SendersType
  <2>3. ~ At(w, "poll") /\ ~ At(w, "message")
    BY <1>2 DEF At
  <2>4. AwaitsAnswer(q)' <=> AwaitsAnswer(q)
    BY <1>2, <2>3, AwaitsAfter
  <2>5. Cardinality(Owing(q))' = Cardinality(Owing(q))
    BY <1>2, <2>3, OwingAfter
  <2>6. QED
    BY <2>2, <2>4, <2>5
<1>9. Balance'
  BY <1>1, <1>2, <1>8, BalanceStays
<1>10. QED
  BY <1>2, <1>7, <1>9 DEF TurnsInv

(* Whom a server's worker answers changes only when it owes nothing. *)
LEMMA RespondTurns ==
  ASSUME TogetherInv, TurnsInv, ~ Normal(test), ~ fault, NEW w \in Workers, ReadNodeID(w)
  PROVE  TurnsInv'
<1> DEFINE P == todo[w]
<1>1. Counts /\ Balance
  BY DEF TurnsInv
<1>2. /\ todo[w] # << >> /\ At(w, "respond") /\ w \in Everybody
      /\ UNCHANGED <<completed, asked, answered, taken, fault>>
      /\ todo' = [todo EXCEPT ![w] = Tail(@)]
  BY DEF ReadNodeID, At, history, queues, Step, Everybody
<1>3. w \in ServerThreads
  BY <1>2, ClientEnd DEF Workers, At
<1>4. w \notin Servers /\ w \notin Threads /\ w \in AtServers
  BY <1>3, SendersType DEF AtServers, Workers
<1>5. /\ m_respond_conn_id' = [v \in ServerThreads |-> m_respond_conn_id'[v]]
      /\ \A v \in ServerThreads : v # w => m_respond_conn_id'[v] = m_respond_conn_id[v]
  <2>1. m_respond_conn_id = [v \in ServerThreads |-> m_respond_conn_id[v]]
    BY <1>1 DEF Counts
  <2>2. \/ m_respond_conn_id' = [m_respond_conn_id EXCEPT ![w] = remoteMemory[w][0]]
        \/ m_respond_conn_id' = m_respond_conn_id
    BY DEF ReadNodeID
  <2>3. QED
    BY <2>1, <2>2
<1>6. Counts'
  BY <1>1, <1>2, <1>5 DEF Counts
<1>7. ~ Due(P, Polls, Answers) /\ ~ Due(Tail(P), Polls, Answers)
  <2>1. Head(P) = [do |-> "respond"]
    BY <1>2, <1>3, ServerEnd
  <2>2. /\ P \in Seq(ServerOrders(test, w)) /\ P # << >>
        /\ Before(P, Polls, Answers, Polls) /\ Between(P, Answers, Polls, Answers)
        /\ Between(P, {[do |-> "respond"]}, Polls, Answers)
    BY <1>2, <1>3, SendersType DEF TogetherInv, TodoOK, WorkerKeeps
  <2>3. Head(P) \in {[do |-> "respond"]} /\ Head(P) \notin Polls \cup Answers /\ Polls \cap Answers = {}
    BY <2>1 DEF Polls, Answers
  <2> HIDE DEF P
  <2>4. ~ Due(Tail(P), Polls, Answers)
    BY <2>2, <2>3, NotNextAfterHead
  <2>5. Due(P, Polls, Answers) <=> Due(Tail(P), Polls, Answers)
    BY <2>2, <2>3, NextOfTail
  <2>6. QED
    BY <2>4, <2>5
<1>8. ASSUME NEW q \in Connections
      PROVE  /\ AwaitsAnswer(q)' <=> AwaitsAnswer(q)
             /\ Cardinality(Owing(q))' = Cardinality(Owing(q))
  <2>1. AwaitsAnswer(q)' <=> AwaitsAnswer(q)
    <3>1. ~ At(w, "poll") /\ ~ At(w, "message")
      BY <1>2 DEF At
    <3>2. QED
      BY <1>2, <3>1, AwaitsAfter
  <2>2. ASSUME NEW v \in AtServers
        PROVE  Owes(v, q)' <=> Owes(v, q)
    <3>1. CASE v = w
      <4>1. todo'[w] = Tail(P)
        BY <1>2 DEF TogetherInv, TodoOK
      <4>2. ~ Owes(w, q) /\ ~ Owes(w, q)'
        BY <1>4, <1>7, <4>1 DEF Owes
      <4>3. QED
        BY <3>1, <4>2
    <3>2. CASE v # w /\ v \in ServerThreads
      BY <1>2, <1>5, <3>2, OthersOwe
    <3>3. CASE v \in Servers
      <4>1. todo'[v] = todo[v]
        <5>1. v # w /\ v \in Everybody
          BY <1>4, <3>3 DEF Everybody, Processes
        <5>2. todo = [x \in Everybody |-> todo[x]]
          BY DEF TogetherInv, TodoOK
        <5>3. QED
          BY <1>2, <5>1, <5>2
      <4>2. QED
        BY <3>3, <4>1 DEF Owes
    <3>4. QED
      BY <3>1, <3>2, <3>3 DEF AtServers
  <2>3. Owing(q)' = Owing(q)
    BY <2>2 DEF Owing
  <2>4. QED
    BY <2>1, <2>3
<1>9. Balance'
  BY <1>1, <1>2, <1>8, BalanceStays
<1>10. QED
  BY <1>2, <1>6, <1>9 DEF TurnsInv

(* Threads that start have asked nothing and owe nothing. *)
LEMMA LaunchTurns ==
  ASSUME TogetherInv, TurnsInv, ~ Normal(test), ~ fault, NEW p \in Processes, LaunchThreads(p)
  PROVE  TurnsInv'
<1> DEFINE P == todo[p]
           h == Head(P)
<1>1. Counts /\ Balance
  BY DEF TurnsInv
<1>2. UNCHANGED <<completed, asked, answered, taken, m_respond_conn_id, fault>>
  BY DEF LaunchThreads, history, queues, memories
<1>3. Counts'
  BY <1>1, <1>2 DEF Counts
<1>4. /\ todo'[p] = Tail(P)
      /\ \A q \in Processes : q # p => todo'[q] = todo[q]
      /\ \A v \in Workers : v \notin h.workers => todo'[v] = todo[v]
      /\ \A v \in h.workers : v \in Workers /\ todo[v] = << >> /\ Fresh(v, todo'[v])
  BY NewThreads
<1>5. \A A, B : ~ Due(<< >>, A, B)
  BY DEF Due
<1>6. ASSUME NEW q \in Connections
      PROVE  AwaitsAnswer(q)' <=> AwaitsAnswer(q)
  <2>1. q[1] \in Workers /\ q[1] \notin ServerThreads /\ q \in {q[1]} \X Servers
    <3>1. q = <<q[1], q[2]>> /\ q[1] \in Threads /\ q[2] \in Servers
      BY SendersType
    <3>2. q[1] \in Workers /\ q[1] \notin ServerThreads
      BY <3>1, SendersType
    <3>3. QED
      BY <3>1, <3>2
  <2>2. CASE q[1] \in h.workers
    <3>1. ~ Due(todo'[q[1]], Asks(q), Takes(q)) /\ todo[q[1]] = << >>
      BY <1>4, <2>1, <2>2 DEF Fresh
    <3>2. QED
      BY <1>5, <3>1 DEF AwaitsAnswer
  <2>3. CASE q[1] \notin h.workers
    BY <1>4, <2>1, <2>3 DEF AwaitsAnswer
  <2>4. QED
    BY <2>2, <2>3
<1>7. ASSUME NEW q \in Connections, NEW v \in AtServers
      PROVE  Owes(v, q)' <=> Owes(v, q)
  <2>1. CASE v \in ServerThreads
    <3>1. v \in Workers /\ v \notin Servers
      BY <2>1, SendersType DEF Workers
    <3>2. CASE v \in h.workers
      <4>1. ~ Due(todo'[v], Polls, Answers) /\ todo[v] = << >>
        BY <1>4, <2>1, <3>2 DEF Fresh
      <4>2. QED
        BY <1>5, <3>1, <4>1 DEF Owes
    <3>3. CASE v \notin h.workers
      BY <1>2, <1>4, <3>1, <3>3 DEF Owes, NodeOf
    <3>4. QED
      BY <3>2, <3>3
  <2>2. CASE v \in Servers /\ v # p
    BY <1>4, <2>2, SendersType DEF Owes
  <2>3. CASE v \in Servers /\ v = p
    <3>1. CASE q[2] # p
      BY <2>3, <3>1 DEF Owes
    <3>2. CASE q[2] = p
      <4>1. q \in Threads \X {p}
        <5>1. q = <<q[1], q[2]>> /\ q[1] \in Threads
          BY SendersType
        <5>2. QED
          BY <3>2, <5>1
      <4>2. /\ P \in Seq(MainOrders(test, p)) /\ P # << >>
            /\ Before(P, PollsAt(q), AnswersAt(q), PollsAt(q))
            /\ Between(P, AnswersAt(q), PollsAt(q), AnswersAt(q))
        BY <4>1 DEF TogetherInv, TodoOK, MainKeeps, LaunchThreads, At
      <4>3. PollsAt(q) \cap AnswersAt(q) = {} /\ Head(P) \notin PollsAt(q) \cup AnswersAt(q)
        BY DEF PollsAt, AnswersAt, LaunchThreads, At
      <4> HIDE DEF P
      <4>4. Due(P, PollsAt(q), AnswersAt(q)) <=> Due(Tail(P), PollsAt(q), AnswersAt(q))
        BY <4>2, <4>3, NextOfTail
      <4>5. QED
        BY <1>4, <2>3, <3>2, <4>4 DEF Owes, P
    <3>3. QED
      BY <3>1, <3>2
  <2>4. QED
    BY <2>1, <2>2, <2>3 DEF AtServers
<1>8. \A q \in Connections : Owing(q)' = Owing(q)
  BY <1>7 DEF Owing
<1>9. Balance'
  BY <1>1, <1>2, <1>6, <1>8, BalanceStays
<1>10. QED
  BY <1>2, <1>3, <1>9 DEF TurnsInv

LEMMA TurnsInit ==
  ASSUME Init
  PROVE  TurnsInv
<1>1. Counts
  BY DEF Init, Counts
<1>2. \A A, B : ~ Due(<< >>, A, B)
  BY DEF Due
<1>3. ASSUME NEW q \in Connections
      PROVE  Balanced(q)
  <2>1. q = <<q[1], q[2]>> /\ q[1] \in Threads /\ q[1] \in Everybody /\ q[1] \notin Processes
    BY SendersType DEF Everybody
  <2>2. todo[q[1]] = << >>
    BY <2>1 DEF Init
  <2>3. ~ AwaitsAnswer(q)
    BY <1>2, <2>2 DEF AwaitsAnswer
  <2>4. ASSUME NEW v \in AtServers PROVE ~ Owes(v, q)
    <3>1. CASE v \in ServerThreads
      <4>1. v \in Everybody /\ v \notin Processes /\ v \notin Servers
        BY <3>1, SendersType DEF Everybody, Processes
      <4>2. todo[v] = << >>
        BY <4>1 DEF Init
      <4>3. QED
        BY <1>2, <4>1, <4>2 DEF Owes
    <3>2. CASE v \in Servers /\ q[2] = v
      <4>1. v \in Processes /\ v \in Everybody /\ q \in Threads \X {v}
        BY <2>1, <3>2 DEF Processes, Everybody
      <4>2. todo[v] = MainOf(test, v) /\ Deployed(test) /\ test \in Tests
        BY <4>1, DeploymentAssumption DEF Init, Main, MainOf, m_rdma_addresses
      <4>3. ~ Due(todo[v], PollsAt(q), AnswersAt(q))
        BY <4>1, <4>2, MainOfKeeps
      <4>4. QED
        BY <3>2, <4>3 DEF Owes
    <3>3. CASE v \in Servers /\ q[2] # v
      BY <3>3 DEF Owes
    <3>4. QED
      BY <3>1, <3>2, <3>3 DEF AtServers
  <2>5. Owing(q) = {}
    BY <2>4 DEF Owing
  <2>6. Cardinality(Owing(q)) = 0
    BY <2>5, FS_EmptySet
  <2>7. /\ asked[q] = 0 /\ answered[q] = 0 /\ taken[q] = 0
        /\ completed[<<q, "client">>] = 0 /\ completed[<<q, "server">>] = 0
    BY SendersType DEF Init
  <2>8. QED
    BY <2>3, <2>6, <2>7 DEF Balanced
<1>4. Balance
  BY <1>3 DEF Balance
<1>5. ~ fault
  BY DEF Init
<1>6. QED
  BY <1>1, <1>4, <1>5 DEF TurnsInv

(* Nobody's program goes on, and no message. *)
LEMMA NothingTurns ==
  ASSUME TurnsInv,
         UNCHANGED <<test, todo, completed, asked, answered, taken, m_respond_conn_id, fault>>
  PROVE  TurnsInv'
<1>1. Counts => Counts'
  BY DEF Counts
<1>2. EachInTurn => EachInTurn'
  BY DEF EachInTurn
<1>3. \A v, q : Owes(v, q)' <=> Owes(v, q)
  BY DEF Owes, NodeOf
<1>4. \A q : Owing(q)' = Owing(q)
  BY <1>3 DEF Owing
<1>5. ASSUME Balance PROVE Balance'
  <2>1. \A q \in Connections : AwaitsAnswer(q)' <=> AwaitsAnswer(q)
    BY DEF AwaitsAnswer
  <2>2. QED
    BY <1>4, <1>5, <2>1, BalanceStays
<1>6. QED
  BY <1>1, <1>2, <1>5 DEF TurnsInv

LEMMA WorkerStepTurns ==
  ASSUME TogetherInv, TurnsInv, ~ Normal(test), ~ fault, NEW w \in Workers, WorkerStep(w)
  PROVE  TurnsInv'
<1> DEFINE Quiet == /\ todo[w] # << >> /\ Head(todo[w]).do \notin {"poll", "message"}
                    /\ Step(w)
                    /\ UNCHANGED <<completed, asked, answered, taken, m_respond_conn_id, fault>>
<1>1. w \in Everybody
  BY DEF Everybody
<1>2. Quiet => TurnsInv'
  BY <1>1, QuietTurns
<1>3. todo[w] # << >> => Head(todo[w]).do \notin {"write", "watch", "await", "return"}
  BY ClientEnd, ServerEnd DEF Workers
<1>4. ASSUME Wait(w) PROVE TurnsInv'
  BY <1>4, NothingTurns DEF Wait, queues, memories, history
<1>5. Go(w) \/ AccessRemote(w) \/ ResetMemory(w) => Quiet
  BY DEF Go, AccessRemote, ResetMemory, At, queues, memories, history
<1>6. ~ (WriteQuestion(w) \/ WatchAnswer(w) \/ AwaitQuestion(w) \/ ReturnAnswer(w))
  BY <1>3 DEF WriteQuestion, WatchAnswer, AwaitQuestion, ReturnAnswer, At
<1>7. PostReceive(w) => Quiet
  BY DEF PostReceive, At, queues, memories, history
<1>8. Proceed(w) \/ Sleep(w) => Quiet
  BY DEF Proceed, Sleep, Waits, queues, memories, history
<1> HIDE DEF Quiet
<1>9. QED
  BY <1>1, <1>2, <1>4, <1>5, <1>6, <1>7, <1>8, RespondTurns, DatagramTurns, SendTurns, PollTurns
     DEF WorkerStep, WorkerOnly, Exchange

LEMMA ProcessStepTurns ==
  ASSUME TogetherInv, TurnsInv, ~ Normal(test), ~ fault, NEW p \in Processes, ProcessStep(p)
  PROVE  TurnsInv'
<1> DEFINE Quiet == /\ todo[p] # << >> /\ Head(todo[p]).do \notin {"poll", "message"}
                    /\ Step(p)
                    /\ UNCHANGED <<completed, asked, answered, taken, m_respond_conn_id, fault>>
<1>1. p \in Everybody
  BY DEF Everybody
<1>2. Quiet => TurnsInv'
  BY <1>1, QuietTurns
<1>3. StartServer(p) \/ Connect(p) \/ WriteNodeID(p) => Quiet
  BY DEF StartServer, Connect, WriteNodeID, At, queues, memories, history
<1>4. PrepareThreads(p) \/ Notify(p) => Quiet
  BY DEF PrepareThreads, Notify, At, queues, memories, history
<1>5. ASSUME Gather(p) PROVE TurnsInv'
  <2>1. UNCHANGED <<test, completed, asked, answered, taken, m_respond_conn_id, fault>>
    BY <1>5 DEF Gather, memories, history
  <2>2. CASE Step(p)
    <3>1. todo[p] # << >> /\ Head(todo[p]).do = "gather"
      BY <1>5 DEF Gather, At
    <3>2. QED
      BY <1>2, <2>1, <2>2, <3>1
  <2>3. CASE UNCHANGED todo
    BY <2>1, <2>3, NothingTurns
  <2>4. QED
    BY <1>5, <2>2, <2>3 DEF Gather
<1>6. PostReceive(p) => Quiet
  BY DEF PostReceive, At, queues, memories, history
<1>7. Proceed(p) \/ Sleep(p) => Quiet
  BY DEF Proceed, Sleep, Waits, queues, memories, history
<1> HIDE DEF Quiet
<1>8. QED
  BY <1>1, <1>2, <1>3, <1>4, <1>5, <1>6, <1>7, LaunchTurns, SendTurns, PollTurns
     DEF ProcessStep, MainOnly, Exchange

LEMMA TestStays ==
  ASSUME [Next]_vars
  PROVE  test' = test
<1>1. ASSUME NEW w \in Workers, WorkerStep(w) PROVE test' = test
  BY <1>1 DEF WorkerStep, WorkerOnly, Exchange, Wait, Go, ReadNodeID, AccessRemote, SendDatagram,
       ResetMemory, WriteQuestion, WatchAnswer, AwaitQuestion, ReturnAnswer,
       PostReceive, SendMessage, PollReceive, Proceed, Sleep
<1>2. ASSUME NEW p \in Processes, ProcessStep(p) PROVE test' = test
  BY <1>2 DEF ProcessStep, MainOnly, Exchange, StartServer, Connect, WriteNodeID, PrepareThreads,
       LaunchThreads, Gather, Notify, PostReceive, SendMessage, PollReceive, Proceed, Sleep
<1>3. QED
  BY <1>1, <1>2 DEF Next, vars

LEMMA TurnsStep ==
  ASSUME TogetherInv, TurnsInv, [Next]_vars
  PROVE  TurnsInv'
<1>1. CASE Normal(test)
  BY <1>1, TestStays DEF TurnsInv, Normal
<1>2. CASE ~ Normal(test) /\ Next
  BY <1>2, WorkerStepTurns, ProcessStepTurns DEF Next
<1>3. CASE UNCHANGED vars
  BY <1>3, NothingTurns DEF vars, queues, memories, history
<1>4. QED
  BY <1>1, <1>2, <1>3

(* In every deployment of a test that exchanges messages, a server has     *)
(* answered no more questions than it was asked, a client has taken no     *)
(* more answers than it was given, and it asks no further question         *)
(* before it has the answer to the last one: completions are never taken   *)
(* for those of another connection or of an earlier round.                 *)
THEOREM TakeTurnsInMessages == Spec => [](~ Normal(test) => AnswersInTurn /\ EachInTurn)
<1>1. Init => TogetherInv /\ TurnsInv
  BY TogetherInit, TurnsInit
<1>2. TogetherInv /\ TurnsInv /\ [Next]_vars => TogetherInv' /\ TurnsInv'
  BY TogetherStep, TurnsStep
<1>3. TurnsInv => (~ Normal(test) => AnswersInTurn /\ EachInTurn)
  <2> SUFFICES ASSUME TurnsInv, ~ Normal(test)
               PROVE  AnswersInTurn /\ EachInTurn
    OBVIOUS
  <2>1. EachInTurn
    BY TurnsFromBalance DEF TurnsInv
  <2>2. \A q \in Connections : ~ SharesCell(q)
    BY DEF SharesCell, Normal
  <2>3. \A q \in Connections : taken[q] \in Int /\ answered[q] \in Int
    BY NumbersType DEF TurnsInv, Counts
  <2>4. QED
    BY <2>1, <2>2, <2>3 DEF EachInTurn, AnswersInTurn
<1>4. QED
  BY <1>1, <1>2, <1>3, PTL DEF Spec

(* The client sends on q before it posts there again. *)
SendsFirst(q) == Due(todo[q[1]], Posts(q), Sends(q))

(* There is a receive for the answer to every question, also to one that   *)
(* is yet to be put.                                                       *)
Supplies(q) ==
  posted[<<q, "client">>] + answered[q] >= asked[q] + (IF SendsFirst(q) THEN 1 ELSE 0)

Supply ==
  /\ posted \in [Ends -> Nat]
  /\ \A q \in Connections : Supplies(q)

(* Supply, in a test that exchanges messages and until a message finds     *)
(* no receive, after which nothing happens.                                *)
SupplyInv == ~ Normal(test) /\ ~ fault => Supply

(* What comes first of A and B, if there is an A between two of B. *)
LEMMA FirstOfTail ==
  ASSUME NEW S, NEW P \in Seq(S), P # << >>, NEW A, NEW B, A \cap B = {}, Between(P, B, A, B)
  PROVE  /\ Head(P) \in A => ~ Due(P, A, B)
         /\ Head(P) \in B => Due(P, A, B) /\ ~ Due(Tail(P), A, B)
         /\ Head(P) \notin A \cup B => (Due(Tail(P), A, B) => Due(P, A, B))
<1> DEFINE Q == Tail(P)
           h == Head(P)
<1>1. /\ Q \in Seq(S) /\ Len(P) \in Nat \ {0} /\ Len(Q) = Len(P) - 1
      /\ \A k \in 1 .. Len(Q) : Q[k] = P[k + 1]
      /\ h = P[1]
  BY TailOf
<1> HIDE DEF Q, h
<1>2. ASSUME h \in A PROVE ~ Due(P, A, B)
  BY <1>1, <1>2 DEF Due
<1>3. ASSUME h \in B PROVE Due(P, A, B) /\ ~ Due(Q, A, B)
  <2>1. Due(P, A, B)
    BY <1>1, <1>3 DEF Due
  <2>2. ASSUME NEW n \in 1 .. Len(Q), Q[n] \in B, \A k \in 1 .. (n - 1) : Q[k] \notin A
        PROVE  FALSE
    <3>1. n + 1 \in 2 .. Len(P) /\ P[n + 1] \in B
      BY <1>1, <2>2
    <3>2. PICK k \in 2 .. n : P[k] \in A
      BY <1>1, <1>3, <3>1 DEF Between
    <3>3. k - 1 \in 1 .. (n - 1) /\ Q[k - 1] \in A
      BY <1>1, <3>2
    <3>4. QED
      BY <2>2, <3>3
  <2>3. QED
    BY <2>1, <2>2 DEF Due
<1>4. ASSUME h \notin A \cup B, Due(Q, A, B) PROVE Due(P, A, B)
  <2>1. PICK n \in 1 .. Len(Q) : Q[n] \in B /\ \A k \in 1 .. (n - 1) : Q[k] \notin A
    BY <1>4 DEF Due
  <2>2. n + 1 \in 1 .. Len(P) /\ P[n + 1] \in B
    BY <1>1, <2>1
  <2>3. ASSUME NEW k \in 1 .. n PROVE P[k] \notin A
    <3>1. CASE k = 1
      BY <1>1, <1>4, <3>1
    <3>2. CASE k # 1
      <4>1. k - 1 \in 1 .. (n - 1) /\ k - 1 \in 1 .. Len(Q) /\ k - 1 + 1 = k
        BY <1>1, <3>2
      <4>2. QED
        BY <1>1, <2>1, <4>1
    <3>3. QED
      BY <3>1, <3>2
  <2>4. QED
    BY <2>2, <2>3 DEF Due
<1>5. QED
  BY <1>2, <1>3, <1>4 DEF Q, h

(* Which instructions of a client post and send on q. *)
LEMMA ClientUses ==
  ASSUME TogetherInv, ~ Normal(test), NEW w \in Threads, todo[w] # << >>, NEW q
  PROVE  /\ Head(todo[w]) \in Posts(q) <=> At(w, "post") /\ End(w) = <<q, "client">>
         /\ Head(todo[w]) \in Sends(q) <=> At(w, "message") /\ End(w) = <<q, "client">>
<1> DEFINE h == Head(todo[w])
<1>1. todo[w] \in Seq(ClientOrders(test, w))
  BY SendersType DEF TogetherInv, TodoOK, WorkerKeeps
<1>2. h \in ClientOrders(test, w)
  BY <1>1, TailOf
<1>3. At(w, h.do) /\ \A name : At(w, name) <=> h.do = name
  BY DEF At
<1>4. "end" \in DOMAIN h => End(w) = h.end
  BY DEF End
<1> HIDE DEF h
<1>5. \/ /\ h.do \in {"post", "message", "poll", "access"}
         /\ h = [do |-> h.do, end |-> h.end] /\ "end" \in DOMAIN h
      \/ h.do \notin {"post", "message"}
  BY <1>2 DEF ClientOrders
<1>6. CASE h.do \in {"post", "message", "poll", "access"} /\ h = [do |-> h.do, end |-> h.end] /\ "end" \in DOMAIN h
  <2>1. /\ h \in Posts(q) <=> h.do = "post" /\ h.end = <<q, "client">>
        /\ h \in Sends(q) <=> h.do = "message" /\ h.end = <<q, "client">>
    BY <1>6 DEF Posts, Sends
  <2>2. QED
    BY <1>3, <1>4, <1>6, <2>1 DEF h
<1>7. CASE h.do \notin {"post", "message"}
  <2>1. h \notin Posts(q) /\ h \notin Sends(q)
    BY <1>7 DEF Posts, Sends
  <2>2. QED
    BY <1>3, <1>7, <2>1 DEF h
<1>8. QED
  BY <1>5, <1>6, <1>7

(* How an instruction changes what comes first. *)
LEMMA SendsFirstAfter ==
  ASSUME TogetherInv, ~ Normal(test), NEW w \in Everybody, todo[w] # << >>,
         todo' = [todo EXCEPT ![w] = Tail(@)], NEW q \in Connections
  PROVE  /\ w = q[1] /\ At(w, "post") /\ End(w) = <<q, "client">> => ~ SendsFirst(q)
         /\ w = q[1] /\ At(w, "message") /\ End(w) = <<q, "client">> => SendsFirst(q) /\ ~ SendsFirst(q)'
         /\ ~ (w = q[1] /\ (At(w, "post") \/ At(w, "message")) /\ End(w) = <<q, "client">>) =>
              (SendsFirst(q)' => SendsFirst(q))
<1> DEFINE P == todo[w]
<1>1. todo = [x \in Everybody |-> todo[x]] /\ q = <<q[1], q[2]>> /\ q[1] \in Threads /\ q[2] \in Servers
      /\ q[1] \in Everybody /\ q[1] \in Workers /\ q[1] \notin ServerThreads
  BY SendersType DEF TogetherInv, TodoOK, Everybody
<1>2. CASE w # q[1]
  <2>1. todo'[q[1]] = todo[q[1]]
    BY <1>1, <1>2
  <2>2. QED
    BY <1>2, <2>1 DEF SendsFirst
<1>3. CASE w = q[1]
  <2>1. todo'[q[1]] = Tail(P)
    BY <1>1, <1>3
  <2>2. w \in Threads /\ q \in {w} \X Servers
    BY <1>1, <1>3
  <2>3. P \in Seq(ClientOrders(test, w)) /\ Between(P, Sends(q), Posts(q), Sends(q))
    BY <1>1, <1>3, <2>2 DEF TogetherInv, TodoOK, WorkerKeeps
  <2>4. Posts(q) \cap Sends(q) = {}
    BY DEF Posts, Sends
  <2>5. /\ Head(P) \in Posts(q) => ~ Due(P, Posts(q), Sends(q))
        /\ Head(P) \in Sends(q) => Due(P, Posts(q), Sends(q)) /\ ~ Due(Tail(P), Posts(q), Sends(q))
        /\ Head(P) \notin Posts(q) \cup Sends(q) =>
             (Due(Tail(P), Posts(q), Sends(q)) => Due(P, Posts(q), Sends(q)))
    <3> HIDE DEF P
    <3>1. P # << >>
      BY DEF P
    <3>2. QED
      BY <2>3, <2>4, <3>1, FirstOfTail
  <2>6. /\ Head(P) \in Posts(q) <=> At(w, "post") /\ End(w) = <<q, "client">>
        /\ Head(P) \in Sends(q) <=> At(w, "message") /\ End(w) = <<q, "client">>
    BY <2>2, ClientUses
  <2>7. /\ SendsFirst(q) <=> Due(P, Posts(q), Sends(q))
        /\ SendsFirst(q)' <=> Due(Tail(P), Posts(q), Sends(q))
    BY <1>3, <2>1 DEF SendsFirst
  <2> HIDE DEF P
  <2>8. QED
    BY <1>3, <2>5, <2>6, <2>7, Zenon
<1>4. QED
  BY <1>2, <1>3

(* No receive is used and nothing is asked or answered. *)
LEMMA SupplyStays ==
  ASSUME Counts, Supply, UNCHANGED <<asked, answered>>, posted' \in [Ends -> Nat],
         \A q \in Connections : /\ posted'[<<q, "client">>] >= posted[<<q, "client">>]
                                /\ SendsFirst(q)' => SendsFirst(q)
  PROVE  Supply'
<1> SUFFICES ASSUME NEW q \in Connections
             PROVE  Supplies(q)'
  BY DEF Supply
<1>1. Supplies(q)
  BY DEF Supply
<1>2. /\ asked[q] \in Nat /\ answered[q] \in Nat
      /\ posted[<<q, "client">>] \in Nat /\ posted'[<<q, "client">>] \in Nat
  BY NumbersType, SendersType DEF Supply
<1>3. posted'[<<q, "client">>] >= posted[<<q, "client">>] /\ (SendsFirst(q)' => SendsFirst(q))
  OBVIOUS
<1>4. QED
  BY <1>1, <1>2, <1>3 DEF Supplies

(* Nor does what neither posts nor sends. *)
LEMMA QuietSupply ==
  ASSUME TogetherInv, Counts, Supply, ~ Normal(test), NEW w \in Everybody, todo[w] # << >>,
         Head(todo[w]).do \notin {"post", "message"},
         Step(w), UNCHANGED <<asked, answered>>, posted' \in [Ends -> Nat],
         \A q \in Connections : posted'[<<q, "client">>] >= posted[<<q, "client">>]
  PROVE  Supply'
<1>1. ASSUME NEW q \in Connections
      PROVE  SendsFirst(q)' => SendsFirst(q)
  <2>1. todo' = [todo EXCEPT ![w] = Tail(@)] /\ ~ At(w, "post") /\ ~ At(w, "message")
    BY DEF Step, At
  <2>2. QED
    BY <2>1, SendsFirstAfter
<1>2. QED
  BY <1>1, SupplyStays

(* A receive more, and perhaps the one for the next question. *)
LEMMA PostSupply ==
  ASSUME TogetherInv, Counts, Supply, ~ Normal(test), NEW w \in Everybody, PostReceive(w)
  PROVE  Supply'
<1> DEFINE e == End(w)
<1>1. /\ todo[w] # << >> /\ At(w, "post") /\ todo' = [todo EXCEPT ![w] = Tail(@)]
      /\ posted' = [posted EXCEPT ![e] = @ + 1]
      /\ UNCHANGED <<asked, answered>>
  BY DEF PostReceive, At, Step, history
<1>2. posted \in [Ends -> Nat]
  BY DEF Supply
<1> HIDE DEF e
<1>3. posted' \in [Ends -> Nat] /\ \A d \in Ends : posted'[d] = IF d = e THEN posted[d] + 1 ELSE posted[d]
  <2>1. posted' = [d \in Ends |-> IF d = e THEN posted[d] + 1 ELSE posted[d]]
    BY <1>1, <1>2
  <2>2. \A d \in Ends : (IF d = e THEN posted[d] + 1 ELSE posted[d]) \in Nat
    BY <1>2
  <2>3. QED
    BY <2>1, <2>2
<1>4. ASSUME NEW q \in Connections
      PROVE  Supplies(q)'
  <2>1. Supplies(q)
    BY DEF Supply
  <2>2. /\ asked[q] \in Nat /\ answered[q] \in Nat /\ posted[<<q, "client">>] \in Nat
        /\ <<q, "client">> \in Ends
    BY <1>2, NumbersType, SendersType
  <2>3. asked'[q] = asked[q] /\ answered'[q] = answered[q]
    BY <1>1
  <2>4. posted'[<<q, "client">>] =
          IF <<q, "client">> = e THEN posted[<<q, "client">>] + 1 ELSE posted[<<q, "client">>]
    BY <1>3, <2>2
  <2>5. CASE w = q[1] /\ e = <<q, "client">>
    <3>1. ~ SendsFirst(q)
      BY <1>1, <2>5, SendsFirstAfter DEF e
    <3>2. QED
      BY <2>1, <2>2, <2>3, <2>4, <2>5, <3>1 DEF Supplies
  <2>6. CASE ~ (w = q[1] /\ e = <<q, "client">>)
    <3>1. SendsFirst(q)' => SendsFirst(q)
      BY <1>1, <2>6, SendsFirstAfter DEF e
    <3>2. posted'[<<q, "client">>] >= posted[<<q, "client">>] /\ posted'[<<q, "client">>] \in Nat
      BY <2>2, <2>4
    <3>3. QED
      BY <2>1, <2>2, <2>3, <3>1, <3>2 DEF Supplies
  <2>7. QED
    BY <2>5, <2>6
<1>5. QED
  BY <1>3, <1>4 DEF Supply

(* The receive that a message takes. *)
LEMMA ReceiveTaken ==
  ASSUME posted \in [Ends -> Nat], NEW to, posted[to] # 0, posted' = [posted EXCEPT ![to] = @ - 1]
  PROVE  /\ posted' \in [Ends -> Nat]
         /\ \A d \in Ends : posted'[d] = IF d = to THEN posted[d] - 1 ELSE posted[d]
<1>1. posted' = [d \in Ends |-> IF d = to THEN posted[d] - 1 ELSE posted[d]]
  OBVIOUS
<1>2. \A d \in Ends : (IF d = to THEN posted[d] - 1 ELSE posted[d]) \in Nat
  OBVIOUS
<1>3. QED
  BY <1>1, <1>2

(* A question: its receive was posted before. *)
LEMMA AskSupply ==
  ASSUME TogetherInv, Counts, Supply, ~ Normal(test), NEW w \in Threads, SendMessage(w), ~ fault'
  PROVE  Supply'
<1> DEFINE r == Conn(w)
<1>1. /\ todo[w] # << >> /\ At(w, "message") /\ todo' = [todo EXCEPT ![w] = Tail(@)]
      /\ w \notin AtServers /\ w \in Everybody
  BY SendersType DEF SendMessage, At, Step, Everybody
<1>2. End(w) \in ({w} \X Servers) \X {"client"}
  BY <1>1, ClientEnd
<1>3. End(w) = <<r, "client">> /\ r \in {w} \X Servers /\ Other(w) = <<r, "server">>
  BY <1>1, <1>2 DEF Conn, Other
<1>4. r[1] = w /\ r \in Connections
  BY <1>3 DEF Connections
<1>5. /\ posted[<<r, "server">>] # 0
      /\ posted' = [posted EXCEPT ![<<r, "server">>] = @ - 1]
      /\ asked' = [asked EXCEPT ![r] = @ + 1]
      /\ answered' = [answered EXCEPT ![r] = @]
  <2>1. \A q \in Connections : (IF w \in AtServers THEN asked[q] ELSE asked[q] + 1) = asked[q] + 1
    BY <1>1
  <2>2. QED
    BY <1>1, <1>3 DEF SendMessage
<1> HIDE DEF r
<1>6. posted' \in [Ends -> Nat]
      /\ \A d \in Ends : posted'[d] = IF d = <<r, "server">> THEN posted[d] - 1 ELSE posted[d]
  BY <1>5, ReceiveTaken DEF Supply
<1>7. ASSUME NEW q \in Connections
      PROVE  Supplies(q)'
  <2>1. Supplies(q)
    BY DEF Supply
  <2>2. /\ asked[q] \in Nat /\ answered[q] \in Nat /\ posted[<<q, "client">>] \in Nat
        /\ <<q, "client">> \in Ends
    BY NumbersType, SendersType DEF Supply
  <2>3. answered'[q] = answered[q] /\ asked'[q] = IF q = r THEN asked[q] + 1 ELSE asked[q]
    BY <1>5 DEF Counts
  <2>4. posted'[<<q, "client">>] = posted[<<q, "client">>]
    BY <1>6, <2>2
  <2>5. CASE q = r
    <3>1. SendsFirst(q) /\ ~ SendsFirst(q)'
      BY <1>1, <1>3, <1>4, <2>5, SendsFirstAfter
    <3>2. QED
      BY <2>1, <2>2, <2>3, <2>4, <2>5, <3>1 DEF Supplies
  <2>6. CASE q # r
    <3>1. SendsFirst(q)' => SendsFirst(q)
      BY <1>1, <1>3, <2>6, SendsFirstAfter
    <3>2. QED
      BY <2>1, <2>2, <2>3, <2>4, <2>6, <3>1 DEF Supplies
  <2>7. QED
    BY <2>5, <2>6
<1>8. QED
  BY <1>6, <1>7 DEF Supply

(* An answer takes the receive that waits for it. *)
LEMMA AnswerSupply ==
  ASSUME TogetherInv, Counts, Supply, ~ Normal(test), NEW w \in AtServers, SendMessage(w), ~ fault'
  PROVE  Supply'
<1> DEFINE r == Conn(w)
<1>1. /\ todo[w] # << >> /\ At(w, "message") /\ todo' = [todo EXCEPT ![w] = Tail(@)]
      /\ w \in Everybody /\ w \notin Threads
  BY SendersType DEF SendMessage, At, Step, Everybody, AtServers, Processes, Workers
<1>2. Other(w) = <<r, "client">>
  BY DEF Conn, Other
<1>3. /\ posted[<<r, "client">>] # 0
      /\ posted' = [posted EXCEPT ![<<r, "client">>] = @ - 1]
      /\ asked' = [asked EXCEPT ![r] = @]
      /\ answered' = [answered EXCEPT ![r] = @ + 1]
  BY <1>1, <1>2 DEF SendMessage
<1> HIDE DEF r
<1>4. posted' \in [Ends -> Nat]
      /\ \A d \in Ends : posted'[d] = IF d = <<r, "client">> THEN posted[d] - 1 ELSE posted[d]
  BY <1>3, ReceiveTaken DEF Supply
<1>5. ASSUME NEW q \in Connections
      PROVE  Supplies(q)'
  <2>1. Supplies(q)
    BY DEF Supply
  <2>2. /\ asked[q] \in Nat /\ answered[q] \in Nat /\ posted[<<q, "client">>] \in Nat
        /\ <<q, "client">> \in Ends /\ q[1] \in Threads
    BY NumbersType, SendersType DEF Supply
  <2>3. asked'[q] = asked[q] /\ answered'[q] = IF q = r THEN answered[q] + 1 ELSE answered[q]
    BY <1>3 DEF Counts
  <2>4. posted'[<<q, "client">>] = IF q = r THEN posted[<<q, "client">>] - 1 ELSE posted[<<q, "client">>]
    BY <1>4, <2>2
  <2>5. SendsFirst(q)' => SendsFirst(q)
    BY <1>1, <2>2, SendsFirstAfter
  <2>6. QED
    BY <2>1, <2>2, <2>3, <2>4, <2>5 DEF Supplies
<1>6. QED
  BY <1>4, <1>5 DEF Supply

(* Nobody's program goes on, and no message. *)
LEMMA NothingSupply ==
  ASSUME Supply, UNCHANGED <<todo, posted, asked, answered>>
  PROVE  Supply'
<1>1. \A q : SendsFirst(q)' <=> SendsFirst(q)
  BY DEF SendsFirst
<1>2. \A q \in Connections : Supplies(q)'
  BY <1>1 DEF Supply, Supplies
<1>3. QED
  BY <1>2 DEF Supply

LEMMA SupplyInit ==
  ASSUME Init
  PROVE  Supply
<1>1. posted \in [Ends -> Nat]
  BY DEF Init
<1>2. ASSUME NEW q \in Connections
      PROVE  Supplies(q)
  <2>1. q[1] \in Everybody /\ q[1] \notin Processes /\ <<q, "client">> \in Ends
    BY SendersType DEF Everybody
  <2>2. todo[q[1]] = << >>
    BY <2>1 DEF Init
  <2>3. ~ SendsFirst(q)
    BY <2>2 DEF SendsFirst, Due
  <2>4. asked[q] = 0 /\ answered[q] = 0 /\ posted[<<q, "client">>] = 0
    BY <2>1 DEF Init
  <2>5. QED
    BY <2>3, <2>4 DEF Supplies
<1>3. QED
  BY <1>1, <1>2 DEF Supply

(* A datagram takes no receive of a connection. *)
LEMMA DatagramSupply ==
  ASSUME TogetherInv, Counts, Supply, ~ Normal(test), NEW w \in Workers, SendDatagram(w)
  PROVE  Supply'
<1> DEFINE to == {e \in Head(todo[w]).to : posted[e] > 0}
<1>1. /\ todo[w] # << >> /\ At(w, "datagram") /\ w \in Everybody
      /\ Head(todo[w]).do \notin {"post", "message"}
      /\ Step(w) /\ UNCHANGED <<asked, answered>>
      /\ posted' = [e \in Ends |-> IF e \in to THEN posted[e] - 1 ELSE posted[e]]
  BY DEF SendDatagram, At, history, Everybody
<1>2. Head(todo[w]).to \subseteq Mailboxes
  BY <1>1, ClientEnd, ServerEnd DEF Workers
<1>3. to \subseteq Mailboxes /\ \A e \in to : posted[e] > 0
  BY <1>2
<1> HIDE DEF to
<1>4. posted \in [Ends -> Nat]
  BY DEF Supply
<1>5. \A e \in Ends : (IF e \in to THEN posted[e] - 1 ELSE posted[e]) \in Nat
  BY <1>3, <1>4
<1>6. posted' \in [Ends -> Nat]
  BY <1>1, <1>5
<1>7. ASSUME NEW q \in Connections
      PROVE  posted'[<<q, "client">>] >= posted[<<q, "client">>]
  <2>1. <<q, "client">> \in Ends /\ <<q, "client">> \notin to
    BY <1>3, SendersType DEF Mailboxes
  <2>2. posted'[<<q, "client">>] = posted[<<q, "client">>] /\ posted[<<q, "client">>] \in Nat
    BY <1>1, <1>4, <2>1
  <2>3. QED
    BY <2>2
<1>8. QED
  BY <1>1, <1>6, <1>7, QuietSupply

(* The receives of a barrier. *)
LEMMA GatherSupply ==
  ASSUME TogetherInv, Counts, Supply, ~ Normal(test), NEW p \in Processes, Gather(p)
  PROVE  Supply'
<1> DEFINE new == (ToSet(connected[p]) \ gathered[p]) \X {p}
<1>1. /\ todo[p] # << >> /\ Head(todo[p]).do = "gather" /\ p \in Everybody
      /\ UNCHANGED <<asked, answered>>
      /\ posted' = [e \in Ends |-> IF e \in new \X {"server"} THEN posted[e] + 1 ELSE posted[e]]
  BY DEF Gather, At, history, Everybody
<1>2. posted \in [Ends -> Nat]
  BY DEF Supply
<1> HIDE DEF new
<1>3. \A e \in Ends : /\ (IF e \in new \X {"server"} THEN posted[e] + 1 ELSE posted[e]) \in Nat
                      /\ posted'[e] >= posted[e]
  BY <1>1, <1>2
<1>4. posted' \in [Ends -> Nat]
  BY <1>1, <1>3
<1>5. \A q \in Connections : posted'[<<q, "client">>] >= posted[<<q, "client">>]
  BY <1>3, SendersType
<1>6. CASE Step(p)
  BY <1>1, <1>4, <1>5, <1>6, QuietSupply
<1>7. CASE UNCHANGED todo
  <2>1. \A q \in Connections : SendsFirst(q)' => SendsFirst(q)
    BY <1>7 DEF SendsFirst
  <2>2. QED
    BY <1>1, <1>4, <1>5, <2>1, SupplyStays
<1>8. QED
  BY <1>6, <1>7 DEF Gather

(* As many receives as before. *)
LEMMA SameReceives ==
  ASSUME Supply, posted' = posted
  PROVE  /\ posted' \in [Ends -> Nat]
         /\ \A q \in Connections : posted'[<<q, "client">>] >= posted[<<q, "client">>]
<1>1. posted \in [Ends -> Nat]
  BY DEF Supply
<1>2. \A q \in Connections : posted[<<q, "client">>] \in Nat
  BY <1>1, SendersType
<1>3. QED
  BY <1>1, <1>2

(* Threads that start post a receive before they ask. *)
LEMMA LaunchSupply ==
  ASSUME TogetherInv, Counts, Supply, ~ Normal(test), NEW p \in Processes, LaunchThreads(p)
  PROVE  Supply'
<1> DEFINE h == Head(todo[p])
<1>1. UNCHANGED <<posted, asked, answered>>
  BY DEF LaunchThreads, history, queues
<1>2. /\ \A v \in Workers : v \notin h.workers => todo'[v] = todo[v]
      /\ \A v \in h.workers : Fresh(v, todo'[v])
  BY NewThreads
<1> HIDE DEF h
<1>3. ASSUME NEW q \in Connections
      PROVE  SendsFirst(q)' => SendsFirst(q)
  <2>1. q[1] \in Workers /\ q[1] \notin ServerThreads /\ q \in {q[1]} \X Servers
    <3>1. q = <<q[1], q[2]>> /\ q[1] \in Threads /\ q[2] \in Servers
      BY SendersType
    <3>2. q[1] \in Workers /\ q[1] \notin ServerThreads
      BY <3>1, SendersType
    <3>3. QED
      BY <3>1, <3>2
  <2>2. CASE q[1] \in h.workers
    <3>1. ~ Due(todo'[q[1]], Posts(q), Sends(q))
      BY <1>2, <2>1, <2>2 DEF Fresh
    <3>2. QED
      BY <3>1 DEF SendsFirst
  <2>3. CASE q[1] \notin h.workers
    BY <1>2, <2>1, <2>3 DEF SendsFirst
  <2>4. QED
    BY <2>2, <2>3
<1>4. QED
  BY <1>1, <1>3, SupplyStays, SameReceives

LEMMA SendSupply ==
  ASSUME TogetherInv, Counts, Supply, ~ Normal(test), NEW w \in Everybody, SendMessage(w), ~ fault'
  PROVE  Supply'
<1>1. w \in Threads \/ w \in AtServers
  <2>1. w \in Clients /\ w \notin Servers => Head(todo[w]).do # "message"
    BY MainEnd DEF SendMessage, At, Processes
  <2>2. QED
    BY <2>1 DEF Everybody, Processes, Workers, AtServers, SendMessage, At
<1>2. QED
  BY <1>1, AskSupply, AnswerSupply

LEMMA WorkerStepSupply ==
  ASSUME TogetherInv, Counts, Supply, ~ Normal(test), NEW w \in Workers, WorkerStep(w), ~ fault'
  PROVE  Supply'
<1> DEFINE Quiet == /\ todo[w] # << >> /\ Head(todo[w]).do \notin {"post", "message"}
                    /\ Step(w) /\ UNCHANGED <<posted, asked, answered>>
<1>1. w \in Everybody
  BY DEF Everybody
<1>2. ASSUME Quiet PROVE Supply'
  <2>1. posted' = posted
    BY <1>2
  <2>2. QED
    BY <1>1, <1>2, <2>1, QuietSupply, SameReceives
<1>3. todo[w] # << >> => Head(todo[w]).do \notin {"write", "watch", "await", "return"}
  BY ClientEnd, ServerEnd DEF Workers
<1>4. ASSUME Wait(w) PROVE Supply'
  BY <1>4, NothingSupply DEF Wait, queues, history
<1>5. Go(w) \/ AccessRemote(w) \/ ResetMemory(w) \/ ReadNodeID(w) => Quiet
  BY DEF Go, AccessRemote, ResetMemory, ReadNodeID, At, queues, history
<1>6. ~ (WriteQuestion(w) \/ WatchAnswer(w) \/ AwaitQuestion(w) \/ ReturnAnswer(w))
  BY <1>3 DEF WriteQuestion, WatchAnswer, AwaitQuestion, ReturnAnswer, At
<1>7. PollReceive(w) => Quiet
  BY DEF PollReceive, At
<1>8. Proceed(w) \/ Sleep(w) => Quiet
  BY DEF Proceed, Sleep, Waits, queues, history
<1> HIDE DEF Quiet
<1>9. QED
  BY <1>1, <1>2, <1>4, <1>5, <1>6, <1>7, <1>8, DatagramSupply, PostSupply, SendSupply
     DEF WorkerStep, WorkerOnly, Exchange

LEMMA ProcessStepSupply ==
  ASSUME TogetherInv, Counts, Supply, ~ Normal(test), NEW p \in Processes, ProcessStep(p), ~ fault'
  PROVE  Supply'
<1> DEFINE Quiet == /\ todo[p] # << >> /\ Head(todo[p]).do \notin {"post", "message"}
                    /\ Step(p) /\ UNCHANGED <<posted, asked, answered>>
<1>1. p \in Everybody
  BY DEF Everybody
<1>2. ASSUME Quiet PROVE Supply'
  <2>1. posted' = posted
    BY <1>2
  <2>2. QED
    BY <1>1, <1>2, <2>1, QuietSupply, SameReceives
<1>3. StartServer(p) \/ Connect(p) \/ WriteNodeID(p) \/ PrepareThreads(p) \/ Notify(p) => Quiet
  BY DEF StartServer, Connect, WriteNodeID, PrepareThreads, Notify, At, queues, history
<1>4. PollReceive(p) => Quiet
  BY DEF PollReceive, At
<1>5. Proceed(p) \/ Sleep(p) => Quiet
  BY DEF Proceed, Sleep, Waits, queues, history
<1> HIDE DEF Quiet
<1>6. QED
  BY <1>1, <1>2, <1>3, <1>4, <1>5, LaunchSupply, GatherSupply, PostSupply, SendSupply
     DEF ProcessStep, MainOnly, Exchange

(* No step of anybody uses up a receive that an answer needs. *)
LEMMA SupplyStep ==
  ASSUME TogetherInv, TurnsInv, SupplyInv, [Next]_vars
  PROVE  SupplyInv'
<1> SUFFICES ASSUME ~ Normal(test)', ~ fault'
             PROVE  Supply'
  BY DEF SupplyInv
<1>1. ~ Normal(test) /\ Counts
  <2>1. ~ Normal(test)
    BY TestStays DEF Normal
  <2>2. QED
    BY <2>1 DEF TurnsInv
<1>2. CASE Next
  <2>1. Supply
    BY <1>1, <1>2 DEF SupplyInv, Next
  <2>2. QED
    BY <1>1, <1>2, <2>1, WorkerStepSupply, ProcessStepSupply DEF Next
<1>3. CASE UNCHANGED vars
  <2>1. Supply /\ UNCHANGED <<todo, posted, asked, answered>>
    BY <1>1, <1>3 DEF SupplyInv, vars, queues, history
  <2>2. QED
    BY <2>1, NothingSupply
<1>4. QED
  BY <1>2, <1>3

(* Whoever is about to answer owes that answer. *)
LEMMA AnswersAreOwed ==
  ASSUME TogetherInv, ~ Normal(test), NEW w \in AtServers, At(w, "message"), Conn(w) \in Connections
  PROVE  Owes(w, Conn(w))
<1> DEFINE P == todo[w]
           r == Conn(w)
<1>1. P # << >>
  BY DEF At
<1>2. CASE w \in Servers
  <2>1. w \in Processes
    BY <1>2, SendersType
  <2>2. End(w) \in (Threads \X {w}) \X {"server"}
    BY <1>1, <1>2, <2>1, MainEnd
  <2>3. r \in Threads \X {w} /\ End(w) = <<r, "server">> /\ r[2] = w
    BY <2>2 DEF Conn
  <2>4. Head(P) \in AnswersAt(r)
    BY <1>1, <1>2, <2>1, <2>3, MainEnd
  <2>5. P \in Seq(MainOrders(test, w)) /\ Len(P) \in Nat \ {0} /\ Head(P) = P[1]
    BY <1>1, <2>1, TailOf DEF TogetherInv, TodoOK, MainKeeps
  <2> HIDE DEF P, r
  <2>6. Due(P, PollsAt(r), AnswersAt(r))
    BY <2>4, <2>5 DEF Due
  <2>7. QED
    BY <1>2, <2>3, <2>6 DEF Owes, P, r
<1>3. CASE w \in ServerThreads
  <2>1. End(w) = <<NodeOf(w), "server">> /\ Head(P) \in Answers
    BY <1>1, <1>3, ServerEnd
  <2>2. r = NodeOf(w) /\ w \notin Servers
    BY <1>3, <2>1, SendersType DEF Conn
  <2>3. P \in Seq(ServerOrders(test, w)) /\ Len(P) \in Nat \ {0} /\ Head(P) = P[1]
    <3>1. P \in Seq(ServerOrders(test, w))
      BY <1>3, SendersType DEF TogetherInv, TodoOK, WorkerKeeps
    <3>2. QED
      BY <1>1, <3>1, TailOf
  <2> HIDE DEF P, r
  <2>4. Due(P, Polls, Answers)
    BY <2>1, <2>3 DEF Due
  <2>5. QED
    BY <2>2, <2>4 DEF Owes, P, r
<1>4. QED
  BY <1>2, <1>3 DEF AtServers

(* Whoever answers a client that is there finds a receive posted. (A       *)
(* server thread knows its client only once it has read the node id of     *)
(* one.)                                                                   *)
AnswersFindReceives ==
  \A w \in AtServers : At(w, "message") /\ Conn(w) \in Connections => posted[Other(w)] > 0

LEMMA AnswerFound ==
  ASSUME TogetherInv, TurnsInv, SupplyInv, ~ Normal(test), ~ fault
  PROVE  AnswersFindReceives
<1> SUFFICES ASSUME NEW w \in AtServers, At(w, "message"), Conn(w) \in Connections
             PROVE  posted[Other(w)] > 0
  BY DEF AnswersFindReceives
<1> DEFINE r == Conn(w)
<1>1. r \in Connections /\ Other(w) = <<r, "client">> /\ Owes(w, r)
  BY AnswersAreOwed DEF Other
<1>2. Counts /\ Balance /\ Supply
  BY DEF TurnsInv, SupplyInv
<1> HIDE DEF r
<1>3. Cardinality(Owing(r)) # 0
  <2>1. w \in Owing(r)
    BY <1>1 DEF Owing
  <2>2. IsFiniteSet(Owing(r))
    BY AtServersFinite
  <2>3. Owing(r) # {}
    BY <2>1
  <2>4. QED
    BY <2>2, <2>3, FS_EmptySet
<1>4. Balanced(r) /\ Supplies(r)
  BY <1>1, <1>2 DEF Balance, Supply
<1>5. posted[<<r, "client">>] \in Nat
  BY <1>1, <1>2, SendersType DEF Supply
<1>6. QED
  BY <1>1, <1>2, <1>3, <1>4, <1>5, NumbersType DEF Balanced, Supplies

(* In every deployment of a test that exchanges messages, the answer       *)
(* that a server is about to send to a client finds a receive there: the   *)
(* client has posted it before it asked.                                   *)
THEOREM AnswersAlwaysFindReceives == Spec => [](~ Normal(test) /\ ~ fault => AnswersFindReceives)
<1>1. Init => TogetherInv /\ TurnsInv /\ SupplyInv
  BY TogetherInit, TurnsInit, SupplyInit DEF SupplyInv
<1>2. TogetherInv /\ TurnsInv /\ SupplyInv /\ [Next]_vars => TogetherInv' /\ TurnsInv' /\ SupplyInv'
  BY TogetherStep, TurnsStep, SupplyStep
<1>3. TogetherInv /\ TurnsInv /\ SupplyInv => (~ Normal(test) /\ ~ fault => AnswersFindReceives)
  BY AnswerFound
<1>4. QED
  BY <1>1, <1>2, <1>3, PTL DEF Spec
================================================================================
