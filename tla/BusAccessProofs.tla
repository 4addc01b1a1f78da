-------------------------- MODULE BusAccessProofs --------------------------
(***************************************************************************)
(* Proofs about BusAccess, for an address space, registers, pages and      *)
(* accesses of any number, at any address.                                 *)
(*                                                                         *)
(* How an access is cut is put together from single cycles, as the C code  *)
(* does it: what a list of steps promises (Cuts, Stores, Reads) is proved  *)
(* for one cycle and for the concatenation of two lists.  What is left of  *)
(* an access is then the end of such a list, and the invariants compare    *)
(* the Amiga with the copies of it up to the cycle that is under way.      *)
(***************************************************************************)
EXTENDS BusAccess, SequenceTheorems, TLAPS

Bytes == Seq(Nat)

StepType ==
  {x \in [op : {"check", "write", "capture", "invalidate", "read"}, addr : 0 .. Space - 1, data : Bytes] :
     x.op # "check" =>
       Len(x.data) \in {1, 2} /\ (Len(x.data) = 2 => x.addr % 2 = 0)}

\* The report to the mirror and the one to the cache follow their write cycle.
Follows(x, y) ==
  /\ x.op = "write" <=> y.op = "capture"
  /\ x.op = "capture" <=> y.op = "invalidate"
  /\ y.op \in {"capture", "invalidate"} => y.addr = x.addr /\ y.data = x.data

\* The end of an access, and a whole access.
Chain(t) ==
  /\ t \in Seq(StepType)
  /\ \A i \in 1 .. Len(t) - 1 : Follows(t[i], t[i + 1])
  /\ t # <<>> => t[Len(t)].op \notin {"write", "capture"}

Whole(t) == Chain(t) /\ (t # <<>> => t[1].op \notin {"capture", "invalidate"})

-----------------------------------------------------------------------------
(* Addresses. *)

LEMMA DivUnique ==
  ASSUME NEW s \in Nat \ {0}, NEW q \in Nat, NEW r \in 0 .. s - 1
  PROVE  (s * q + r) % s = r
<1> DEFINE x == s * q + r
           p == x \div s
           m == x % s
<1>1. x \in Nat /\ p \in Nat /\ m \in 0 .. s - 1 /\ x = s * p + m
  OBVIOUS
<1> HIDE DEF p, m
<1>2. CASE p = q
  BY <1>1, <1>2
<1>3. CASE p >= q + 1
  <2>1. s * p >= s * (q + 1)
    BY <1>1, <1>3
  <2>2. s * (q + 1) = s * q + s
    OBVIOUS
  <2> QED
    BY <1>1, <2>1, <2>2
<1>4. CASE q >= p + 1
  <2>1. s * q >= s * (p + 1)
    BY <1>1, <1>4
  <2>2. s * (p + 1) = s * p + s
    BY <1>1
  <2> QED
    BY <1>1, <2>1, <2>2
<1>5. m = r
  BY <1>1, <1>2, <1>3, <1>4
<1> QED
  BY <1>5 DEF m

\* Addresses wrap at Space, which is even.
LEMMA Wrapped ==
  ASSUME BusAssumption, NEW a \in Nat
  PROVE  a % Space \in 0 .. Space - 1 /\ (a % Space) % 2 = a % 2
<1>0. Space \in Nat \ {0}
  BY DEF BusAssumption
<1>1. Space % 2 = 0
  BY DEF BusAssumption
<1>2. a % Space \in 0 .. Space - 1 /\ a = Space * (a \div Space) + (a % Space) /\ a \div Space \in Nat
  BY <1>0
<1> DEFINE h == Space \div 2
           q == a \div Space
           r == a % Space
<1>3. h \in Nat /\ Space = 2 * h
  BY <1>0, <1>1
<1> HIDE DEF h, q, r
<1>4. a = 2 * (h * q) + r /\ h * q \in Nat
  BY <1>2, <1>3 DEF q, r
<1>5. r % 2 = a % 2
  <2> DEFINE k == h * q
  <2> HIDE DEF k
  <2>1. a = 2 * k + r /\ k \in Nat /\ r \in Nat
    BY <1>0, <1>2, <1>4 DEF k, r
  <2> QED
    BY <2>1
<1> QED
  BY <1>2, <1>5 DEF r

\* The place k bytes on, if the address space does not end before it, and if it
\* does.
LEMMA WrappedOn ==
  ASSUME BusAssumption, NEW a \in Nat, NEW k \in 0 .. Space - 1
  PROVE  (a + k) % Space = IF (a % Space) + k < Space THEN (a % Space) + k ELSE (a % Space) + k - Space
<1>1. Space \in Nat \ {0}
  BY DEF BusAssumption
<1> DEFINE q == a \div Space
           r == a % Space
<1>2. r \in 0 .. Space - 1 /\ a = Space * q + r /\ q \in Nat
  BY <1>1
<1> HIDE DEF q, r
<1>3. CASE r + k < Space
  <2>1. a + k = Space * q + (r + k) /\ r + k \in 0 .. Space - 1
    BY <1>1, <1>2, <1>3
  <2>2. (Space * q + (r + k)) % Space = r + k
    BY <1>1, <1>2, <2>1, DivUnique
  <2> QED
    BY <1>3, <2>1, <2>2 DEF r
<1>4. CASE r + k >= Space
  <2>1. Space * (q + 1) = Space * q + Space
    BY <1>1, <1>2
  <2>2. a + k = Space * (q + 1) + (r + k - Space) /\ r + k - Space \in 0 .. Space - 1 /\ q + 1 \in Nat
    BY <1>1, <1>2, <1>4, <2>1
  <2>3. (Space * (q + 1) + (r + k - Space)) % Space = r + k - Space
    BY <1>1, <2>2, DivUnique
  <2> QED
    BY <1>1, <1>2, <1>4, <2>2, <2>3 DEF r
<1> QED
  BY <1>1, <1>2, <1>3, <1>4 DEF r

\* The word of an even address is that byte and the next.
LEMMA EvenWord ==
  ASSUME BusAssumption, NEW a \in 0 .. Space - 1, a % 2 = 0
  PROVE  /\ a + 1 \in 0 .. Space - 1 /\ WordAt(a) = {a, a + 1} /\ (a + 1) % 2 = 1
         /\ \A c \in WordAt(a) : c - a + 1 = (c % 2) + 1
<1>1. Space \in Nat \ {0} /\ Space % 2 = 0
  BY DEF BusAssumption
<1>2. a + 1 \in 0 .. Space - 1 /\ (a + 1) % 2 = 1
  BY <1>1
<1>3. \A c \in 0 .. Space - 1 : c \div 2 = a \div 2 <=> c \in {a, a + 1}
  BY <1>1
<1>4. WordAt(a) = {a, a + 1}
  BY <1>2, <1>3 DEF WordAt
<1> QED
  BY <1>2, <1>4
-----------------------------------------------------------------------------
(* How an access is cut. *)

\* What the lanes of a write cycle carry, and where.
SelectedBy(x) == IF Len(x.data) = 1 THEN {x.addr} ELSE WordAt(x.addr)
LaneBy(x, c) == IF Len(x.data) = 1 THEN x.data[1] ELSE x.data[c - x.addr + 1]

\* A write cycle of t puts b into c; b is the byte of v for c, from address a on.
Puts(t, c, b) ==
  \E i \in 1 .. Len(t) : t[i].op = "write" /\ c \in SelectedBy(t[i]) /\ LaneBy(t[i], c) = b
IsByteOf(c, b, a, v) == \E i \in 1 .. Len(v) : (a + i - 1) % Space = c /\ v[i] = b

\* The write cycles of t write v to a.
Cuts(t, a, v) ==
  /\ Whole(t) /\ t # <<>>
  /\ \A i \in 1 .. Len(t) : t[i].op \notin {"check", "read"}
  /\ \A c \in 0 .. Space - 1, b \in Nat : Puts(t, c, b) <=> IsByteOf(c, b, a, v)
  /\ \A i \in 1 .. Len(t) : t[i].op = "write" /\ Len(t[i].data) = 2 =>
       \E k \in 0 .. Len(v) - 2 : t[i].addr = (a + k) % Space /\ (a + k) % 2 = 0

\* The three steps of a cycle.
LEMMA CycleWhole ==
  ASSUME BusAssumption, NEW a \in Nat, NEW v \in Bytes, Len(v) \in {1, 2},
         Len(v) = 2 => a % 2 = 0
  PROVE  /\ Whole(Cycle(a, v)) /\ Len(Cycle(a, v)) = 3
         /\ Cycle(a, v)[1] = [op |-> "write", addr |-> a % Space, data |-> v]
         /\ Cycle(a, v)[2].op = "capture" /\ Cycle(a, v)[3].op = "invalidate"
<1> DEFINE t == Cycle(a, v)
           x(op) == [op |-> op, addr |-> a % Space, data |-> v]
<1>1. t = <<x("write"), x("capture"), x("invalidate")>>
  BY DEF Cycle, Step
<1>2. x("write") \in StepType /\ x("capture") \in StepType /\ x("invalidate") \in StepType
  BY Wrapped DEF StepType, Bytes
<1>3. Len(t) = 3 /\ t[1] = x("write") /\ t[2] = x("capture") /\ t[3] = x("invalidate")
  BY <1>1
<1>4. t \in Seq(StepType)
  BY <1>1, <1>2
<1>5. Follows(t[1], t[2]) /\ Follows(t[2], t[3])
  BY <1>3 DEF Follows
<1>6. \A i \in 1 .. Len(t) - 1 : i = 1 \/ i = 2
  BY <1>3
<1> HIDE DEF t
<1>7. Whole(t)
  BY <1>3, <1>4, <1>5, <1>6 DEF Whole, Chain
<1> QED
  BY <1>3, <1>7 DEF t

\* Two lists, one after the other.
LEMMA WholeJoin ==
  ASSUME NEW t, NEW u, Whole(t), Whole(u)
  PROVE  Whole(t \o u)
<1> DEFINE w == t \o u
<1>1. t \in Seq(StepType) /\ u \in Seq(StepType)
  BY DEF Whole, Chain
<1>2. /\ w \in Seq(StepType) /\ Len(w) = Len(t) + Len(u)
      /\ \A i \in 1 .. Len(t) + Len(u) : w[i] = IF i <= Len(t) THEN t[i] ELSE u[i - Len(t)]
      /\ Len(t) \in Nat /\ Len(u) \in Nat
  BY <1>1, ConcatProperties
<1> HIDE DEF w
<1>3. ASSUME NEW i \in 1 .. Len(w) - 1 PROVE Follows(w[i], w[i + 1])
  <2>1. CASE i + 1 <= Len(t)
    <3>1. w[i] = t[i] /\ w[i + 1] = t[i + 1] /\ i \in 1 .. Len(t) - 1
      BY <1>2, <1>3, <2>1
    <3> QED
      BY <3>1 DEF Whole, Chain
  <2>2. CASE i > Len(t)
    <3>1. w[i] = u[i - Len(t)] /\ w[i + 1] = u[i - Len(t) + 1] /\ i - Len(t) \in 1 .. Len(u) - 1
      BY <1>2, <1>3, <2>2
    <3> QED
      BY <3>1 DEF Whole, Chain
  <2>3. CASE i = Len(t)
    <3>1. w[i] = t[Len(t)] /\ w[i + 1] = u[1] /\ Len(t) # 0 /\ Len(u) # 0
      BY <1>2, <1>3, <2>3
    <3>2. t # <<>> /\ u # <<>>
      BY <3>1
    <3> QED
      BY <3>1, <3>2 DEF Whole, Chain, Follows
  <2> QED
    BY <1>2, <1>3, <2>1, <2>2, <2>3
<1>4. ASSUME w # <<>> PROVE w[1].op \notin {"capture", "invalidate"}
                         /\ w[Len(w)].op \notin {"write", "capture"}
  <2>1. Len(w) # 0
    BY <1>2, <1>4
  <2>2. w[1].op \notin {"capture", "invalidate"}
    <3>1. CASE Len(t) = 0
      BY <1>1, <1>2, <2>1, <3>1 DEF Whole
    <3>2. CASE Len(t) # 0
      BY <1>1, <1>2, <2>1, <3>2 DEF Whole
    <3> QED
      BY <3>1, <3>2
  <2>3. w[Len(w)].op \notin {"write", "capture"}
    <3>1. CASE Len(u) = 0
      BY <1>1, <1>2, <2>1, <3>1 DEF Whole, Chain
    <3>2. CASE Len(u) # 0
      BY <1>1, <1>2, <2>1, <3>2 DEF Whole, Chain
    <3> QED
      BY <3>1, <3>2
  <2> QED
    BY <2>2, <2>3
<1>5. Whole(w)
  BY <1>2, <1>3, <1>4 DEF Whole, Chain
<1> QED
  BY <1>5 DEF w
\* A byte cycle, and a word cycle at an even address.
LEMMA CutCycle ==
  ASSUME BusAssumption, NEW a \in Nat, NEW v \in Bytes, Len(v) \in {1, 2},
         Len(v) = 2 => a % 2 = 0
  PROVE  Cuts(Cycle(a, v), a, v)
<1> DEFINE t == Cycle(a, v)
           d == a % Space
<1>1. /\ Whole(t) /\ Len(t) = 3 /\ t # <<>>
      /\ t[1] = [op |-> "write", addr |-> d, data |-> v]
      /\ t[2].op = "capture" /\ t[3].op = "invalidate"
  <2>1. /\ Whole(t) /\ Len(t) = 3
        /\ t[1] = [op |-> "write", addr |-> d, data |-> v]
        /\ t[2].op = "capture" /\ t[3].op = "invalidate"
    BY CycleWhole
  <2> HIDE DEF t
  <2>2. Len(t) = 3
    BY <2>1
  <2>3. t # <<>>
    BY <2>2
  <2> QED
    BY <2>1, <2>3
<1>2. \A i \in 1 .. Len(t) : i = 1 \/ i = 2 \/ i = 3
  BY <1>1
<1>3. 1 \in 1 .. Len(t)
  BY <1>1
<1>4. d \in 0 .. Space - 1 /\ d % 2 = a % 2 /\ Space \in Nat /\ Space % 2 = 0
  BY Wrapped DEF BusAssumption
<1>5. \A i \in 1 .. Len(v) : v[i] \in Nat
  BY DEF Bytes
<1> HIDE DEF t, d
<1>6. ASSUME NEW c \in 0 .. Space - 1, NEW b \in Nat
      PROVE  Puts(t, c, b) <=> c \in SelectedBy(t[1]) /\ LaneBy(t[1], c) = b
  BY <1>1, <1>2, <1>3 DEF Puts
<1>7. ASSUME NEW c \in 0 .. Space - 1, NEW b \in Nat
      PROVE  Puts(t, c, b) <=> IsByteOf(c, b, a, v)
  <2>1. CASE Len(v) = 1
    <3>1. IsByteOf(c, b, a, v) <=> (a + 1 - 1) % Space = c /\ v[1] = b
      BY <2>1 DEF IsByteOf
    <3>2. a + 1 - 1 = a
      OBVIOUS
    <3>3. Puts(t, c, b) <=> c = d /\ v[1] = b
      BY <1>1, <1>6, <1>7, <2>1 DEF SelectedBy, LaneBy
    <3> QED
      BY <3>1, <3>2, <3>3 DEF d
  <2>2. CASE Len(v) = 2
    <3>1. /\ d + 1 \in 0 .. Space - 1 /\ WordAt(d) = {d, d + 1}
      BY <1>4, <2>2, EvenWord
    <3>2. (a + 1) % Space = d + 1
      <4>1. 1 \in 0 .. Space - 1
        BY <1>4, <3>1
      <4>2. (a + 1) % Space = IF (a % Space) + 1 < Space THEN (a % Space) + 1 ELSE (a % Space) + 1 - Space
        BY <4>1, WrappedOn
      <4> QED
        BY <1>4, <3>1, <4>2 DEF d
    <3>3. IsByteOf(c, b, a, v) <=>
            \/ (a + 1 - 1) % Space = c /\ v[1] = b
            \/ (a + 2 - 1) % Space = c /\ v[2] = b
      <4>1. \A i : i \in 1 .. Len(v) <=> i = 1 \/ i = 2
        BY <2>2
      <4> HIDE DEF d
      <4> QED
        BY <4>1 DEF IsByteOf
    <3>4. a + 1 - 1 = a /\ a + 2 - 1 = a + 1
      OBVIOUS
    <3>5. Puts(t, c, b) <=> (c = d /\ v[1] = b) \/ (c = d + 1 /\ v[2] = b)
      <4>1. t[1].addr = d /\ t[1].data = v /\ Len(v) # 1
        BY <1>1, <2>2
      <4>2. SelectedBy(t[1]) = {d, d + 1} /\ LaneBy(t[1], c) = v[c - d + 1]
        BY <3>1, <4>1 DEF SelectedBy, LaneBy
      <4>3. Puts(t, c, b) <=> c \in {d, d + 1} /\ v[c - d + 1] = b
        BY <1>6, <4>2
      <4>4. c = d => c - d + 1 = 1 /\ c # d + 1
        BY <1>4
      <4>5. c = d + 1 => c - d + 1 = 2
        BY <1>4
      <4> QED
        BY <4>3, <4>4, <4>5
    <3> QED
      BY <3>2, <3>3, <3>4, <3>5 DEF d
  <2> QED
    BY <2>1, <2>2
<1>8. Len(v) = 2 => d = (a + 0) % Space /\ (a + 0) % 2 = 0 /\ 0 \in 0 .. Len(v) - 2
  BY DEF d
<1>9. \A i \in 1 .. Len(t) : t[i].op = "write" => i = 1
  BY <1>1, <1>2
<1>10. \A i \in 1 .. Len(t) : t[i].op \notin {"check", "read"}
  BY <1>1, <1>2
<1>11. Cuts(t, a, v)
  BY <1>1, <1>7, <1>8, <1>9, <1>10 DEF Cuts
<1> QED
  BY <1>11 DEF t

\* The bytes of two values, one after the other.
LEMMA BytesJoin ==
  ASSUME BusAssumption, NEW a \in Nat, NEW v \in Bytes, NEW w \in Bytes, NEW c, NEW b
  PROVE  IsByteOf(c, b, a, v \o w) <=> IsByteOf(c, b, a, v) \/ IsByteOf(c, b, a + Len(v), w)
<1>1. /\ Len(v \o w) = Len(v) + Len(w) /\ Len(v) \in Nat /\ Len(w) \in Nat
      /\ \A i \in 1 .. Len(v) + Len(w) : (v \o w)[i] = IF i <= Len(v) THEN v[i] ELSE w[i - Len(v)]
  BY ConcatProperties DEF Bytes
<1>2. ASSUME IsByteOf(c, b, a, v \o w)
      PROVE  IsByteOf(c, b, a, v) \/ IsByteOf(c, b, a + Len(v), w)
  <2>1. PICK i \in 1 .. Len(v) + Len(w) : (a + i - 1) % Space = c /\ (v \o w)[i] = b
    BY <1>1, <1>2 DEF IsByteOf
  <2>2. CASE i <= Len(v)
    <3>1. i \in 1 .. Len(v) /\ v[i] = b
      BY <1>1, <2>1, <2>2
    <3> QED
      BY <2>1, <3>1 DEF IsByteOf
  <2>3. CASE i > Len(v)
    <3>1. i - Len(v) \in 1 .. Len(w) /\ w[i - Len(v)] = b /\ a + Len(v) + (i - Len(v)) - 1 = a + i - 1
      BY <1>1, <2>1, <2>3
    <3> QED
      BY <2>1, <3>1 DEF IsByteOf
  <2> QED
    BY <1>1, <2>2, <2>3
<1>3. ASSUME IsByteOf(c, b, a, v) PROVE IsByteOf(c, b, a, v \o w)
  <2>1. PICK i \in 1 .. Len(v) : (a + i - 1) % Space = c /\ v[i] = b
    BY <1>3 DEF IsByteOf
  <2>2. i \in 1 .. Len(v \o w) /\ (v \o w)[i] = b
    BY <1>1, <2>1
  <2> QED
    BY <2>1, <2>2 DEF IsByteOf
<1>4. ASSUME IsByteOf(c, b, a + Len(v), w) PROVE IsByteOf(c, b, a, v \o w)
  <2>1. PICK i \in 1 .. Len(w) : (a + Len(v) + i - 1) % Space = c /\ w[i] = b
    BY <1>4 DEF IsByteOf
  <2>2. i + Len(v) \in 1 .. Len(v \o w) /\ (v \o w)[i + Len(v)] = b
        /\ a + (i + Len(v)) - 1 = a + Len(v) + i - 1
    BY <1>1, <2>1
  <2> QED
    BY <2>1, <2>2 DEF IsByteOf
<1> QED
  BY <1>2, <1>3, <1>4

LEMMA PutsJoin ==
  ASSUME NEW t \in Seq(StepType), NEW u \in Seq(StepType), NEW c, NEW b
  PROVE  Puts(t \o u, c, b) <=> Puts(t, c, b) \/ Puts(u, c, b)
<1>1. /\ Len(t \o u) = Len(t) + Len(u) /\ Len(t) \in Nat /\ Len(u) \in Nat
      /\ \A i \in 1 .. Len(t) + Len(u) : (t \o u)[i] = IF i <= Len(t) THEN t[i] ELSE u[i - Len(t)]
  BY ConcatProperties
<1>2. \A i \in 1 .. Len(t) + Len(u) :
        \/ i \in 1 .. Len(t) /\ (t \o u)[i] = t[i]
        \/ i - Len(t) \in 1 .. Len(u) /\ (t \o u)[i] = u[i - Len(t)]
  BY <1>1
<1>3. \A i \in 1 .. Len(t) : i \in 1 .. Len(t \o u) /\ (t \o u)[i] = t[i]
  BY <1>1
<1>4. \A i \in 1 .. Len(u) : i + Len(t) \in 1 .. Len(t \o u) /\ (t \o u)[i + Len(t)] = u[i]
  BY <1>1
<1> QED
  BY <1>1, <1>2, <1>3, <1>4 DEF Puts

LEMMA CutJoin ==
  ASSUME BusAssumption, NEW a \in Nat, NEW v \in Bytes, NEW w \in Bytes,
         NEW t, Cuts(t, a, v), NEW u, Cuts(u, a + Len(v), w)
  PROVE  Cuts(t \o u, a, v \o w)
<1>1. t \in Seq(StepType) /\ u \in Seq(StepType) /\ Len(v) \in Nat /\ Len(w) \in Nat
  BY DEF Cuts, Whole, Chain, Bytes
<1> DEFINE s == t \o u
<1>2. /\ Len(s) = Len(t) + Len(u) /\ Len(t) \in Nat /\ Len(u) \in Nat /\ Len(v \o w) = Len(v) + Len(w)
      /\ \A i \in 1 .. Len(s) :
           \/ i \in 1 .. Len(t) /\ s[i] = t[i]
           \/ i - Len(t) \in 1 .. Len(u) /\ s[i] = u[i - Len(t)]
  BY <1>1, ConcatProperties DEF Bytes
<1>3. Whole(s)
  BY WholeJoin DEF Cuts
<1>4. s # <<>>
  <2>1. Len(t) # 0
    BY <1>1 DEF Cuts
  <2> QED
    BY <1>2, <2>1
<1>5. ASSUME NEW c \in 0 .. Space - 1, NEW b \in Nat
      PROVE  Puts(s, c, b) <=> IsByteOf(c, b, a, v \o w)
  BY <1>1, PutsJoin, BytesJoin DEF Cuts
<1> HIDE DEF s
<1>6. ASSUME NEW i \in 1 .. Len(s) PROVE s[i].op \notin {"check", "read"}
  BY <1>2 DEF Cuts
<1>7. ASSUME NEW i \in 1 .. Len(s), s[i].op = "write", Len(s[i].data) = 2
      PROVE  \E k \in 0 .. Len(v \o w) - 2 : s[i].addr = (a + k) % Space /\ (a + k) % 2 = 0
  <2>1. CASE i \in 1 .. Len(t) /\ s[i] = t[i]
    <3>1. PICK k \in 0 .. Len(v) - 2 : s[i].addr = (a + k) % Space /\ (a + k) % 2 = 0
      BY <1>7, <2>1 DEF Cuts
    <3>2. k \in 0 .. Len(v \o w) - 2
      BY <1>1, <1>2, <3>1
    <3> QED
      BY <3>1, <3>2
  <2>2. CASE i - Len(t) \in 1 .. Len(u) /\ s[i] = u[i - Len(t)]
    <3>1. PICK k \in 0 .. Len(w) - 2 : s[i].addr = (a + Len(v) + k) % Space /\ (a + Len(v) + k) % 2 = 0
      BY <1>7, <2>2 DEF Cuts
    <3>2. Len(v) + k \in 0 .. Len(v \o w) - 2 /\ a + (Len(v) + k) = a + Len(v) + k
      BY <1>1, <1>2, <3>1
    <3> QED
      BY <3>1, <3>2
  <2> QED
    BY <1>2, <2>1, <2>2
<1>8. Cuts(s, a, v \o w)
  BY <1>3, <1>4, <1>5, <1>6, <1>7 DEF Cuts
<1> QED
  BY <1>8 DEF s
\* The parts of a value.
LEMMA PartOf ==
  ASSUME NEW v \in Bytes, NEW m \in 1 .. Len(v), NEW n \in m .. Len(v)
  PROVE  /\ SubSeq(v, m, n) \in Bytes /\ Len(SubSeq(v, m, n)) = n - m + 1
         /\ \A i \in 1 .. n - m + 1 : SubSeq(v, m, n)[i] = v[m + i - 1]
<1>1. \A i \in m .. n : v[i] \in Nat
  BY DEF Bytes
<1> QED
  BY <1>1, SubSeqProperties DEF Bytes

LEMMA OneByte ==
  ASSUME NEW v \in Bytes, NEW i \in 1 .. Len(v)
  PROVE  /\ v[i] \in Nat
         /\ <<v[i]>> \in Bytes /\ Len(<<v[i]>>) = 1 /\ <<v[i]>>[1] = v[i]
<1>1. v[i] \in Nat
  BY ElementOfSeq DEF Bytes
<1> QED
  BY <1>1 DEF Bytes

LEMMA Joined ==
  ASSUME NEW p \in Bytes, NEW q \in Bytes
  PROVE  /\ p \o q \in Bytes /\ Len(p \o q) = Len(p) + Len(q) /\ Len(p) \in Nat /\ Len(q) \in Nat
         /\ \A i \in 1 .. Len(p) : (p \o q)[i] = p[i]
         /\ \A i \in 1 .. Len(q) : (p \o q)[Len(p) + i] = q[i]
<1>1. p \in Seq(Nat) /\ q \in Seq(Nat)
  BY DEF Bytes
<1>2. /\ p \o q \in Seq(Nat) /\ Len(p \o q) = Len(p) + Len(q) /\ Len(p) \in Nat /\ Len(q) \in Nat
      /\ \A i \in 1 .. Len(p) + Len(q) : (p \o q)[i] = IF i <= Len(p) THEN p[i] ELSE q[i - Len(p)]
  BY <1>1, ConcatProperties
<1> QED
  BY <1>2 DEF Bytes

LEMMA SameBytes ==
  ASSUME NEW p \in Bytes, NEW q \in Bytes, NEW v \in Bytes, Len(v) = Len(p) + Len(q),
         \A i \in 1 .. Len(p) : v[i] = p[i],
         \A i \in 1 .. Len(q) : v[Len(p) + i] = q[i]
  PROVE  v = p \o q
<1> DEFINE s == p \o q
<1>1. s \in Bytes /\ Len(s) = Len(p) + Len(q) /\ Len(p) \in Nat /\ Len(q) \in Nat
  BY Joined
<1>2. \A i \in 1 .. Len(p) : s[i] = p[i]
  BY Joined
<1>3. \A i \in 1 .. Len(q) : s[Len(p) + i] = q[i]
  BY Joined
<1> HIDE DEF s
<1>4. ASSUME NEW i \in 1 .. Len(v) PROVE s[i] = v[i]
  <2>1. CASE i <= Len(p)
    BY <1>1, <1>2, <2>1
  <2>2. CASE i > Len(p)
    <3>1. PICK j \in 1 .. Len(q) : i = Len(p) + j
      <4>1. i - Len(p) \in 1 .. Len(q) /\ i = Len(p) + (i - Len(p))
        BY <1>1, <2>2
      <4> QED
        BY <4>1
    <3> QED
      BY <1>3, <3>1
  <2> QED
    BY <1>1, <2>1, <2>2
<1>5. s = v
  BY <1>1, <1>4, SeqEqual DEF Bytes
<1> QED
  BY <1>5 DEF s

\* The two and the three parts of a value that is cut.
LEMMA TwoParts ==
  ASSUME NEW p \in Bytes, NEW q \in Bytes, NEW v \in Bytes, Len(p) = 1, Len(q) = 1, Len(v) = 2,
         p[1] = v[1], q[1] = v[2]
  PROVE  v = p \o q
<1>1. \A i \in 1 .. 1 : i = 1
  OBVIOUS
<1>2. \A i \in 1 .. Len(p) : v[i] = p[i]
  BY <1>1
<1>3. \A i \in 1 .. Len(q) : v[Len(p) + i] = q[i]
  BY <1>1
<1>4. Len(v) = Len(p) + Len(q)
  OBVIOUS
<1> QED
  BY <1>2, <1>3, <1>4, SameBytes, Zenon

LEMMA ThreeParts ==
  ASSUME NEW p \in Bytes, NEW q \in Bytes, NEW r \in Bytes, NEW v \in Bytes,
         Len(p) = 1, Len(q) = 2, Len(r) = 1, Len(v) = 4,
         p[1] = v[1], q[1] = v[2], q[2] = v[3], r[1] = v[4]
  PROVE  p \o q \in Bytes /\ Len(p \o q) = 3 /\ v = (p \o q) \o r
<1> DEFINE s == p \o q
<1>1. s \in Bytes /\ Len(s) = Len(p) + Len(q)
  BY Joined
<1>2. \A i \in 1 .. Len(p) : s[i] = p[i]
  BY Joined
<1>3. \A i \in 1 .. Len(q) : s[Len(p) + i] = q[i]
  BY Joined
<1> HIDE DEF s
<1>4. Len(s) = 3 /\ s[1] = p[1] /\ s[2] = q[1] /\ s[3] = q[2]
  <2>1. s[1 + 1] = q[1] /\ s[1 + 2] = q[2]
    BY <1>3
  <2> QED
    BY <1>1, <1>2, <2>1
<1>5. \A i \in 1 .. 3 : i = 1 \/ i = 2 \/ i = 3
  OBVIOUS
<1>6. \A i \in 1 .. Len(s) : v[i] = s[i]
  BY <1>4, <1>5
<1>7. \A i \in 1 .. Len(r) : v[Len(s) + i] = r[i]
  <2>1. \A i \in 1 .. 1 : i = 1
    OBVIOUS
  <2> QED
    BY <1>4, <2>1
<1>8. Len(v) = Len(s) + Len(r)
  BY <1>4
<1>9. v = s \o r
  BY <1>1, <1>6, <1>7, <1>8, SameBytes, Zenon
<1> QED
  BY <1>1, <1>4, <1>9 DEF s

LEMMA Write16Cuts ==
  ASSUME BusAssumption, NEW a \in Nat, NEW v \in Bytes, Len(v) = 2
  PROVE  Cuts(Write16(a, v), a, v)
<1>1. CASE a % 2 = 1
  <2> DEFINE p == <<v[1]>>
             q == <<v[2]>>
  <2>1. p \in Bytes /\ q \in Bytes /\ Len(p) = 1 /\ Len(q) = 1 /\ p[1] = v[1] /\ q[1] = v[2]
    BY OneByte
  <2>2. Write16(a, v) = Cycle(a, p) \o Cycle(a + 1, q)
    BY <1>1 DEF Write16, Write8
  <2> HIDE DEF p, q
  <2>3. Cuts(Cycle(a, p), a, p) /\ Cuts(Cycle(a + 1, q), a + 1, q)
    BY <2>1, CutCycle
  <2>4. Cuts(Write16(a, v), a, p \o q)
    BY <2>1, <2>2, <2>3, CutJoin
  <2>5. v = p \o q
    BY <2>1, TwoParts
  <2> QED
    BY <2>4, <2>5
<1>2. CASE a % 2 # 1
  <2>1. a % 2 = 0
    BY <1>2
  <2>2. Cuts(Cycle(a, v), a, v)
    BY <2>1, CutCycle
  <2>3. Write16(a, v) = Cycle(a, v)
    BY <1>2 DEF Write16
  <2> QED
    BY <2>2, <2>3
<1> QED
  BY <1>1, <1>2

LEMMA Write32Cuts ==
  ASSUME BusAssumption, NEW a \in Nat, NEW v \in Bytes, Len(v) = 4
  PROVE  Cuts(Write32(a, v), a, v)
<1>1. 1 \in 1 .. Len(v) /\ 2 \in 1 .. Len(v) /\ 3 \in 2 .. Len(v) /\ 4 \in 1 .. Len(v)
  OBVIOUS
<1>2. CASE a % 2 = 1
  <2> DEFINE p == <<v[1]>>
             q == SubSeq(v, 2, 3)
             r == <<v[4]>>
  <2>1. /\ p \in Bytes /\ q \in Bytes /\ r \in Bytes /\ Len(p) = 1 /\ Len(q) = 2 /\ Len(r) = 1
        /\ q[1] = v[2] /\ q[2] = v[3] /\ p[1] = v[1] /\ r[1] = v[4]
    <3>1. /\ q \in Bytes /\ Len(q) = 3 - 2 + 1
          /\ \A i \in 1 .. 3 - 2 + 1 : q[i] = v[2 + i - 1]
      BY <1>1, PartOf
    <3>2. Len(q) = 2 /\ q[1] = v[2] /\ q[2] = v[3]
      <4> HIDE DEF q
      <4> QED
        BY <3>1
    <3> QED
      BY <1>1, <3>1, <3>2, OneByte
  <2>2. Write32(a, v) = (Cycle(a, p) \o Write16(a + 1, q)) \o Cycle(a + 3, r)
    BY <1>2 DEF Write32, Write8
  <2> HIDE DEF p, q, r
  <2>3. /\ Cuts(Cycle(a, p), a, p) /\ Cuts(Write16(a + 1, q), a + 1, q)
        /\ Cuts(Cycle(a + 3, r), a + 3, r)
    BY <2>1, CutCycle, Write16Cuts
  <2>4. p \o q \in Bytes /\ Len(p \o q) = 3 /\ v = (p \o q) \o r
    BY <2>1, ThreeParts
  <2>5. Cuts(Cycle(a, p) \o Write16(a + 1, q), a, p \o q)
    BY <2>1, <2>3, CutJoin
  <2>6. Cuts(Write32(a, v), a, (p \o q) \o r)
    BY <2>1, <2>2, <2>3, <2>4, <2>5, CutJoin
  <2> QED
    BY <2>4, <2>6
<1>3. CASE a % 2 # 1
  <2> DEFINE p == SubSeq(v, 1, 2)
             q == SubSeq(v, 3, 4)
  <2>1. p \in Bytes /\ q \in Bytes /\ Len(p) = 2 /\ Len(q) = 2
    BY PartOf
  <2>2. p \o q = v
    BY ConcatAdjacentSubSeq, SubSeqFull DEF Bytes
  <2>3. Write32(a, v) = Write16(a, p) \o Write16(a + 2, q)
    BY <1>3 DEF Write32
  <2> HIDE DEF p, q
  <2>4. Cuts(Write16(a, p), a, p) /\ Cuts(Write16(a + 2, q), a + 2, q)
    BY <2>1, Write16Cuts
  <2> QED
    BY <2>1, <2>2, <2>3, <2>4, CutJoin
<1> QED
  BY <1>2, <1>3
-----------------------------------------------------------------------------
(* What a store is cut into. *)

TouchesBlitter(x) ==
  x.op = "write" /\ Len(x.data) = 2 /\ \E c \in Blitter : c \in WordAt(x.addr)

\* The check at j is the last one before i, and it looked at the blitter.
IsCheck(x) == x.op = "check" /\ Touches(x.addr, Len(x.data))
CheckedAt(t, i, j) == IsCheck(t[j]) /\ \A k \in j + 1 .. i - 1 : t[k].op # "check"

\* ps_write_16 and ps_write_32 wait for the blitter before their word cycles.
Guarded(t) ==
  \A i \in 1 .. Len(t) : TouchesBlitter(t[i]) => \E j \in 1 .. i - 1 : CheckedAt(t, i, j)

\* The steps of t store v at a.
Stores(t, a, v) ==
  /\ Whole(t) /\ t # <<>>
  /\ \A i \in 1 .. Len(t) : t[i].op # "read"
  /\ \A c \in 0 .. Space - 1, b \in Nat : Puts(t, c, b) <=> IsByteOf(c, b, a, v)
  /\ Guarded(t)

\* A byte is written without a check: it has no word cycle.
LEMMA ByteStores ==
  ASSUME BusAssumption, NEW a \in Nat, NEW v \in Bytes, Len(v) = 1
  PROVE  Stores(Write8(a, v), a, v)
<1>1. Cuts(Write8(a, v), a, v)
  BY CutCycle DEF Write8
<1> DEFINE t == Write8(a, v)
<1>2. Cuts(t, a, v)
  BY <1>1
<1> HIDE DEF t
<1>3. \A i \in 1 .. Len(t) : ~TouchesBlitter(t[i])
  BY <1>2 DEF Cuts, TouchesBlitter
<1>4. Stores(t, a, v)
  BY <1>2, <1>3 DEF Cuts, Stores, Guarded
<1> QED
  BY <1>4 DEF t

\* The check of a word or of a long.
LEMMA CheckWhole ==
  ASSUME BusAssumption, NEW a \in Nat, NEW n \in {2, 4}
  PROVE  /\ Whole(Check(a, n)) /\ Len(Check(a, n)) = 1 /\ Check(a, n) \in Seq(StepType)
         /\ Check(a, n)[1].op = "check" /\ Check(a, n)[1].addr = a % Space
         /\ Len(Check(a, n)[1].data) = n
<1> DEFINE d == [i \in 1 .. n |-> 0]
           x == [op |-> "check", addr |-> a % Space, data |-> d]
           t == Check(a, n)
<1>1. d \in Bytes /\ Len(d) = n
  BY DEF Bytes
<1>2. t = <<x>>
  BY DEF Check, Step
<1> HIDE DEF d
<1>3. x \in StepType
  BY <1>1, Wrapped DEF StepType
<1> HIDE DEF t
<1>4. t \in Seq(StepType) /\ Len(t) = 1 /\ t[1] = x
  BY <1>2, <1>3
<1>5. Whole(t)
  BY <1>4 DEF Whole, Chain
<1> QED
  BY <1>1, <1>4, <1>5 DEF t
\* A word or a long: its check, and its cycles.
LEMMA CheckedStores ==
  ASSUME BusAssumption, NEW a \in Nat, NEW v \in Bytes, Len(v) \in {2, 4}, NEW u, Cuts(u, a, v)
  PROVE  Stores(Check(a, Len(v)) \o u, a, v)
<1> DEFINE n == Len(v)
           h == Check(a, n)
           t == h \o u
<1>1. /\ Whole(h) /\ Len(h) = 1 /\ h \in Seq(StepType)
      /\ h[1].op = "check" /\ h[1].addr = a % Space /\ Len(h[1].data) = n
  BY CheckWhole
<1>2. u \in Seq(StepType) /\ Whole(u)
  BY DEF Cuts, Whole, Chain
<1> HIDE DEF h
<1>3. Whole(t)
  BY <1>1, <1>2, WholeJoin
<1>4. /\ Len(t) = 1 + Len(u) /\ Len(u) \in Nat /\ t[1] = h[1]
      /\ \A i \in 2 .. Len(t) : t[i] = u[i - 1] /\ i - 1 \in 1 .. Len(u)
  <2>1. /\ Len(t) = Len(h) + Len(u)
        /\ \A i \in 1 .. Len(h) + Len(u) : t[i] = IF i <= Len(h) THEN h[i] ELSE u[i - Len(h)]
    <3>1. h \in Seq(StepType) /\ u \in Seq(StepType)
      BY <1>1, <1>2
    <3> QED
      BY <3>1, ConcatProperties, Zenon
  <2>2. Len(u) \in Nat
    BY <1>2
  <2> HIDE DEF t
  <2> QED
    BY <1>1, <2>1, <2>2
<1>5. ASSUME NEW c \in 0 .. Space - 1, NEW b \in Nat
      PROVE  Puts(t, c, b) <=> IsByteOf(c, b, a, v)
  <2>1. Puts(t, c, b) <=> Puts(h, c, b) \/ Puts(u, c, b)
    BY <1>1, <1>2, PutsJoin
  <2>2. ~Puts(h, c, b)
    BY <1>1 DEF Puts
  <2> QED
    BY <2>1, <2>2 DEF Cuts
<1> HIDE DEF t
<1>6. \A i \in 1 .. Len(t) : i = 1 \/ i \in 2 .. Len(t)
  BY <1>4
<1>7. t # <<>>
  BY <1>4
<1>8. ASSUME NEW i \in 1 .. Len(t), i # 1
      PROVE  t[i].op \notin {"check", "read"}
  BY <1>4, <1>6, <1>8 DEF Cuts
<1>9. \A i \in 1 .. Len(t) : t[i].op # "read"
  BY <1>1, <1>4, <1>6, <1>8
<1>10. ASSUME NEW i \in 1 .. Len(t), TouchesBlitter(t[i])
       PROVE  CheckedAt(t, i, 1) /\ i # 1
  <2>1. i \in 2 .. Len(t) /\ t[i] = u[i - 1] /\ i - 1 \in 1 .. Len(u)
    BY <1>1, <1>4, <1>6, <1>10 DEF TouchesBlitter
  <2>2. PICK k \in 0 .. n - 2 : t[i].addr = (a + k) % Space /\ (a + k) % 2 = 0
    BY <1>10, <2>1 DEF Cuts, TouchesBlitter
  <2> DEFINE d == a % Space
             e == t[i].addr
  <2>3. PICK c \in Blitter : c \in WordAt(e)
    BY <1>10 DEF TouchesBlitter
  <2>4. a + k \in Nat /\ n \in {2, 4} /\ k \in 0 .. n - 2
    BY <2>2
  <2>5. Space \in Nat /\ Space % 2 = 0 /\ c \in 2 .. Space - 1
    BY <2>3 DEF BusAssumption
  <2>6. d \in 0 .. Space - 1 /\ e \in 0 .. Space - 1 /\ e % 2 = 0
    BY <2>2, <2>4, Wrapped
  <2>7. d <= c /\ c < d + n
    <3>1. c = e \/ c = e + 1
      BY <2>3, <2>6, EvenWord
    <3>2. k \in 0 .. Space - 1
      <4>1. k \in 0 .. 2
        <5> HIDE DEF n
        <5> QED
          BY <2>4
      <4>2. Space \in Nat /\ Space >= 3
        BY <2>5
      <4> QED
        BY <4>1, <4>2
    <3>3. e = IF d + k < Space THEN d + k ELSE d + k - Space
      BY <2>2, <3>2, WrappedOn
    <3> HIDE DEF d, e, n
    <3> QED
      BY <2>4, <2>5, <2>6, <3>1, <3>3
  <2>8. IsCheck(t[1])
    BY <1>1, <1>4, <2>7 DEF IsCheck, Touches, d
  <2>9. \A k1 \in 1 + 1 .. i - 1 : k1 \in 1 .. Len(t) /\ k1 # 1
    OBVIOUS
  <2> QED
    BY <1>8, <2>1, <2>8, <2>9 DEF CheckedAt
<1>11. Guarded(t)
  <2>1. ASSUME NEW i \in 1 .. Len(t), TouchesBlitter(t[i]) PROVE \E j \in 1 .. i - 1 : CheckedAt(t, i, j)
    <3>1. CheckedAt(t, i, 1) /\ 1 \in 1 .. i - 1
      BY <1>10, <2>1
    <3> QED
      BY <3>1
  <2> QED
    BY <2>1 DEF Guarded
<1>12. Stores(t, a, v)
  BY <1>3, <1>5, <1>7, <1>9, <1>11 DEF Stores
<1> QED
  BY <1>12 DEF t, h

\* Two stores in a row.
LEMMA StoresJoin ==
  ASSUME BusAssumption, NEW a \in Nat, NEW v \in Bytes, NEW w \in Bytes,
         NEW t, Stores(t, a, v), NEW u, Stores(u, a + Len(v), w)
  PROVE  Stores(t \o u, a, v \o w)
<1> DEFINE s == t \o u
<1>1. t \in Seq(StepType) /\ u \in Seq(StepType)
  BY DEF Stores, Whole, Chain
<1>2. /\ Len(s) = Len(t) + Len(u) /\ Len(t) \in Nat /\ Len(u) \in Nat
      /\ \A i \in 1 .. Len(t) : s[i] = t[i]
      /\ \A i \in 1 .. Len(u) : s[Len(t) + i] = u[i]
  BY <1>1, ConcatProperties
<1>3. Whole(s)
  BY WholeJoin DEF Stores
<1>4. ASSUME NEW c \in 0 .. Space - 1, NEW b \in Nat
      PROVE  Puts(s, c, b) <=> IsByteOf(c, b, a, v \o w)
  BY <1>1, PutsJoin, BytesJoin DEF Stores
<1> HIDE DEF s
<1>5. s # <<>>
  <2>1. Len(t) # 0
    BY <1>1 DEF Stores
  <2> QED
    BY <1>2, <2>1
<1>6. ASSUME NEW i \in 1 .. Len(s)
      PROVE  i \in 1 .. Len(t) \/ \E j \in 1 .. Len(u) : i = Len(t) + j
  <2>1. i \in 1 .. Len(t) \/ (i - Len(t) \in 1 .. Len(u) /\ i = Len(t) + (i - Len(t)))
    BY <1>2
  <2> QED
    BY <2>1
<1>7. \A i \in 1 .. Len(s) : s[i].op # "read"
  BY <1>2, <1>6 DEF Stores
<1>8. ASSUME NEW i \in 1 .. Len(s), TouchesBlitter(s[i])
      PROVE  \E j \in 1 .. i - 1 : CheckedAt(s, i, j)
  <2>1. CASE i \in 1 .. Len(t)
    <3>1. PICK j \in 1 .. i - 1 : CheckedAt(t, i, j)
      BY <1>2, <1>8, <2>1 DEF Stores, Guarded
    <3>2. j \in 1 .. Len(t) /\ \A k \in j + 1 .. i - 1 : k \in 1 .. Len(t)
      BY <1>2, <2>1
    <3>3. CheckedAt(s, i, j)
      BY <1>2, <3>1, <3>2 DEF CheckedAt
    <3> QED
      BY <3>3
  <2>2. ASSUME NEW m \in 1 .. Len(u), i = Len(t) + m
        PROVE  \E j \in 1 .. i - 1 : CheckedAt(s, i, j)
    <3>1. PICK j \in 1 .. m - 1 : CheckedAt(u, m, j)
      BY <1>2, <1>8, <2>2 DEF Stores, Guarded
    <3>2. j \in 1 .. Len(u) /\ Len(t) + j \in 1 .. i - 1
      BY <1>2, <2>2
    <3>3. ASSUME NEW k \in (Len(t) + j) + 1 .. i - 1 PROVE s[k].op # "check"
      <4>1. k - Len(t) \in j + 1 .. m - 1 /\ k - Len(t) \in 1 .. Len(u) /\ k = Len(t) + (k - Len(t))
        BY <1>2, <2>2, <3>2
      <4> QED
        BY <1>2, <3>1, <4>1 DEF CheckedAt
    <3>4. s[Len(t) + j] = u[j]
      BY <1>2, <3>2
    <3>5. CheckedAt(s, i, Len(t) + j)
      BY <3>1, <3>3, <3>4 DEF CheckedAt
    <3> QED
      BY <3>2, <3>5
  <2> QED
    BY <1>6, <2>1, <2>2
<1>9. Stores(s, a, v \o w)
  BY <1>3, <1>4, <1>5, <1>7, <1>8 DEF Stores, Guarded
<1> QED
  BY <1>9 DEF s
LEMMA LongStores ==
  ASSUME BusAssumption, NEW a \in Nat, NEW v \in Bytes, Len(v) = 4
  PROVE  Stores(Long(a, v), a, v)
<1>1. Cuts(Write32(a, v), a, v)
  BY Write32Cuts
<1>2. Stores(Check(a, Len(v)) \o Write32(a, v), a, v)
  BY <1>1, CheckedStores
<1> QED
  BY <1>2 DEF Long

\* The longs of a value of eight or sixteen bytes.
LEMMA QuarterOf ==
  ASSUME NEW v \in Bytes, NEW n \in 1 .. 4, 4 * n <= Len(v)
  PROVE  Quarter(v, n) \in Bytes /\ Len(Quarter(v, n)) = 4
<1>1. 4 * n - 3 \in 1 .. Len(v) /\ 4 * n \in 4 * n - 3 .. Len(v) /\ Len(v) \in Nat
  BY DEF Bytes
<1>2. /\ SubSeq(v, 4 * n - 3, 4 * n) \in Bytes
      /\ Len(SubSeq(v, 4 * n - 3, 4 * n)) = 4 * n - (4 * n - 3) + 1
  BY <1>1, PartOf
<1> QED
  BY <1>2 DEF Quarter

LEMMA WriteStores ==
  ASSUME BusAssumption, NEW a \in Nat, NEW v \in Bytes, Len(v) \in {1, 2, 4, 8, 16}
  PROVE  Stores(WriteSteps(a, v), a, v)
<1>1. CASE Len(v) = 1
  <2>1. WriteSteps(a, v) = Write8(a, v)
    BY <1>1 DEF WriteSteps
  <2> QED
    BY <1>1, <2>1, ByteStores
<1>2. CASE Len(v) = 2
  <2>1. WriteSteps(a, v) = Check(a, Len(v)) \o Write16(a, v)
    BY <1>2 DEF WriteSteps
  <2>2. Cuts(Write16(a, v), a, v)
    BY <1>2, Write16Cuts
  <2> QED
    BY <1>2, <2>1, <2>2, CheckedStores
<1>3. CASE Len(v) = 4
  <2>1. WriteSteps(a, v) = Long(a, v)
    BY <1>3 DEF WriteSteps
  <2> QED
    BY <1>3, <2>1, LongStores
<1>4. CASE Len(v) = 8
  <2> DEFINE p == Quarter(v, 1)
             q == Quarter(v, 2)
  <2>1. p \in Bytes /\ q \in Bytes /\ Len(p) = 4 /\ Len(q) = 4
    <3>1. 1 \in 1 .. 4 /\ 4 * 1 <= Len(v) /\ 2 \in 1 .. 4 /\ 4 * 2 <= Len(v)
      BY <1>4
    <3> QED
      BY <3>1, QuarterOf, Zenon
  <2>2. WriteSteps(a, v) = Long(a, p) \o Long(a + 4, q)
    BY <1>4 DEF WriteSteps
  <2>3. p \o q = v
    <3>1. SubSeq(v, 1, 4) \o SubSeq(v, 4 + 1, 8) = SubSeq(v, 1, 8)
      BY <1>4, ConcatAdjacentSubSeq DEF Bytes
    <3>2. SubSeq(v, 1, Len(v)) = v
      BY SubSeqFull DEF Bytes
    <3>3. p = SubSeq(v, 1, 4) /\ q = SubSeq(v, 5, 8)
      BY DEF Quarter
    <3> HIDE DEF p, q
    <3>4. p \o q = SubSeq(v, 1, 8)
      BY <3>1, <3>3
    <3> QED
      BY <1>4, <3>2, <3>4
  <2> HIDE DEF p, q
  <2>4. Stores(Long(a, p), a, p) /\ Stores(Long(a + Len(p), q), a + Len(p), q)
    BY <2>1, LongStores
  <2>5. Stores(Long(a, p) \o Long(a + Len(p), q), a, p \o q)
    BY <2>1, <2>4, StoresJoin
  <2> QED
    BY <2>1, <2>2, <2>3, <2>5
<1>5. CASE Len(v) = 16
  <2> DEFINE p == Quarter(v, 1)
             q == Quarter(v, 2)
             r == Quarter(v, 3)
             s == Quarter(v, 4)
  <2>1. p \in Bytes /\ q \in Bytes /\ Len(p) = 4 /\ Len(q) = 4
    <3>1. 1 \in 1 .. 4 /\ 4 * 1 <= Len(v) /\ 2 \in 1 .. 4 /\ 4 * 2 <= Len(v)
      BY <1>5
    <3> QED
      BY <3>1, QuarterOf, Zenon
  <2>2. r \in Bytes /\ s \in Bytes /\ Len(r) = 4 /\ Len(s) = 4
    <3>1. 3 \in 1 .. 4 /\ 4 * 3 <= Len(v) /\ 4 \in 1 .. 4 /\ 4 * 4 <= Len(v)
      BY <1>5
    <3> QED
      BY <3>1, QuarterOf, Zenon
  <2>3. WriteSteps(a, v) = ((Long(a, p) \o Long(a + 4, q)) \o Long(a + 8, r)) \o Long(a + 12, s)
    BY <1>5 DEF WriteSteps
  <2>4. /\ p \o q \in Bytes /\ Len(p \o q) = 8
        /\ (p \o q) \o r \in Bytes /\ Len((p \o q) \o r) = 12
        /\ ((p \o q) \o r) \o s = v
    <3>1. p = SubSeq(v, 1, 4) /\ q = SubSeq(v, 5, 8) /\ r = SubSeq(v, 9, 12) /\ s = SubSeq(v, 13, 16)
      BY DEF Quarter
    <3> HIDE DEF p, q, r, s
    <3>2. /\ SubSeq(v, 1, 4) \o SubSeq(v, 4 + 1, 8) = SubSeq(v, 1, 8)
          /\ SubSeq(v, 1, 8) \o SubSeq(v, 8 + 1, 12) = SubSeq(v, 1, 12)
          /\ SubSeq(v, 1, 12) \o SubSeq(v, 12 + 1, 16) = SubSeq(v, 1, 16)
      BY <1>5, ConcatAdjacentSubSeq DEF Bytes
    <3>3. SubSeq(v, 1, Len(v)) = v
      BY SubSeqFull DEF Bytes
    <3>4. /\ SubSeq(v, 1, 8) \in Bytes /\ Len(SubSeq(v, 1, 8)) = 8
          /\ SubSeq(v, 1, 12) \in Bytes /\ Len(SubSeq(v, 1, 12)) = 12
      <4>1. 1 \in 1 .. Len(v) /\ 8 \in 1 .. Len(v) /\ 12 \in 1 .. Len(v)
        BY <1>5
      <4>2. SubSeq(v, 1, 8) \in Bytes /\ Len(SubSeq(v, 1, 8)) = 8 - 1 + 1
        BY <4>1, PartOf
      <4>3. SubSeq(v, 1, 12) \in Bytes /\ Len(SubSeq(v, 1, 12)) = 12 - 1 + 1
        BY <4>1, PartOf
      <4> QED
        BY <4>2, <4>3
    <3>5. p \o q = SubSeq(v, 1, 8)
      BY <3>1, <3>2
    <3>6. (p \o q) \o r = SubSeq(v, 1, 12)
      BY <3>1, <3>2, <3>5
    <3>7. ((p \o q) \o r) \o s = v
      BY <1>5, <3>1, <3>2, <3>3, <3>6
    <3> QED
      BY <3>4, <3>5, <3>6, <3>7, Zenon
  <2> HIDE DEF p, q, r, s
  <2>5. Stores(Long(a, p), a, p) /\ Stores(Long(a + Len(p), q), a + Len(p), q)
    BY <2>1, LongStores
  <2>6. Stores(Long(a, p) \o Long(a + 4, q), a, p \o q)
    BY <2>1, <2>5, StoresJoin
  <2>7. Stores(Long(a + 8, r), a + 8, r) /\ Stores(Long(a + 12, s), a + 12, s)
    BY <2>2, LongStores
  <2>8. Stores((Long(a, p) \o Long(a + 4, q)) \o Long(a + 8, r), a, (p \o q) \o r)
    BY <2>2, <2>4, <2>6, <2>7, StoresJoin
  <2>9. Stores(((Long(a, p) \o Long(a + 4, q)) \o Long(a + 8, r)) \o Long(a + 12, s), a, ((p \o q) \o r) \o s)
    BY <2>2, <2>4, <2>7, <2>8, StoresJoin
  <2> QED
    BY <2>3, <2>4, <2>9
<1> QED
  BY <1>1, <1>2, <1>3, <1>4, <1>5
-----------------------------------------------------------------------------
(* What a load is cut into. *)

\* The cycles of t read the bytes from number f on up to number g of an access at
\* a; off tells with which byte a cycle begins.
Offsets(t, a, f, g, off) ==
  /\ off \in [1 .. Len(t) + 1 -> Nat]
  /\ off[1] = f /\ off[Len(t) + 1] = g
  /\ \A i \in 1 .. Len(t) : /\ t[i].op = "read" /\ t[i].addr = (a + off[i]) % Space
                            /\ off[i + 1] = off[i] + Len(t[i].data)

Reads(t, a, f, g) ==
  t \in Seq(StepType) /\ Whole(t) /\ t # <<>> /\ \E off : Offsets(t, a, f, g, off)

LEMMA ReadsCycle ==
  ASSUME BusAssumption, NEW a \in Nat, NEW k \in Nat, NEW d \in Bytes, Len(d) \in {1, 2},
         Len(d) = 2 => (a + k) % 2 = 0
  PROVE  Reads(<<Step("read", a + k, d)>>, a, k, k + Len(d))
<1> DEFINE x == [op |-> "read", addr |-> (a + k) % Space, data |-> d]
           t == <<Step("read", a + k, d)>>
           off == [i \in 1 .. Len(t) + 1 |-> IF i = 1 THEN k ELSE k + Len(d)]
<1>1. t = <<x>>
  BY DEF Step
<1>2. a + k \in Nat
  OBVIOUS
<1>3. x \in StepType
  BY <1>2, Wrapped DEF StepType
<1>4. t \in Seq(StepType) /\ Len(t) = 1 /\ t[1] = x
  BY <1>1, <1>3
<1>5. x.op = "read" /\ x.addr = (a + k) % Space /\ x.data = d
  OBVIOUS
<1> HIDE DEF t, x
<1>6. Whole(t) /\ t # <<>>
  <2>1. t # <<>>
    <3>1. Len(t) = 1
      BY <1>4
    <3> QED
      BY <3>1
  <2>2. t[1].op = "read" /\ t[Len(t)].op = "read" /\ \A i \in 1 .. Len(t) - 1 : FALSE
    BY <1>4, <1>5
  <2>3. Whole(t)
    BY <1>4, <2>2 DEF Whole, Chain
  <2> QED
    BY <2>1, <2>3
<1>7. off \in [1 .. Len(t) + 1 -> Nat] /\ off[1] = k /\ off[1 + 1] = k + Len(d)
  BY <1>4
<1> HIDE DEF off
<1>8. \A i \in 1 .. Len(t) : i = 1
  BY <1>4
<1>9. Offsets(t, a, k, k + Len(d), off)
  BY <1>4, <1>5, <1>7, <1>8 DEF Offsets
<1> QED
  BY <1>4, <1>6, <1>9 DEF Reads, t

LEMMA ReadsJoin ==
  ASSUME NEW a \in Nat, NEW f, NEW m, NEW g, NEW t, NEW u, Reads(t, a, f, m), Reads(u, a, m, g)
  PROVE  Reads(t \o u, a, f, g)
<1> DEFINE s == t \o u
<1>1. PICK p : Offsets(t, a, f, m, p)
  BY DEF Reads
<1>2. PICK q : Offsets(u, a, m, g, q)
  BY DEF Reads
<1>3. t \in Seq(StepType) /\ u \in Seq(StepType)
  BY DEF Reads
<1>4. /\ s \in Seq(StepType) /\ Len(s) = Len(t) + Len(u) /\ Len(t) \in Nat /\ Len(u) \in Nat
      /\ \A i \in 1 .. Len(t) : s[i] = t[i]
      /\ \A i \in 1 .. Len(s) : i > Len(t) => s[i] = u[i - Len(t)]
  BY <1>3, ConcatProperties
<1>5. Whole(s)
  BY WholeJoin DEF Reads
<1> HIDE DEF s
<1>6. s # <<>>
  <2>1. Len(t) # 0
    BY <1>3 DEF Reads
  <2> QED
    BY <1>4, <2>1
<1> DEFINE off == [i \in 1 .. Len(s) + 1 |-> IF i <= Len(t) + 1 THEN p[i] ELSE q[i - Len(t)]]
<1>7. /\ \A i \in 1 .. Len(t) + 1 : off[i] = p[i]
      /\ \A i \in 1 .. Len(s) + 1 : i > Len(t) + 1 => off[i] = q[i - Len(t)]
      /\ \A i \in 1 .. Len(s) + 1 : i > Len(t) => off[i] = q[i - Len(t)]
  <2>1. p[Len(t) + 1] = q[1]
    BY <1>1, <1>2 DEF Offsets
  <2>2. \A i \in 1 .. Len(t) + 1 : i \in 1 .. Len(s) + 1
    BY <1>4
  <2>3. \A i \in 1 .. Len(s) + 1 : i > Len(t) /\ ~(i > Len(t) + 1) => i = Len(t) + 1 /\ i - Len(t) = 1
    BY <1>4
  <2> QED
    BY <1>4, <2>1, <2>2, <2>3
<1>8. off \in [1 .. Len(s) + 1 -> Nat]
  <2>1. ASSUME NEW i \in 1 .. Len(s) + 1
        PROVE  (i <= Len(t) + 1 => p[i] \in Nat) /\ (i > Len(t) + 1 => q[i - Len(t)] \in Nat)
    <3>1. i <= Len(t) + 1 => i \in 1 .. Len(t) + 1
      BY <1>4
    <3>2. i > Len(t) + 1 => i - Len(t) \in 1 .. Len(u) + 1
      BY <1>4
    <3> QED
      BY <1>1, <1>2, <3>1, <3>2 DEF Offsets
  <2>2. \A i \in 1 .. Len(s) + 1 : i <= Len(t) + 1 \/ i > Len(t) + 1
    BY <1>4
  <2> QED
    BY <2>1, <2>2
<1> HIDE DEF off
<1>9. off[1] = f
  BY <1>1, <1>4, <1>7 DEF Offsets
<1>10. off[Len(s) + 1] = g
  <2>1. Len(s) + 1 \in 1 .. Len(s) + 1 /\ Len(s) + 1 > Len(t) /\ Len(s) + 1 - Len(t) = Len(u) + 1
    BY <1>4
  <2> QED
    BY <1>2, <1>7, <2>1 DEF Offsets
<1>11. ASSUME NEW i \in 1 .. Len(s)
       PROVE  /\ s[i].op = "read" /\ s[i].addr = (a + off[i]) % Space
              /\ off[i + 1] = off[i] + Len(s[i].data)
  <2>1. CASE i <= Len(t)
    <3>1. i \in 1 .. Len(t) /\ i \in 1 .. Len(t) + 1 /\ i + 1 \in 1 .. Len(t) + 1
      BY <1>4, <2>1
    <3>2. s[i] = t[i] /\ off[i] = p[i] /\ off[i + 1] = p[i + 1]
      BY <1>4, <1>7, <3>1
    <3> QED
      BY <1>1, <3>1, <3>2 DEF Offsets
  <2>2. CASE i > Len(t)
    <3>1. i - Len(t) \in 1 .. Len(u) /\ i \in 1 .. Len(s) + 1 /\ i + 1 \in 1 .. Len(s) + 1
          /\ i + 1 > Len(t) /\ i + 1 - Len(t) = (i - Len(t)) + 1
      BY <1>4, <2>2
    <3>2. s[i] = u[i - Len(t)] /\ off[i] = q[i - Len(t)] /\ off[i + 1] = q[(i - Len(t)) + 1]
      <4>1. off[i + 1] = q[i + 1 - Len(t)]
        BY <1>7, <3>1
      <4> QED
        BY <1>4, <1>7, <2>2, <3>1, <4>1
    <3> QED
      BY <1>2, <3>1, <3>2 DEF Offsets
  <2> QED
    BY <1>4, <2>1, <2>2
<1>12. Offsets(s, a, f, g, off)
  BY <1>8, <1>9, <1>10, <1>11 DEF Offsets
<1>13. Reads(s, a, f, g)
  BY <1>4, <1>5, <1>6, <1>12 DEF Reads
<1> QED
  BY <1>13 DEF s

LEMMA Read8Reads ==
  ASSUME BusAssumption, NEW a \in Nat, NEW k \in Nat
  PROVE  Reads(Read8(a + k), a, k, k + 1)
<1> DEFINE d == <<0>>
<1>1. d \in Bytes /\ Len(d) = 1
  BY DEF Bytes
<1>2. Read8(a + k) = <<Step("read", a + k, d)>>
  BY DEF Read8
<1> HIDE DEF d
<1>3. Len(d) \in {1, 2} /\ (Len(d) = 2 => (a + k) % 2 = 0)
  BY <1>1
<1>4. Reads(<<Step("read", a + k, d)>>, a, k, k + Len(d))
  BY <1>1, <1>3, ReadsCycle, Zenon
<1> QED
  BY <1>1, <1>2, <1>4

LEMMA Read16Reads ==
  ASSUME BusAssumption, NEW a \in Nat, NEW k \in Nat
  PROVE  Reads(Read16(a + k), a, k, k + 2)
<1>1. CASE (a + k) % 2 = 1
  <2>1. Read16(a + k) = Read8(a + k) \o Read8(a + (k + 1))
    BY <1>1 DEF Read16
  <2>2. Reads(Read8(a + k), a, k, k + 1)
    BY Read8Reads
  <2>3. k + 1 \in Nat
    OBVIOUS
  <2>4. Reads(Read8(a + (k + 1)), a, k + 1, (k + 1) + 1)
    BY <2>3, Read8Reads
  <2>5. Reads(Read16(a + k), a, k, (k + 1) + 1)
    BY <2>1, <2>2, <2>4, ReadsJoin
  <2> QED
    BY <2>5
<1>2. CASE (a + k) % 2 # 1
  <2> DEFINE d == <<0, 0>>
  <2>1. d \in Bytes /\ Len(d) = 2
    BY DEF Bytes
  <2>2. Read16(a + k) = <<Step("read", a + k, d)>>
    BY <1>2 DEF Read16
  <2>3. (a + k) % 2 = 0
    BY <1>2
  <2> HIDE DEF d
  <2> QED
    BY <2>1, <2>2, <2>3, ReadsCycle
<1> QED
  BY <1>1, <1>2
LEMMA Read32Reads ==
  ASSUME BusAssumption, NEW a \in Nat, NEW k \in Nat
  PROVE  Reads(Read32(a + k), a, k, k + 4)
<1>1. k + 1 \in Nat /\ k + 2 \in Nat /\ k + 3 \in Nat
  OBVIOUS
<1>2. CASE (a + k) % 2 = 1
  <2>1. Read32(a + k) = (Read8(a + k) \o Read16(a + (k + 1))) \o Read8(a + (k + 3))
    BY <1>2 DEF Read32
  <2>2. Reads(Read8(a + k), a, k, k + 1)
    BY Read8Reads
  <2>3. Reads(Read16(a + (k + 1)), a, k + 1, (k + 1) + 2)
    BY <1>1, Read16Reads
  <2>4. Reads(Read8(a + (k + 3)), a, k + 3, (k + 3) + 1)
    BY <1>1, Read8Reads
  <2>5. Reads(Read8(a + k) \o Read16(a + (k + 1)), a, k, k + 3)
    BY <2>2, <2>3, ReadsJoin
  <2>6. Reads((Read8(a + k) \o Read16(a + (k + 1))) \o Read8(a + (k + 3)), a, k, k + 4)
    <3>1. (k + 3) + 1 = k + 4 /\ (k + 1) + 2 = k + 3
      OBVIOUS
    <3> QED
      BY <2>4, <2>5, <3>1, ReadsJoin
  <2> QED
    BY <2>1, <2>6
<1>3. CASE (a + k) % 2 # 1
  <2>1. Read32(a + k) = Read16(a + k) \o Read16(a + (k + 2))
    BY <1>3 DEF Read32
  <2>2. Reads(Read16(a + k), a, k, k + 2)
    BY Read16Reads
  <2>3. Reads(Read16(a + (k + 2)), a, k + 2, (k + 2) + 2)
    BY <1>1, Read16Reads
  <2>4. Reads(Read16(a + k) \o Read16(a + (k + 2)), a, k, (k + 2) + 2)
    BY <2>2, <2>3, ReadsJoin
  <2>5. (k + 2) + 2 = k + 4
    OBVIOUS
  <2> QED
    BY <2>1, <2>4, <2>5
<1> QED
  BY <1>2, <1>3

LEMMA Read64Reads ==
  ASSUME BusAssumption, NEW a \in Nat, NEW k \in Nat
  PROVE  Reads(Read64(a + k), a, k, k + 8)
<1>1. Read64(a + k) = Read32(a + k) \o Read32(a + (k + 4))
  BY DEF Read64
<1>2. Reads(Read32(a + k), a, k, k + 4)
  BY Read32Reads
<1>3. k + 4 \in Nat
  OBVIOUS
<1>4. Reads(Read32(a + (k + 4)), a, k + 4, (k + 4) + 4)
  BY <1>3, Read32Reads
<1>5. Reads(Read32(a + k) \o Read32(a + (k + 4)), a, k, (k + 4) + 4)
  BY <1>2, <1>4, ReadsJoin
<1>6. (k + 4) + 4 = k + 8
  OBVIOUS
<1> QED
  BY <1>1, <1>5, <1>6

LEMMA AllReads ==
  ASSUME BusAssumption, NEW a \in Nat, NEW size \in {1, 2, 4, 8, 16}
  PROVE  Reads(ReadSteps(a, size), a, 0, size)
<1>1. a + 0 = a /\ 0 + 1 = 1 /\ 0 + 2 = 2 /\ 0 + 4 = 4 /\ 0 + 8 = 8
  OBVIOUS
<1>2. CASE size = 1
  <2>1. Reads(Read8(a + 0), a, 0, 0 + 1)
    BY Read8Reads
  <2> QED
    BY <1>1, <1>2, <2>1 DEF ReadSteps
<1>3. CASE size = 2
  <2>1. Reads(Read16(a + 0), a, 0, 0 + 2)
    BY Read16Reads
  <2> QED
    BY <1>1, <1>3, <2>1 DEF ReadSteps
<1>4. CASE size = 4
  <2>1. Reads(Read32(a + 0), a, 0, 0 + 4)
    BY Read32Reads
  <2> QED
    BY <1>1, <1>4, <2>1 DEF ReadSteps
<1>5. Reads(Read64(a), a, 0, 8)
  <2>1. Reads(Read64(a + 0), a, 0, 0 + 8)
    BY Read64Reads
  <2> QED
    BY <1>1, <2>1
<1>6. CASE size = 8
  BY <1>5, <1>6 DEF ReadSteps
<1>7. CASE size = 16
  <2>1. Reads(Read64(a + 8), a, 8, 8 + 8)
    BY Read64Reads
  <2>2. Reads(Read64(a) \o Read64(a + 8), a, 0, 8 + 8)
    BY <1>5, <2>1, ReadsJoin
  <2> QED
    BY <1>7, <2>2 DEF ReadSteps
<1> QED
  BY <1>2, <1>3, <1>4, <1>6, <1>7
-----------------------------------------------------------------------------
(* The invariant. *)

CaptureType == {x \in StepType : x.op = "capture" /\ x.addr \in Audio}

BusTypeInv ==
  /\ accesses \in 0 .. MaxAccesses /\ Chain(todo)
  /\ mem \in [Ram \union Audio -> Nat] /\ got \in Seq(Nat \union {Other})
  /\ latest \in [Audio -> Nat] /\ soft \in [Audio -> Nat] /\ events \in Seq(CaptureType)
  /\ cache = [p \in Pages |-> cache[p]]

\* What an event says of byte c of the register file.
Hits(e, c) == c \in WordAt(e.addr)
EventByte(e, c) == e.data[IF Len(e.data) = 1 THEN 1 ELSE (c % 2) + 1]

\* The shadow lags behind the Amiga by the write cycle that is to be captured.
Reported(c) == ~(todo # <<>> /\ Now.op = "capture" /\ Hits(Now, c))
ShadowFollows ==
  \A c \in Audio : mem[c] = IF Reported(c) THEN latest[c] ELSE EventByte(Now, c)

\* The software Paula lags behind the shadow by the events.
LastHit(i, c) == Hits(events[i], c) /\ \A j \in i + 1 .. Len(events) : ~Hits(events[j], c)
SoftFollows ==
  \A c \in Audio :
    \/ \E i \in 1 .. Len(events) : LastHit(i, c) /\ latest[c] = EventByte(events[i], c)
    \/ latest[c] = soft[c] /\ \A i \in 1 .. Len(events) : ~Hits(events[i], c)

\* A page lags behind Chip RAM by the write cycle that is to be invalidated.
Told(p) ==
  ~(todo # <<>> /\ Now.op \in {"capture", "invalidate"} /\ p \in Stale(Now.addr, Len(Now.data)))
CacheFollows ==
  \A p \in Pages : cache[p] # Missing /\ Told(p) => \A a \in PageOf(p) : cache[p][a] = mem[a]

CopyInv == BusTypeInv /\ ShadowFollows /\ SoftFollows /\ CacheFollows
\* What is left of an access when a step is done.
LEMMA TailChain ==
  ASSUME NEW t, Chain(t), t # <<>>
  PROVE  /\ Chain(Tail(t)) /\ Head(t) = t[1] /\ Head(t) \in StepType /\ Len(t) \in Nat \ {0}
         /\ Len(Tail(t)) = Len(t) - 1 /\ \A i \in 1 .. Len(t) - 1 : Tail(t)[i] = t[i + 1]
         /\ Tail(t) # <<>> => Follows(Head(t), Head(Tail(t)))
         /\ Tail(t) = <<>> => Head(t).op \notin {"write", "capture"}
<1> DEFINE u == Tail(t)
<1>1. t \in Seq(StepType) /\ Len(t) \in Nat /\ Len(t) # 0
  BY DEF Chain
<1>2. /\ u \in Seq(StepType) /\ Len(u) = Len(t) - 1 /\ Head(t) = t[1] /\ Head(t) \in StepType
      /\ \A i \in 1 .. Len(u) : u[i] = t[i + 1]
  BY <1>1, HeadTailProperties, ElementOfSeq
<1>3. u # <<>> => Head(u) = u[1] /\ 1 \in 1 .. Len(u)
  BY <1>2, HeadTailProperties
<1> HIDE DEF u
<1>4. u = <<>> => Len(t) = 1
  BY <1>1, <1>2
<1>5. ASSUME NEW i \in 1 .. Len(u) - 1 PROVE Follows(u[i], u[i + 1])
  <2>1. /\ i \in 1 .. Len(u) /\ i + 1 \in 1 .. Len(u) /\ i + 1 \in 1 .. Len(t) - 1
    BY <1>1, <1>2
  <2> QED
    BY <1>2, <2>1 DEF Chain
<1>6. ASSUME u # <<>> PROVE u[Len(u)].op \notin {"write", "capture"}
  <2>1. Len(u) \in 1 .. Len(u) /\ Len(u) + 1 = Len(t)
    BY <1>1, <1>2, <1>3, <1>6
  <2> QED
    BY <1>2, <2>1 DEF Chain
<1>7. Chain(u)
  BY <1>2, <1>5, <1>6 DEF Chain
<1>8. ASSUME u # <<>> PROVE Follows(Head(t), Head(u))
  <2>1. 1 \in 1 .. Len(t) - 1 /\ u[1] = t[1 + 1]
    BY <1>1, <1>2, <1>3, <1>8
  <2> QED
    BY <1>2, <1>3, <1>8, <2>1 DEF Chain
<1>9. u = <<>> => Head(t).op \notin {"write", "capture"}
  BY <1>2, <1>4 DEF Chain
<1>10. /\ Chain(u) /\ Head(t) = t[1] /\ Head(t) \in StepType /\ Len(t) \in Nat \ {0}
       /\ Len(u) = Len(t) - 1 /\ \A i \in 1 .. Len(t) - 1 : u[i] = t[i + 1]
       /\ u # <<>> => Follows(Head(t), Head(u))
       /\ u = <<>> => Head(t).op \notin {"write", "capture"}
  BY <1>1, <1>2, <1>7, <1>8, <1>9
<1> QED
  BY <1>10 DEF u

\* The access that begins.
LEMMA ValueBytes ==
  ASSUME NEW n \in Nat, NEW size \in Nat
  PROVE  ValueOf(n, size) \in Bytes /\ Len(ValueOf(n, size)) = size
<1>1. \A i \in 1 .. size : 16 * n + i - 1 \in Nat
  OBVIOUS
<1> QED
  BY <1>1 DEF ValueOf, Bytes

LEMMA StoreBegins ==
  ASSUME BusAssumption, BusTypeInv, StoreAccess
  PROVE  \E a \in Addresses, size \in Sizes :
           /\ Begin(WriteSteps(a, Value(size))) /\ Stores(todo', a, Value(size))
           /\ a \in Nat /\ Value(size) \in Bytes /\ Len(Value(size)) = size /\ size \in {1, 2, 4, 8, 16}
<1>1. PICK a \in Addresses, size \in Sizes : Begin(WriteSteps(a, Value(size)))
  BY DEF StoreAccess
<1>2. a \in Nat /\ size \in {1, 2, 4, 8, 16}
  BY DEF BusAssumption
<1>3. accesses + 1 \in Nat
  BY DEF BusTypeInv
<1>4. Value(size) \in Bytes /\ Len(Value(size)) = size
  BY <1>2, <1>3, ValueBytes DEF Value
<1>5. Stores(WriteSteps(a, Value(size)), a, Value(size))
  BY <1>2, <1>4, WriteStores
<1> QED
  BY <1>1, <1>2, <1>4, <1>5 DEF Begin

LEMMA LoadBegins ==
  ASSUME BusAssumption, LoadAccess
  PROVE  \E a \in Addresses, size \in Sizes :
           Begin(ReadSteps(a, size)) /\ Reads(todo', a, 0, size) /\ a \in Nat /\ size \in {1, 2, 4, 8, 16}
<1>1. PICK a \in Addresses, size \in Sizes : Begin(ReadSteps(a, size))
  BY DEF LoadAccess
<1>2. a \in Nat /\ size \in {1, 2, 4, 8, 16}
  BY DEF BusAssumption
<1>3. Reads(ReadSteps(a, size), a, 0, size)
  BY <1>2, AllReads
<1> QED
  BY <1>1, <1>2, <1>3 DEF Begin

LEMMA AccessBegins ==
  ASSUME BusAssumption, BusTypeInv, StoreAccess \/ LoadAccess
  PROVE  todo = <<>> /\ Whole(todo') /\ todo' # <<>> /\ accesses' = accesses + 1 /\ accesses < MaxAccesses
<1>1. CASE StoreAccess
  BY <1>1, StoreBegins DEF Stores, Begin
<1>2. CASE LoadAccess
  BY <1>2, LoadBegins DEF Reads, Begin
<1> QED
  BY <1>1, <1>2
-----------------------------------------------------------------------------
(* Types. *)

\* The bytes on the lanes are those of the event.
LEMMA Lanes ==
  ASSUME BusAssumption, NEW x \in StepType, x.op # "check"
  PROVE  /\ x.addr \in WordAt(x.addr) /\ SelectedBy(x) \subseteq WordAt(x.addr)
         /\ \A c \in WordAt(x.addr) :
              LaneBy(x, c) = EventByte(x, c) /\ EventByte(x, c) \in Nat
<1>1. x.addr \in 0 .. Space - 1 /\ x.data \in Seq(Nat) /\ Len(x.data) \in {1, 2}
      /\ (Len(x.data) = 2 => x.addr % 2 = 0)
  BY DEF StepType, Bytes
<1>2. x.addr \in WordAt(x.addr)
  BY <1>1 DEF WordAt
<1>3. SelectedBy(x) \subseteq WordAt(x.addr)
  BY <1>2 DEF SelectedBy
<1>4. ASSUME NEW c \in WordAt(x.addr)
      PROVE  LaneBy(x, c) = EventByte(x, c) /\ EventByte(x, c) \in Nat
  <2>1. CASE Len(x.data) = 1
    <3>1. x.data[1] \in Nat
      BY <1>1, <2>1
    <3> QED
      BY <2>1, <3>1 DEF LaneBy, EventByte
  <2>2. CASE Len(x.data) = 2
    <3>1. c - x.addr + 1 = (c % 2) + 1 /\ c \in Nat
      BY <1>1, <1>4, <2>2, EvenWord DEF WordAt
    <3>2. (c % 2) + 1 \in 1 .. Len(x.data)
      BY <2>2, <3>1
    <3>3. x.data[(c % 2) + 1] \in Nat
      BY <1>1, <3>2
    <3> QED
      BY <2>2, <3>1, <3>3 DEF LaneBy, EventByte
  <2> QED
    BY <1>1, <2>1, <2>2
<1> QED
  BY <1>2, <1>3, <1>4

LEMMA AudioWord ==
  ASSUME BusAssumption, NEW a \in 0 .. Space - 1, NEW c \in Audio, c \in WordAt(a)
  PROVE  a \in Audio
<1>1. a \in WordAt(c)
  BY DEF WordAt
<1> QED
  BY <1>1 DEF BusAssumption

\* The word an event stands for, byte by byte.
LEMMA EventWordBytes ==
  ASSUME NEW e, NEW file, NEW c \in Audio
  PROVE  EventWord(e, file)[c] = IF Hits(e, c) THEN EventByte(e, c) ELSE file[c]
BY DEF EventWord, Hits, EventByte

LEMMA EventWordType ==
  ASSUME BusAssumption, NEW e \in StepType, e.op # "check", NEW file \in [Audio -> Nat]
  PROVE  EventWord(e, file) \in [Audio -> Nat]
<1>1. \A c \in Audio : EventWord(e, file)[c] \in Nat
  BY Lanes, EventWordBytes DEF Hits
<1>2. EventWord(e, file) = [c \in Audio |-> EventWord(e, file)[c]]
  BY DEF EventWord
<1> QED
  BY <1>1, <1>2

\* The step that is done, and what is left.
LEMMA NextStepTodo ==
  ASSUME BusTypeInv, NextStep
  PROVE  /\ todo # <<>> /\ todo' = Tail(todo) /\ UNCHANGED <<accesses, before>>
         /\ Chain(todo') /\ Now \in StepType /\ Now = todo[1] /\ Len(todo) \in Nat \ {0}
         /\ Len(todo') = Len(todo) - 1 /\ \A i \in 1 .. Len(todo) - 1 : todo'[i] = todo[i + 1]
         /\ todo' # <<>> => Follows(Now, Now')
         /\ todo' = <<>> => Now.op \notin {"write", "capture"}
<1>1. todo # <<>> /\ todo' = Tail(todo) /\ UNCHANGED <<accesses, before>>
  BY DEF NextStep, CheckBlit, WriteCycle, Capture, Invalidate, ReadCycle, Does
<1>2. Chain(todo)
  BY DEF BusTypeInv
<1> QED
  BY <1>1, <1>2, TailChain DEF Now

LEMMA TypeInit ==
  ASSUME BusAssumption, BusInit
  PROVE  BusTypeInv
<1>1. todo = <<>> /\ todo \in Seq(StepType) /\ Len(todo) = 0
  BY DEF BusInit
<1>2. Chain(todo)
  BY <1>1 DEF Chain
<1>3. accesses \in 0 .. MaxAccesses
  BY DEF BusInit, BusAssumption
<1>4. mem \in [Ram \union Audio -> Nat]
  BY DEF BusInit, BusAssumption
<1>5. got \in Seq(Nat \union {Other}) /\ events \in Seq(CaptureType)
  BY DEF BusInit
<1>6. latest \in [Audio -> Nat] /\ soft \in [Audio -> Nat]
  BY DEF BusInit
<1>7. cache = [p \in Pages |-> cache[p]]
  BY DEF BusInit
<1> QED
  BY <1>2, <1>3, <1>4, <1>5, <1>6, <1>7 DEF BusTypeInv

LEMMA TypeStep ==
  ASSUME BusAssumption, BusTypeInv, [BusNext]_busVars
  PROVE  BusTypeInv'
<1>0. Space \in Nat /\ accesses \in 0 .. MaxAccesses /\ MaxAccesses \in Nat
  BY DEF BusAssumption, BusTypeInv
<1>1. CASE StoreAccess \/ LoadAccess
  <2>1. Chain(todo') /\ accesses' \in 0 .. MaxAccesses
    BY <1>0, <1>1, AccessBegins DEF Whole
  <2>2. got' \in Seq(Nat \union {Other})
    <3>1. got' = got \/ got' = <<>>
      BY <1>1 DEF StoreAccess, LoadAccess
    <3>2. got \in Seq(Nat \union {Other}) /\ <<>> \in Seq(Nat \union {Other})
      BY DEF BusTypeInv
    <3> QED
      BY <3>1, <3>2
  <2>3. UNCHANGED <<mem, events, latest, soft, cache>>
    BY <1>1 DEF StoreAccess, LoadAccess
  <2> QED
    BY <2>1, <2>2, <2>3 DEF BusTypeInv
<1>2. CASE CheckBlit
  <2>1. Chain(todo') /\ UNCHANGED <<accesses, mem, got, events, latest, soft, cache>>
    BY <1>2, NextStepTodo DEF NextStep, CheckBlit
  <2> QED
    BY <2>1 DEF BusTypeInv
<1>3. CASE WriteCycle
  <2>1. Chain(todo') /\ UNCHANGED <<accesses, got, events, latest, soft, cache>> /\ Now \in StepType
    BY <1>3, NextStepTodo DEF NextStep, WriteCycle
  <2>2. Now.op = "write" /\ DOMAIN mem = Ram \union Audio
    BY <1>3 DEF WriteCycle, Does, BusTypeInv
  <2>3. mem' = [c \in Ram \union Audio |->
                  IF c \in SelectedBy(Now) \/ (c \in Audio /\ c \in WordAt(Now.addr))
                  THEN LaneBy(Now, c) ELSE mem[c]]
    BY <1>3, <2>2 DEF WriteCycle, SelectedBy, LaneBy, Selected, Lane
  <2>4. \A c \in Ram \union Audio : mem[c] \in Nat
    BY DEF BusTypeInv
  <2>5. \A c \in SelectedBy(Now) \union WordAt(Now.addr) : LaneBy(Now, c) \in Nat
    BY <2>1, <2>2, Lanes
  <2>6. mem' \in [Ram \union Audio -> Nat]
    BY <2>3, <2>4, <2>5
  <2> QED
    BY <2>1, <2>6 DEF BusTypeInv
<1>4. CASE Capture
  <2>1. Chain(todo') /\ UNCHANGED <<accesses, mem, got, soft, cache>> /\ Now \in StepType
    BY <1>4, NextStepTodo DEF NextStep, Capture
  <2>2. Now.op = "capture" /\ latest \in [Audio -> Nat] /\ events \in Seq(CaptureType)
    BY <1>4 DEF Capture, Does, BusTypeInv
  <2>3. latest' \in [Audio -> Nat] /\ events' \in Seq(CaptureType)
    <3>1. CASE Now.addr \in Audio
      <4>1. Now \in CaptureType
        BY <2>1, <2>2, <3>1 DEF CaptureType
      <4>2. latest' = EventWord(Now, latest) /\ events' = Append(events, Now)
        BY <1>4, <3>1 DEF Capture
      <4>3. EventWord(Now, latest) \in [Audio -> Nat]
        BY <2>1, <2>2, EventWordType
      <4>4. Append(events, Now) \in Seq(CaptureType)
        BY <2>2, <4>1, AppendProperties
      <4> QED
        BY <4>2, <4>3, <4>4
    <3>2. CASE Now.addr \notin Audio
      BY <1>4, <2>2, <3>2 DEF Capture
    <3> QED
      BY <3>1, <3>2
  <2> QED
    BY <2>1, <2>3 DEF BusTypeInv
<1>5. CASE Invalidate
  <2>1. Chain(todo') /\ UNCHANGED <<accesses, mem, got, events, latest, soft>>
    BY <1>5, NextStepTodo DEF NextStep, Invalidate
  <2>2. cache' = [p \in Pages |-> cache'[p]]
    BY <1>5 DEF Invalidate
  <2> QED
    BY <2>1, <2>2 DEF BusTypeInv
<1>6. CASE ReadCycle
  <2>1. Chain(todo') /\ UNCHANGED <<accesses, mem, events, latest, soft, cache>>
    BY <1>6, NextStepTodo DEF NextStep, ReadCycle
  <2>2. ASSUME NEW c PROVE ByteAt(c) \in Nat \union {Other}
    BY DEF ByteAt, BusTypeInv
  <2>3. got \in Seq(Nat \union {Other})
    BY DEF BusTypeInv
  <2>4. /\ <<ByteAt(TakenByte(Now.addr))>> \in Seq(Nat \union {Other})
        /\ <<ByteAt(Now.addr), ByteAt(Now.addr + 1)>> \in Seq(Nat \union {Other})
    BY <2>2
  <2>5. got' \in Seq(Nat \union {Other})
    <3>1. PICK w \in Seq(Nat \union {Other}) : got' = got \o w
      BY <1>6, <2>4 DEF ReadCycle
    <3> QED
      BY <2>3, <3>1, ConcatProperties
  <2> QED
    BY <2>1, <2>5 DEF BusTypeInv
<1>7. CASE Replay
  <2>1. UNCHANGED <<todo, accesses, mem, got, latest, cache>>
    BY <1>7 DEF Replay
  <2>2. events \in Seq(CaptureType) /\ events # <<>> /\ soft \in [Audio -> Nat]
    BY <1>7 DEF Replay, BusTypeInv
  <2>3. Head(events) \in CaptureType /\ Tail(events) \in Seq(CaptureType)
    BY <2>2, HeadTailProperties
  <2>4. EventWord(Head(events), soft) \in [Audio -> Nat]
    BY <2>2, <2>3, EventWordType DEF CaptureType
  <2>5. events' \in Seq(CaptureType) /\ soft' \in [Audio -> Nat]
    BY <1>7, <2>2, <2>3, <2>4 DEF Replay
  <2> QED
    BY <2>1, <2>5 DEF BusTypeInv
<1>8. CASE LoadPage
  <2>1. UNCHANGED <<todo, accesses, mem, got, events, latest, soft>>
    BY <1>8 DEF LoadPage
  <2>2. cache' = [p \in Pages |-> cache'[p]]
    <3>1. PICK p \in Pages : cache' = [cache EXCEPT ![p] = [a \in PageOf(p) |-> mem[a]]]
      BY <1>8 DEF LoadPage
    <3>2. cache = [q \in Pages |-> cache[q]]
      BY DEF BusTypeInv
    <3> QED
      BY <3>1, <3>2
  <2> QED
    BY <2>1, <2>2 DEF BusTypeInv
<1>9. CASE BlitDone
  BY <1>9 DEF BlitDone, BusTypeInv
<1>10. CASE UNCHANGED busVars
  BY <1>10 DEF busVars, BusTypeInv
<1> QED
  BY <1>1, <1>2, <1>3, <1>4, <1>5, <1>6, <1>7, <1>8, <1>9, <1>10 DEF BusNext, NextStep
-----------------------------------------------------------------------------
(* The copies. *)

\* Only a write cycle leaves something to report, and its report is the next step.
LEMMA ReportedStep ==
  ASSUME BusTypeInv, NextStep, NEW c
  PROVE  /\ Now.op # "capture" => Reported(c)
         /\ Now.op # "write" => Reported(c)'
         /\ Now.op = "write" => /\ Reported(c)' <=> ~Hits(Now, c)
                                /\ EventByte(Now, c)' = EventByte(Now, c)
<1>1. /\ todo' # <<>> => Follows(Now, Now')
      /\ todo' = <<>> => Now.op \notin {"write", "capture"}
  BY NextStepTodo
<1>2. Now.op # "write" => Reported(c)'
  BY <1>1 DEF Reported, Follows
<1>3. Now.op = "write" => Now'.op = "capture" /\ Now'.addr = Now.addr /\ Now'.data = Now.data /\ todo' # <<>>
  BY <1>1 DEF Follows
<1> QED
  BY <1>2, <1>3 DEF Reported, Hits, EventByte

LEMMA ShadowStep ==
  ASSUME BusAssumption, BusTypeInv, ShadowFollows, [BusNext]_busVars
  PROVE  ShadowFollows'
<1> SUFFICES ASSUME NEW c \in Audio
             PROVE  mem'[c] = IF Reported(c)' THEN latest'[c] ELSE EventByte(Now', c)
  BY DEF ShadowFollows, EventByte
<1>0. mem[c] = IF Reported(c) THEN latest[c] ELSE EventByte(Now, c)
  BY DEF ShadowFollows
<1>1. CASE StoreAccess \/ LoadAccess
  <2>1. UNCHANGED <<mem, latest>>
    BY <1>1 DEF StoreAccess, LoadAccess
  <2>2. todo = <<>> /\ Whole(todo') /\ todo' # <<>>
    BY <1>1, AccessBegins
  <2>3. Head(todo') = todo'[1] /\ todo'[1].op # "capture"
    BY <2>2, TailChain DEF Whole
  <2>4. Reported(c) /\ Reported(c)'
    BY <2>2, <2>3 DEF Reported, Now
  <2> QED
    BY <1>0, <2>1, <2>4
<1>2. CASE CheckBlit \/ Invalidate \/ ReadCycle
  <2>1. UNCHANGED <<mem, latest>> /\ Now.op \notin {"write", "capture"} /\ NextStep
    BY <1>2 DEF CheckBlit, Invalidate, ReadCycle, NextStep, Does
  <2>2. Reported(c) /\ Reported(c)'
    BY <2>1, ReportedStep
  <2> QED
    BY <1>0, <2>1, <2>2
<1>3. CASE WriteCycle
  <2>1. UNCHANGED latest /\ Now.op = "write" /\ NextStep
    BY <1>3 DEF WriteCycle, NextStep, Does
  <2>2. Now \in StepType /\ c \in DOMAIN mem
    BY <2>1, NextStepTodo DEF BusTypeInv
  <2>3. Reported(c) /\ (Reported(c)' <=> ~Hits(Now, c)) /\ EventByte(Now', c) = EventByte(Now, c)
    BY <2>1, ReportedStep DEF EventByte
  <2>4. mem'[c] = IF c \in SelectedBy(Now) \/ c \in WordAt(Now.addr) THEN LaneBy(Now, c) ELSE mem[c]
    BY <1>3, <2>2 DEF WriteCycle, SelectedBy, LaneBy, Selected, Lane
  <2>5. mem'[c] = IF Hits(Now, c) THEN EventByte(Now, c) ELSE mem[c]
    BY <2>1, <2>2, <2>4, Lanes DEF Hits
  <2> QED
    BY <1>0, <2>1, <2>3, <2>5
<1>4. CASE Capture
  <2>1. UNCHANGED mem /\ Now.op = "capture" /\ NextStep
    BY <1>4 DEF Capture, NextStep, Does
  <2>2. Reported(c)' /\ Now \in StepType /\ todo # <<>>
    BY <2>1, ReportedStep, NextStepTodo
  <2>3. Reported(c) <=> ~Hits(Now, c)
    BY <2>1, <2>2 DEF Reported
  <2>4. CASE Now.addr \in Audio
    <3>1. latest'[c] = IF Hits(Now, c) THEN EventByte(Now, c) ELSE latest[c]
      BY <1>4, <2>4, EventWordBytes DEF Capture
    <3> QED
      BY <1>0, <2>1, <2>2, <2>3, <3>1
  <2>5. CASE Now.addr \notin Audio
    <3>1. ~Hits(Now, c)
      BY <2>2, <2>5, AudioWord DEF Hits, StepType
    <3>2. latest' = latest
      BY <1>4, <2>5 DEF Capture
    <3> QED
      BY <1>0, <2>1, <2>2, <2>3, <3>1, <3>2
  <2> QED
    BY <2>4, <2>5
<1>5. CASE Replay \/ LoadPage \/ BlitDone \/ UNCHANGED busVars
  <2>1. UNCHANGED <<todo, mem, latest>>
    BY <1>5 DEF Replay, LoadPage, BlitDone, busVars
  <2> QED
    BY <1>0, <2>1 DEF Reported, Now
<1> QED
  BY <1>1, <1>2, <1>3, <1>4, <1>5 DEF BusNext, NextStep

LEMMA SoftStep ==
  ASSUME BusAssumption, BusTypeInv, SoftFollows, [BusNext]_busVars
  PROVE  SoftFollows'
<1> SUFFICES ASSUME NEW c \in Audio
             PROVE  (\/ \E i \in 1 .. Len(events) : LastHit(i, c) /\ latest[c] = EventByte(events[i], c)
                     \/ latest[c] = soft[c] /\ \A i \in 1 .. Len(events) : ~Hits(events[i], c))'
  BY DEF SoftFollows
<1>0. \/ \E i \in 1 .. Len(events) : LastHit(i, c) /\ latest[c] = EventByte(events[i], c)
      \/ latest[c] = soft[c] /\ \A i \in 1 .. Len(events) : ~Hits(events[i], c)
  BY DEF SoftFollows
<1>1. events \in Seq(CaptureType) /\ Len(events) \in Nat
  BY DEF BusTypeInv
<1>2. ASSUME UNCHANGED <<events, latest, soft>>
      PROVE  (\/ \E i \in 1 .. Len(events) : LastHit(i, c) /\ latest[c] = EventByte(events[i], c)
              \/ latest[c] = soft[c] /\ \A i \in 1 .. Len(events) : ~Hits(events[i], c))'
  BY <1>0, <1>2 DEF LastHit, Hits, EventByte
<1>3. CASE Capture
  <2>1. CASE Now.addr \in Audio
    <3>1. events' = Append(events, Now) /\ latest' = EventWord(Now, latest) /\ soft' = soft
      BY <1>3, <2>1 DEF Capture
    <3>0. PICK n \in Nat : n = Len(events) + 1
      BY <1>1
    <3>2. /\ Len(events') = n /\ events'[n] = Now /\ n \in 1 .. Len(events')
          /\ \A i \in 1 .. Len(events) : events'[i] = events[i]
      BY <1>1, <3>0, <3>1, AppendProperties
    <3>3. latest'[c] = IF Hits(Now, c) THEN EventByte(Now, c) ELSE latest[c]
      BY <3>1, EventWordBytes
    <3>4. CASE Hits(Now, c)
      <4>1. Hits(events[n], c)' /\ latest'[c] = EventByte(events[n], c)'
        BY <3>2, <3>3, <3>4 DEF Hits, EventByte
      <4>2. \A j \in n + 1 .. Len(events') : FALSE
        BY <1>1, <3>0, <3>2
      <4>3. LastHit(n, c)'
        BY <4>1, <4>2 DEF LastHit
      <4> QED
        BY <3>2, <4>1, <4>3
    <3>5. CASE ~Hits(Now, c)
      <4>1. \A i \in 1 .. Len(events) :
              /\ i \in 1 .. Len(events') /\ (Hits(events[i], c)' <=> Hits(events[i], c))
              /\ EventByte(events[i], c)' = EventByte(events[i], c)
        BY <1>1, <3>0, <3>2 DEF Hits, EventByte
      <4>2. \A i \in 1 .. Len(events') : i = n \/ i \in 1 .. Len(events)
        BY <1>1, <3>0, <3>2
      <4>3. ~Hits(events[n], c)'
        BY <3>2, <3>5 DEF Hits
      <4>4. CASE latest[c] = soft[c] /\ \A i \in 1 .. Len(events) : ~Hits(events[i], c)
        BY <3>1, <3>3, <3>5, <4>1, <4>2, <4>3, <4>4
      <4>5. ASSUME NEW i \in 1 .. Len(events), LastHit(i, c), latest[c] = EventByte(events[i], c)
            PROVE  \E k \in 1 .. Len(events') : LastHit(k, c)' /\ latest'[c] = EventByte(events[k], c)'
        <5>1. ASSUME NEW j \in i + 1 .. Len(events') PROVE ~Hits(events[j], c)'
          <6>1. j = n \/ (j \in i + 1 .. Len(events) /\ j \in 1 .. Len(events))
            <7>1. j \in i + 1 .. n /\ i \in Nat /\ i >= 1 /\ Len(events) = n - 1
              BY <1>1, <3>0, <3>2, <5>1
            <7>2. j = n \/ (j \in i + 1 .. n - 1 /\ j \in 1 .. n - 1)
              BY <3>0, <7>1
            <7> QED
              BY <7>1, <7>2
          <6> QED
            BY <4>1, <4>3, <4>5, <6>1 DEF LastHit
        <5>2. LastHit(i, c)'
          BY <4>1, <4>5, <5>1 DEF LastHit
        <5>3. latest'[c] = EventByte(events[i], c)'
          BY <3>3, <3>5, <4>1, <4>5
        <5> QED
          BY <4>1, <5>2, <5>3
      <4> QED
        BY <1>0, <4>4, <4>5
    <3> QED
      BY <3>4, <3>5
  <2>2. CASE Now.addr \notin Audio
    BY <1>2, <1>3, <2>2 DEF Capture
  <2> QED
    BY <2>1, <2>2
<1>4. CASE Replay
  <2> DEFINE e == Head(events)
  <2>1. events # <<>> /\ events' = Tail(events) /\ latest' = latest
    BY <1>4 DEF Replay
  <2>2. /\ e \in CaptureType /\ e = events[1] /\ Len(events') = Len(events) - 1 /\ Len(events) # 0
        /\ \A i \in 1 .. Len(events') : events'[i] = events[i + 1]
    BY <1>1, <2>1, HeadTailProperties, ElementOfSeq
  <2>3. soft' = EventWord(e, soft)
    <3>1. ~(Len(e.data) = 2 /\ e.addr % 2 = 1)
      BY <2>2 DEF CaptureType, StepType
    <3> QED
      BY <1>4, <3>1 DEF Replay
  <2> HIDE DEF e
  <2>4. soft'[c] = IF Hits(e, c) THEN EventByte(e, c) ELSE soft[c]
    BY <2>3, EventWordBytes
  <2>5. \A i \in 1 .. Len(events') :
          /\ i + 1 \in 1 .. Len(events) /\ (Hits(events[i], c)' <=> Hits(events[i + 1], c))
          /\ EventByte(events[i], c)' = EventByte(events[i + 1], c)
    BY <1>1, <2>2 DEF Hits, EventByte
  <2>6. CASE latest[c] = soft[c] /\ \A i \in 1 .. Len(events) : ~Hits(events[i], c)
    <3>1. ~Hits(e, c)
      BY <1>1, <2>2, <2>6
    <3> QED
      BY <2>1, <2>4, <2>5, <2>6, <3>1
  <2>7. ASSUME NEW i \in 1 .. Len(events), LastHit(i, c), latest[c] = EventByte(events[i], c)
        PROVE  (\/ \E k \in 1 .. Len(events) : LastHit(k, c) /\ latest[c] = EventByte(events[k], c)
                \/ latest[c] = soft[c] /\ \A k \in 1 .. Len(events) : ~Hits(events[k], c))'
    <3>1. CASE i = 1
      <4>1. latest'[c] = soft'[c]
        BY <2>1, <2>2, <2>4, <2>7, <3>1 DEF LastHit
      <4>2. ASSUME NEW k \in 1 .. Len(events') PROVE ~Hits(events[k], c)'
        <5>1. k + 1 \in 1 + 1 .. Len(events)
          BY <1>1, <2>2
        <5> QED
          BY <2>5, <2>7, <3>1, <5>1 DEF LastHit
      <4> QED
        BY <4>1, <4>2
    <3>2. CASE i # 1
      <4>1. PICK k \in 1 .. Len(events') : i = k + 1
        <5>1. i - 1 \in 1 .. Len(events') /\ i = (i - 1) + 1
          BY <1>1, <2>2, <3>2
        <5> QED
          BY <5>1
      <4>2. ASSUME NEW j \in k + 1 .. Len(events') PROVE ~Hits(events[j], c)'
        <5>1. j + 1 \in i + 1 .. Len(events) /\ j \in 1 .. Len(events')
          BY <1>1, <2>2, <4>1
        <5> QED
          BY <2>5, <2>7, <5>1 DEF LastHit
      <4>3. LastHit(k, c)' /\ latest'[c] = EventByte(events[k], c)'
        BY <2>1, <2>5, <2>7, <4>1, <4>2 DEF LastHit
      <4> QED
        BY <4>3
    <3> QED
      BY <3>1, <3>2
  <2> QED
    BY <1>0, <2>6, <2>7
<1>5. CASE StoreAccess \/ LoadAccess \/ CheckBlit \/ WriteCycle \/ Invalidate \/ ReadCycle
            \/ LoadPage \/ BlitDone \/ UNCHANGED busVars
  BY <1>2, <1>5 DEF StoreAccess, LoadAccess, CheckBlit, WriteCycle, Invalidate, ReadCycle,
                    LoadPage, BlitDone, busVars
<1> QED
  BY <1>3, <1>4, <1>5 DEF BusNext, NextStep
\* The bytes a write cycle puts into Chip RAM are in the pages it makes stale.
LEMMA StalePages ==
  ASSUME BusAssumption, NEW x \in StepType, x.op # "check", NEW a \in SelectedBy(x)
  PROVE  a \div PageSize \in Stale(x.addr, Len(x.data))
<1>1. x.addr \in 0 .. Space - 1 /\ Len(x.data) \in {1, 2} /\ (Len(x.data) = 2 => x.addr % 2 = 0)
      /\ Space \in Nat
  BY DEF StepType, BusAssumption
<1>2. CASE Len(x.data) = 1
  BY <1>2 DEF SelectedBy, Stale
<1>3. CASE Len(x.data) = 2
  <2>1. a \in {x.addr, x.addr + 1}
    BY <1>1, <1>3, EvenWord DEF SelectedBy
  <2>2. x.addr + Len(x.data) - 1 = x.addr + 1
    BY <1>1, <1>3
  <2> QED
    BY <2>1, <2>2 DEF Stale
<1> QED
  BY <1>1, <1>2, <1>3

LEMMA ToldStep ==
  ASSUME BusTypeInv, NextStep, NEW p
  PROVE  /\ Now.op \notin {"capture", "invalidate"} => Told(p)
         /\ Now.op \notin {"write", "capture"} => Told(p)'
         /\ Now.op \in {"write", "capture"} => (Told(p)' <=> p \notin Stale(Now.addr, Len(Now.data)))
<1>1. /\ todo' # <<>> => Follows(Now, Now')
      /\ todo' = <<>> => Now.op \notin {"write", "capture"}
  BY NextStepTodo
<1>2. Now.op \notin {"write", "capture"} => Told(p)'
  BY <1>1 DEF Told, Follows
<1>3. Now.op \in {"write", "capture"} =>
        todo' # <<>> /\ Now'.op \in {"capture", "invalidate"} /\ Now'.addr = Now.addr /\ Now'.data = Now.data
  BY <1>1 DEF Follows
<1>4. Now.op \in {"write", "capture"} => (Told(p)' <=> p \notin Stale(Now.addr, Len(Now.data)))
  BY <1>3 DEF Told, Stale
<1> QED
  BY <1>2, <1>4 DEF Told

LEMMA CacheStep ==
  ASSUME BusAssumption, BusTypeInv, CacheFollows, [BusNext]_busVars
  PROVE  CacheFollows'
<1> SUFFICES ASSUME NEW p \in Pages, cache'[p] # Missing, Told(p)', NEW a \in PageOf(p)
             PROVE  cache'[p][a] = mem'[a]
  BY DEF CacheFollows
<1>0. cache[p] # Missing /\ Told(p) => cache[p][a] = mem[a]
  BY DEF CacheFollows
<1>1. a \in Ram /\ a \div PageSize = p /\ a \notin Audio /\ a \in DOMAIN mem
  BY DEF PageOf, BusTypeInv, BusAssumption
<1>2. CASE StoreAccess \/ LoadAccess
  <2>1. UNCHANGED <<mem, cache>> /\ todo = <<>>
    BY <1>2, AccessBegins DEF StoreAccess, LoadAccess
  <2> QED
    BY <1>0, <2>1 DEF Told
<1>3. CASE CheckBlit \/ ReadCycle
  <2>1. UNCHANGED <<mem, cache>> /\ Now.op \notin {"capture", "invalidate"} /\ NextStep
    BY <1>3 DEF CheckBlit, ReadCycle, NextStep, Does
  <2> QED
    BY <1>0, <2>1, ToldStep
<1>4. CASE WriteCycle
  <2>1. UNCHANGED cache /\ Now.op = "write" /\ NextStep
    BY <1>4 DEF WriteCycle, NextStep, Does
  <2>2. Now \in StepType /\ Told(p) /\ p \notin Stale(Now.addr, Len(Now.data))
    BY <2>1, NextStepTodo, ToldStep
  <2>3. a \notin SelectedBy(Now)
    BY <1>1, <2>1, <2>2, StalePages
  <2>4. mem'[a] = mem[a]
    BY <1>1, <1>4, <2>3 DEF WriteCycle, Selected, SelectedBy
  <2> QED
    BY <1>0, <2>1, <2>2, <2>4
<1>5. CASE Capture
  <2>1. UNCHANGED <<mem, cache>> /\ Now.op = "capture" /\ NextStep
    BY <1>5 DEF Capture, NextStep, Does
  <2>2. Told(p)
    BY <2>1, ToldStep DEF Told
  <2> QED
    BY <1>0, <2>1, <2>2
<1>6. CASE Invalidate
  <2>1. UNCHANGED mem /\ Now.op = "invalidate"
    BY <1>6 DEF Invalidate, Does
  <2>2. cache'[p] = cache[p] /\ p \notin Stale(Now.addr, Len(Now.data))
    BY <1>6 DEF Invalidate
  <2> QED
    BY <1>0, <2>1, <2>2 DEF Told
<1>7. CASE LoadPage
  <2>1. UNCHANGED mem /\ Told(p)
    BY <1>7 DEF LoadPage, Told
  <2>2. PICK q \in Pages : cache' = [cache EXCEPT ![q] = [b \in PageOf(q) |-> mem[b]]]
    BY <1>7 DEF LoadPage
  <2>3. cache = [r \in Pages |-> cache[r]]
    BY DEF BusTypeInv
  <2>4. cache'[p] = IF p = q THEN [b \in PageOf(p) |-> mem[b]] ELSE cache[p]
    BY <2>2, <2>3
  <2> QED
    BY <1>0, <2>1, <2>4
<1>8. CASE Replay \/ BlitDone \/ UNCHANGED busVars
  <2>1. UNCHANGED <<todo, mem, cache>>
    BY <1>8 DEF Replay, BlitDone, busVars
  <2> QED
    BY <1>0, <2>1 DEF Told, Now
<1> QED
  BY <1>2, <1>3, <1>4, <1>5, <1>6, <1>7, <1>8 DEF BusNext, NextStep

LEMMA CopyInit ==
  ASSUME BusAssumption, BusInit
  PROVE  CopyInv
<1>1. BusTypeInv
  BY TypeInit
<1>2. todo = <<>> /\ Len(events) = 0 /\ \A i \in 1 .. Len(events) : FALSE
  BY DEF BusInit
<1>3. ShadowFollows
  BY <1>2 DEF ShadowFollows, Reported, BusInit
<1>4. SoftFollows
  BY <1>2 DEF SoftFollows, BusInit
<1>5. CacheFollows
  BY DEF CacheFollows, BusInit
<1> QED
  BY <1>1, <1>3, <1>4, <1>5 DEF CopyInv

LEMMA CopyStep ==
  ASSUME BusAssumption, CopyInv, [BusNext]_busVars
  PROVE  CopyInv'
BY TypeStep, ShadowStep, SoftStep, CacheStep DEF CopyInv

LEMMA CopiesFollow ==
  ASSUME BusAssumption, CopyInv
  PROVE  CopiesFollowTheBus
<1>1. MirrorSeesPaula
  <2> SUFFICES ASSUME todo = <<>>
               PROVE  (\A c \in Audio : latest[c] = mem[c]) /\ (events = <<>> => soft = latest)
    BY DEF MirrorSeesPaula
  <2>1. \A c \in Audio : latest[c] = mem[c]
    BY DEF CopyInv, ShadowFollows, Reported
  <2>2. ASSUME events = <<>> PROVE soft = latest
    <3>1. \A i \in 1 .. Len(events) : FALSE
      BY <2>2
    <3>2. \A c \in Audio : latest[c] = soft[c]
      BY <3>1 DEF CopyInv, SoftFollows
    <3>3. latest \in [Audio -> Nat] /\ soft \in [Audio -> Nat]
      BY DEF CopyInv, BusTypeInv
    <3> QED
      BY <3>2, <3>3
  <2> QED
    BY <2>1, <2>2
<1>2. CacheSeesRam
  BY DEF CacheSeesRam, CopyInv, CacheFollows, Told
<1> QED
  BY <1>1, <1>2 DEF CopiesFollowTheBus
-----------------------------------------------------------------------------
(* The wait for the blitter. *)
\* A word cycle to the blitter is still to be checked, or it was.
BlitFollows ==
  BlitWait => \A i \in 1 .. Len(todo) : TouchesBlitter(todo[i]) =>
                \/ \E j \in 1 .. i - 1 : CheckedAt(todo, i, j)
                \/ blit \in {0, call} /\ \A k \in 1 .. i - 1 : todo[k].op # "check"

LEMMA BlitInit ==
  ASSUME BusInit
  PROVE  BlitFollows
<1>1. Len(todo) = 0
  BY DEF BusInit
<1> QED
  BY <1>1 DEF BlitFollows

LEMMA BlitStep ==
  ASSUME BusAssumption, BusTypeInv, BlitFollows, [BusNext]_busVars
  PROVE  BlitFollows'
<1> SUFFICES ASSUME BlitWait, NEW i \in 1 .. Len(todo'), TouchesBlitter(todo'[i])
             PROVE  \/ \E j \in 1 .. i - 1 : CheckedAt(todo', i, j)
                    \/ blit' \in {0, call'} /\ \A k \in 1 .. i - 1 : todo'[k].op # "check"
  BY DEF BlitFollows, CheckedAt, IsCheck, TouchesBlitter, Touches
<1>1. CASE StoreAccess
  <2>1. Guarded(todo')
    BY <1>1, StoreBegins DEF Stores
  <2> QED
    BY <2>1 DEF Guarded
<1>2. CASE LoadAccess
  <2>1. PICK a, size : Reads(todo', a, 0, size)
    BY <1>2, LoadBegins
  <2>2. todo'[i].op = "read"
    BY <2>1 DEF Reads, Offsets
  <2> QED
    BY <2>2 DEF TouchesBlitter
<1>3. CASE NextStep
  <2>1. /\ todo # <<>> /\ Len(todo) \in Nat \ {0} /\ Now = todo[1] /\ Len(todo') = Len(todo) - 1
        /\ \A k \in 1 .. Len(todo) - 1 : todo'[k] = todo[k + 1]
    BY <1>3, NextStepTodo
  <2>2. i + 1 \in 1 .. Len(todo) /\ TouchesBlitter(todo[i + 1])
    BY <2>1
  <2>3. ASSUME NEW k \in 1 .. i - 1 PROVE todo'[k] = todo[k + 1] /\ k + 1 \in 1 .. i
    BY <2>1
  <2>4. ASSUME NEW j \in 1 .. i, CheckedAt(todo, i + 1, j), j # 1
        PROVE  \E m \in 1 .. i - 1 : CheckedAt(todo', i, m)
    <3>1. j - 1 \in 1 .. i - 1 /\ (j - 1) + 1 = j
      BY <2>4
    <3>2. IsCheck(todo'[j - 1])
      BY <2>3, <2>4, <3>1 DEF CheckedAt
    <3>3. ASSUME NEW k \in (j - 1) + 1 .. i - 1 PROVE todo'[k].op # "check"
      <4>1. k \in 1 .. i - 1 /\ k + 1 \in j + 1 .. (i + 1) - 1
        BY <3>1
      <4> QED
        BY <2>3, <2>4, <4>1 DEF CheckedAt
    <3>4. CheckedAt(todo', i, j - 1)
      BY <3>2, <3>3 DEF CheckedAt
    <3> QED
      BY <3>1, <3>4
  <2>5. ASSUME CheckedAt(todo, i + 1, 1)
        PROVE  blit' \in {0, call'} /\ \A k \in 1 .. i - 1 : todo'[k].op # "check"
    <3>1. Now.op = "check" /\ Touches(Now.addr, Len(Now.data))
      BY <2>1, <2>5 DEF CheckedAt, IsCheck
    <3>2. CheckBlit
      BY <1>3, <3>1 DEF NextStep, WriteCycle, Capture, Invalidate, ReadCycle, Does
    <3>3. blit' = 0
      BY <3>1, <3>2 DEF CheckBlit, BlitIdle
    <3>4. ASSUME NEW k \in 1 .. i - 1 PROVE todo'[k].op # "check"
      <4>1. k + 1 \in 1 + 1 .. (i + 1) - 1
        OBVIOUS
      <4> QED
        BY <2>3, <2>5, <4>1 DEF CheckedAt
    <3> QED
      BY <3>3, <3>4
  <2>6. ASSUME blit \in {0, call}, \A k \in 1 .. (i + 1) - 1 : todo[k].op # "check"
        PROVE  blit' \in {0, call'} /\ \A k \in 1 .. i - 1 : todo'[k].op # "check"
    <3>1. 1 \in 1 .. (i + 1) - 1
      OBVIOUS
    <3>2. Now.op # "check"
      BY <2>1, <2>6, <3>1
    <3>3. call' = call /\ blit' \in {blit, call}
      BY <1>3, <3>2 DEF NextStep, CheckBlit, WriteCycle, Capture, Invalidate, ReadCycle, Does
    <3> QED
      BY <2>3, <2>6, <3>3
  <2>7. \/ \E j \in 1 .. (i + 1) - 1 : CheckedAt(todo, i + 1, j)
        \/ blit \in {0, call} /\ \A k \in 1 .. (i + 1) - 1 : todo[k].op # "check"
    BY <2>2 DEF BlitFollows
  <2>8. ASSUME NEW j \in 1 .. (i + 1) - 1 PROVE j \in 1 .. i
    OBVIOUS
  <2> QED
    BY <2>4, <2>5, <2>6, <2>7, <2>8
<1>4. CASE Replay \/ LoadPage \/ BlitDone \/ UNCHANGED busVars
  <2>1. todo' = todo /\ call' = call /\ blit' \in {0, blit}
    BY <1>4 DEF Replay, LoadPage, BlitDone, busVars
  <2> QED
    BY <2>1 DEF BlitFollows
<1> QED
  BY <1>1, <1>2, <1>3, <1>4 DEF BusNext

LEMMA BlitIsFree ==
  ASSUME BusTypeInv, BlitFollows
  PROVE  \A c \in Blitter :
           (BlitWait /\ todo # <<>> /\ todo' = Tail(todo) /\ Now.op = "write"
              /\ c \in WordAt(Now.addr) /\ blit # 0 /\ Len(Now.data) = 2) => blit = call
<1> SUFFICES ASSUME NEW c \in Blitter, BlitWait, todo # <<>>, Now.op = "write",
                    c \in WordAt(Now.addr), blit # 0, Len(Now.data) = 2
             PROVE  blit = call
  OBVIOUS
<1>1. Now = todo[1] /\ 1 \in 1 .. Len(todo)
  BY TailChain DEF BusTypeInv, Now
<1>2. TouchesBlitter(todo[1])
  BY <1>1 DEF TouchesBlitter
<1>3. \A j \in 1 .. 1 - 1 : FALSE
  OBVIOUS
<1> QED
  BY <1>1, <1>2, <1>3 DEF BlitFollows

-----------------------------------------------------------------------------
(* The access under way. *)
\* A store under way: every byte of it is in Chip RAM or is still to be put there,
\* and nothing else has changed.
Storing(a, v) ==
  /\ \A i \in 1 .. Len(todo) : todo[i].op # "read"
  /\ \A c \in Ram, b \in Nat : Puts(todo, c, b) => IsByteOf(c, b, a, v)
  /\ \A c \in Ram, b \in Nat : IsByteOf(c, b, a, v) => Puts(todo, c, b) \/ mem[c] = b
  /\ \A c \in Ram : mem[c] = before.ram[c] \/ IsByteOf(c, mem[c], a, v)
  /\ got = before.got

\* A load under way: it has the first bytes, and the cycles left read the others.
Loading(a, size) ==
  /\ \E off : Offsets(todo, a, Len(got), size, off)
  /\ \A i \in 1 .. Len(got) : got[i] = ByteAt((a + i - 1) % Space)
  /\ before.ram = RamOf(mem)

LEMMA PutsTail ==
  ASSUME NEW t, Chain(t), t # <<>>, NEW c, NEW b
  PROVE  Puts(t, c, b) <=>
           \/ Head(t).op = "write" /\ c \in SelectedBy(Head(t)) /\ LaneBy(Head(t), c) = b
           \/ Puts(Tail(t), c, b)
<1>1. /\ Head(t) = t[1] /\ Len(t) \in Nat \ {0} /\ Len(Tail(t)) = Len(t) - 1
      /\ \A i \in 1 .. Len(t) - 1 : Tail(t)[i] = t[i + 1]
  BY TailChain
<1> DEFINE u == Tail(t)
           P(x) == x.op = "write" /\ c \in SelectedBy(x) /\ LaneBy(x, c) = b
<1>2. Len(u) = Len(t) - 1 /\ \A i \in 1 .. Len(u) : u[i] = t[i + 1] /\ i + 1 \in 1 .. Len(t)
  BY <1>1
<1> HIDE DEF u
<1>3. \A i \in 1 .. Len(t) : i = 1 \/ (i - 1 \in 1 .. Len(u) /\ u[i - 1] = t[i])
  BY <1>1, <1>2
<1>4. Puts(t, c, b) <=> \E i \in 1 .. Len(t) : P(t[i])
  BY DEF Puts
<1>5. Puts(u, c, b) <=> \E i \in 1 .. Len(u) : P(u[i])
  BY DEF Puts
<1>6. 1 \in 1 .. Len(t)
  BY <1>1
<1> HIDE DEF P
<1>7. Puts(t, c, b) <=> P(t[1]) \/ Puts(u, c, b)
  BY <1>2, <1>3, <1>4, <1>5, <1>6
<1> QED
  BY <1>1, <1>7 DEF P, u

\* An access of up to sixteen bytes does not come round to its own bytes.
LEMMA OneByteEach ==
  ASSUME BusAssumption, NEW a \in Nat, NEW v \in Bytes, Len(v) \in {1, 2, 4, 8, 16},
         NEW c, NEW b, NEW d, IsByteOf(c, b, a, v), IsByteOf(c, d, a, v)
  PROVE  b = d
<1>1. PICK i \in 1 .. Len(v) : (a + i - 1) % Space = c /\ v[i] = b
  BY DEF IsByteOf
<1>2. PICK j \in 1 .. Len(v) : (a + j - 1) % Space = c /\ v[j] = d
  BY DEF IsByteOf
<1>3. Space \in Nat /\ Space >= 16
  BY DEF BusAssumption
<1>4. i \in 1 .. 16 /\ j \in 1 .. 16
  <2>1. \A n \in {1, 2, 4, 8, 16} : \A k \in 1 .. n : k \in 1 .. 16
    OBVIOUS
  <2> QED
    BY <2>1
<1>5. i - 1 \in 0 .. Space - 1 /\ j - 1 \in 0 .. Space - 1 /\ a + (i - 1) = a + i - 1 /\ a + (j - 1) = a + j - 1
  BY <1>3, <1>4
<1> DEFINE r == a % Space
<1>6. /\ (a + (i - 1)) % Space = IF r + (i - 1) < Space THEN r + (i - 1) ELSE r + (i - 1) - Space
      /\ (a + (j - 1)) % Space = IF r + (j - 1) < Space THEN r + (j - 1) ELSE r + (j - 1) - Space
  BY <1>5, WrappedOn
<1>7. r \in 0 .. Space - 1
  BY <1>3
<1> HIDE DEF r
<1>8. \/ r + (i - 1) = r + (j - 1) \/ r + (i - 1) = r + (j - 1) - Space
      \/ r + (i - 1) - Space = r + (j - 1)
  BY <1>1, <1>2, <1>3, <1>4, <1>5, <1>6, <1>7
<1>9. i = j
  BY <1>3, <1>4, <1>7, <1>8
<1> QED
  BY <1>1, <1>2, <1>9

LEMMA StoringStep ==
  ASSUME BusAssumption, BusTypeInv, NEW a \in Nat, NEW v \in Bytes, Len(v) \in {1, 2, 4, 8, 16},
         Storing(a, v), NextStep
  PROVE  Storing(a, v)'
<1>1. /\ todo # <<>> /\ todo' = Tail(todo) /\ UNCHANGED before /\ Chain(todo) /\ Now \in StepType
      /\ Now = todo[1] /\ Len(todo) \in Nat \ {0} /\ Len(todo') = Len(todo) - 1
      /\ \A i \in 1 .. Len(todo) - 1 : todo'[i] = todo[i + 1]
  BY NextStepTodo DEF BusTypeInv
<1>2. \A i \in 1 .. Len(todo') : todo'[i].op # "read"
  BY <1>1 DEF Storing
<1>3. Now.op # "read"
  BY <1>1 DEF Storing
<1>4. got' = got
  BY <1>3 DEF NextStep, CheckBlit, WriteCycle, Capture, Invalidate, ReadCycle, Does
<1>5. ASSUME NEW c, NEW b
      PROVE  Puts(todo, c, b) <=>
               (Now.op = "write" /\ c \in SelectedBy(Now) /\ LaneBy(Now, c) = b) \/ Puts(todo', c, b)
  BY <1>1, PutsTail DEF Now
<1>6. ASSUME NEW c \in Ram, Now.op = "write"
      PROVE  mem'[c] = IF c \in SelectedBy(Now) THEN LaneBy(Now, c) ELSE mem[c]
  <2>1. c \notin Audio /\ c \in DOMAIN mem
    BY DEF BusAssumption, BusTypeInv
  <2>2. WriteCycle
    BY <1>6 DEF NextStep, CheckBlit, WriteCycle, Capture, Invalidate, ReadCycle, Does
  <2> QED
    BY <2>1, <2>2 DEF WriteCycle, SelectedBy, LaneBy, Selected, Lane
<1>7. Now.op # "write" => mem' = mem
  BY DEF NextStep, CheckBlit, WriteCycle, Capture, Invalidate, ReadCycle, Does
<1>8. ASSUME NEW c \in Ram, Now.op = "write", c \in SelectedBy(Now)
      PROVE  IsByteOf(c, LaneBy(Now, c), a, v) /\ LaneBy(Now, c) \in Nat
  <2>1. LaneBy(Now, c) \in Nat
    BY <1>1, <1>8, Lanes
  <2> QED
    BY <1>5, <1>8, <2>1 DEF Storing
<1>9. ASSUME NEW c \in Ram, NEW b \in Nat, Puts(todo', c, b)
      PROVE  IsByteOf(c, b, a, v)
  BY <1>5, <1>9 DEF Storing
<1>10. ASSUME NEW c \in Ram, NEW b \in Nat, IsByteOf(c, b, a, v)
       PROVE  Puts(todo', c, b) \/ mem'[c] = b
  <2>1. Puts(todo, c, b) \/ mem[c] = b
    BY <1>10 DEF Storing
  <2>2. CASE Now.op # "write"
    BY <1>5, <1>7, <2>1, <2>2
  <2>3. CASE Now.op = "write" /\ c \in SelectedBy(Now)
    <3>1. LaneBy(Now, c) = b
      BY <1>8, <1>10, <2>3, OneByteEach
    <3> QED
      BY <1>6, <2>3, <3>1
  <2>4. CASE Now.op = "write" /\ c \notin SelectedBy(Now)
    BY <1>5, <1>6, <2>1, <2>4
  <2> QED
    BY <2>2, <2>3, <2>4
<1>11. ASSUME NEW c \in Ram
       PROVE  mem'[c] = before.ram[c] \/ IsByteOf(c, mem'[c], a, v)
  <2>1. mem[c] = before.ram[c] \/ IsByteOf(c, mem[c], a, v)
    BY DEF Storing
  <2> QED
    BY <1>6, <1>7, <1>8, <2>1
<1> QED
  BY <1>1, <1>2, <1>4, <1>9, <1>10, <1>11 DEF Storing, Puts, IsByteOf, SelectedBy, LaneBy, WordAt

LEMMA LoadingStep ==
  ASSUME BusAssumption, BusTypeInv, NEW a \in Nat, NEW size, Loading(a, size), NextStep
  PROVE  Loading(a, size)'
<1>1. /\ todo # <<>> /\ UNCHANGED before /\ Now \in StepType
      /\ Now = todo[1] /\ Len(todo) \in Nat \ {0} /\ Len(todo') = Len(todo) - 1
      /\ \A i \in 1 .. Len(todo) - 1 : todo'[i] = todo[i + 1]
  BY NextStepTodo
<1>2. PICK off : Offsets(todo, a, Len(got), size, off)
  BY DEF Loading
<1>3. /\ Now.op = "read" /\ Now.addr = (a + Len(got)) % Space
      /\ off[2] = Len(got) + Len(Now.data)
  <2>1. 1 \in 1 .. Len(todo) /\ 1 + 1 = 2
    BY <1>1
  <2>2. off[1] = Len(got) /\ todo[1].op = "read" /\ todo[1].addr = (a + off[1]) % Space
        /\ off[1 + 1] = off[1] + Len(todo[1].data)
    BY <1>2, <2>1 DEF Offsets
  <2> QED
    BY <1>1, <2>1, <2>2
<1>4. ReadCycle
  BY <1>3 DEF NextStep, CheckBlit, WriteCycle, Capture, Invalidate, ReadCycle, Does
<1>5. mem' = mem /\ got \in Seq(Nat \union {Other}) /\ Len(got) \in Nat
  BY <1>4 DEF ReadCycle, BusTypeInv
<1>6. ASSUME NEW c PROVE ByteAt(c)' = ByteAt(c) /\ ByteAt(c) \in Nat \union {Other}
  BY <1>5 DEF ByteAt, BusTypeInv
<1>7. Len(Now.data) \in {1, 2} /\ (Len(Now.data) = 2 => Now.addr % 2 = 0) /\ Now.addr \in 0 .. Space - 1
  BY <1>1, <1>3 DEF StepType
<1> DEFINE w == IF Len(Now.data) = 1 THEN <<ByteAt(Now.addr)>>
                ELSE <<ByteAt(Now.addr), ByteAt(Now.addr + 1)>>
<1>8. got' = got \o w
  BY <1>4 DEF ReadCycle, TakenByte
<1>9. /\ w \in Seq(Nat \union {Other}) /\ Len(w) = Len(Now.data)
      /\ \A i \in 1 .. Len(w) : w[i] = ByteAt((a + (Len(got) + i) - 1) % Space)
  <2>1. CASE Len(Now.data) = 1
    <3>1. w = <<ByteAt(Now.addr)>>
      BY <2>1
    <3>2. a + (Len(got) + 1) - 1 = a + Len(got)
      BY <1>5
    <3> HIDE DEF w
    <3>3. w \in Seq(Nat \union {Other}) /\ Len(w) = 1 /\ w[1] = ByteAt(Now.addr)
      BY <1>6, <3>1
    <3> QED
      BY <1>3, <2>1, <3>2, <3>3
  <2>2. CASE Len(Now.data) = 2
    <3>1. w = <<ByteAt(Now.addr), ByteAt(Now.addr + 1)>>
      BY <2>2
    <3>2. a + (Len(got) + 1) - 1 = a + Len(got) /\ a + (Len(got) + 2) - 1 = (a + Len(got)) + 1
      BY <1>5
    <3>3. ((a + Len(got)) + 1) % Space = Now.addr + 1
      <4>1. Now.addr + 1 \in 0 .. Space - 1
        BY <1>7, <2>2, EvenWord
      <4>2. 1 \in 0 .. Space - 1 /\ Space \in Nat /\ a + Len(got) \in Nat
        BY <1>5 DEF BusAssumption
      <4>3. ((a + Len(got)) + 1) % Space = IF ((a + Len(got)) % Space) + 1 < Space
              THEN ((a + Len(got)) % Space) + 1 ELSE ((a + Len(got)) % Space) + 1 - Space
        BY <4>2, WrappedOn
      <4> QED
        BY <1>3, <4>1, <4>2, <4>3
    <3> HIDE DEF w
    <3>4. w \in Seq(Nat \union {Other}) /\ Len(w) = 2 /\ w[1] = ByteAt(Now.addr) /\ w[2] = ByteAt(Now.addr + 1)
      BY <1>6, <3>1
    <3>5. \A i \in 1 .. 2 : i = 1 \/ i = 2
      OBVIOUS
    <3> QED
      BY <1>3, <2>2, <3>2, <3>3, <3>4, <3>5
  <2> QED
    BY <1>7, <2>1, <2>2
<1> HIDE DEF w
<1>10. /\ Len(got') = Len(got) + Len(w)
       /\ \A i \in 1 .. Len(got') : got'[i] = IF i <= Len(got) THEN got[i] ELSE w[i - Len(got)]
  <2>1. /\ Len(got \o w) = Len(got) + Len(w)
        /\ \A i \in 1 .. Len(got) + Len(w) : (got \o w)[i] = IF i <= Len(got) THEN got[i] ELSE w[i - Len(got)]
    <3>1. got \in Seq(Nat \union {Other}) /\ w \in Seq(Nat \union {Other})
      BY <1>5, <1>9
    <3> QED
      BY <3>1, ConcatProperties, Zenon
  <2> QED
    BY <1>8, <2>1, Zenon
<1>11. ASSUME NEW i \in 1 .. Len(got') PROVE got'[i] = ByteAt((a + i - 1) % Space)
  <2>1. CASE i <= Len(got)
    BY <1>5, <1>10, <2>1 DEF Loading
  <2>2. CASE i > Len(got)
    <3>1. i - Len(got) \in 1 .. Len(w) /\ Len(got) + (i - Len(got)) = i
      BY <1>5, <1>9, <1>10, <2>2
    <3> QED
      BY <1>9, <1>10, <2>2, <3>1
  <2> QED
    BY <1>5, <2>1, <2>2
<1>12. \E o : Offsets(todo', a, Len(got'), size, o)
  <2> DEFINE o == [i \in 1 .. Len(todo') + 1 |-> off[i + 1]]
  <2>1. ASSUME NEW i \in 1 .. Len(todo') + 1 PROVE off[i + 1] \in Nat
    BY <1>1, <1>2 DEF Offsets
  <2>2. o \in [1 .. Len(todo') + 1 -> Nat] /\ \A i \in 1 .. Len(todo') + 1 : o[i] = off[i + 1]
    BY <2>1
  <2> HIDE DEF o
  <2>3. o[1] = Len(got') /\ o[Len(todo') + 1] = size
    BY <1>1, <1>2, <1>3, <1>9, <1>10, <2>2 DEF Offsets
  <2>4. ASSUME NEW i \in 1 .. Len(todo')
        PROVE  /\ todo'[i].op = "read" /\ todo'[i].addr = (a + o[i]) % Space
               /\ o[i + 1] = o[i] + Len(todo'[i].data)
    <3>1. i + 1 \in 1 .. Len(todo) /\ i \in 1 .. Len(todo') + 1 /\ i + 1 \in 1 .. Len(todo') + 1
      BY <1>1
    <3> QED
      BY <1>1, <1>2, <2>2, <3>1 DEF Offsets
  <2>5. Offsets(todo', a, Len(got'), size, o)
    BY <2>2, <2>3, <2>4 DEF Offsets
  <2> QED
    BY <2>5
<1>13. before'.ram = RamOf(mem')
  BY <1>1, <1>5 DEF Loading
<1> QED
  BY <1>6, <1>11, <1>12, <1>13 DEF Loading, Offsets, ByteAt, RamOf

\* The values a store may store.
StoredValues == {ValueOf(n, size) : n \in 1 .. MaxAccesses, size \in Sizes}
\* The access under way is a store of one of them or a load.
AccessFollows ==
  todo # <<>> => \E a \in Addresses : \/ \E v \in StoredValues : Storing(a, v)
                                      \/ \E size \in Sizes : Loading(a, size)

LEMMA StoredBytes ==
  ASSUME BusAssumption, NEW v \in StoredValues
  PROVE  v \in Bytes /\ Len(v) \in {1, 2, 4, 8, 16}
<1>1. PICK n \in 1 .. MaxAccesses, size \in Sizes : v = ValueOf(n, size)
  BY DEF StoredValues
<1>2. n \in Nat /\ size \in {1, 2, 4, 8, 16}
  BY <1>1 DEF BusAssumption
<1>3. size \in Nat
  BY <1>2
<1> QED
  BY <1>1, <1>2, <1>3, ValueBytes

LEMMA StoringBegins ==
  ASSUME BusAssumption, BusTypeInv, StoreAccess
  PROVE  \E a \in Addresses : \E v \in StoredValues : Storing(a, v)'
<1>1. PICK a \in Addresses, size \in Sizes :
        /\ Begin(WriteSteps(a, Value(size))) /\ Stores(todo', a, Value(size))
        /\ a \in Nat /\ Value(size) \in Bytes /\ Len(Value(size)) = size /\ size \in {1, 2, 4, 8, 16}
  BY StoreBegins
<1>2. PICK v : v = Value(size)
  OBVIOUS
<1>3. v \in StoredValues
  <2>1. accesses + 1 \in 1 .. MaxAccesses
    <3>1. accesses < MaxAccesses
      BY <1>1 DEF Begin
    <3>2. accesses \in 0 .. MaxAccesses /\ MaxAccesses \in Nat
      BY DEF BusAssumption, BusTypeInv
    <3> QED
      BY <3>1, <3>2
  <2> QED
    BY <1>2, <2>1 DEF Value, StoredValues
<1>4. mem' = mem /\ got' = got /\ before' = [ram |-> RamOf(mem), got |-> got]
  BY <1>1 DEF StoreAccess, Begin
<1>5. \A c \in Ram : c \in 0 .. Space - 1 /\ before'.ram[c] = mem'[c]
  BY <1>4 DEF RamOf, BusAssumption
<1>6. /\ \A i \in 1 .. Len(todo') : todo'[i].op # "read"
      /\ \A c \in Ram, b \in Nat : Puts(todo', c, b) <=> IsByteOf(c, b, a, v)
  BY <1>1, <1>2, <1>5 DEF Stores
<1>7. Storing(a, v)'
  BY <1>4, <1>5, <1>6 DEF Storing, Puts, IsByteOf, SelectedBy, LaneBy, WordAt
<1> QED
  BY <1>3, <1>7

LEMMA LoadingBegins ==
  ASSUME BusAssumption, LoadAccess
  PROVE  \E a \in Addresses : \E size \in Sizes : Loading(a, size)'
<1>1. PICK a \in Addresses, size \in Sizes : Begin(ReadSteps(a, size)) /\ Reads(todo', a, 0, size)
  BY LoadBegins
<1>2. mem' = mem /\ got' = <<>> /\ before'.ram = RamOf(mem)
  BY <1>1 DEF LoadAccess, Begin
<1>3. PICK off : Offsets(todo', a, 0, size, off)
  BY <1>1 DEF Reads
<1>4. Len(got') = 0 /\ \A i \in 1 .. Len(got') : FALSE
  BY <1>2
<1>5. Loading(a, size)'
  BY <1>2, <1>3, <1>4 DEF Loading, Offsets, RamOf
<1> QED
  BY <1>5

LEMMA AccessStep ==
  ASSUME BusAssumption, BusTypeInv, AccessFollows, [BusNext]_busVars
  PROVE  AccessFollows'
<1>1. CASE StoreAccess
  BY <1>1, StoringBegins DEF AccessFollows, StoredValues
<1>2. CASE LoadAccess
  BY <1>2, LoadingBegins DEF AccessFollows
<1>3. CASE NextStep
  <2>1. todo # <<>>
    BY <1>3, NextStepTodo
  <2>2. PICK a \in Addresses : (\E v \in StoredValues : Storing(a, v)) \/ (\E size \in Sizes : Loading(a, size))
    BY <2>1 DEF AccessFollows
  <2>3. a \in Nat
    BY DEF BusAssumption
  <2>4. CASE \E v \in StoredValues : Storing(a, v)
    <3>1. \E v \in StoredValues : Storing(a, v)'
      BY <1>3, <2>3, <2>4, StoredBytes, StoringStep
    <3> QED
      BY <3>1 DEF AccessFollows, StoredValues
  <2>5. CASE \E size \in Sizes : Loading(a, size)
    <3>1. \E size \in Sizes : Loading(a, size)'
      BY <1>3, <2>3, <2>5, LoadingStep
    <3> QED
      BY <3>1 DEF AccessFollows
  <2> QED
    BY <2>2, <2>4, <2>5
<1>4. CASE Replay \/ LoadPage \/ BlitDone \/ UNCHANGED busVars
  <2>1. UNCHANGED <<todo, mem, got, before>>
    BY <1>4 DEF Replay, LoadPage, BlitDone, busVars
  <2>2. ASSUME NEW a, NEW v PROVE Storing(a, v)' <=> Storing(a, v)
    BY <2>1 DEF Storing, Puts, IsByteOf, SelectedBy, LaneBy, WordAt
  <2>3. ASSUME NEW a, NEW size PROVE Loading(a, size)' <=> Loading(a, size)
    BY <2>1 DEF Loading, Offsets, ByteAt, RamOf
  <2> QED
    BY <2>1, <2>2, <2>3 DEF AccessFollows, StoredValues
<1> QED
  BY <1>1, <1>2, <1>3, <1>4 DEF BusNext

-----------------------------------------------------------------------------
(* A memory of bytes. *)

ByteRam == IF todo = <<>> THEN RamOf(mem) ELSE before.ram
ByteResult == IF todo = <<>> THEN got ELSE before.got

\* The last cycle of a store completes it.
LEMMA StoringEnds ==
  ASSUME BusAssumption, BusTypeInv, BusTypeInv', NEW a \in Nat, NEW v \in Bytes, Len(v) \in {1, 2, 4, 8, 16},
         Storing(a, v)', todo' = <<>>
  PROVE  /\ RamOf(mem') = [c \in Ram |-> IF \E i \in DOMAIN v : (a + i - 1) % Space = c
                                         THEN v[CHOOSE i \in DOMAIN v : (a + i - 1) % Space = c]
                                         ELSE before'.ram[c]]
         /\ got' = before'.got
<1>1. DOMAIN v = 1 .. Len(v)
  BY DEF Bytes
<1>2. Len(todo') = 0 /\ \A i \in 1 .. Len(todo') : FALSE
  OBVIOUS
<1>3. ASSUME NEW c \in Ram
      PROVE  mem'[c] = IF \E i \in DOMAIN v : (a + i - 1) % Space = c
                       THEN v[CHOOSE i \in DOMAIN v : (a + i - 1) % Space = c]
                       ELSE before'.ram[c]
  <2>1. CASE \E i \in DOMAIN v : (a + i - 1) % Space = c
    <3> DEFINE j == CHOOSE i \in DOMAIN v : (a + i - 1) % Space = c
    <3>1. j \in DOMAIN v /\ (a + j - 1) % Space = c
      BY <2>1
    <3> HIDE DEF j
    <3>2. IsByteOf(c, v[j], a, v) /\ v[j] \in Nat
      BY <1>1, <3>1 DEF IsByteOf, Bytes
    <3>3. ~Puts(todo', c, v[j])
      BY <1>2 DEF Puts
    <3>4. mem'[c] = v[j]
      BY <3>2, <3>3 DEF Storing, Puts, IsByteOf, SelectedBy, LaneBy, WordAt
    <3> QED
      BY <2>1, <3>4 DEF j
  <2>2. CASE ~\E i \in DOMAIN v : (a + i - 1) % Space = c
    <3>1. ~IsByteOf(c, mem'[c], a, v)
      BY <1>1, <2>2 DEF IsByteOf
    <3>2. mem'[c] = before'.ram[c]
      BY <3>1 DEF Storing, IsByteOf
    <3> QED
      BY <2>2, <3>2
  <2> QED
    BY <2>1, <2>2
<1>4. got' = before'.got
  BY DEF Storing
<1> QED
  BY <1>3, <1>4 DEF RamOf

LEMMA LoadingEnds ==
  ASSUME BusTypeInv', NEW a \in Nat, NEW size, Loading(a, size)', todo' = <<>>
  PROVE  /\ got' = [i \in 1 .. size |-> IF (a + i - 1) % Space \in Ram
                                        THEN before'.ram[(a + i - 1) % Space] ELSE Other]
         /\ RamOf(mem') = before'.ram
<1>1. PICK off : Offsets(todo', a, Len(got'), size, off)
  BY DEF Loading, Offsets
<1>2. Len(got') = size
  BY <1>1 DEF Offsets
<1>3. got' \in Seq(Nat \union {Other}) /\ before'.ram = RamOf(mem')
  BY DEF BusTypeInv, Loading, RamOf
<1>4. got' = [i \in 1 .. size |-> got'[i]]
  BY <1>2, <1>3
<1>5. ASSUME NEW i \in 1 .. size
      PROVE  got'[i] = IF (a + i - 1) % Space \in Ram THEN before'.ram[(a + i - 1) % Space] ELSE Other
  <2>1. got'[i] = ByteAt((a + i - 1) % Space)'
    BY <1>2 DEF Loading, ByteAt
  <2> QED
    BY <1>3, <2>1 DEF ByteAt, RamOf
<1> QED
  BY <1>3, <1>4, <1>5
BusInv == CopyInv /\ BlitFollows /\ AccessFollows

LEMMA BusInvInit ==
  ASSUME BusAssumption, BusInit
  PROVE  BusInv
<1>1. AccessFollows
  BY DEF AccessFollows, BusInit
<1> QED
  BY <1>1, CopyInit, BlitInit DEF BusInv

LEMMA BusInvStep ==
  ASSUME BusAssumption, BusInv, [BusNext]_busVars
  PROVE  BusInv'
BY CopyStep, BlitStep, AccessStep DEF BusInv, CopyInv

LEMMA AbstractInit ==
  ASSUME BusAssumption, BusInit
  PROVE  Abstract!Init
<1>1. todo = <<>> /\ got = <<>> /\ Ram \subseteq Nat
  BY DEF BusInit, BusAssumption
<1>2. RamOf(mem) \in [Ram -> Nat]
  BY <1>1 DEF BusInit, RamOf, BusAssumption
<1> QED
  BY <1>1, <1>2 DEF Abstract!Init

\* What the bus does to the memory of bytes.
LEMMA AbstractStep ==
  ASSUME BusAssumption, BusInv, [BusNext]_busVars
  PROVE  [Abstract!Next]_Abstract!bytes
<1>1. BusInv' /\ BusTypeInv /\ BusTypeInv'
  BY BusInvStep DEF BusInv, CopyInv
<1>2. CASE ByteRam' = ByteRam /\ ByteResult' = ByteResult
  BY <1>2 DEF Abstract!bytes, ByteRam, ByteResult
<1>3. CASE StoreAccess \/ LoadAccess
  <2>1. todo = <<>> /\ todo' # <<>>
    BY <1>1, <1>3, AccessBegins
  <2>2. before' = [ram |-> RamOf(mem), got |-> got]
    BY <1>3 DEF StoreAccess, LoadAccess, Begin
  <2>3. ByteRam' = ByteRam /\ ByteResult' = ByteResult
    BY <2>1, <2>2 DEF ByteRam, ByteResult
  <2> QED
    BY <1>2, <2>3
<1>4. CASE NextStep /\ todo' # <<>>
  <2>1. todo # <<>> /\ before' = before
    BY <1>1, <1>4, NextStepTodo
  <2> QED
    BY <1>2, <1>4, <2>1 DEF ByteRam, ByteResult
<1>5. CASE NextStep /\ todo' = <<>>
  <2>1. todo # <<>> /\ before' = before
    BY <1>1, <1>5, NextStepTodo
  <2>2. /\ ByteRam = before.ram /\ ByteRam' = RamOf(mem')
        /\ ByteResult = before.got /\ ByteResult' = got'
    BY <1>5, <2>1 DEF ByteRam, ByteResult, RamOf
  <2>3. PICK a \in Addresses : (\E v \in StoredValues : Storing(a, v)) \/ (\E size \in Sizes : Loading(a, size))
    BY <1>1, <2>1 DEF AccessFollows, BusInv
  <2>4. a \in Nat
    BY DEF BusAssumption
  <2>5. ASSUME NEW v \in StoredValues, Storing(a, v)
        PROVE  Abstract!Store(a, v)
    <3>1. v \in Bytes /\ Len(v) \in {1, 2, 4, 8, 16}
      BY StoredBytes
    <3>2. Storing(a, v)'
      BY <1>1, <1>5, <2>4, <2>5, <3>1, StoringStep
    <3>3. /\ RamOf(mem') = [c \in Ram |-> IF \E i \in DOMAIN v : (a + i - 1) % Space = c
                                          THEN v[CHOOSE i \in DOMAIN v : (a + i - 1) % Space = c]
                                          ELSE before'.ram[c]]
          /\ got' = before'.got
      BY <1>1, <1>5, <2>4, <3>1, <3>2, StoringEnds
    <3> QED
      BY <2>1, <2>2, <3>3 DEF Abstract!Store, Abstract!Address, ByteRam, ByteResult
  <2>6. ASSUME NEW size \in Sizes, Loading(a, size)
        PROVE  Abstract!Load(a, size)
    <3>1. Loading(a, size)'
      BY <1>1, <1>5, <2>4, <2>6, LoadingStep
    <3>2. /\ got' = [i \in 1 .. size |-> IF (a + i - 1) % Space \in Ram
                                         THEN before'.ram[(a + i - 1) % Space] ELSE Other]
          /\ RamOf(mem') = before'.ram
      BY <1>1, <1>5, <2>4, <3>1, LoadingEnds
    <3> QED
      BY <2>1, <2>2, <3>2 DEF Abstract!Load, Abstract!Address, ByteRam, ByteResult
  <2>7. CASE ~(ByteRam' = ByteRam /\ ByteResult' = ByteResult)
    BY <2>3, <2>5, <2>6, <2>7 DEF Abstract!Next, Abstract!bytes, ByteRam, ByteResult, StoredValues
  <2> QED
    BY <1>2, <2>7
<1>6. CASE Replay \/ LoadPage \/ BlitDone \/ UNCHANGED busVars
  <2>1. UNCHANGED <<todo, mem, got, before>>
    BY <1>6 DEF Replay, LoadPage, BlitDone, busVars
  <2> QED
    BY <1>2, <2>1 DEF ByteRam, ByteResult, RamOf
<1> QED
  BY <1>3, <1>4, <1>5, <1>6 DEF BusNext
-----------------------------------------------------------------------------
LEMMA BusTypes ==
  ASSUME BusTypeInv
  PROVE  BusTypeOK
<1>1. /\ accesses \in 0 .. MaxAccesses
      /\ DOMAIN mem = Ram \union Audio /\ DOMAIN latest = Audio /\ DOMAIN soft = Audio
  BY DEF BusTypeInv
<1>2. ASSUME NEW i \in DOMAIN todo
      PROVE  /\ todo[i].op \in {"check", "write", "capture", "invalidate", "read"}
             /\ todo[i].addr \in 0 .. Space - 1
             /\ todo[i].op # "check" => Len(todo[i].data) \in {1, 2}
             /\ Len(todo[i].data) = 2 /\ todo[i].op # "check" => todo[i].addr % 2 = 0
  <2>1. todo[i] \in StepType
    BY DEF BusTypeInv, Chain
  <2> QED
    BY <2>1 DEF StepType
<1> QED
  BY <1>1, <1>2 DEF BusTypeOK

(* Every cycle of an access is in the address space, and a word cycle is at an *)
(* even address, however ps_classic_protocol.c has cut the access.             *)
THEOREM BusTypeCorrect ==
  ASSUME BusAssumption
  PROVE  BusSpec => []BusTypeOK
<1>1. BusInit => BusTypeInv
  BY TypeInit
<1>2. BusTypeInv /\ [BusNext]_busVars => BusTypeInv'
  BY TypeStep
<1>3. BusTypeInv => BusTypeOK
  BY BusTypes
<1> QED
  BY <1>1, <1>2, <1>3, PTL DEF BusSpec

(* However an access is cut, by whatever size and alignment, the event mirror  *)
(* has the registers of the Amiga's Paula when it ends, and the software Paula *)
(* when the events are replayed; and no store to Chip RAM escapes              *)
(* paula_mirror_invalidate.                                                    *)
THEOREM CopiesAlwaysFollowTheBus ==
  ASSUME BusAssumption
  PROVE  BusSpec => []CopiesFollowTheBus
<1>1. BusInit => CopyInv
  BY CopyInit
<1>2. CopyInv /\ [BusNext]_busVars => CopyInv'
  BY CopyStep
<1>3. CopyInv => CopiesFollowTheBus
  BY CopiesFollow
<1> QED
  BY <1>1, <1>2, <1>3, PTL DEF BusSpec

(* The bus is a memory of bytes: an access of up to sixteen bytes, odd or      *)
(* wrapping round the address space, stores or returns its bytes as one; and a *)
(* word cycle never writes a blitter register during a blit its own ps_write   *)
(* call did not start.                                                         *)
THEOREM AccessesAlwaysWhole ==
  ASSUME BusAssumption
  PROVE  BusSpec => AccessesAreWhole
<1>1. BusInit => BusInv /\ Abstract!Init
  BY BusInvInit, AbstractInit
<1>2. BusInv /\ [BusNext]_busVars => BusInv'
  BY BusInvStep
<1>3. BusInv /\ [BusNext]_busVars => [Abstract!Next]_Abstract!bytes
  BY AbstractStep
<1>4. BusInv /\ [BusNext]_busVars =>
        [\A c \in Blitter :
           (BlitWait /\ todo # <<>> /\ todo' = Tail(todo) /\ Now.op = "write"
              /\ c \in WordAt(Now.addr) /\ blit # 0 /\ Len(Now.data) = 2) => blit = call]_busVars
  BY BlitIsFree DEF BusInv, CopyInv
<1> QED
  BY <1>1, <1>2, <1>3, <1>4, PTL
  DEF BusSpec, AccessesAreWhole, StoresBytes, BlitIsWaitedFor, Abstract!Spec
=============================================================================
